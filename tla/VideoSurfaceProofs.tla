------------------------- MODULE VideoSurfaceProofs -------------------------
(***************************************************************************)
(* Proofs about the surfaces of the video page, for every set of outs, of  *)
(* overlapping calls of bindAndPlay and every number of windows.           *)
(***************************************************************************)
EXTENDS VideoSurface, TLAPS

(* A window has a generation, and windows are numbered as they are made.   *)
SurfacesNumbered ==
    \A o \in Outs : window[o] # 0 => generation[o] # 0

(* An entry draws only while it is registered and knows its out, and never *)
(* misses a window it could draw on.                                       *)
EntryFollows ==
    \A o \in Outs :
        /\ outId[o] => registered
        /\ native[o] # 0 => outId[o] /\ o \in Supported /\ native[o] = window[o]
        /\ outId[o] /\ Drawable(o) => bound[o] /\ native[o] = window[o]

(* The generation of the binding is the present one, so the next change is *)
(* seen as one.                                                            *)
BindingIsPresent ==
    native[Video] # 0 => boundGen[Video] = generation[Video]

(* An out that is wanted is known to the player, or is about to be.        *)
WishIsKnown ==
    registered =>
        /\ wanted[Video] => outId[Video]
        /\ (\A b \in Binds : tries[b] = 0) =>
               \A o \in Outs : wanted[o] => outId[o]

IInv ==
    /\ TypeOK /\ SurfacesNumbered /\ EntryFollows
    /\ BindingIsPresent /\ WishIsKnown /\ GeometryFollows

LEMMA InitIInv == Init => IInv
<1> SUFFICES ASSUME Init PROVE IInv
  OBVIOUS
<1> USE SurfaceAssumption DEF Init, All
<1>1. TypeOK
  <2>1. /\ window \in [Outs -> Nat] /\ made \in Nat /\ generation \in [Outs -> Nat]
        /\ boundGen \in [Outs -> Nat] /\ native \in [Outs -> Nat] /\ drawn \in Nat
    OBVIOUS
  <2>2. /\ wanted \in [Outs -> BOOLEAN] /\ registered \in BOOLEAN
        /\ outId \in [Outs -> BOOLEAN] /\ bound \in [Outs -> BOOLEAN]
    OBVIOUS
  <2>3. tries \in [Binds -> 0 .. MaxTries]
    OBVIOUS
  <2> QED BY <2>1, <2>2, <2>3 DEF TypeOK
<1>2. SurfacesNumbered /\ EntryFollows
  BY DEF SurfacesNumbered, EntryFollows, Drawable
<1>3. BindingIsPresent /\ WishIsKnown /\ GeometryFollows
  BY DEF BindingIsPresent, WishIsKnown, GeometryFollows
<1> QED BY <1>1, <1>2, <1>3 DEF IInv

(* Attaching to any outs keeps the entry true to the surfaces.             *)
LEMMA AttachKeeps ==
    ASSUME IInv, NEW asked \in SUBSET Outs, Attach(asked), registered',
           UNCHANGED surfaceVars
    PROVE  /\ outId' \in [Outs -> BOOLEAN] /\ bound' \in [Outs -> BOOLEAN]
           /\ boundGen' \in [Outs -> Nat] /\ native' \in [Outs -> Nat]
           /\ drawn' \in Nat
           /\ EntryFollows' /\ BindingIsPresent' /\ GeometryFollows'
           /\ \A o \in Outs : outId'[o] <=> outId[o] \/ o \in asked
<1>1. /\ outId' \in [Outs -> BOOLEAN] /\ bound' \in [Outs -> BOOLEAN]
      /\ boundGen' \in [Outs -> Nat] /\ native' \in [Outs -> Nat] /\ drawn' \in Nat
  BY SurfaceAssumption
     DEF Attach, IInv, TypeOK, GenerationBound, Drawable, DrawnAfter, surfaceVars
<1>2. \A o \in Outs : outId'[o] <=> outId[o] \/ o \in asked
  BY DEF Attach
<1>3. EntryFollows'
  BY SurfaceAssumption, <1>2
     DEF Attach, IInv, TypeOK, EntryFollows, GenerationBound, Drawable, surfaceVars
<1>4. BindingIsPresent'
  BY SurfaceAssumption
     DEF Attach, IInv, TypeOK, EntryFollows, BindingIsPresent, GenerationBound,
         Drawable, surfaceVars
<1>5. GeometryFollows'
  BY SurfaceAssumption
     DEF Attach, IInv, TypeOK, EntryFollows, GeometryFollows, DrawnAfter, Drawable,
         surfaceVars
<1> QED BY <1>1, <1>2, <1>3, <1>4, <1>5

LEMMA BlankKeeps ==
    ASSUME IInv, Blank, UNCHANGED surfaceVars
    PROVE  /\ outId' \in [Outs -> BOOLEAN] /\ bound' \in [Outs -> BOOLEAN]
           /\ boundGen' \in [Outs -> Nat] /\ native' \in [Outs -> Nat]
           /\ drawn' \in Nat
           /\ EntryFollows' /\ BindingIsPresent' /\ GeometryFollows'
           /\ \A o \in Outs : ~outId'[o]
BY SurfaceAssumption
   DEF Blank, All, EntryFollows, BindingIsPresent, GeometryFollows, Drawable

(* Nothing is left for play to bind: every step before has bound it.       *)
LEMMA PlayIInv == ASSUME IInv, Play PROVE IInv'
<1>1. \A o \in Outs : ~(outId[o] /\ ~bound[o] /\ Drawable(o))
  BY DEF IInv, EntryFollows
<1>2. UNCHANGED <<surfaceVars, wanted, registered, entryVars, tries>>
  BY <1>1, SurfaceAssumption DEF Play, IInv, TypeOK, entryVars
<1> QED
  BY <1>2 DEF IInv, TypeOK, SurfacesNumbered, EntryFollows, BindingIsPresent,
              WishIsKnown, GeometryFollows, Drawable, surfaceVars, entryVars

LEMMA StopIInv == ASSUME IInv, Stop PROVE IInv'
<1>1. UNCHANGED surfaceVars /\ Blank
  BY DEF Stop
<1>2. TypeOK' /\ SurfacesNumbered' /\ WishIsKnown'
  BY <1>1, BlankKeeps
     DEF Stop, IInv, TypeOK, SurfacesNumbered, WishIsKnown, surfaceVars
<1> QED BY <1>1, <1>2, BlankKeeps DEF IInv

LEMMA DetachViewsIInv == ASSUME IInv, DetachViews PROVE IInv'
<1>1. UNCHANGED surfaceVars /\ Blank
  BY DEF DetachViews
<1>2. TypeOK' /\ SurfacesNumbered' /\ WishIsKnown'
  BY <1>1, BlankKeeps, SurfaceAssumption
     DEF DetachViews, All, IInv, TypeOK, SurfacesNumbered, WishIsKnown, surfaceVars
<1> QED BY <1>1, <1>2, BlankKeeps DEF IInv

LEMMA LoadIInv == ASSUME IInv, Load PROVE IInv'
<1>1. /\ OutsOfNewPlayer \in SUBSET Outs /\ Attach(OutsOfNewPlayer)
      /\ registered' /\ UNCHANGED surfaceVars
  BY DEF Load, OutsOfNewPlayer
<1>2. TypeOK' /\ SurfacesNumbered'
  BY <1>1, AttachKeeps DEF Load, IInv, TypeOK, SurfacesNumbered, surfaceVars
<1>3. WishIsKnown'
  BY <1>1, AttachKeeps, SurfaceAssumption DEF Load, OutsOfNewPlayer, WishIsKnown
<1> QED BY <1>1, <1>2, <1>3, AttachKeeps DEF IInv

LEMMA BindAndPlayIInv ==
    ASSUME IInv, NEW b \in Binds, BindAndPlay(b)
    PROVE  IInv'
<1> DEFINE asked == IF ~registered \/ Drawable(Video) THEN Outs ELSE {Video}
<1>1. /\ asked \in SUBSET Outs /\ Attach(asked) /\ Video \in asked
      /\ registered' /\ UNCHANGED surfaceVars
  BY SurfaceAssumption DEF BindAndPlay
<1>2. /\ Waits \in 0 .. MaxTries
      /\ asked # Outs => Waits # 0
  BY SurfaceAssumption DEF Waits
<1>3. tries' = [tries EXCEPT ![b] = Waits] /\ wanted' = All(TRUE)
  BY DEF BindAndPlay
<1> HIDE DEF asked
<1>4. TypeOK' /\ SurfacesNumbered'
  BY <1>1, <1>2, <1>3, AttachKeeps
     DEF IInv, TypeOK, SurfacesNumbered, surfaceVars, All
<1>5. WishIsKnown'
  BY <1>1, <1>2, <1>3, AttachKeeps, SurfaceAssumption DEF IInv, TypeOK, WishIsKnown
<1> QED BY <1>1, <1>4, <1>5, AttachKeeps DEF IInv

LEMMA RetryIInv ==
    ASSUME IInv, NEW b \in Binds, Retry(b)
    PROVE  IInv'
<1>1. UNCHANGED <<window, made, generation>> /\ UNCHANGED <<wanted, registered>>
  BY DEF Retry, surfaceVars
<1>2. tries' \in [Binds -> 0 .. MaxTries]
  BY SurfaceAssumption DEF Retry, IInv, TypeOK
<1>3. CASE registered
  <2>1. /\ OutsOfRetry(b) \in SUBSET Outs /\ Attach(OutsOfRetry(b))
        /\ registered' /\ UNCHANGED surfaceVars
    BY <1>1, <1>3, SurfaceAssumption DEF Retry, OutsOfRetry, surfaceVars
  <2>2. TypeOK' /\ SurfacesNumbered'
    BY <1>1, <1>2, <2>1, AttachKeeps DEF IInv, TypeOK, SurfacesNumbered
  <2>3. wanted'[Video] => outId'[Video]
    BY <1>1, <1>3, <2>1, AttachKeeps, SurfaceAssumption DEF IInv, WishIsKnown
  <2>4. ASSUME \A c \in Binds : tries'[c] = 0
        PROVE  Outs \ {Video} \subseteq OutsOfRetry(b)
    BY <1>3, <2>4, SurfaceAssumption DEF Retry, OutsOfRetry, IInv, TypeOK
  <2>5. WishIsKnown'
    BY <2>1, <2>3, <2>4, AttachKeeps DEF WishIsKnown
  <2> QED BY <2>1, <2>2, <2>5, AttachKeeps DEF IInv
<1>4. CASE ~registered
  BY <1>1, <1>2, <1>4
     DEF Retry, IInv, TypeOK, SurfacesNumbered, EntryFollows, BindingIsPresent,
         WishIsKnown, GeometryFollows, Drawable, entryVars
<1> QED BY <1>3, <1>4

(* A surface gets window w, new or the same, in its next generation.       *)
LEMMA AddWindowIInv ==
    ASSUME IInv, NEW o \in Outs, NEW w \in Nat \ {0}, NEW sizeKnown \in BOOLEAN,
           AddWindow(o, w, sizeKnown), made' \in Nat
    PROVE  IInv'
<1> DEFINE g == generation[o] + 1
<1>1. /\ g \in Nat \ {0} /\ g # generation[o]
      /\ window' = [window EXCEPT ![o] = w]
      /\ generation' = [generation EXCEPT ![o] = g]
      /\ SurfaceReady(o, w, g, sizeKnown)
      /\ UNCHANGED <<wanted, registered, tries>>
  BY DEF AddWindow, IInv, TypeOK
<1> HIDE DEF g
<1>2. CASE registered /\ outId[o] /\ o \in Supported
  <2>1. /\ bound' = [bound EXCEPT ![o] = TRUE]
        /\ boundGen' = [boundGen EXCEPT ![o] = g]
        /\ native' = [native EXCEPT ![o] = w]
        /\ UNCHANGED outId
    BY <1>1, <1>2 DEF SurfaceReady
  <2>2. drawn' = IF o = Video /\ native[o] = w /\ boundGen[o] # 0 /\ boundGen[o] # g
                 THEN IF sizeKnown THEN g ELSE 0
                 ELSE DrawnAfter(o, w, g)
    BY <1>1, <1>2 DEF SurfaceReady
  <2>3. TypeOK'
    BY <1>1, <2>1, <2>2 DEF DrawnAfter, IInv, TypeOK
  <2>4. SurfacesNumbered' /\ EntryFollows'
    BY <1>1, <1>2, <2>1
       DEF IInv, TypeOK, SurfacesNumbered, EntryFollows, Drawable
  <2>5. BindingIsPresent' /\ WishIsKnown'
    BY <1>1, <2>1, SurfaceAssumption DEF IInv, TypeOK, BindingIsPresent, WishIsKnown
  <2>6. CASE o = Video
    <3>1. native[Video] = w => boundGen[Video] # 0 /\ boundGen[Video] # g
      BY <1>1, <2>6
         DEF IInv, TypeOK, SurfacesNumbered, EntryFollows, BindingIsPresent
    <3>2. drawn' \in {g, 0}
      BY <2>2, <2>6, <3>1 DEF DrawnAfter
    <3> QED BY <1>1, <2>6, <3>2, <2>3, <2>4, <2>5 DEF IInv, TypeOK, GeometryFollows
  <2>7. CASE o # Video
    <3>1. UNCHANGED drawn
      BY <2>2, <2>7 DEF DrawnAfter
    <3> QED
      BY <1>1, <2>1, <2>7, <3>1, <2>3, <2>4, <2>5, SurfaceAssumption
         DEF IInv, TypeOK, GeometryFollows
  <2> QED BY <2>6, <2>7
<1>3. CASE ~(registered /\ outId[o] /\ o \in Supported)
  <2>1. UNCHANGED entryVars
    BY <1>1, <1>3 DEF SurfaceReady
  <2>2. TypeOK'
    BY <1>1, <2>1 DEF IInv, TypeOK, entryVars
  <2>3. SurfacesNumbered' /\ WishIsKnown'
    BY <1>1, <2>1 DEF IInv, TypeOK, SurfacesNumbered, WishIsKnown, entryVars
  <2>4. native[o] = 0
    BY <1>3 DEF IInv, TypeOK, EntryFollows
  <2>5. EntryFollows'
    BY <1>1, <1>3, <2>1, <2>4 DEF IInv, TypeOK, EntryFollows, Drawable, entryVars
  <2>6. BindingIsPresent' /\ GeometryFollows'
    BY <1>1, <2>1, <2>4, SurfaceAssumption
       DEF IInv, TypeOK, BindingIsPresent, GeometryFollows, entryVars
  <2> QED BY <2>2, <2>3, <2>5, <2>6 DEF IInv
<1> QED BY <1>2, <1>3

LEMMA SurfaceCreatedIInv ==
    ASSUME IInv, NEW o \in Outs, SurfaceCreated(o)
    PROVE  IInv'
<1>1. made' \in Nat \ {0}
  BY DEF SurfaceCreated, IInv, TypeOK
<1>2. PICK sizeKnown \in BOOLEAN : AddWindow(o, made', sizeKnown)
  BY DEF SurfaceCreated
<1> QED BY <1>1, <1>2, AddWindowIInv

LEMMA SurfaceChangedIInv ==
    ASSUME IInv, NEW o \in Outs, SurfaceChanged(o)
    PROVE  IInv'
<1>1. PICK sizeKnown \in BOOLEAN :
          \/ window[o] # 0 /\ AddWindow(o, window[o], sizeKnown) /\ UNCHANGED made
          \/ made' = made + 1 /\ AddWindow(o, made', sizeKnown)
  BY DEF SurfaceChanged
<1>2. window[o] \in Nat /\ made \in Nat
  BY DEF IInv, TypeOK
<1>3. CASE window[o] # 0 /\ AddWindow(o, window[o], sizeKnown) /\ UNCHANGED made
  BY <1>2, <1>3, AddWindowIInv
<1>4. CASE made' = made + 1 /\ AddWindow(o, made', sizeKnown)
  <2>1. made' \in Nat \ {0}
    BY <1>2, <1>4
  <2> QED BY <1>4, <2>1, AddWindowIInv
<1> QED BY <1>1, <1>3, <1>4

LEMMA SurfaceDestroyedIInv ==
    ASSUME IInv, NEW o \in Outs, SurfaceDestroyed(o)
    PROVE  IInv'
<1>1. native'[o] = 0 /\ window'[o] = 0
  BY DEF SurfaceDestroyed, Detaches, IInv, TypeOK, EntryFollows
<1>2. /\ \A p \in Outs \ {o} : native'[p] = native[p] /\ window'[p] = window[p]
                               /\ bound'[p] = bound[p]
      /\ UNCHANGED <<made, generation, wanted, registered, outId, boundGen, drawn, tries>>
  BY DEF SurfaceDestroyed, IInv, TypeOK
<1>3. TypeOK'
  <2>1. window' \in [Outs -> Nat]
    BY DEF SurfaceDestroyed, IInv, TypeOK
  <2>2. CASE Detaches(o)
    <3>1. bound' = [bound EXCEPT ![o] = FALSE] /\ native' = [native EXCEPT ![o] = 0]
      BY <2>2 DEF SurfaceDestroyed
    <3>2. bound' \in [Outs -> BOOLEAN] /\ native' \in [Outs -> Nat]
      BY <3>1 DEF IInv, TypeOK
    <3> QED BY <1>2, <2>1, <3>2 DEF IInv, TypeOK
  <2>3. CASE ~Detaches(o)
    BY <1>2, <2>1, <2>3 DEF SurfaceDestroyed, IInv, TypeOK
  <2> QED BY <2>2, <2>3
<1>4. SurfacesNumbered' /\ EntryFollows'
  BY <1>1, <1>2 DEF IInv, SurfacesNumbered, EntryFollows, Drawable
<1>5. BindingIsPresent' /\ WishIsKnown' /\ GeometryFollows'
  BY <1>1, <1>2, SurfaceAssumption
     DEF IInv, BindingIsPresent, WishIsKnown, GeometryFollows
<1> QED BY <1>3, <1>4, <1>5 DEF IInv

LEMMA StutterIInv == ASSUME IInv, UNCHANGED vars PROVE IInv'
BY DEF vars, surfaceVars, entryVars, IInv, TypeOK, SurfacesNumbered, EntryFollows,
       BindingIsPresent, WishIsKnown, GeometryFollows, Drawable

THEOREM Inductive == Spec => []IInv
<1>1. IInv /\ [Next]_vars => IInv'
  BY PlayIInv, StopIInv, DetachViewsIInv, LoadIInv, BindAndPlayIInv, RetryIInv,
     SurfaceCreatedIInv, SurfaceChangedIInv, SurfaceDestroyedIInv, StutterIInv
     DEF Next
<1> QED BY InitIInv, <1>1, PTL DEF Spec

(* The type invariant of the surfaces and the player's entry.              *)
THEOREM TypeCorrect == Spec => []TypeOK
<1>1. IInv => TypeOK BY DEF IInv
<1> QED BY Inductive, <1>1, PTL

(* The registered player never draws on a window that is gone              *)
(* (DetachNativeWindowById, OnSurfaceReady).                               *)
THEOREM NeverDrawsOnDeadWindow == Spec => []DrawsOnLiveWindow
<1>1. IInv => DrawsOnLiveWindow BY DEF IInv, EntryFollows, DrawsOnLiveWindow
<1> QED BY Inductive, <1>1, PTL

(* With no attempt to attach under way, a live player shows its picture    *)
(* wherever it is wanted and a surface is there.                           *)
THEOREM WishIsGranted == Spec => []WantedIsShown
<1>1. IInv => WantedIsShown
  BY SurfaceAssumption
     DEF IInv, EntryFollows, WishIsKnown, Drawable, WantedIsShown
<1> QED BY Inductive, <1>1, PTL

(* The picture is drawn in the size of the surface's present generation.   *)
THEOREM RotationIsSeen == Spec => []GeometryFollows
<1>1. IInv => GeometryFollows BY DEF IInv
<1> QED BY Inductive, <1>1, PTL
=============================================================================
