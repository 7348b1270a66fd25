---------------------------- MODULE VideoSurface ----------------------------
(***************************************************************************)
(* What the native player draws on: the surfaces of the two XComponents of *)
(* the video page (xcomponent_manager.cpp), the record of the registered   *)
(* player (PlayerEntry in vlc_napi.cpp) and the ids PlaybackService keeps  *)
(* to attach the next player (videoOutId and osdOutId).                    *)
(*                                                                         *)
(* The XComponent callbacks and the NAPI calls all run on the UI thread,   *)
(* which is the JS thread, so each is one step; bindAndPlay suspends       *)
(* between its attempts to attach.  At most one player is registered: a    *)
(* new one is made only when the last was stopped.  The page uses one      *)
(* fixed id for each out, so an id is only set or not set.                 *)
(***************************************************************************)
EXTENDS Naturals

CONSTANTS Outs,        \* the outs of a player
          Video,       \* the one that has a geometry of its own
          Supported,   \* the outs whose setter libVLC exports
          Binds,       \* calls of bindAndPlay that may overlap
          MaxTries,    \* attempts of one call (30 in the code)
          MaxWindows,  \* bound on the windows the system makes
          MaxChanges   \* bound on the generations of one surface

ASSUME SurfaceAssumption ==
    /\ Video \in Supported /\ Supported \subseteq Outs
    /\ MaxTries \in Nat \ {0} /\ MaxWindows \in Nat /\ MaxChanges \in Nat

VARIABLES
    window,      \* OHNativeWindowMap_: the window of each surface, 0 for none
    made,        \* windows the system has made
    generation,  \* surfaceGenerationMap_
    wanted,      \* videoOutId and osdOutId of PlaybackService are set
    registered,  \* the native player is in g_players
    outId,       \* its videoOutId and osdOutId are set
    bound,       \* its windowBound and osdWindowBound
    boundGen,    \* its boundSurfaceGeneration and boundOsdSurfaceGeneration
    native,      \* the windows libVLC draws on, 0 for none
    drawn,       \* the generation whose size libVLC draws in, 0 if not told
    tries        \* waits each call of bindAndPlay has ahead

surfaceVars == <<window, made, generation>>
entryVars == <<outId, bound, boundGen, native, drawn>>
vars == <<surfaceVars, wanted, registered, entryVars, tries>>

All(value) == [o \in Outs |-> value]

Init ==
    /\ window = All(0) /\ made = 0 /\ generation = All(0)
    /\ wanted = All(FALSE)
    /\ registered = FALSE
    /\ outId = All(FALSE) /\ bound = All(FALSE) /\ boundGen = All(0)
    /\ native = All(0) /\ drawn = 0
    /\ tries = [b \in Binds |-> 0]

-----------------------------------------------------------------------------
(***************************************************************************)
(* The registered player                                                   *)
(***************************************************************************)
Drawable(o) == window[o] # 0 /\ o \in Supported

(* libVLC is given window w for out o: with a new window the output starts *)
(* in the size of the surface's present generation g.                      *)
DrawnAfter(o, w, g) == IF o = Video /\ native[o] # w THEN g ELSE drawn

MutantGenerationBound(o) == 0

GenerationBound(o) == IF Drawable(o) THEN generation[o] ELSE 0

(* MediaPlayerSetVideoOut and MediaPlayerSetOsdVideoOut for the outs asked *)
Attach(asked) ==
    LET now == {o \in asked : Drawable(o)} IN
    /\ outId' = [o \in Outs |-> outId[o] \/ o \in asked]
    /\ bound' = [o \in Outs |-> IF o \in asked THEN Drawable(o) ELSE bound[o]]
    /\ boundGen' = [o \in Outs |-> IF o \in asked THEN GenerationBound(o) ELSE boundGen[o]]
    /\ native' = [o \in Outs |-> IF o \in now THEN window[o] ELSE native[o]]
    /\ drawn' = IF Video \in now THEN DrawnAfter(Video, window[Video], generation[Video])
                ELSE drawn

(* MediaPlayerPlay binds what could not be bound when it was asked for. *)
Play ==
    LET late == {o \in Outs : outId[o] /\ ~bound[o] /\ Drawable(o)} IN
    /\ registered
    /\ bound' = [o \in Outs |-> bound[o] \/ o \in late]
    /\ boundGen' = [o \in Outs |-> IF o \in late THEN generation[o] ELSE boundGen[o]]
    /\ native' = [o \in Outs |-> IF o \in late THEN window[o] ELSE native[o]]
    /\ drawn' = IF Video \in late THEN DrawnAfter(Video, window[Video], generation[Video])
                ELSE drawn
    /\ UNCHANGED <<surfaceVars, wanted, registered, outId, tries>>

(* The entry of a player that is gone, or was just made. *)
Blank ==
    /\ outId' = All(FALSE) /\ bound' = All(FALSE) /\ boundGen' = All(0)
    /\ native' = All(0) /\ drawn' = 0

(* stop(): the player leaves g_players; what is torn down in the           *)
(* background is not followed further.                                     *)
Stop ==
    /\ registered
    /\ registered' = FALSE
    /\ Blank
    /\ UNCHANGED <<surfaceVars, wanted, tries>>

(* PlaybackService.detachViews with MediaPlayerDetachViews *)
DetachViews ==
    /\ wanted' = All(FALSE)
    /\ Blank
    /\ UNCHANGED <<surfaceVars, registered, tries>>

-----------------------------------------------------------------------------
(***************************************************************************)
(* PlaybackService                                                         *)
(***************************************************************************)
MutantOutsOfNewPlayer == {o \in {Video} : wanted[o]}

(* What ensureLivePlayer attaches a new player to. *)
OutsOfNewPlayer == {o \in Outs : wanted[o]}

(* loadCurrent, for whatever reason: ensureLivePlayer *)
Load ==
    /\ ~registered
    /\ registered' = TRUE
    /\ Attach(OutsOfNewPlayer)
    /\ UNCHANGED <<surfaceVars, wanted, tries>>

(* The waits of 50 ms ahead of bindAndPlay after its first attempt *)
Waits == IF Drawable(Video) THEN 0 ELSE MaxTries

(* bindAndPlay up to its first wait: the player is made live and attached, *)
(* to both outs at once when the video surface is there.                   *)
BindAndPlay(b) ==
    /\ tries[b] = 0
    /\ wanted' = All(TRUE)
    /\ registered' = TRUE
    /\ Attach(IF ~registered \/ Drawable(Video) THEN Outs ELSE {Video})
    /\ tries' = [tries EXCEPT ![b] = Waits]
    /\ UNCHANGED surfaceVars

(* What is attached after a wait: the video again, until it succeeds, and  *)
(* then the OSD; after the wait of the last attempt the OSD alone.         *)
OutsOfRetry(b) ==
    IF tries[b] = 1 THEN Outs \ {Video}
    ELSE IF Drawable(Video) THEN Outs ELSE {Video}

(* bindAndPlay up to its next wait, or to its end; on a player that was    *)
(* stopped meanwhile no attempt succeeds.                                  *)
Retry(b) ==
    /\ tries[b] # 0
    /\ IF registered THEN Attach(OutsOfRetry(b)) ELSE UNCHANGED entryVars
    /\ tries' = [tries EXCEPT ![b] = IF registered /\ Drawable(Video) THEN 0 ELSE @ - 1]
    /\ UNCHANGED <<surfaceVars, wanted, registered>>

-----------------------------------------------------------------------------
(***************************************************************************)
(* The XComponent callbacks                                                *)
(***************************************************************************)
(* OnSurfaceReady for window w of generation g.  A player bound to an      *)
(* earlier generation is told the size, if the system knows it.            *)
SurfaceReady(o, w, g, sizeKnown) ==
    LET reload == boundGen[o] # 0 /\ boundGen[o] # g IN
    IF registered /\ outId[o] /\ o \in Supported
    THEN /\ bound' = [bound EXCEPT ![o] = TRUE]
         /\ boundGen' = [boundGen EXCEPT ![o] = g]
         /\ native' = [native EXCEPT ![o] = w]
         /\ drawn' = IF o = Video /\ native[o] = w /\ reload
                     THEN IF sizeKnown THEN g ELSE 0
                     ELSE DrawnAfter(o, w, g)
         /\ UNCHANGED outId
    ELSE UNCHANGED entryVars

(* AddNativeWindow for a new or a changed surface *)
AddWindow(o, w, sizeKnown) ==
    /\ generation[o] < MaxChanges
    /\ window' = [window EXCEPT ![o] = w]
    /\ generation' = [generation EXCEPT ![o] = @ + 1]
    /\ SurfaceReady(o, w, generation[o] + 1, sizeKnown)
    /\ UNCHANGED <<wanted, registered, tries>>

(* The system may make a surface before it has destroyed the last one. *)
SurfaceCreated(o) ==
    /\ made < MaxWindows
    /\ made' = made + 1
    /\ \E sizeKnown \in BOOLEAN : AddWindow(o, made', sizeKnown)

(* A rotation or another size; the window is the one that is known, or one *)
(* that is not.                                                            *)
SurfaceChanged(o) ==
    \E sizeKnown \in BOOLEAN :
        \/ window[o] # 0 /\ AddWindow(o, window[o], sizeKnown) /\ UNCHANGED made
        \/ made < MaxWindows /\ made' = made + 1 /\ AddWindow(o, made', sizeKnown)

MutantDetaches(o) == o = Video /\ outId[o]

(* DetachNativeWindowById finds the player by the id. *)
Detaches(o) == outId[o]

(* OnSurfaceDestroyed, then ReleaseWindow: neither asks which window of    *)
(* the id was destroyed.                                                   *)
SurfaceDestroyed(o) ==
    /\ window' = [window EXCEPT ![o] = 0]
    /\ IF Detaches(o)
       THEN /\ bound' = [bound EXCEPT ![o] = FALSE]
            /\ native' = [native EXCEPT ![o] = 0]
       ELSE UNCHANGED <<bound, native>>
    /\ UNCHANGED <<made, generation, wanted, registered, outId, boundGen, drawn, tries>>

Next ==
    \/ Play \/ Stop \/ DetachViews \/ Load
    \/ \E b \in Binds : BindAndPlay(b) \/ Retry(b)
    \/ \E o \in Outs : SurfaceCreated(o) \/ SurfaceChanged(o) \/ SurfaceDestroyed(o)

Spec == Init /\ [][Next]_vars

-----------------------------------------------------------------------------
TypeOK ==
    /\ window \in [Outs -> Nat] /\ made \in Nat /\ generation \in [Outs -> Nat]
    /\ wanted \in [Outs -> BOOLEAN] /\ registered \in BOOLEAN
    /\ outId \in [Outs -> BOOLEAN] /\ bound \in [Outs -> BOOLEAN]
    /\ boundGen \in [Outs -> Nat] /\ native \in [Outs -> Nat] /\ drawn \in Nat
    /\ tries \in [Binds -> 0 .. MaxTries]

(* The registered player never draws on a window whose surface is gone or  *)
(* has been replaced (DetachNativeWindowById, OnSurfaceReady), whatever    *)
(* the order of attaching, detaching and the life of the surfaces.         *)
DrawsOnLiveWindow == \A o \in Outs : native[o] # 0 => native[o] = window[o]

(* PlaybackService.ets:805 and 1164: once no attempt to attach is under    *)
(* way, a live player shows its picture wherever the page wants it and a   *)
(* surface is there, whether the surface, the player or the wish came      *)
(* last; a player made anew after a stop is attached like the old one.     *)
WantedIsShown ==
    registered /\ (\A b \in Binds : tries[b] = 0) =>
        \A o \in Supported : wanted[o] /\ window[o] # 0 => native[o] = window[o]

(* xcomponent_manager.cpp:79: after a rotation the picture is drawn in the *)
(* new size, unless the system did not tell it: the generation noted at    *)
(* the binding, reset when the player is attached anew, never hides a      *)
(* change.                                                                 *)
GeometryFollows ==
    native[Video] # 0 /\ drawn # 0 => drawn = generation[Video]
=============================================================================
