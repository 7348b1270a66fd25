--------------------------- MODULE NativeObjects ---------------------------
(***************************************************************************)
(* What PlaybackService owns in the NAPI bridge besides its player: the    *)
(* media it creates, with the file descriptors behind them, and the        *)
(* discoverer of renderers with its items (g_medias, g_rds, g_renderers of *)
(* vlc_napi.cpp, the wrappers Media, MediaPlayer and RendererDiscoverer).  *)
(*                                                                         *)
(* A document is played through a descriptor of its own that the bridge    *)
(* duplicates and closes with the medium's entry.  libVLC opens it later,  *)
(* on the input's thread, by its number.  Numbers are used again: a new    *)
(* descriptor may get any number that is free.                             *)
(***************************************************************************)
EXTENDS Integers

CONSTANTS Documents,   \* files played through a descriptor
          Streams,     \* files played by their location or path
          Fds,         \* descriptor numbers
          MaxMedias,   \* bound on the media created
          MaxPlayers,  \* bound on the players created
          MaxLoads,    \* bound on the loads under way at once
          MaxItems     \* bound on the renderers found

ASSUME ObjectsAssumption ==
    /\ Documents \cap Streams = {} /\ Fds \subseteq Nat
    /\ {"closed", "none", "opening"} \cap (Documents \cup Streams) = {}
    /\ MaxMedias \in Nat /\ MaxPlayers \in Nat /\ MaxLoads \in Nat /\ MaxItems \in Nat

Files == Documents \cup Streams
Medias == 1 .. MaxMedias
Players == 1 .. MaxPlayers
Loads == 1 .. MaxLoads
Items == 1 .. MaxItems
NoFd == -1

VARIABLES
    descriptors,   \* the file behind each descriptor
    medias,        \* g_medias: the registered handles
    made,          \* how many media were created
    file,          \* the file of each medium
    fd,            \* ownedFd of each medium, NoFd for none
    live,          \* the player of PlaybackService, 0 for none
    born,          \* how many players were created
    currentMedia,  \* MediaPlayer.currentMedia, 0 for none
    loads,         \* loadCurrent: what it waits for, and its medium
    set,           \* the medium set on each native player, 0 for none
    input          \* what each player's input reads

mediaVars == <<descriptors, medias, made, file, fd>>
playVars == <<live, born, currentMedia, loads, set, input>>

VARIABLES
    rd,            \* g_rds: the renderer discoverer
    rdHandler,     \* where on_renderer_event is
    rdCall,        \* the call of the discoverer the JS thread is in
    items,         \* g_renderers, all of the one discoverer
    found,         \* how many renderers were ever found
    selected,      \* currentRendererHandle, 0 for none
    casts          \* the renderer of the live native player, 0 for none

discoveryVars == <<rd, rdHandler, rdCall, items, found>>
castVars == <<selected, casts>>
vars == <<mediaVars, playVars, discoveryVars, castVars>>

NoLoad == [at |-> "none", medium |-> 0]

Init ==
    /\ descriptors = [d \in Fds |-> "closed"]
    /\ medias = {} /\ made = 0
    /\ file = [h \in Medias |-> "none"]
    /\ fd = [h \in Medias |-> NoFd]
    /\ live = 0 /\ born = 0 /\ currentMedia = 0
    /\ loads = [l \in Loads |-> NoLoad]
    /\ set = [p \in Players |-> 0]
    /\ input = [p \in Players |-> "none"]
    /\ rd = "none" /\ rdHandler = "idle" /\ rdCall = "none"
    /\ items = {} /\ found = 0
    /\ selected = 0 /\ casts = 0

JsIdle == rdCall = "none"

-----------------------------------------------------------------------------
(***************************************************************************)
(* Media and loads                                                         *)
(***************************************************************************)
(* CloseOwnedFd *)
Closed(h) == [d \in Fds |-> IF d = fd[h] THEN "closed" ELSE descriptors[d]]

(* MediaRelease, if h is a medium *)
Release(h) ==
    /\ medias' = medias \ {h}
    /\ descriptors' = IF h \in medias THEN Closed(h) ELSE descriptors
    /\ UNCHANGED <<made, file, fd>>

MutantTakesFd(f) == f \in Files

(* loadCurrent chooses by the kind of URI. *)
TakesFd(f) == f \in Documents

(* A new entry: MediaCreateFd with its duplicate of the descriptor that    *)
(* loadCurrent opened and closes again, MediaCreateLocation or             *)
(* MediaCreatePath.                                                        *)
NewMedium(f) ==
    /\ made < MaxMedias
    /\ made' = made + 1
    /\ medias' = medias \cup {made + 1}
    /\ file' = [file EXCEPT ![made + 1] = f]
    /\ IF TakesFd(f)
       THEN \E d \in Fds :
               /\ descriptors[d] = "closed"
               /\ descriptors' = [descriptors EXCEPT ![d] = f]
               /\ fd' = [fd EXCEPT ![made + 1] = d]
       ELSE UNCHANGED <<descriptors, fd>>

(* ensureLivePlayer: a new player uses no renderer. *)
EnsureLive ==
    IF live # 0 THEN UNCHANGED <<live, born, currentMedia, casts>>
    ELSE /\ born < MaxPlayers
         /\ live' = born + 1 /\ born' = born + 1
         /\ currentMedia' = 0 /\ casts' = 0

(* loadCurrent up to the await of the hardware setting *)
StartLoad(l, f) ==
    /\ JsIdle
    /\ loads[l] = NoLoad
    /\ EnsureLive
    /\ NewMedium(f)
    /\ loads' = [loads EXCEPT ![l] = [at |-> "options", medium |-> made + 1]]
    /\ UNCHANGED <<set, input, discoveryVars, selected>>

MutantReleaseReplaced(h) == Release(h)

(* MediaPlayer.setMedia keeps the medium it sets and releases the one it   *)
(* replaces.                                                               *)
ReleaseReplaced(h) == Release(currentMedia)

MutantReleaseRefused(h) == UNCHANGED mediaVars

(* A medium the player did not take is released. *)
ReleaseRefused(h) == Release(h)

(* The setting is known: player.setMedia.  libVLC ends the old input.  A   *)
(* player that was stopped meanwhile takes no medium.                      *)
EndOptions(l) ==
    LET h == loads[l].medium IN
    /\ JsIdle
    /\ loads[l].at = "options"
    /\ IF live # 0
       THEN /\ set' = [set EXCEPT ![live] = h]
            /\ input' = [input EXCEPT ![live] = "none"]
            /\ ReleaseReplaced(h)
            /\ currentMedia' = h
            /\ loads' = [loads EXCEPT ![l].at = "resume"]
       ELSE /\ ReleaseRefused(h)
            /\ loads' = [loads EXCEPT ![l] = NoLoad]
            /\ UNCHANGED <<set, input, currentMedia>>
    /\ UNCHANGED <<live, born, discoveryVars, castVars>>

(* The stored position is known: player.play starts the input of whatever  *)
(* medium is set.                                                          *)
EndResume(l) ==
    /\ JsIdle
    /\ loads[l].at = "resume"
    /\ loads' = [loads EXCEPT ![l] = NoLoad]
    /\ input' = IF live # 0 /\ set[live] # 0 /\ input[live] = "none"
                THEN [input EXCEPT ![live] = "opening"] ELSE input
    /\ UNCHANGED <<mediaVars, live, born, currentMedia, set, discoveryVars, castVars>>

(* The input opens its medium: it duplicates the descriptor by its number. *)
InputOpens(p) ==
    /\ input[p] = "opening"
    /\ input' = [input EXCEPT ![p] =
                    IF fd[set[p]] = NoFd THEN file[set[p]] ELSE descriptors[fd[set[p]]]]
    /\ UNCHANGED <<mediaVars, live, born, currentMedia, loads, set, discoveryVars,
                   castVars>>

(* MediaPlayer.stop: the medium is released, the native player left to a   *)
(* thread that ends it.                                                    *)
Stop ==
    /\ JsIdle
    /\ live # 0
    /\ Release(currentMedia)
    /\ currentMedia' = 0
    /\ live' = 0
    /\ casts' = 0
    /\ UNCHANGED <<born, loads, set, input, discoveryVars, selected>>

TeardownEnds(p) ==
    /\ p # live /\ input[p] # "none"
    /\ input' = [input EXCEPT ![p] = "none"]
    /\ UNCHANGED <<mediaVars, live, born, currentMedia, loads, set, discoveryVars,
                   castVars>>

-----------------------------------------------------------------------------
(***************************************************************************)
(* Renderers                                                               *)
(***************************************************************************)
(* g_mtx is held while RendererDiscovererRelease detaches its listeners. *)
MutexFree == rdCall # "releasing"

DiscoveryStep == UNCHANGED <<mediaVars, playVars>>

(* startRendererDiscovery: RendererDiscovererCreate, and start outside     *)
(* g_mtx; it may report renderers before it returns.                       *)
StartDiscovery ==
    /\ JsIdle
    /\ rd = "none"
    /\ rd' = "running"
    /\ rdCall' = "starting"
    /\ DiscoveryStep /\ UNCHANGED <<rdHandler, items, found, castVars>>

StartReturns ==
    /\ rdCall = "starting"
    /\ rdHandler = "idle"
    /\ rdCall' = "none"
    /\ DiscoveryStep /\ UNCHANGED <<rd, rdHandler, items, found, castVars>>

(* A renderer is found: on_renderer_event begins, under the lock of the    *)
(* event manager ...                                                       *)
ItemAdded ==
    /\ rd = "running"
    /\ rdHandler = "idle"
    /\ found < MaxItems
    /\ rdHandler' = "entered"
    /\ DiscoveryStep /\ UNCHANGED <<rd, rdCall, items, found, castVars>>

(* ... and notes it under g_mtx.  One that goes away stays noted. *)
ItemNoted ==
    /\ rdHandler = "entered"
    /\ MutexFree
    /\ rdHandler' = "idle"
    /\ found' = found + 1
    /\ items' = items \cup {found + 1}
    /\ DiscoveryStep /\ UNCHANGED <<rd, rdCall, castVars>>

(* PlaybackService.setRenderer with an item of the list *)
SetRenderer(i) ==
    /\ JsIdle
    /\ live # 0
    /\ i \in items
    /\ casts' = i
    /\ selected' = i
    /\ DiscoveryStep /\ UNCHANGED discoveryVars

ClearRenderer ==
    /\ JsIdle
    /\ live # 0
    /\ casts' = 0
    /\ selected' = 0
    /\ DiscoveryStep /\ UNCHANGED discoveryVars

-----------------------------------------------------------------------------
(***************************************************************************)
(* PlaybackService.release, which is offered to the pages and expected     *)
(* when no load is under way                                               *)
(***************************************************************************)
(* The player goes after the discoverer: MediaPlayer.onNativeRelease       *)
(* releases its medium, and its input has ended when MediaPlayerRelease    *)
(* returns.                                                                *)
ReleasePlayer ==
    /\ Release(currentMedia)
    /\ currentMedia' = 0
    /\ live' = 0
    /\ input' = [p \in Players |-> IF p = live THEN "none" ELSE input[p]]
    /\ casts' = 0 /\ selected' = 0
    /\ UNCHANGED <<born, loads, set>>

MutantFirstCall == "releasing"

(* The discoverer is stopped before it is released. *)
FirstCall == "stopping"

ServiceRelease ==
    /\ JsIdle
    /\ \A l \in Loads : loads[l] = NoLoad
    /\ \/ /\ rd = "running"
          /\ rdCall' = FirstCall
          /\ DiscoveryStep /\ UNCHANGED <<rd, rdHandler, items, found, castVars>>
       \/ /\ rd = "none"
          /\ ReleasePlayer /\ UNCHANGED discoveryVars

(* RendererDiscovererStop waits, outside g_mtx, for the discovery to end. *)
StopReturns ==
    /\ rdCall = "stopping"
    /\ rdHandler = "idle"
    /\ rd' = "stopped"
    /\ rdCall' = "releasing"
    /\ DiscoveryStep /\ UNCHANGED <<rdHandler, items, found, castVars>>

(* RendererDiscovererRelease: the listeners are detached, all items and    *)
(* the discoverer released.  RendererItemRelease is left to it.            *)
ReleaseReturns ==
    /\ rdCall = "releasing"
    /\ rdHandler = "idle"
    /\ rd' = "none"
    /\ rdCall' = "none"
    /\ items' = {}
    /\ ReleasePlayer /\ UNCHANGED <<rdHandler, found>>

-----------------------------------------------------------------------------
Next ==
    \/ \E l \in Loads :
          \/ \E f \in Files : StartLoad(l, f)
          \/ EndOptions(l) \/ EndResume(l)
    \/ \E p \in Players : InputOpens(p) \/ TeardownEnds(p)
    \/ Stop
    \/ StartDiscovery \/ StartReturns \/ ItemAdded \/ ItemNoted
    \/ \E i \in Items : SetRenderer(i)
    \/ ClearRenderer
    \/ ServiceRelease \/ StopReturns \/ ReleaseReturns

Spec == Init /\ [][Next]_vars

-----------------------------------------------------------------------------
TypeOK ==
    /\ descriptors \in [Fds -> Documents \cup {"closed"}]
    /\ medias \subseteq 1 .. made
    /\ made \in 0 .. MaxMedias
    /\ file \in [Medias -> Files \cup {"none"}]
    /\ fd \in [Medias -> Fds \cup {NoFd}]
    /\ live \in 0 .. born
    /\ born \in 0 .. MaxPlayers
    /\ currentMedia \in 0 .. made
    /\ loads \in [Loads -> [at : {"none", "options", "resume"}, medium : 0 .. made]]
    /\ set \in [Players -> 0 .. made]
    /\ input \in [Players -> Files \cup {"none", "opening", "closed"}]
    /\ rd \in {"none", "running", "stopped"}
    /\ rdHandler \in {"idle", "entered"}
    /\ rdCall \in {"none", "starting", "stopping", "releasing"}
    /\ items \subseteq 1 .. found
    /\ found \in 0 .. MaxItems
    /\ selected \in 0 .. found
    /\ casts \in 0 .. found

(* The player of the session reads the document it was given: its number   *)
(* is not closed, and used again for another, before libVLC gets to open   *)
(* it, however loads, stops and the input's thread interleave              *)
(* (loadCurrent, MediaPlayer.setMedia, MediaRelease).                      *)
LiveReadsItsFile ==
    live # 0 /\ input[live] \notin {"none", "opening"} =>
        input[live] = file[set[live]]

(* A medium is registered as long as the player or a load has it, no       *)
(* longer, also when the player it was made for is stopped during the      *)
(* load; and every open descriptor belongs to one registered medium and is *)
(* of its file (loadCurrent, MediaPlayer.stop, MediaCreateFd,              *)
(* MediaRelease).                                                          *)
NothingLeaks ==
    /\ medias = {h \in Medias :
                    \/ h = currentMedia
                    \/ \E l \in Loads : loads[l] = [at |-> "options", medium |-> h]}
    /\ \A h \in medias : fd[h] # NoFd => descriptors[fd[h]] = file[h]
    /\ \A d \in Fds : descriptors[d] # "closed" => \E h \in medias : fd[h] = d
    /\ \A h, k \in medias : fd[h] = fd[k] => h = k \/ fd[h] = NoFd

(* The JS thread never waits, with g_mtx, for on_renderer_event, which     *)
(* waits for g_mtx: release stops the discovery first                      *)
(* (RendererDiscovererRelease, RendererDiscovererStop).                    *)
DiscoveryNeverEmbraces == ~MutexFree => rdHandler = "idle"
=============================================================================
