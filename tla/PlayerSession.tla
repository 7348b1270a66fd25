--------------------------- MODULE PlayerSession ---------------------------
(***************************************************************************)
(* One playback session of PlaybackService.ets: the asynchronous loading   *)
(* of the current queue item, the transport operations, and the native     *)
(* player whose events reach the JS thread through a queue.                *)
(*                                                                         *)
(* The JS thread runs one step at a time: a call, an event callback or the *)
(* continuation of an await.  loadCurrent has three suspensions that last  *)
(* (the save chain, the hardware setting, the stored position), so other   *)
(* steps run between its parts and several loads can be under way.         *)
(*                                                                         *)
(* The queue is a list of distinct videos played in order (module          *)
(* QueueOrder has the other orders).  Positions are 0, Early (up to 5 s)   *)
(* and Late (beyond 5 s).                                                  *)
(***************************************************************************)
EXTENDS Integers, Sequences

CONSTANTS QueueLen,    \* queue.length
          RepeatMode,  \* 0 none, 1 all, 2 one
          Discs,       \* indices of disc images: loaded without the hwAccel await
          Broken,      \* indices whose Media cannot be created
          MaxLoads,    \* bound on the calls of loadCurrent in one behaviour
          MaxOps,      \* bound on the user's operations
          MaxEvents,   \* bound on the native events queued at once
          MaxSaves     \* bound on the saves waiting in the chain

ASSUME SessionAssumption ==
    /\ QueueLen \in Nat \ {0}
    /\ RepeatMode \in 0 .. 2
    /\ MaxLoads \in Nat /\ MaxOps \in Nat /\ MaxEvents \in Nat /\ MaxSaves \in Nat

Items == 0 .. QueueLen - 1
None == -1
Loads == 1 .. MaxLoads
Early == 1
Late == 2
Positions == 0 .. Late

VARIABLES
    current,        \* currentIndex
    state,          \* state: what the UI shows
    stopAfter,      \* stopAfterCurrent
    position,
    active,         \* activeVideoUri
    pendingResume,  \* pendingResumeMs
    loads,          \* the calls of loadCurrent, in the order they were made
    issued,         \* how many there were
    chain,          \* resumeSaveChain: the saves not yet persisted
    store,          \* VideoResumeStore: the persisted position of each video
    live,           \* player is not released
    media,          \* the media set on the live native player
    native,         \* its playback state
    events,         \* the native events not yet delivered to onNativeEvent
    ops,            \* user operations so far
    completed,      \* history: videos completed and not loaded since
    resumeOf        \* history: the video whose position pendingResume is

playerVars == <<live, media, native, events>>
resumeVars == <<position, active, pendingResume, resumeOf>>
saveVars == <<chain, completed>>
vars == <<current, state, stopAfter, resumeVars, loads, issued, saveVars,
          store, playerVars, ops>>

NoLoad == [stage |-> "none", item |-> None, waits |-> 0, resume |-> 0]

(* stage: what the call is waiting for. item: what getCurrent returned.    *)
(* waits: saves ahead of it in the chain. resume: an answer of the store.  *)
LoadRecord == [stage : {"none", "attach", "chain", "options", "resume"},
               item : Items \cup {None}, waits : Nat, resume : Positions]

Save == [video : Items, at : Positions]

Event == [kind : {"playing", "paused", "ended", "error", "time"},
          of : Items, at : Positions]

States == {"IDLE", "PREPARED", "PLAYING", "PAUSED", "STOPPED", "ERROR"}

Loading == \E l \in Loads : loads[l].stage # "none"

Init ==
    /\ current \in Items
    /\ state = "IDLE"
    /\ stopAfter = FALSE
    /\ position = 0 /\ active = None /\ pendingResume = 0 /\ resumeOf = None
    /\ loads = [l \in Loads |-> NoLoad]
    /\ issued = 0
    /\ chain = <<>>
    /\ store \in [Items -> {0, Late}]
    /\ live = TRUE /\ media = None /\ native = "idle" /\ events = <<>>
    /\ ops = 0
    /\ completed = {}

-----------------------------------------------------------------------------
(* saveVideoResume *)
MaySave == active # None /\ pendingResume = 0

MutantSavedAtZero(completes) ==
    IF MaySave
    THEN Append(chain, [video |-> active, at |-> IF completes THEN 0 ELSE position])
    ELSE chain

(* VideoResumeStore.save ignores a zero position that is no completion, so *)
(* such a save leaves nothing to persist.                                  *)
Saved(completes) ==
    IF MaySave /\ (completes \/ position > 0)
    THEN Append(chain, [video |-> active, at |-> IF completes THEN 0 ELSE position])
    ELSE chain

ChainBecomes(saves) == Len(saves) <= MaxSaves /\ chain' = saves

MutantCompletionKeepsActive == active

ActiveAfterCompletion == IF MaySave THEN None ELSE active

(* player.stop(): the native player is torn down in the background, its    *)
(* callback is released and the events still queued are discarded.         *)
ReleasePlayer ==
    /\ live' = FALSE
    /\ media' = None
    /\ native' = "idle"
    /\ events' = <<>>

MutantStopKeepsState == state

StateAfterStop == "STOPPED"

(* player.play() *)
NativeAfterPlay ==
    IF live /\ media # None /\ native # "playing" THEN "starting" ELSE native

MutantNextIndexOffByOne(manual) ==
    IF RepeatMode = 2 THEN current
    ELSE IF current < QueueLen THEN current + 1
    ELSE IF manual \/ RepeatMode # 0 THEN 0 ELSE None

(* computeNextIndex(manual) without shuffle; None when playback ends. *)
NextIndex(manual) ==
    IF RepeatMode = 2 THEN current
    ELSE IF current + 1 < QueueLen THEN current + 1
    ELSE IF manual \/ RepeatMode # 0 THEN 0 ELSE None

(* A call of loadCurrent that awaits the saves ahead of it. *)
ToFlush(savesAhead) ==
    [stage |-> "chain", item |-> None, waits |-> savesAhead, resume |-> 0]

(* The first part of loadCurrent, up to the await of the save chain. *)
StartLoad(savesAhead) ==
    /\ issued < MaxLoads
    /\ issued' = issued + 1
    /\ loads' = [loads EXCEPT ![issued + 1] = ToFlush(savesAhead)]

(***************************************************************************)
(* Operations of the user interface, the session callbacks and the timers  *)
(***************************************************************************)
UserStep == ops < MaxOps /\ ops' = ops + 1

(* stop() *)
StopEffects ==
    /\ pendingResume' = 0
    /\ state' = StateAfterStop
    /\ ReleasePlayer
    /\ UNCHANGED <<position, resumeOf, loads, issued, current>>

Stop ==
    /\ UserStep
    /\ StopEffects
    /\ ChainBecomes(Saved(FALSE))
    /\ UNCHANGED <<stopAfter, active, store, completed>>

Play ==
    /\ UserStep
    /\ IF state \in {"IDLE", "STOPPED", "ERROR"}
       THEN /\ ChainBecomes(Saved(FALSE))
            /\ StartLoad(Len(chain'))
            /\ UNCHANGED native
       ELSE /\ native' = NativeAfterPlay
            /\ UNCHANGED <<chain, issued, loads>>
    /\ UNCHANGED <<current, state, stopAfter, resumeVars, store, live, media,
                   events, completed>>

Pause ==
    /\ UserStep
    /\ ChainBecomes(Saved(FALSE))
    /\ IF live /\ native = "playing" /\ Len(events) < MaxEvents
       THEN /\ native' = "paused"
            /\ events' = Append(events, [kind |-> "paused", of |-> media, at |-> 0])
       ELSE native # "playing" /\ UNCHANGED <<native, events>>
    /\ UNCHANGED <<current, state, stopAfter, resumeVars, loads, issued, store,
                   live, media, completed>>

MutantGoToIgnoresWhileLoading(i) ==
    /\ current' = i
    /\ ChainBecomes(Saved(FALSE))
    /\ IF Loading THEN UNCHANGED <<loads, issued>> ELSE StartLoad(Len(chain'))
    /\ UNCHANGED <<state, stopAfter, resumeVars, store, playerVars, completed>>

GoTo(i) ==
    /\ current' = i
    /\ ChainBecomes(Saved(FALSE))
    /\ StartLoad(Len(chain'))
    /\ UNCHANGED <<state, stopAfter, resumeVars, store, playerVars, completed>>

NextTrack ==
    /\ UserStep
    /\ GoTo(NextIndex(TRUE))

(* seek(0) and play(): the native player reports the new time later. *)
Replay ==
    /\ native' = NativeAfterPlay
    /\ UNCHANGED <<current, state, stopAfter, resumeVars, loads, issued,
                   saveVars, store, live, media, events>>

Prev ==
    /\ UserStep
    /\ IF position = Late \/ RepeatMode = 2
       THEN Replay
       ELSE GoTo(IF current = 0 THEN QueueLen - 1 ELSE current - 1)

MutantLiveAfterEnsure == live

(* ensureLivePlayer: a released player is replaced by a new one. *)
LiveAfterEnsure == TRUE

(* prepareList with a video of the queue, then bindAndPlay, which creates  *)
(* the player if need be and tries to attach the surface.                  *)
BindAndPlay(i) ==
    /\ UserStep
    /\ current' = i
    /\ live' = LiveAfterEnsure
    /\ UNCHANGED <<media, native, events>>
    /\ issued < MaxLoads
    /\ issued' = issued + 1
    /\ loads' = [loads EXCEPT ![issued + 1] =
                    [stage |-> "attach", item |-> None, waits |-> 0, resume |-> 0]]
    /\ UNCHANGED <<state, stopAfter, resumeVars, saveVars, store>>

SetStopAfterCurrent ==
    /\ UserStep
    /\ stopAfter' = ~stopAfter
    /\ UNCHANGED <<current, state, resumeVars, loads, issued, saveVars, store,
                   playerVars>>

-----------------------------------------------------------------------------
(***************************************************************************)
(* The continuations of bindAndPlay and loadCurrent                        *)
(***************************************************************************)
(* Two calls that wait for the same thing go on in the order they were     *)
(* made: promises of one kind of request are settled first in, first out.  *)
FirstInStage(l) == \A k \in 1 .. l - 1 : loads[k].stage # loads[l].stage

At(l, stage) == loads[l].stage = stage /\ FirstInStage(l)

(* The surface is attached, or 30 attempts failed: loadCurrent begins. *)
EndAttach(l) ==
    /\ At(l, "attach")
    /\ ChainBecomes(Saved(FALSE))
    /\ loads' = [loads EXCEPT ![l] = ToFlush(Len(chain'))]
    /\ UNCHANGED <<current, state, stopAfter, resumeVars, issued, store,
                   playerVars, ops, completed>>

(* player.setMedia on a live player: what is playing is cut off without an *)
(* event, and what it sent before stays in the event queue.                *)
HandOver(l, item) ==
    /\ media' = item
    /\ native' = "idle"
    /\ active' = item
    /\ position' = 0
    /\ completed' = completed \ {item}
    /\ loads' = [loads EXCEPT ![l] = [stage |-> "resume", item |-> item,
                                      waits |-> 0, resume |-> store[item]]]
    /\ UNCHANGED <<events, state>>

(* No media, or a player that takes none. *)
FailLoad(l) ==
    /\ state' = "ERROR"
    /\ loads' = [loads EXCEPT ![l] = NoLoad]
    /\ UNCHANGED <<media, native, events, active, position, completed>>

(* The save chain is flushed: getCurrent() is read now, the player is made *)
(* live, the media created and, but for a disc, the hardware setting asked *)
(* for.                                                                    *)
EndChain(l) ==
    LET item == current IN
    /\ At(l, "chain")
    /\ loads[l].waits = 0
    /\ live' = LiveAfterEnsure
    /\ \/ item \in Broken /\ FailLoad(l)
       \/ item \in Discs \ Broken /\ HandOver(l, item)
       \/ /\ item \notin Broken \cup Discs
          /\ loads' = [loads EXCEPT ![l] = [stage |-> "options", item |-> item,
                                            waits |-> 0, resume |-> 0]]
          /\ UNCHANGED <<state, active, position, completed, media, native, events>>
    /\ UNCHANGED <<current, stopAfter, pendingResume, resumeOf, issued, chain,
                   store, ops>>

(* The hardware setting is known: the media is handed to the player. *)
EndOptions(l) ==
    /\ At(l, "options")
    /\ IF live THEN HandOver(l, loads[l].item) ELSE FailLoad(l)
    /\ UNCHANGED <<live, current, stopAfter, pendingResume, resumeOf, issued, chain,
                   store, ops>>

(* VideoResumeStore.load answers with what was stored when it was asked or *)
(* when it answers, or with 0 for a record close to the end or without a   *)
(* duration; the player starts.                                            *)
EndResume(l) ==
    /\ At(l, "resume")
    /\ pendingResume' \in {0, loads[l].resume, store[loads[l].item]}
    /\ resumeOf' = loads[l].item
    /\ native' = NativeAfterPlay
    /\ state' = "PREPARED"
    /\ loads' = [loads EXCEPT ![l] = NoLoad]
    /\ UNCHANGED <<current, stopAfter, position, active, issued, saveVars,
                   store, live, media, events, ops>>

(* The oldest save of the chain is persisted. *)
PersistSave ==
    /\ chain # <<>>
    /\ store' = [store EXCEPT ![Head(chain).video] = Head(chain).at]
    /\ chain' = Tail(chain)
    /\ loads' = [l \in Loads |->
                    IF loads[l].waits > 0
                    THEN [loads[l] EXCEPT !.waits = @ - 1] ELSE loads[l]]
    /\ UNCHANGED <<current, state, stopAfter, resumeVars, issued, completed,
                   playerVars, ops>>

-----------------------------------------------------------------------------
(***************************************************************************)
(* The native player                                                       *)
(***************************************************************************)
Emit(kind, at) ==
    /\ Len(events) < MaxEvents
    /\ events' = Append(events, [kind |-> kind, of |-> media, at |-> at])

NativeStep(from, to, kind) ==
    /\ live /\ native = from
    /\ native' = to
    /\ Emit(kind, 0)
    /\ UNCHANGED <<current, state, stopAfter, resumeVars, loads, issued,
                   saveVars, store, live, media, ops>>

NativeStarts == NativeStep("starting", "playing", "playing")
NativeFails == NativeStep("starting", "failed", "error")
NativeEnds == NativeStep("playing", "ended", "ended")

NativeTime(p) ==
    /\ live /\ native = "playing"
    /\ Emit("time", p)
    /\ UNCHANGED <<current, state, stopAfter, resumeVars, loads, issued,
                   saveVars, store, live, media, native, ops>>

(***************************************************************************)
(* onNativeEvent                                                           *)
(***************************************************************************)
Arrives(kind) ==
    /\ events # <<>>
    /\ Head(events).kind = kind

(* pendingResumeMs is sought to and forgotten. *)
OnPlaying ==
    /\ Arrives("playing")
    /\ pendingResume' = 0
    /\ state' = "PLAYING"
    /\ events' = Tail(events)
    /\ UNCHANGED <<current, stopAfter, position, active, resumeOf, loads,
                   issued, saveVars, store, live, media, native, ops>>

OnPaused ==
    /\ Arrives("paused")
    /\ ChainBecomes(Saved(FALSE))
    /\ state' = "PAUSED"
    /\ events' = Tail(events)
    /\ UNCHANGED <<current, stopAfter, resumeVars, loads, issued, store, live,
                   media, native, ops, completed>>

OnError ==
    /\ Arrives("error")
    /\ state' = "ERROR"
    /\ events' = Tail(events)
    /\ UNCHANGED <<current, stopAfter, resumeVars, loads, issued, saveVars,
                   store, live, media, native, ops>>

(* onTimeChangedThrottled: the position is saved when the last save is     *)
(* five seconds old.                                                       *)
TimeChanged(p) ==
    /\ position' = p
    /\ \/ UNCHANGED chain
       \/ MaySave /\ ChainBecomes(Append(chain, [video |-> active, at |-> p]))
    /\ UNCHANGED <<current, state, stopAfter, active, pendingResume, resumeOf,
                   loads, issued, store, live, media, native, ops, completed>>

OnTime ==
    /\ Arrives("time")
    /\ TimeChanged(Head(events).at)
    /\ events' = Tail(events)

(* The progress watchdog of startSessionSync asks the player itself when   *)
(* no time event came for a second.                                        *)
Watchdog(p) ==
    /\ state = "PLAYING" /\ live /\ native = "playing"
    /\ TimeChanged(p)
    /\ UNCHANGED events

(* The completion is saved and onComplete stops or goes on. The save that  *)
(* stop or loadCurrent makes afterwards finds no active video any more.    *)
OnEnded ==
    /\ Arrives("ended")
    /\ active' = ActiveAfterCompletion
    /\ ChainBecomes(IF active' # None /\ MaySave /\ position > 0
                    THEN Append(Saved(TRUE), [video |-> active, at |-> position])
                    ELSE Saved(TRUE))
    /\ completed' = IF MaySave THEN completed \cup {active} ELSE completed
    /\ \/ /\ stopAfter \/ NextIndex(FALSE) = None
          /\ StopEffects
       \/ /\ ~stopAfter /\ NextIndex(FALSE) # None
          /\ ReleasePlayer
          /\ current' = NextIndex(FALSE)
          /\ StartLoad(Len(chain'))
          /\ UNCHANGED <<state, position, pendingResume, resumeOf>>
    /\ stopAfter' = FALSE
    /\ UNCHANGED <<store, ops>>

-----------------------------------------------------------------------------
User ==
    \/ Stop \/ Play \/ Pause \/ NextTrack \/ Prev \/ SetStopAfterCurrent
    \/ \E i \in Items : BindAndPlay(i)

LoadStep(l) == EndAttach(l) \/ EndChain(l) \/ EndOptions(l) \/ EndResume(l)

Deliver == OnPlaying \/ OnPaused \/ OnError \/ OnTime \/ OnEnded

System ==
    \/ \E l \in Loads : LoadStep(l)
    \/ PersistSave
    \/ NativeStarts \/ NativeFails \/ NativeEnds
    \/ \E p \in Positions \ {0} : NativeTime(p) \/ Watchdog(p)
    \/ Deliver

Next == User \/ System

Spec == Init /\ [][Next]_vars

(* The settings store answers, saves are written, a started player plays   *)
(* or fails, and queued events are delivered.  The user need not act, and  *)
(* a playing video need neither end nor report its time.                   *)
FairSpec ==
    /\ Spec
    /\ \A l \in Loads : WF_vars(LoadStep(l))
    /\ WF_vars(PersistSave)
    /\ WF_vars(NativeStarts \/ NativeFails)
    /\ WF_vars(Deliver)

-----------------------------------------------------------------------------
TypeOK ==
    /\ current \in Items
    /\ state \in States
    /\ stopAfter \in BOOLEAN
    /\ position \in Positions
    /\ active \in Items \cup {None}
    /\ pendingResume \in Positions
    /\ loads \in [Loads -> LoadRecord]
    /\ issued \in 0 .. MaxLoads
    /\ chain \in Seq(Save)
    /\ store \in [Items -> Positions]
    /\ live \in BOOLEAN
    /\ media \in Items \cup {None}
    /\ native \in {"idle", "starting", "playing", "paused", "ended", "failed"}
    /\ events \in Seq(Event)
    /\ ops \in Nat
    /\ completed \subseteq Items
    /\ resumeOf \in Items \cup {None}

(* With no load under way, every event delivered and no start pending,     *)
(* the state the UI shows is the player's: it plays when PLAYING is shown, *)
(* is paused when PAUSED is shown and is silent when STOPPED is shown.     *)
(* Stop, loads and late events of the previous video (onNativeEvent, stop, *)
(* loadCurrent) must leave no lasting difference, whatever their order.    *)
UiAgreesWithPlayer ==
    ~Loading /\ events = <<>> /\ native # "starting" =>
        /\ state = "PLAYING" => live /\ native = "playing"
        /\ state = "PAUSED" => live /\ native = "paused"
        /\ state = "STOPPED" => native \notin {"playing", "paused"}

(* However next, prev, the end of a video and stop interleave, the loads   *)
(* they start settle on the item the queue shows as current: a load reads  *)
(* getCurrent only after its await, and the last load to be made is the    *)
(* last to call setMedia.  Two ends are excepted.  A current item whose    *)
(* media cannot be made leaves the previous one set; and a disc, which     *)
(* skips the hardware setting, overtakes the load before it, which then    *)
(* sets its own media while the queue shows the disc.                      *)
LoadedIsCurrent ==
    ~Loading /\ media # None => media = current \/ current \in Broken \cup Discs

(* The newest save of video v, in the chain or persisted, is position p. *)
NewestIs(v, p) ==
    \/ /\ store[v] = p
       /\ \A k \in 1 .. Len(chain) : chain[k].video # v
    \/ \E k \in 1 .. Len(chain) :
          /\ chain[k] = [video |-> v, at |-> p]
          /\ \A j \in k + 1 .. Len(chain) : chain[j].video # v

(* A video that played to its end starts from the beginning next time: no  *)
(* save made afterwards by stop, by the next load, by a late event or by   *)
(* the watchdog brings its old position back.                              *)
CompletedStays == \A v \in completed : NewestIs(v, 0)

(* The resume position of each video, as far as it was saved at all. *)
Newest == [v \in Items |-> CHOOSE p \in Positions : NewestIs(v, p)]

Register == INSTANCE ResumeRegister WITH
    Videos <- Items, Nothing <- None, Places <- Positions, Beginning <- 0,
    newest <- Newest, loaded <- active

(* The chain of delayed saves is invisible from outside: a video's resume  *)
(* position is one register, written only while that video is the loaded   *)
(* one, reset only by its end, and moved by nothing else, whatever loads,  *)
(* stops and late events overlap (saveVideoResume, VideoResumeStore.save). *)
ImplementsRegister == Register!Spec

(* A load that starts on an empty player, after a stop or the end of the   *)
(* queue, gets it to play (or to fail on the media) if the user lets it.   *)
LoadPlays ==
    \A l \in Loads :
        ( /\ ops = MaxOps /\ media = None /\ current \notin Broken
          /\ loads[l].stage \in {"attach", "chain"}
          /\ \A k \in Loads \ {l} : loads[k].stage = "none" )
        ~> native \in {"playing", "failed"}

-----------------------------------------------------------------------------
(***************************************************************************)
(* What comments of the source say and the code does not keep              *)
(***************************************************************************)
(* PlaybackService.ets:1890: the stored position is restored when it       *)
(* matches the current URI.                                                *)
ResumeMatchesMedia ==
    [][OnPlaying /\ native = "playing" /\ pendingResume > 0 => resumeOf = media]_vars
=============================================================================
