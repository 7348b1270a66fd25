--------------------------- MODULE PlayerRegistry ---------------------------
(***************************************************************************)
(* The registry of players of the NAPI bridge (g_players and g_eventUsers  *)
(* of entry/src/main/cpp/vlc_napi.cpp): how a player is created, heard,    *)
(* called and torn down, by the JS thread, libVLC's threads, the player's  *)
(* seek worker and the background thread that ends it.                     *)
(*                                                                         *)
(* Two locks matter.  g_mtx guards the registry; the sections that do      *)
(* nothing but read and write it are one step here, and gmtx is its owner  *)
(* where a section makes a call that may wait.  The lock of a player's     *)
(* event manager is libVLC's: it is held while on_player_event runs        *)
(* (handler[p].at # "idle") and while listeners are detached.              *)
(*                                                                         *)
(* Native references are counted by holder: the registry, whose reference  *)
(* passes to whoever tears the player down, and the seek worker.           *)
(***************************************************************************)
EXTENDS Integers, FiniteSets

CONSTANTS Players,         \* the handles MediaPlayerCreate gives out
          Nobody,          \* no player
          Hanging,         \* those whose native stop never returns
          MaxListeners,    \* bound on the listeners set in one behaviour
          MaxQueued,       \* bound on the events queued at once
          ReleasesPlaying  \* release() is called on players that may emit

ASSUME RegistryAssumption ==
    /\ Hanging \subseteq Players
    /\ Nobody \notin Players
    /\ MaxListeners \in Nat \ {0} /\ MaxQueued \in Nat \ {0}
    /\ ReleasesPlaying \in BOOLEAN

VARIABLES
    created,    \* the handles given out
    players,    \* the handles in g_players
    tsfn,       \* pe.tsfn and pe.jsCallbackRef: which listener, 0 for null
    fns,        \* what became of each listener's threadsafe function
    queued,     \* the number of events in each function's queue
    gmtx,       \* the owner of g_mtx between two steps
    js,         \* the native call the JS thread is in
    user,       \* the handle on the heap that the native events point to
    attached,   \* on_player_event is attached to the event manager
    playing,    \* libVLC has threads running that may emit events
    handler,    \* where on_player_event is
    worker,     \* the seek worker's thread
    teardown,   \* the background thread that ends the player
    holders     \* who owns a reference to the native player

registryVars == <<created, players, tsfn, fns>>
nativeVars == <<user, attached, playing, worker, teardown, holders>>
vars == <<registryVars, queued, gmtx, js, nativeVars, handler>>

Listeners == 1 .. MaxListeners

Handler == [at : {"idle", "entered", "found", "acquired"},
            by : {"vlc", "js"}, fn : 0 .. MaxListeners]

Calls == {"none", "control", "get", "detach", "join"}

NoCall == [call |-> "none", of |-> Nobody]

AtRest == [at |-> "idle", by |-> "vlc", fn |-> 0]

JsIdle == js.call = "none"

Alive(p) == holders[p] # {}

Init ==
    /\ created = {}
    /\ players = {}
    /\ tsfn = [p \in Players |-> 0]
    /\ fns = [n \in Listeners |-> "none"]
    /\ queued = [n \in Listeners |-> 0]
    /\ gmtx = "free"
    /\ js = NoCall
    /\ user = [p \in Players |-> "none"]
    /\ attached = [p \in Players |-> FALSE]
    /\ playing = [p \in Players |-> FALSE]
    /\ handler = [p \in Players |-> AtRest]
    /\ worker = [p \in Players |-> "none"]
    /\ teardown = [p \in Players |-> "none"]
    /\ holders = [p \in Players |-> {}]

-----------------------------------------------------------------------------
(***************************************************************************)
(* Operations of the JS thread                                             *)
(***************************************************************************)
(* MediaPlayerCreate, with CreateSeekWorker and AttachPlayerEventsLocked *)
Create(p) ==
    /\ JsIdle
    /\ p \notin created
    /\ created' = created \cup {p}
    /\ players' = players \cup {p}
    /\ user' = [user EXCEPT ![p] = "kept"]
    /\ attached' = [attached EXCEPT ![p] = TRUE]
    /\ worker' = [worker EXCEPT ![p] = "running"]
    /\ holders' = [holders EXCEPT ![p] = {"registry", "worker"}]
    /\ UNCHANGED <<tsfn, fns, queued, gmtx, js, playing, handler, teardown>>

MutantReleased(p) == fns

(* The entry's threadsafe function is given up: once nobody else has it    *)
(* acquired and its queue is empty the JS loop finalises it.               *)
Released(p) ==
    [n \in Listeners |-> IF n = tsfn[p] THEN "released" ELSE fns[n]]

(* MediaPlayerSetEventListener with a function: a new threadsafe function  *)
(* replaces the old one.                                                   *)
SetEventListener(p, n) ==
    /\ JsIdle
    /\ p \in players
    /\ fns[n] = "none"
    /\ \A m \in 1 .. n - 1 : fns[m] # "none"
    /\ fns' = [Released(p) EXCEPT ![n] = "open"]
    /\ tsfn' = [tsfn EXCEPT ![p] = n]
    /\ UNCHANGED <<created, players, queued, gmtx, js, nativeVars, handler>>

(* MediaPlayerSetEventListener with anything else *)
ClearEventListener(p) ==
    /\ JsIdle
    /\ p \in players
    /\ tsfn[p] # 0
    /\ fns' = Released(p)
    /\ tsfn' = [tsfn EXCEPT ![p] = 0]
    /\ UNCHANGED <<created, players, queued, gmtx, js, nativeVars, handler>>

MutantLockInCalls == "js"

(* Calls that may emit events are made outside g_mtx. *)
LockInCalls == "free"

(* MediaPlayerSetMedia: libVLC ends the old input and may emit events on   *)
(* this thread.                                                            *)
SetMedia(p) ==
    /\ JsIdle
    /\ p \in players
    /\ js' = [call |-> "control", of |-> p]
    /\ gmtx' = LockInCalls
    /\ playing' = [playing EXCEPT ![p] = TRUE]
    /\ UNCHANGED <<registryVars, queued, user, attached, worker, teardown,
                   holders, handler>>

(* MediaPlayerSetChapter; pause, rate, volume, scale, tracks and delays    *)
(* are set in the same way.                                                *)
Control(p) ==
    /\ JsIdle
    /\ p \in players
    /\ js' = [call |-> "control", of |-> p]
    /\ gmtx' = LockInCalls
    /\ UNCHANGED <<registryVars, queued, nativeVars, handler>>

(* The call returns once the player's threads are out of its way. *)
ControlReturns ==
    /\ js.call = "control"
    /\ handler[js.of].at = "idle"
    /\ js' = NoCall
    /\ gmtx' = "free"
    /\ UNCHANGED <<registryVars, queued, nativeVars, handler>>

(* MediaPlayerGetTime and the other getters ask libVLC under g_mtx. *)
Get(p) ==
    /\ JsIdle
    /\ p \in players
    /\ js' = [call |-> "get", of |-> p]
    /\ gmtx' = "js"
    /\ UNCHANGED <<registryVars, queued, nativeVars, handler>>

(* libVLC answers when no stop of the player is under way, which holds the *)
(* lock of its input.                                                      *)
GetReturns ==
    /\ js.call = "get"
    /\ teardown[js.of] # "stopping"
    /\ js' = NoCall
    /\ gmtx' = "free"
    /\ UNCHANGED <<registryVars, queued, nativeVars, handler>>

-----------------------------------------------------------------------------
(***************************************************************************)
(* Ends of a player                                                        *)
(***************************************************************************)
MutantWithout(p) == players

(* g_players.erase *)
Without(p) == players \ {p}

MutantUserAfterStop == "deleted"

(* The handle on the heap is left to events still on their way. *)
UserAfterStop == "kept"

(* What MediaPlayerStop and MediaPlayerReleaseAsync do alike: the entry is *)
(* taken out and a thread of its own ends the player.                      *)
EndInBackground(p) ==
    /\ JsIdle
    /\ p \in players
    /\ fns' = Released(p)
    /\ tsfn' = [tsfn EXCEPT ![p] = 0]
    /\ players' = Without(p)
    /\ user' = [user EXCEPT ![p] = UserAfterStop]
    /\ teardown' = [teardown EXCEPT ![p] = "started"]
    /\ UNCHANGED <<created, queued, gmtx, js, attached, playing, worker,
                   holders, handler>>

MediaPlayerStop(p) == EndInBackground(p)

MediaPlayerReleaseAsync(p) == EndInBackground(p)

(* MediaPlayerRelease takes g_mtx and detaches the listeners. *)
MediaPlayerRelease(p) ==
    /\ JsIdle
    /\ p \in players
    /\ ReleasesPlaying \/ ~playing[p]
    /\ js' = [call |-> "detach", of |-> p]
    /\ gmtx' = "js"
    /\ UNCHANGED <<registryVars, queued, nativeVars, handler>>

(* DetachPlayerEventsLocked waits for a handler under way; the entry goes, *)
(* g_mtx is given back and the seek worker told to end.                    *)
Detached ==
    LET p == js.of IN
    /\ js.call = "detach"
    /\ handler[p].at = "idle"
    /\ attached' = [attached EXCEPT ![p] = FALSE]
    /\ user' = [user EXCEPT ![p] = "deleted"]
    /\ fns' = Released(p)
    /\ tsfn' = [tsfn EXCEPT ![p] = 0]
    /\ players' = Without(p)
    /\ worker' = [worker EXCEPT ![p] = "ending"]
    /\ gmtx' = "free"
    /\ js' = [call |-> "join", of |-> p]
    /\ UNCHANGED <<created, queued, playing, teardown, holders, handler>>

MutantWorkerIsGone(p) == worker[p] # "running"

(* worker->thread.join() returns. *)
WorkerIsGone(p) == worker[p] = "exited"

(* The worker is joined and the native player released. *)
ReleaseReturns ==
    /\ js.call = "join"
    /\ WorkerIsGone(js.of)
    /\ playing' = [playing EXCEPT ![js.of] = FALSE]
    /\ holders' = [holders EXCEPT ![js.of] = @ \ {"registry"}]
    /\ js' = NoCall
    /\ UNCHANGED <<registryVars, queued, gmtx, user, attached, worker,
                   teardown, handler>>

(* The background thread: ShutdownSeekWorker signals the worker ... *)
TeardownBegins(p) ==
    /\ teardown[p] = "started"
    /\ worker' = [worker EXCEPT ![p] = "ending"]
    /\ teardown' = [teardown EXCEPT ![p] = "joining"]
    /\ UNCHANGED <<registryVars, queued, gmtx, js, user, attached, playing,
                   holders, handler>>

(* ... and joins it; libvlc_media_player_stop is called ... *)
TeardownStops(p) ==
    /\ teardown[p] = "joining"
    /\ WorkerIsGone(p)
    /\ teardown' = [teardown EXCEPT ![p] = "stopping"]
    /\ UNCHANGED <<registryVars, queued, gmtx, js, user, attached, playing,
                   worker, holders, handler>>

(* ... which ends the player's threads, and the reference is given back.   *)
TeardownEnds(p) ==
    /\ teardown[p] = "stopping"
    /\ p \notin Hanging
    /\ handler[p].at = "idle"
    /\ teardown' = [teardown EXCEPT ![p] = "done"]
    /\ playing' = [playing EXCEPT ![p] = FALSE]
    /\ holders' = [holders EXCEPT ![p] = @ \ {"registry"}]
    /\ UNCHANGED <<registryVars, queued, gmtx, js, user, attached, worker,
                   handler>>

MutantHoldersAfterExit(p) == holders[p]

HoldersAfterExit(p) == holders[p] \ {"worker"}

(* The end of RunSeekWorker: the reference is given back. *)
WorkerGoes(p) ==
    /\ worker' = [worker EXCEPT ![p] = "exited"]
    /\ holders' = [holders EXCEPT ![p] = HoldersAfterExit(p)]
    /\ UNCHANGED <<registryVars, queued, gmtx, js, user, attached, playing,
                   teardown, handler>>

(* RunSeekWorker leaves its loop once it was told to. *)
WorkerExits(p) == worker[p] = "ending" /\ WorkerGoes(p)

-----------------------------------------------------------------------------
(***************************************************************************)
(* on_player_event, on a thread of libVLC or inside a call of the JS       *)
(* thread, and the JS loop                                                 *)
(***************************************************************************)
(* libVLC sends an event: its manager is locked and the handle is read. *)
Enter(p, thread) ==
    /\ attached[p] /\ Alive(p)
    /\ handler[p].at = "idle"
    /\ \A n \in Listeners : queued[n] < MaxQueued
    /\ \/ thread = "vlc" /\ playing[p]
       \/ thread = "js" /\ js = [call |-> "control", of |-> p]
    /\ handler' = [handler EXCEPT ![p] = [at |-> "entered", by |-> thread, fn |-> 0]]
    /\ UNCHANGED <<registryVars, queued, gmtx, js, nativeVars>>

(* g_mtx is taken and the threadsafe function looked up. *)
LookUp(p) ==
    /\ handler[p].at = "entered"
    /\ gmtx = "free"
    /\ handler' = [handler EXCEPT ![p] =
                      IF p \in players /\ tsfn[p] # 0
                      THEN [@ EXCEPT !.at = "found", !.fn = tsfn[p]]
                      ELSE AtRest]
    /\ UNCHANGED <<registryVars, queued, gmtx, js, nativeVars>>

(* EmitPlayerEventTsfn acquires the function it was given.  When the JS    *)
(* loop has finalised it meanwhile, what the call does is not defined: the *)
(* event is taken to be dropped.                                           *)
Acquire(p) ==
    /\ handler[p].at = "found"
    /\ handler' = [handler EXCEPT ![p] =
                      IF fns[handler[p].fn] = "finalized"
                      THEN AtRest ELSE [@ EXCEPT !.at = "acquired"]]
    /\ UNCHANGED <<registryVars, queued, gmtx, js, nativeVars>>

(* The payload is queued without waiting and the function given back. *)
Post(p) ==
    /\ handler[p].at = "acquired"
    /\ queued' = [queued EXCEPT ![handler[p].fn] = @ + 1]
    /\ handler' = [handler EXCEPT ![p] = AtRest]
    /\ UNCHANGED <<registryVars, gmtx, js, nativeVars>>

(* call_js: the callback of the player, if it is registered and has one,   *)
(* is called, and the payload deleted in any case.  What the callback does *)
(* are steps of the JS thread that may follow.                             *)
Deliver(n) ==
    /\ JsIdle
    /\ queued[n] > 0
    /\ queued' = [queued EXCEPT ![n] = @ - 1]
    /\ UNCHANGED <<registryVars, gmtx, js, nativeVars, handler>>

(* The loop finalises a released function with an empty queue. *)
Finalize(n) ==
    /\ JsIdle
    /\ fns[n] = "released"
    /\ queued[n] = 0
    /\ \A p \in Players : ~(handler[p].at = "acquired" /\ handler[p].fn = n)
    /\ fns' = [fns EXCEPT ![n] = "finalized"]
    /\ UNCHANGED <<created, players, tsfn, queued, gmtx, js, nativeVars, handler>>

-----------------------------------------------------------------------------
JsCalls(p) ==
    \/ Create(p) \/ ClearEventListener(p) \/ SetMedia(p) \/ Control(p) \/ Get(p)
    \/ \E n \in Listeners : SetEventListener(p, n)
    \/ MediaPlayerStop(p) \/ MediaPlayerReleaseAsync(p) \/ MediaPlayerRelease(p)

JsGoesOn == ControlReturns \/ GetReturns \/ Detached \/ ReleaseReturns

JsLoop(n) == Deliver(n) \/ Finalize(n)

Handles(p) == LookUp(p) \/ Acquire(p) \/ Post(p)

TearsDown(p) == TeardownBegins(p) \/ TeardownStops(p) \/ TeardownEnds(p)

Next ==
    \/ JsGoesOn
    \/ \E n \in Listeners : JsLoop(n)
    \/ \E p \in Players :
          \/ JsCalls(p) \/ Handles(p) \/ TearsDown(p) \/ WorkerExits(p)
          \/ \E thread \in {"vlc", "js"} : Enter(p, thread)

Spec == Init /\ [][Next]_vars

(* A native call whose wait is over returns, the JS loop serves its queue, *)
(* and the threads are scheduled.  A lock that is free again and again is  *)
(* had in the end (strong fairness): getters do not keep a handler from    *)
(* g_mtx for ever, nor handlers a call from the event manager.  The native *)
(* stop of a hanging player never returns: it is not enabled.              *)
FairSpec ==
    /\ Spec
    /\ SF_vars(JsGoesOn)
    /\ \A n \in Listeners : SF_vars(JsLoop(n))
    /\ \A p \in Players :
          /\ SF_vars(Handles(p))
          /\ WF_vars(WorkerExits(p))
          /\ SF_vars(TearsDown(p))

-----------------------------------------------------------------------------
TypeOK ==
    /\ created \subseteq Players
    /\ players \subseteq created
    /\ tsfn \in [Players -> 0 .. MaxListeners]
    /\ fns \in [Listeners -> {"none", "open", "released", "finalized"}]
    /\ queued \in [Listeners -> Nat]
    /\ gmtx \in {"free", "js"}
    /\ js \in [call : Calls, of : Players \cup {Nobody}]
    /\ user \in [Players -> {"none", "kept", "deleted"}]
    /\ attached \in [Players -> BOOLEAN]
    /\ playing \in [Players -> BOOLEAN]
    /\ handler \in [Players -> Handler]
    /\ worker \in [Players -> {"none", "running", "ending", "exited"}]
    /\ teardown \in [Players -> {"none", "started", "joining", "stopping", "done"}]
    /\ holders \in [Players -> SUBSET {"registry", "worker"}]

(* No event can find the handle it points to deleted: only a release that  *)
(* detached the listeners, and so waited for the handler under way, frees  *)
(* it; stop and releaseAsync, which must not wait, leave it                *)
(* (MediaPlayerReleaseAsync, on_player_event).                             *)
NoDanglingUser ==
    \A p \in Players :
        user[p] = "deleted" => ~attached[p] /\ handler[p].at # "entered"

(* A threadsafe function that has not been given up is the one in the      *)
(* entry of a registered player: replacing, clearing, stopping and         *)
(* releasing leave none behind that would keep the JS loop and its         *)
(* callback alive (MediaPlayerSetEventListener, MediaPlayerStop).          *)
NoFunctionLeft ==
    \A n \in Listeners :
        fns[n] = "open" => \E p \in players : tsfn[p] = n

(* The JS thread never holds g_mtx while it waits for something that waits *)
(* for g_mtx: a handler on its way to the registry, or a native stop whose *)
(* threads are in such a handler (MediaPlayerSetMedia, MediaPlayerRelease, *)
(* MediaPlayerGetTime).                                                    *)
NoEmbrace ==
    gmtx = "js" =>
        /\ js.call \in {"control", "detach"} => handler[js.of].at # "entered"
        /\ js.call = "get" => teardown[js.of] = "none"

(* The JS thread is never stuck in the bridge: not when a handler waits    *)
(* for g_mtx, not when a native stop never returns (MediaPlayerStop,       *)
(* MediaPlayerSetMedia, the getters).                                      *)
JsReturns == js.call # "none" ~> js.call = "none"

(* Every player taken out of the registry is freed in the end, with its    *)
(* worker and its thread, unless libVLC's stop hangs (ShutdownSeekWorker,  *)
(* RunSeekWorker, MediaPlayerStop).                                        *)
EndedIsFreed ==
    \A p \in Players \ Hanging :
        p \in created /\ p \notin players ~> ~Alive(p) /\ worker[p] = "exited"
=============================================================================
