--------------------------- MODULE SeekingPlayer ---------------------------
(***************************************************************************)
(* The registry of players with the seek worker of one of them, Watched,   *)
(* in full (entry/src/main/cpp/vlc_napi.cpp): what PlayerRegistry knows of *)
(* that worker, told to end and gone, is here what SeekWorker does, and    *)
(* what SeekWorker takes for the thread that releases the player is here   *)
(* the JS thread or the background thread of PlayerRegistry.               *)
(*                                                                         *)
(* Each guard is left to the component whose code has it: the worker goes  *)
(* when its own loop sees stopping, and the join returns when the thread   *)
(* is gone.  That the guards of the other component hold as well is proved *)
(* in PlayerRegistryProofs.                                                *)
(***************************************************************************)
EXTENDS PlayerRegistry, SeekWorker

CONSTANT Watched  \* the player whose worker this is

ASSUME WatchedAssumption == Watched \in Players

(* Before MediaPlayerCreate the worker's variables are as CreateSeekWorker *)
(* will set them.                                                          *)
SeekingInit == Init /\ SeekInit

-----------------------------------------------------------------------------
(* MediaPlayerSetTime and MediaPlayerSetPosition *)
SetTime(t) ==
    /\ JsIdle
    /\ Watched \in players
    /\ QueueSeek(t)
    /\ UNCHANGED vars

(* RunSeekWorker, as long as it goes on *)
WorkerGoesOn ==
    /\ \/ BeginWindow \/ RestartWindow
       \/ TakeRequest \/ FinishSeek
    /\ UNCHANGED vars

Ages == AgeLastApplied /\ UNCHANGED vars

(* The thread of p's worker ends. *)
Exits(p) ==
    IF p = Watched THEN ExitWorker /\ WorkerGoes(p)
    ELSE WorkerExits(p) /\ UNCHANGED seekVars

(* ShutdownSeekWorker: p's worker is told to end ... *)
Signals(p) == IF p = Watched THEN SignalStop ELSE UNCHANGED seekVars

(* ... and was joined. *)
Joins(p) == IF p = Watched THEN JoinReturns ELSE UNCHANGED seekVars

(* MediaPlayerRelease signals and joins on the JS thread.  What the worker *)
(* does between the end of the section under g_mtx and the signal it could *)
(* as well have done before. *)
JsEnds ==
    \/ Detached /\ Signals(js.of)
    \/ ReleaseReturns /\ Joins(js.of)
    \/ (ControlReturns \/ GetReturns) /\ UNCHANGED seekVars

(* MediaPlayerStop and MediaPlayerReleaseAsync do on a thread of their own. *)
Ends(p) ==
    \/ TeardownBegins(p) /\ Signals(p)
    \/ TeardownStops(p) /\ Joins(p)
    \/ TeardownEnds(p) /\ UNCHANGED seekVars

(* The rest of the registry does not touch the worker. *)
RegistryAlone ==
    /\ \/ \E n \in Listeners : JsLoop(n)
       \/ \E p \in Players :
             \/ JsCalls(p) \/ Handles(p)
             \/ \E thread \in {"vlc", "js"} : Enter(p, thread)
    /\ UNCHANGED seekVars

SeekingNext ==
    \/ \E t \in Targets : SetTime(t)
    \/ WorkerGoesOn \/ Ages
    \/ JsEnds \/ RegistryAlone
    \/ \E p \in Players : Exits(p) \/ Ends(p)

SeekingSpec == SeekingInit /\ [][SeekingNext]_<<vars, seekVars>>

(* As in PlayerRegistry and SeekWorker: the threads are scheduled, libVLC's *)
(* seek returns, and a lock that is free again and again is had at last.   *)
SeekingFairSpec ==
    /\ SeekingSpec
    /\ WF_seekVars(WorkerGoesOn)
    /\ SF_vars(JsEnds)
    /\ \A p \in Players :
          /\ SF_vars(Handles(p) /\ UNCHANGED seekVars)
          /\ WF_vars(Exits(p))
          /\ SF_vars(Ends(p))

-----------------------------------------------------------------------------
(* libVLC never ends or frees a player that it is still seeking in: from   *)
(* the moment the worker calls it until it returns, the registry's         *)
(* reference and the worker's are held and the native stop has not begun   *)
(* (RunSeekWorker calls libVLC without a lock; MediaPlayerStop,            *)
(* MediaPlayerReleaseAsync and MediaPlayerRelease join it before they stop *)
(* or release).                                                            *)
SeeksEndBeforeStop ==
    pc = "applying" =>
        /\ holders[Watched] = {"registry", "worker"}
        /\ teardown[Watched] \notin {"stopping", "done"}

(* What the registry knows of the worker is what the worker did: the       *)
(* composition implements both its parts.                                  *)
ImplementsRegistry == Spec

ImplementsWorker == SeekSpec
=============================================================================
