----------------------------- MODULE SeekWorker -----------------------------
(***************************************************************************)
(* The seek worker of one native player (entry/src/main/cpp/vlc_napi.cpp): *)
(* the JS thread queues seeks, a worker thread coalesces them and calls    *)
(* libVLC outside the lock, and the thread that tears the player down      *)
(* stops the worker and joins it.  Each action is one critical section of  *)
(* worker->mutex, or the native call between two of them.                  *)
(*                                                                         *)
(* A target stands for a SeekKind with its time or position.  The 24 ms    *)
(* window and the 250 ms age of the last applied seek are not measured:    *)
(* both may run out at any moment.                                         *)
(***************************************************************************)
EXTENDS Naturals

CONSTANTS Targets,      \* what can be sought to
          NoRequest,    \* the value of an empty optional request
          MaxRequests   \* bound on the requests accepted in one behaviour

ASSUME SeekAssumption ==
    /\ NoRequest \notin [target : Targets, serial : Nat \ {0}]
    /\ MaxRequests \in Nat

VARIABLES
    pc,           \* where the worker thread is
    stopping,
    nextSerial,
    hasPending,
    pending,      \* keeps its old content when hasPending is reset
    inFlight,     \* hasInFlight with inFlight
    lastApplied,  \* hasLastApplied with lastApplied
    recent,       \* lastAppliedAt is less than 250 ms ago
    observed,     \* observedSerial
    mpHeld,       \* the worker's own reference to the native player
    joined        \* ShutdownSeekWorker has returned

seekVars == <<pc, stopping, nextSerial, hasPending, pending, inFlight, lastApplied, recent,
          observed, mpHeld, joined>>

SeekRequest == [target : Targets, serial : Nat \ {0}]

Optional == SeekRequest \cup {NoRequest}

(* What waits in the slot. *)
Waiting == IF hasPending THEN pending ELSE NoRequest

(* The request r, if there is one, asks for target t. *)
SameTarget(r, t) == r # NoRequest /\ r.target = t

(* CreateSeekWorker *)
SeekInit ==
    /\ pc = "waiting"
    /\ stopping = FALSE
    /\ nextSerial = 0
    /\ hasPending = FALSE
    /\ pending = NoRequest
    /\ inFlight = NoRequest
    /\ lastApplied = NoRequest
    /\ recent = FALSE
    /\ observed = 0
    /\ mpHeld = TRUE
    /\ joined = FALSE

(***************************************************************************)
(* Callers of QueueSeek (the JS thread)                                    *)
(***************************************************************************)
(* The filter of QueueSeek: the request is dropped as a duplicate. *)
Duplicate(t) ==
    \/ SameTarget(Waiting, t)
    \/ SameTarget(inFlight, t)
    \/ recent /\ SameTarget(lastApplied, t)

MutantEnqueueReusesSerial(t) ==
    /\ nextSerial' = IF hasPending THEN nextSerial ELSE nextSerial + 1
    /\ hasPending' = TRUE
    /\ pending' = [target |-> t, serial |-> nextSerial']

Enqueue(t) ==
    /\ nextSerial' = nextSerial + 1
    /\ hasPending' = TRUE
    /\ pending' = [target |-> t, serial |-> nextSerial']

QueueSeek(t) ==
    /\ ~stopping
    /\ IF Duplicate(t)
       THEN UNCHANGED <<nextSerial, hasPending, pending>>
       ELSE nextSerial < MaxRequests /\ Enqueue(t)
    /\ UNCHANGED <<pc, stopping, inFlight, lastApplied, recent, observed,
                   mpHeld, joined>>

(***************************************************************************)
(* RunSeekWorker (the worker thread)                                       *)
(***************************************************************************)
(* The wait ends on a request: the quiet period starts. *)
BeginWindow ==
    /\ pc = "waiting"
    /\ ~stopping
    /\ hasPending
    /\ observed' = pending.serial
    /\ pc' = "window"
    /\ UNCHANGED <<stopping, nextSerial, hasPending, pending, inFlight,
                   lastApplied, recent, mpHeld, joined>>

(* A newer request within the window starts the window again. *)
RestartWindow ==
    /\ pc = "window"
    /\ ~stopping
    /\ hasPending /\ pending.serial # observed
    /\ observed' = pending.serial
    /\ UNCHANGED <<pc, stopping, nextSerial, hasPending, pending, inFlight,
                   lastApplied, recent, mpHeld, joined>>

(* The window ended without a newer request and the worker may go on. *)
MayTake ==
    /\ pc = "window"
    /\ ~stopping
    /\ ~(hasPending /\ pending.serial # observed)

TakeRequest ==
    /\ MayTake
    /\ inFlight' = pending
    /\ hasPending' = FALSE
    /\ pc' = "applying"
    /\ UNCHANGED <<stopping, nextSerial, pending, lastApplied, recent,
                   observed, mpHeld, joined>>

MutantFinishSeekClearsSlot ==
    /\ pc = "applying"
    /\ lastApplied' = inFlight
    /\ recent' = TRUE
    /\ inFlight' = NoRequest
    /\ hasPending' = FALSE
    /\ pc' = "waiting"
    /\ UNCHANGED <<stopping, nextSerial, pending, observed, mpHeld, joined>>

(* libvlc_media_player_set_time or set_position returned. *)
FinishSeek ==
    /\ pc = "applying"
    /\ lastApplied' = inFlight
    /\ recent' = TRUE
    /\ inFlight' = NoRequest
    /\ pc' = "waiting"
    /\ UNCHANGED <<stopping, nextSerial, hasPending, pending, observed, mpHeld,
                   joined>>

MutantMayExitOnlyIdle == stopping /\ pc = "waiting"

MayExit == stopping /\ pc \in {"waiting", "window"}

(* Either wait sees stopping: the worker leaves its loop and gives up its  *)
(* reference to the native player.                                         *)
ExitWorker ==
    /\ MayExit
    /\ pc' = "exited"
    /\ mpHeld' = FALSE
    /\ UNCHANGED <<stopping, nextSerial, hasPending, pending, inFlight, lastApplied,
                   recent, observed, joined>>

(* The last applied seek becomes 250 ms old. *)
AgeLastApplied ==
    /\ recent
    /\ recent' = FALSE
    /\ UNCHANGED <<pc, stopping, nextSerial, hasPending, pending, inFlight, lastApplied,
                   observed, mpHeld, joined>>

(***************************************************************************)
(* ShutdownSeekWorker (the thread that releases the player)                *)
(***************************************************************************)
(* Its critical section *)
SignalStop ==
    /\ stopping' = TRUE
    /\ hasPending' = FALSE
    /\ UNCHANGED <<pc, nextSerial, pending, inFlight, lastApplied, recent,
                   observed, mpHeld, joined>>

BeginShutdown == ~stopping /\ SignalStop

JoinReturns ==
    /\ joined' = TRUE
    /\ UNCHANGED <<pc, stopping, nextSerial, hasPending, pending, inFlight, lastApplied,
                   recent, observed, mpHeld>>

(* thread.join() returns when the worker thread is gone. *)
JoinWorker == stopping /\ ~joined /\ pc = "exited" /\ JoinReturns

Worker == BeginWindow \/ RestartWindow \/ TakeRequest \/ FinishSeek \/ ExitWorker

SeekNext ==
    \/ \E t \in Targets : QueueSeek(t)
    \/ Worker
    \/ AgeLastApplied
    \/ BeginShutdown
    \/ JoinWorker

SeekSpec == SeekInit /\ [][SeekNext]_seekVars

-----------------------------------------------------------------------------
SeekTypeOK ==
    /\ pc \in {"waiting", "window", "applying", "exited"}
    /\ stopping \in BOOLEAN
    /\ nextSerial \in Nat
    /\ hasPending \in BOOLEAN
    /\ pending \in Optional
    /\ inFlight \in Optional
    /\ lastApplied \in Optional
    /\ recent \in BOOLEAN
    /\ observed \in Nat
    /\ mpHeld \in BOOLEAN
    /\ joined \in BOOLEAN

(* The serial of the newest request that was handed to libVLC. *)
Served ==
    IF inFlight # NoRequest THEN inFlight.serial
    ELSE IF lastApplied # NoRequest THEN lastApplied.serial ELSE 0

(* One user action never flushes the decoder twice: whatever waits differs *)
(* from what libVLC is executing and from what it executed in the last     *)
(* 250 ms (the duplicate filter of QueueSeek together with the hand-over   *)
(* in RunSeekWorker).                                                      *)
NoDoubleFlush ==
    hasPending =>
        /\ inFlight # NoRequest => pending.target # inFlight.target
        /\ inFlight = NoRequest /\ recent => ~SameTarget(lastApplied, pending.target)

(* Seeks reach libVLC in the order they were accepted and none reaches it  *)
(* twice: what waits is newer than what was handed over, and the slot      *)
(* holds the newest serial of all.                                         *)
ServedInOrder ==
    /\ hasPending => Served < pending.serial /\ pending.serial = nextSerial
    /\ inFlight # NoRequest /\ lastApplied # NoRequest =>
          lastApplied.serial < inFlight.serial

(* The worker gives its reference up last: no native call runs without it, *)
(* and the thread that destroys the player continues only after that.      *)
NativePlayerOutlivesCalls ==
    /\ inFlight # NoRequest => mpHeld
    /\ joined => ~mpHeld /\ inFlight = NoRequest

(* Once the shutdown began no further seek is handed to libVLC. *)
NoSeekStartsAfterShutdown == [][stopping => (inFlight' \in {inFlight, NoRequest})]_seekVars

(* Every accepted request is handed over, overtaken by a newer one that is *)
(* handed over, or cancelled by the shutdown.                              *)
AcceptedIsServed ==
    \A n \in 1 .. MaxRequests : (nextSerial >= n) ~> (Served >= n \/ stopping)

Mailbox == INSTANCE SeekMailbox WITH
    Empty <- NoRequest, slot <- Waiting, served <- Served,
    accepted <- nextSerial, closed <- stopping

(* The worker implements the one-slot mailbox. *)
ImplementsMailbox == Mailbox!Spec
=============================================================================
