---------------------------- MODULE Diagnostics ----------------------------
(***************************************************************************)
(* The playback trace (PlaybackDiagnostics in playback_diagnostics.h and   *)
(* the log callbacks of vlc_napi.cpp): threads of libVLC and FFmpeg submit *)
(* messages without ever waiting, a worker writes them to the system log,  *)
(* the JS thread switches the trace on and off.                            *)
(*                                                                         *)
(* A critical section of lock_ is two steps, entering it and the rest, so  *)
(* that a try_lock can find it taken.  The one-second window of the budget *)
(* may end at any message, the one-second report comes due at any time.    *)
(***************************************************************************)
EXTENDS Integers, FiniteSets

CONSTANTS Producers,   \* the threads that log
          QueueMax,    \* entries the queue may hold (256)
          Budget,      \* entries a window may add (400)
          MaxDropped   \* bound on the omissions not yet reported

ASSUME DiagnosticsAssumption ==
    /\ QueueMax \in Nat \ {0} /\ Budget \in Nat \ {0} /\ MaxDropped \in Nat
    /\ IsFiniteSet(Producers)
    /\ Producers \cap {"free", "worker", "js"} = {}

VARIABLES
    enabled,     \* enabled_
    dropped,     \* dropped_
    queue,       \* the number of entries in queue_
    budget,      \* budget_
    lock,        \* the owner of lock_
    producer,    \* where each thread is in Submit
    held,        \* the entry the worker has popped: 0 or 1
    worker,      \* where the worker is
    reportDue,   \* a second has passed since report
    switch,      \* the value SetEnabled is about to store, while it has the lock
    balance      \* history: messages taken by Submit less those accounted for

traceVars == <<enabled, dropped, queue, budget, lock, producer, held, worker,
          reportDue, switch, balance>>

Contended == {p \in Producers : producer[p] = "contended"}

TraceInit ==
    /\ enabled = FALSE
    /\ dropped = 0
    /\ queue = 0
    /\ budget = 0
    /\ lock = "free"
    /\ producer = [p \in Producers |-> "away"]
    /\ held = 0
    /\ worker = "waiting"
    /\ reportDue = FALSE
    /\ switch = FALSE
    /\ balance = 0

-----------------------------------------------------------------------------
(***************************************************************************)
(* Submit, called by OnLibvlcLog and OnFfmpegLog                           *)
(***************************************************************************)
Moves(p, place) == producer' = [producer EXCEPT ![p] = place]

(* OnLibvlcLog and Submit see the trace enabled.  A message that finds it  *)
(* disabled goes to the system log or nowhere and leaves no trace here.    *)
SeesEnabled(p) ==
    /\ producer[p] = "away"
    /\ enabled
    /\ dropped + Cardinality(Producers) < MaxDropped
    /\ Moves(p, "checked")
    /\ UNCHANGED <<enabled, dropped, queue, budget, lock, held, worker, reportDue,
                   switch, balance>>

(* try_lock fails: the message is given up at once ... *)
TryLockFails(p) ==
    /\ producer[p] = "checked"
    /\ lock # "free"
    /\ Moves(p, "contended")
    /\ balance' = balance + 1
    /\ UNCHANGED <<enabled, dropped, queue, budget, lock, held, worker, reportDue,
                   switch>>

MutantCountContended == dropped

CountContended == dropped + 1

(* ... and counted, without the lock. *)
CountsDrop(p) ==
    /\ producer[p] = "contended"
    /\ dropped' = CountContended
    /\ Moves(p, "away")
    /\ UNCHANGED <<enabled, queue, budget, lock, held, worker, reportDue, switch,
                   balance>>

TryLockSucceeds(p) ==
    /\ producer[p] = "checked"
    /\ lock = "free"
    /\ lock' = p
    /\ Moves(p, "inside")
    /\ UNCHANGED <<enabled, dropped, queue, budget, held, worker, reportDue,
                   switch, balance>>

MutantStillEnabled == TRUE

(* Enabled() again, now under the lock. *)
StillEnabled == enabled

MutantFull(spent) == queue > QueueMax \/ spent >= Budget

Full(spent) == queue >= QueueMax \/ spent >= Budget

(* The rest of Submit.  The window may be over, which renews the budget. *)
Submits(p) ==
    /\ producer[p] = "inside"
    /\ lock' = "free"
    /\ Moves(p, "away")
    /\ IF StillEnabled
       THEN /\ balance' = balance + 1
            /\ \E spent \in {budget, 0} :
                 IF Full(spent)
                 THEN budget' = spent /\ dropped' = dropped + 1 /\ UNCHANGED queue
                 ELSE budget' = spent + 1 /\ queue' = queue + 1 /\ UNCHANGED dropped
       ELSE UNCHANGED <<dropped, queue, budget, balance>>
    /\ UNCHANGED <<enabled, held, worker, reportDue, switch>>

-----------------------------------------------------------------------------
(***************************************************************************)
(* SetEnabled (the JS thread)                                              *)
(***************************************************************************)
LocksSwitch(on) ==
    /\ lock = "free"
    /\ lock' = "js"
    /\ switch' = on
    /\ UNCHANGED <<enabled, dropped, queue, budget, producer, held, worker,
                   reportDue, balance>>

SetEnabled ==
    /\ lock = "js"
    /\ lock' = "free"
    /\ enabled' = switch
    /\ queue' = 0 /\ dropped' = 0 /\ budget' = 0
    /\ balance' = held + Cardinality(Contended)
    /\ UNCHANGED <<producer, held, worker, reportDue, switch>>

-----------------------------------------------------------------------------
(***************************************************************************)
(* Run (the worker)                                                        *)
(***************************************************************************)
MutantWakes == queue > 0

(* The wait ends with an entry in the queue or after a second. *)
Wakes == TRUE

WorkerLocks ==
    /\ worker = "waiting"
    /\ lock = "free"
    /\ Wakes
    /\ lock' = "worker"
    /\ worker' = "popping"
    /\ UNCHANGED <<enabled, dropped, queue, budget, producer, held, reportDue,
                   switch, balance>>

Pops ==
    /\ worker = "popping"
    /\ IF queue > 0
       THEN queue' = queue - 1 /\ held' = 1
       ELSE UNCHANGED <<queue, held>>
    /\ lock' = "free"
    /\ worker' = "writing"
    /\ UNCHANGED <<enabled, dropped, budget, producer, reportDue, switch, balance>>

(* The entry goes to the sink, or nowhere if the trace was disabled. *)
Writes ==
    /\ worker = "writing"
    /\ held' = 0
    /\ balance' = balance - held
    /\ worker' = "reporting"
    /\ UNCHANGED <<enabled, dropped, queue, budget, lock, producer, reportDue,
                   switch>>

(* Once a second the omissions are reported and their count reset. *)
Reports ==
    /\ worker = "reporting"
    /\ IF reportDue
       THEN dropped' = 0 /\ balance' = balance - dropped /\ reportDue' = FALSE
       ELSE UNCHANGED <<dropped, balance, reportDue>>
    /\ worker' = "waiting"
    /\ UNCHANGED <<enabled, queue, budget, lock, producer, held, switch>>

SecondPasses ==
    /\ ~reportDue
    /\ reportDue' = TRUE
    /\ UNCHANGED <<enabled, dropped, queue, budget, lock, producer, held, worker,
                   switch, balance>>

-----------------------------------------------------------------------------
Submit(p) ==
    TryLockFails(p) \/ CountsDrop(p) \/ TryLockSucceeds(p) \/ Submits(p)

Run == WorkerLocks \/ Pops \/ Writes \/ Reports

TraceNext ==
    \/ \E p \in Producers : SeesEnabled(p) \/ Submit(p)
    \/ \E on \in BOOLEAN : LocksSwitch(on)
    \/ SetEnabled
    \/ Run
    \/ SecondPasses

TraceSpec == TraceInit /\ [][TraceNext]_traceVars

(* Threads are scheduled and a second passes.  Producers only try the lock *)
(* and nobody keeps it, so the worker gets it (strong fairness).  No one   *)
(* need log or use the switch.                                             *)
TraceFairSpec ==
    /\ TraceSpec
    /\ \A p \in Producers : WF_traceVars(Submit(p))
    /\ WF_traceVars(SetEnabled)
    /\ SF_traceVars(Run)
    /\ WF_traceVars(SecondPasses)

-----------------------------------------------------------------------------
(* The queue and the budget stay within what the header announces. *)
TraceTypeOK ==
    /\ enabled \in BOOLEAN /\ reportDue \in BOOLEAN /\ switch \in BOOLEAN
    /\ dropped \in Nat
    /\ queue \in 0 .. QueueMax
    /\ budget \in 0 .. Budget
    /\ lock \in Producers \cup {"free", "worker", "js"}
    /\ producer \in [Producers -> {"away", "checked", "contended", "inside"}]
    /\ held \in {0, 1}
    /\ worker \in {"waiting", "popping", "writing", "reporting"}
    /\ balance \in Int

(* No message vanishes: what Submit took since the switch was last used is *)
(* written, waits in the queue or the worker's hand, or is counted among   *)
(* the omissions, although a message that finds the lock taken is given up *)
(* without it (Submit, Run, SetEnabled).                                   *)
NothingLost ==
    balance = queue + held + dropped + Cardinality(Contended)

(* With the trace off the queue is empty: a message on its way when the    *)
(* switch was turned is not kept to turn up in the next trace (Submit,     *)
(* SetEnabled).                                                            *)
OffIsEmpty == ~enabled => queue = 0

(* Omissions are reported, also when no message follows to wake the        *)
(* worker (Run).                                                           *)
OmissionsAreReported == dropped > 0 ~> dropped = 0
=============================================================================
