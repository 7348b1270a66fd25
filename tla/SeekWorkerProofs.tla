-------------------------- MODULE SeekWorkerProofs --------------------------
(***************************************************************************)
(* Proofs about the seek worker, for every set of targets and every bound  *)
(* on the requests.                                                        *)
(***************************************************************************)
EXTENDS SeekWorker, TLAPS

(* What holds between the control state and the slots at every step. *)
SlotsFit ==
    /\ hasPending => pending # NoRequest /\ ~stopping
    /\ pc = "window" => pending # NoRequest /\ (stopping \/ hasPending)
    /\ (pc = "applying") <=> (inFlight # NoRequest)
    /\ mpHeld <=> (pc # "exited")
    /\ joined => pc = "exited"
    /\ inFlight # NoRequest => inFlight.serial <= nextSerial
    /\ lastApplied # NoRequest => lastApplied.serial <= nextSerial

(* NoDoubleFlush needs the slots' exclusiveness and ServedInOrder needs    *)
(* the bound of every serial by nextSerial: SlotsFit has both.              *)
SeekInv == SeekTypeOK /\ SlotsFit /\ NoDoubleFlush /\ ServedInOrder

(* An optional request is a request with a target and a positive serial,   *)
(* or nothing.                                                             *)
LEMMA OptionalFacts ==
    /\ NoRequest \in Optional
    /\ \A t \in Targets, n \in Nat \ {0} :
          /\ [target |-> t, serial |-> n] \in Optional
          /\ [target |-> t, serial |-> n] # NoRequest
    /\ \A r \in Optional : r # NoRequest =>
          r.target \in Targets /\ r.serial \in Nat \ {0}
BY SeekAssumption DEF Optional, SeekRequest

LEMMA SeekInitInv == SeekInit => SeekInv
<1> SUFFICES ASSUME SeekInit PROVE SeekInv
  OBVIOUS
<1>1. SeekTypeOK
  BY OptionalFacts DEF SeekInit, SeekTypeOK
<1>2. SlotsFit
  BY DEF SeekInit, SlotsFit
<1>3. NoDoubleFlush /\ ServedInOrder
  BY DEF SeekInit, NoDoubleFlush, ServedInOrder
<1> QED BY <1>1, <1>2, <1>3 DEF SeekInv

LEMMA QueueSeekKeeps ==
    ASSUME SeekInv, NEW t \in Targets, QueueSeek(t)
    PROVE  SeekInv'
<1>1. CASE Duplicate(t)
  BY <1>1 DEF QueueSeek, SeekInv, SeekTypeOK, SlotsFit, NoDoubleFlush, ServedInOrder,
              SameTarget, Served
<1>2. CASE ~Duplicate(t)
  <2>1. Enqueue(t)
    BY <1>2 DEF QueueSeek
  <2>2. pending' = [target |-> t, serial |-> nextSerial + 1]
    BY <2>1 DEF Enqueue
  <2>3. /\ pending' \in Optional /\ pending' # NoRequest
        /\ pending'.target = t /\ pending'.serial = nextSerial + 1
    BY <2>2, OptionalFacts DEF SeekInv, SeekTypeOK
  <2>4. SeekTypeOK'
    BY <2>1, <2>3 DEF QueueSeek, Enqueue, SeekInv, SeekTypeOK
  <2>5. SlotsFit'
    BY <2>1, <2>3, OptionalFacts DEF QueueSeek, Enqueue, SeekInv, SeekTypeOK, SlotsFit
  <2>6. NoDoubleFlush'
    BY <2>3, <1>2 DEF QueueSeek, Duplicate, SameTarget, NoDoubleFlush
  <2>7. ServedInOrder'
    BY <2>1, <2>3, OptionalFacts
       DEF QueueSeek, Enqueue, SeekInv, SeekTypeOK, SlotsFit, ServedInOrder, Served
  <2> QED BY <2>4, <2>5, <2>6, <2>7 DEF SeekInv
<1> QED BY <1>1, <1>2

LEMMA TakeRequestKeeps == ASSUME SeekInv, TakeRequest PROVE SeekInv'
<1>1. /\ hasPending /\ pending # NoRequest
      /\ inFlight' = pending /\ ~hasPending'
      /\ pending.serial = nextSerial /\ pending.serial > Served
  BY DEF TakeRequest, MayTake, SeekInv, SlotsFit, ServedInOrder
<1>2. SeekTypeOK'
  BY <1>1 DEF TakeRequest, SeekInv, SeekTypeOK
<1>3. SlotsFit'
  BY <1>1, OptionalFacts DEF TakeRequest, MayTake, SeekInv, SeekTypeOK, SlotsFit
<1>4. NoDoubleFlush'
  BY <1>1 DEF NoDoubleFlush
<1>5. ServedInOrder'
  BY <1>1, OptionalFacts
     DEF TakeRequest, MayTake, SeekInv, SeekTypeOK, SlotsFit, ServedInOrder, Served
<1> QED BY <1>2, <1>3, <1>4, <1>5 DEF SeekInv

LEMMA FinishSeekKeeps == ASSUME SeekInv, FinishSeek PROVE SeekInv'
BY OptionalFacts
   DEF FinishSeek, SeekInv, SeekTypeOK, SlotsFit, NoDoubleFlush, ServedInOrder,
       Served, SameTarget

LEMMA WindowKeeps == ASSUME SeekInv, BeginWindow \/ RestartWindow PROVE SeekInv'
BY OptionalFacts
   DEF BeginWindow, RestartWindow, SeekInv, SeekTypeOK, SlotsFit, NoDoubleFlush,
       ServedInOrder, Served, SameTarget

LEMMA OtherStepsKeeps ==
    ASSUME SeekInv,
           ExitWorker \/ AgeLastApplied \/ BeginShutdown \/ JoinWorker
               \/ UNCHANGED seekVars
    PROVE  SeekInv'
<1> USE DEF ExitWorker, MayExit, AgeLastApplied, BeginShutdown, SignalStop, JoinWorker,
           JoinReturns, seekVars
<1>1. SeekTypeOK'
  BY DEF SeekInv, SeekTypeOK
<1>2. SlotsFit'
  BY DEF SeekInv, SeekTypeOK, SlotsFit
<1>3. NoDoubleFlush'
  BY DEF SeekInv, SeekTypeOK, NoDoubleFlush, SameTarget
<1>4. ServedInOrder'
  BY DEF SeekInv, SeekTypeOK, ServedInOrder, Served
<1> QED BY <1>1, <1>2, <1>3, <1>4 DEF SeekInv

LEMMA SeekStep == ASSUME SeekInv, [SeekNext]_seekVars PROVE SeekInv'
BY QueueSeekKeeps, TakeRequestKeeps, FinishSeekKeeps, WindowKeeps, OtherStepsKeeps
   DEF SeekNext, Worker

THEOREM SeekInvariance == SeekSpec => []SeekInv
<1>1. SeekInv /\ [SeekNext]_seekVars => SeekInv'
  BY SeekStep
<1> QED BY SeekInitInv, <1>1, PTL DEF SeekSpec

(* The worker's type invariant: every serial that is stored is positive    *)
(* and the slots hold requests or nothing.                                 *)
THEOREM SeekTypeCorrect == SeekSpec => []SeekTypeOK
<1>1. SeekInv => SeekTypeOK BY DEF SeekInv
<1> QED BY SeekInvariance, <1>1, PTL

(* No user action flushes the decoder twice within 250 ms (QueueSeek's     *)
(* filter and RunSeekWorker's hand-over).                                  *)
THEOREM NeverDoubleFlush == SeekSpec => []NoDoubleFlush
<1>1. SeekInv => NoDoubleFlush BY DEF SeekInv
<1> QED BY SeekInvariance, <1>1, PTL

(* Seeks reach libVLC in the order of acceptance, none of them twice.      *)
THEOREM AlwaysServedInOrder == SeekSpec => []ServedInOrder
<1>1. SeekInv => ServedInOrder BY DEF SeekInv
<1> QED BY SeekInvariance, <1>1, PTL

(* The native player is referenced during every call into it, and its      *)
(* destroyer goes on only after the worker's last call.                    *)
THEOREM PlayerOutlivesCalls == SeekSpec => []NativePlayerOutlivesCalls
<1>1. SeekInv => NativePlayerOutlivesCalls
  BY DEF SeekInv, SlotsFit, NativePlayerOutlivesCalls
<1> QED BY SeekInvariance, <1>1, PTL

(* After the shutdown began no seek is handed to libVLC.                   *)
THEOREM ShutdownStopsSeeks == SeekSpec => NoSeekStartsAfterShutdown
<1>1. [SeekNext]_seekVars => (stopping => inFlight' \in {inFlight, NoRequest})
  BY DEF SeekNext, Worker, QueueSeek, BeginWindow, RestartWindow,
         TakeRequest, MayTake, FinishSeek, ExitWorker, AgeLastApplied,
         BeginShutdown, SignalStop, JoinWorker, JoinReturns, seekVars
<1> QED BY <1>1, PTL DEF SeekSpec, NoSeekStartsAfterShutdown

(* The locked worker with its windows and filters implements the one-slot  *)
(* mailbox of module SeekMailbox.                                          *)
THEOREM Refinement == SeekSpec => ImplementsMailbox
<1>1. SeekInit => Mailbox!Init
  BY DEF SeekInit, Mailbox!Init, Waiting, Served
<1>2. SeekInv /\ [SeekNext]_seekVars => [Mailbox!Next]_(Mailbox!mailboxVars)
  <2> SUFFICES ASSUME SeekInv, [SeekNext]_seekVars
               PROVE  Mailbox!Next \/ UNCHANGED Mailbox!mailboxVars
    OBVIOUS
  <2> USE DEF Mailbox!Next, Mailbox!mailboxVars, Waiting, Served
  <2>1. ASSUME NEW t \in Targets, QueueSeek(t)
        PROVE  Mailbox!Next \/ UNCHANGED Mailbox!mailboxVars
    <3>1. CASE Duplicate(t)
      BY <2>1, <3>1 DEF QueueSeek
    <3>2. CASE ~Duplicate(t)
      <4>1. Mailbox!Post(t)
        BY <2>1, <3>2 DEF QueueSeek, Enqueue, Mailbox!Post
      <4> QED BY <4>1
    <3> QED BY <3>1, <3>2
  <2>2. CASE TakeRequest
    <3>1. hasPending /\ pending # NoRequest
      BY <2>2 DEF TakeRequest, MayTake, SeekInv, SlotsFit
    <3>2. Mailbox!Deliver
      BY <2>2, <3>1 DEF TakeRequest, MayTake, Mailbox!Deliver
    <3> QED BY <3>2
  <2>3. CASE FinishSeek
    BY <2>3 DEF FinishSeek, SeekInv, SlotsFit
  <2>4. CASE BeginShutdown
    <3>1. Mailbox!Close
      BY <2>4 DEF BeginShutdown, SignalStop, Mailbox!Close
    <3> QED BY <3>1
  <2>5. CASE BeginWindow \/ RestartWindow \/ ExitWorker \/ AgeLastApplied
             \/ JoinWorker \/ UNCHANGED seekVars
    BY <2>5 DEF BeginWindow, RestartWindow, ExitWorker, AgeLastApplied,
                JoinWorker, JoinReturns, seekVars
  <2> QED BY <2>1, <2>2, <2>3, <2>4, <2>5 DEF SeekNext, Worker
<1> QED BY <1>1, <1>2, SeekInvariance, PTL DEF SeekSpec, ImplementsMailbox, Mailbox!Spec
=============================================================================
