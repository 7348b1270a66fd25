---------------------------- MODULE SeekMailbox ----------------------------
(***************************************************************************)
(* What the seek worker promises its callers, without its locks, windows   *)
(* and duplicate filter: one slot that the newest accepted request takes   *)
(* over, a consumer that is handed the slot's content one request at a     *)
(* time in the order of acceptance, and a closing after which it is handed *)
(* nothing more.                                                           *)
(***************************************************************************)
EXTENDS Naturals

CONSTANTS Targets, Empty

VARIABLES
    slot,       \* the waiting request, or Empty
    served,     \* serial of the newest request handed to the consumer
    accepted,   \* serial of the newest request accepted
    closed

mailboxVars == <<slot, served, accepted, closed>>

Request == [target : Targets, serial : Nat \ {0}]

Init == slot = Empty /\ served = 0 /\ accepted = 0 /\ closed = FALSE

Post(t) ==
    /\ ~closed
    /\ accepted' = accepted + 1
    /\ slot' = [target |-> t, serial |-> accepted']
    /\ UNCHANGED <<served, closed>>

Deliver ==
    /\ slot # Empty
    /\ ~closed
    /\ served' = slot.serial
    /\ slot' = Empty
    /\ UNCHANGED <<accepted, closed>>

Close ==
    /\ closed' = TRUE
    /\ slot' = Empty
    /\ UNCHANGED <<served, accepted>>

Next == (\E t \in Targets : Post(t)) \/ Deliver \/ Close

Spec == Init /\ [][Next]_mailboxVars
=============================================================================
