--------------------------- MODULE ResumeRegister ---------------------------
(***************************************************************************)
(* What the resume positions promise, without the chain that delays their  *)
(* saves, the loads that overlap and the events that arrive late: a        *)
(* register for each video that is written while the video is loaded,      *)
(* reset when it has played to its end, and otherwise left alone.          *)
(***************************************************************************)
CONSTANTS
    Videos,
    Nothing,    \* not a video
    Places,     \* the positions
    Beginning   \* the one a completed video starts from

VARIABLES
    newest,     \* the newest position saved of each video
    loaded      \* the video whose position may be recorded, or Nothing

registerVars == <<newest, loaded>>

Init ==
    /\ newest \in [Videos -> Places]
    /\ loaded = Nothing

Load(v) ==
    /\ loaded' = v
    /\ UNCHANGED newest

(* Recording never resets: only the end of a video does. *)
Record(p) ==
    /\ loaded # Nothing
    /\ newest' = [newest EXCEPT ![loaded] = p]
    /\ UNCHANGED loaded

Complete ==
    /\ loaded # Nothing
    /\ newest' = [newest EXCEPT ![loaded] = Beginning]
    /\ loaded' = Nothing

Next ==
    \/ \E v \in Videos : Load(v)
    \/ \E p \in Places \ {Beginning} : Record(p)
    \/ Complete

Spec == Init /\ [][Next]_registerVars
=============================================================================
