----------------------------- MODULE AudioFifo -----------------------------
(***************************************************************************)
(* What the audio output promises about the samples it is given: a block   *)
(* is taken whole or not at all, the device gets what was taken in the     *)
(* order it was taken, and otherwise the queue is only ever emptied as a   *)
(* whole, and so is what the device holds.                                 *)
(***************************************************************************)
EXTENDS Naturals, Sequences

CONSTANTS Byte, Blocks

VARIABLES queue,    \* taken and not yet asked for by the device
          device    \* handed to the device and not yet heard

fifo == <<queue, device>>

Init == queue = <<>> /\ device = <<>>

Take(b) == queue' = queue \o b /\ UNCHANGED device

(* The device is handed the first n bytes. *)
Hand(n) ==
    /\ queue' = SubSeq(queue, n + 1, Len(queue))
    /\ device' = device \o SubSeq(queue, 1, n)

Hear == device # <<>> /\ device' = Tail(device) /\ UNCHANGED queue

DropQueue == queue' = <<>> /\ device' \in {device, <<>>}

DropDevice == device' = <<>> /\ UNCHANGED queue

Next ==
    \/ \E b \in Blocks : Take(b)
    \/ \E n \in 1 .. Len(queue) : Hand(n)
    \/ Hear
    \/ DropQueue
    \/ DropDevice

Spec == Init /\ [][Next]_fifo
=============================================================================
