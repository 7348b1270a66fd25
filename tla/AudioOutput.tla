---------------------------- MODULE AudioOutput ----------------------------
(***************************************************************************)
(* The audio output that the port adds to VLC (audiounit_ohos.c, in        *)
(* ohos_vlc/patches/0030-vlc-3.0.24-ohos.patch).  VLC's core calls start,  *)
(* play, pause, flush and stop, one at a time: it holds its output lock.   *)
(* The system's audio thread calls OnWriteData whenever its renderer wants *)
(* samples, also while a call of the core is under way.  The two share a   *)
(* ring of bytes; play waits there for room.                               *)
(*                                                                         *)
(* The renderer's own buffer is device.  A call that stops, pauses or      *)
(* flushes the renderer waits for a callback under way, so a callback is   *)
(* one step.  Time is not measured: a wait may time out and the last       *)
(* callback may become two seconds old at any moment.                      *)
(***************************************************************************)
EXTENDS Naturals, Sequences

CONSTANTS Byte,
          Blocks,      \* the blocks the core may play
          Capacity,    \* of the ring
          MaxQueue,    \* max_queue_size: a soft target
          Threshold,   \* AUDIO_QUEUE_THRESHOLD_SIZE
          DeviceSize   \* bound on what the renderer holds

ASSUME AudioAssumption ==
    /\ Byte # {}
    /\ Blocks \subseteq Seq(Byte) \ {<<>>}
    /\ Capacity \in Nat \ {0}
    /\ MaxQueue \in 0 .. Capacity
    /\ Threshold \in Nat
    /\ DeviceSize \in Nat \ {0}

VARIABLES
    core,              \* external: what the core has asked for
    pc,                \* where the core's call is
    block,             \* the block being played, <<>> when there is none
    woken,             \* the wait for room has been signalled
    ring, readPos, writePos, totalSize,
    renderer,          \* external: "dead" once the system has stopped calling back
    device,            \* external: the renderer's buffer
    isPlaying, isInitialized, flushedSincePlay,
    lastWrite          \* last_write_time: 0, up to or over 2 s ago

queueVars == <<ring, readPos, writePos, totalSize>>
sysVars == <<isPlaying, isInitialized, flushedSincePlay, lastWrite>>
vars == <<core, pc, block, woken, queueVars, renderer, device, sysVars>>

Slots == 0 .. Capacity - 1

Smaller(a, b) == IF a < b THEN a ELSE b

(* Open; the ring is allocated and not initialized. *)
Init ==
    /\ core = "stopped"
    /\ pc = "idle"
    /\ block = <<>>
    /\ woken = FALSE
    /\ ring \in [Slots -> Byte]
    /\ readPos = 0 /\ writePos = 0 /\ totalSize = 0
    /\ renderer = "none"
    /\ device = <<>>
    /\ isPlaying = FALSE /\ isInitialized = FALSE /\ flushedSincePlay = FALSE
    /\ lastWrite = "none"

(***************************************************************************)
(* The ring                                                                *)
(***************************************************************************)
MutantFits(b) == Len(b) <= Capacity

Fits(b) == Len(b) <= Capacity - totalSize

(* The condition of the wait in audio_queue_push. *)
MustWait(b) == totalSize >= MaxQueue \/ ~Fits(b)

MutantWritten(b) ==
    LET first == Smaller(Len(b), Capacity - writePos)
    IN  [i \in Slots |->
            IF i \in writePos .. writePos + first - 1 THEN b[i - writePos + 1]
            ELSE IF i \in 0 .. Len(b) - first - 1 THEN b[i + 1]
            ELSE ring[i]]

(* The two copies of audio_queue_push: up to the end, then from the start. *)
Written(b) ==
    LET first == Smaller(Len(b), Capacity - writePos)
    IN  [i \in Slots |->
            IF i \in writePos .. writePos + first - 1 THEN b[i - writePos + 1]
            ELSE IF i \in 0 .. Len(b) - first - 1 THEN b[first + i + 1]
            ELSE ring[i]]

(* The two copies of audio_queue_drain. *)
Read(n) ==
    LET first == Smaller(n, Capacity - readPos)
    IN  [i \in 1 .. n |-> IF i <= first THEN ring[readPos + i - 1] ELSE ring[i - first - 1]]

Clear == readPos' = 0 /\ writePos' = 0 /\ totalSize' = 0 /\ UNCHANGED ring

(***************************************************************************)
(* Calls of the core                                                       *)
(***************************************************************************)
Idle == pc = "idle"

(* The renderer, if there is one, is released; a new one is made and
   started.  Every call of that may fail and leaves no renderer then. *)
Renew(started) ==
    /\ device' = <<>>
    /\ renderer' = IF started THEN "running" ELSE "none"

Start(started) ==
    /\ Idle /\ core = "stopped"
    /\ Renew(started)
    /\ pc' = IF started THEN "renewed" ELSE "idle"
    /\ core' = IF started THEN "playing" ELSE "stopped"
    /\ UNCHANGED <<block, woken, queueVars, sysVars>>

(* The rest of Start and RestartRenderer: the callback may already run. *)
Renewed ==
    /\ pc = "renewed"
    /\ isPlaying' = TRUE
    /\ isInitialized' = TRUE
    /\ lastWrite' = "none"
    /\ flushedSincePlay' = FALSE
    /\ pc' = IF block = <<>> THEN "idle" ELSE "pushing"
    /\ UNCHANGED <<core, block, woken, queueVars, renderer, device>>

(* Play finds no renderer, or one that has not called back for two seconds
   although enough is queued. *)
NeedsRestart ==
    \/ ~isInitialized \/ renderer = "none"
    \/ lastWrite = "old" /\ totalSize > Threshold

MutantFlushedAtPlay == flushedSincePlay

FlushedAtPlay == FALSE

(* A block that cannot be played is dropped. *)
Play(b, restarted) ==
    /\ Idle /\ core = "playing"
    /\ IF NeedsRestart
       THEN /\ Renew(restarted)
            /\ pc' = IF restarted THEN "renewed" ELSE "idle"
            /\ block' = IF restarted THEN b ELSE <<>>
            /\ UNCHANGED flushedSincePlay
       ELSE /\ pc' = "pushing"
            /\ block' = b
            /\ flushedSincePlay' = FlushedAtPlay
            /\ UNCHANGED <<renderer, device>>
    /\ UNCHANGED <<core, woken, queueVars, isPlaying, isInitialized, lastWrite>>

PushReturns == pc' = "idle" /\ block' = <<>> /\ woken' = FALSE

CopyIn ==
    /\ ring' = Written(block)
    /\ writePos' = (writePos + Len(block)) % Capacity
    /\ totalSize' = totalSize + Len(block)
    /\ UNCHANGED readPos

(* audio_queue_push, up to its wait or its return; or a wait that has ended
   with or without a signal and looks again. *)
Push ==
    /\ pc \in {"pushing", "waiting"}
    /\ IF Len(block) > Capacity THEN PushReturns /\ UNCHANGED queueVars
       ELSE IF MustWait(block) THEN /\ pc' = "waiting" /\ woken' = FALSE
                                    /\ UNCHANGED <<block, queueVars>>
       ELSE PushReturns /\ CopyIn
    /\ UNCHANGED <<core, renderer, device, sysVars>>

MutantRoomAfterWait(b) == ~MustWait(b)

(* After the wait the soft target counts no more. *)
RoomAfterWait(b) == Fits(b)

(* The wait has lasted 100 ms. *)
PushTimesOut ==
    /\ pc = "waiting"
    /\ PushReturns
    /\ IF RoomAfterWait(block) THEN CopyIn ELSE UNCHANGED queueVars
    /\ UNCHANGED <<core, renderer, device, sysVars>>

LastWriteAfterPause == "none"

(* Pause with b_paused; whether the renderer obeys is not looked at. *)
Pause ==
    /\ Idle /\ core = "playing"
    /\ core' = "paused"
    /\ IF renderer # "none" /\ isPlaying
       THEN /\ renderer' \in {"paused", renderer}
            /\ isPlaying' = FALSE
            /\ lastWrite' = LastWriteAfterPause
       ELSE UNCHANGED <<renderer, isPlaying, lastWrite>>
    /\ UNCHANGED <<pc, block, woken, queueVars, device, isInitialized, flushedSincePlay>>

(* Pause without b_paused. *)
Resume ==
    /\ Idle /\ core = "paused"
    /\ core' = "playing"
    /\ IF renderer # "none" /\ ~isPlaying
       THEN renderer' \in {"running", renderer} /\ isPlaying' = TRUE
       ELSE UNCHANGED <<renderer, isPlaying>>
    /\ UNCHANGED <<pc, block, woken, queueVars, device, isInitialized, flushedSincePlay,
                   lastWrite>>

(* Flush clears the ring and then, with the ring unlocked, ... *)
Flush ==
    /\ Idle /\ core # "stopped"
    /\ Clear
    /\ pc' = IF renderer # "none" /\ ~flushedSincePlay THEN "flushing" ELSE "idle"
    /\ UNCHANGED <<core, block, woken, renderer, device, sysVars>>

(* ... flushes the renderer, which may fail. *)
FlushRenderer ==
    /\ pc = "flushing"
    /\ pc' = "idle"
    /\ \/ device' = <<>> /\ flushedSincePlay' = TRUE
       \/ UNCHANGED <<device, flushedSincePlay>>
    /\ UNCHANGED <<core, block, woken, queueVars, renderer, isPlaying, isInitialized, lastWrite>>

(* A callback between the steps of Stop finds the ring empty. *)
Stop ==
    /\ Idle /\ core # "stopped"
    /\ core' = "stopped"
    /\ Clear
    /\ renderer' = "none" /\ device' = <<>>
    /\ isPlaying' = FALSE /\ isInitialized' = FALSE
    /\ UNCHANGED <<pc, block, woken, flushedSincePlay, lastWrite>>

(***************************************************************************)
(* The system                                                              *)
(***************************************************************************)
MutantWakesPush(n) == n > 0 /\ n = totalSize

WakesPush(n) == n > 0

(* OnWriteData, with room for length bytes. *)
OnWriteData(length) ==
    LET copied == Smaller(length, totalSize)
    IN  /\ renderer = "running"
        /\ Len(device) + length <= DeviceSize
        /\ lastWrite' = "recent"
        /\ device' = device \o Read(copied)
        /\ readPos' = (readPos + copied) % Capacity
        /\ totalSize' = totalSize - copied
        /\ woken' = (woken \/ (pc = "waiting" /\ WakesPush(copied)))
        /\ UNCHANGED <<core, pc, block, ring, writePos, renderer, isPlaying, isInitialized,
                       flushedSincePlay>>

Hear ==
    /\ renderer = "running" /\ device # <<>>
    /\ device' = Tail(device)
    /\ UNCHANGED <<core, pc, block, woken, queueVars, renderer, sysVars>>

(* The system stops calling back, as it does in the background, or goes on. *)
Falter ==
    /\ \/ renderer = "running" /\ renderer' = "dead"
       \/ renderer = "dead" /\ renderer' = "running"
    /\ UNCHANGED <<core, pc, block, woken, queueVars, device, sysVars>>

TwoSecondsPass ==
    /\ lastWrite = "recent"
    /\ lastWrite' = "old"
    /\ UNCHANGED <<core, pc, block, woken, queueVars, renderer, device, isPlaying,
                   isInitialized, flushedSincePlay>>

Call ==
    \/ \E ok \in BOOLEAN : Start(ok) \/ \E b \in Blocks : Play(b, ok)
    \/ Renewed \/ Push \/ PushTimesOut
    \/ Pause \/ Resume \/ Flush \/ FlushRenderer \/ Stop

System ==
    \/ \E length \in 1 .. DeviceSize : OnWriteData(length)
    \/ Hear \/ Falter \/ TwoSecondsPass

Next == Call \/ System

Spec == Init /\ [][Next]_vars

(***************************************************************************)
(* The core's calls run on; while it plays it brings blocks that fit over  *)
(* the threshold, and in the long run a new renderer can be had.  Time     *)
(* passes, and a running renderer calls back.                              *)
(***************************************************************************)
Ordinary == {b \in Blocks : Len(b) + Threshold <= Capacity}

Fairness ==
    /\ WF_vars(Renewed \/ Push) /\ WF_vars(PushTimesOut) /\ WF_vars(FlushRenderer)
    /\ SF_vars(\E b \in Ordinary, ok \in BOOLEAN : Play(b, ok))
    /\ SF_vars(\E b \in Ordinary : NeedsRestart /\ Play(b, TRUE))
    /\ WF_vars(renderer # "running" /\ TwoSecondsPass)

FairSpec == Spec /\ Fairness

-----------------------------------------------------------------------------
(***************************************************************************)
(* Properties                                                              *)
(***************************************************************************)
(* The ring's indices stay inside it, it never holds more than it can, and
   a call waits or pushes only with a block in hand. *)
TypeOK ==
    /\ core \in {"stopped", "playing", "paused"}
    /\ pc \in {"idle", "renewed", "pushing", "waiting", "flushing"}
    /\ block \in Blocks \cup {<<>>}
    /\ pc \in {"pushing", "waiting"} => block # <<>>
    /\ woken \in BOOLEAN
    /\ ring \in [Slots -> Byte]
    /\ readPos \in Slots /\ writePos \in Slots /\ totalSize \in 0 .. Capacity
    /\ renderer \in {"none", "running", "paused", "dead"}
    /\ device \in Seq(Byte)
    /\ isPlaying \in BOOLEAN /\ isInitialized \in BOOLEAN /\ flushedSincePlay \in BOOLEAN
    /\ lastWrite \in {"none", "recent", "old"}

(* What the ring holds, oldest byte first. *)
Queued == [i \in 1 .. totalSize |-> ring[(readPos + i - 1) % Capacity]]

Fifo == INSTANCE AudioFifo WITH queue <- Queued

(* However blocks and callbacks of any size wrap around the end of the ring,
   the renderer gets the bytes of whole blocks in their order: the copies of
   audio_queue_push and audio_queue_drain and the resets of
   audio_queue_clear implement a queue. *)
ImplementsFifo == Fifo!Spec

(* Flush skips the renderer when nothing was played since the last flush:
   then nothing from before a seek can be left, in the ring or in the
   renderer, whatever failed, waited or was called back in between. *)
NothingStale == Idle /\ flushedSincePlay => totalSize = 0 /\ device = <<>>

(* While audio_queue_push waits without a signal under way there is no room
   for its block: the decoder does not lose 100 ms beside a ring that the
   callback has made room in. *)
NoLostWakeup == pc = "waiting" /\ ~woken => MustWait(block)

(* A paused renderer has no time of a last callback, so a long pause is not
   taken for a stall: play after the resume does not throw the renderer and
   what it holds away. *)
PauseIsNoStall == renderer = "paused" => lastWrite = "none"

(* While the core plays and does not flush, a renderer that has called back
   and then stopped, or could not be made again, is replaced until one runs.
   One that has not called back since it was started or paused is not
   noticed: Play's test leaves last_write_time 0 out. *)
SoundComesBack ==
    \/ []<>(core # "playing" \/ renderer = "running")
    \/ []<><<Flush>>_vars
    \/ <>[](lastWrite = "none")
=============================================================================
