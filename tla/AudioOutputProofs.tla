------------------------- MODULE AudioOutputProofs -------------------------
(***************************************************************************)
(* Proofs about the audio output, for rings, blocks and targets of every   *)
(* size.                                                                   *)
(***************************************************************************)
EXTENDS AudioOutput, SequenceTheorems, TLAPS

(* The ring is where its indices say: the next byte goes behind the last. *)
Tight == writePos = (readPos + totalSize) % Capacity

(* Nothing is played between the steps of a flush, and a call that plays has
   noted it. *)
Control ==
    /\ flushedSincePlay => pc \in {"idle", "renewed"}
    /\ pc = "flushing" => totalSize = 0

AInv == TypeOK /\ Tight /\ Control /\ NothingStale /\ NoLostWakeup /\ PauseIsNoStall

-----------------------------------------------------------------------------
(* Positions in the ring. *)
LEMMA Modulo ==
    ASSUME NEW c \in Nat \ {0}, NEW a \in Nat
    PROVE  /\ a % c \in 0 .. c - 1
           /\ a < c => a % c = a
           /\ c <= a /\ a < c + c => a % c = a - c
OBVIOUS

LEMMA FunctionsAreSequences ==
    ASSUME NEW S, NEW n \in Nat, NEW f \in [1 .. n -> S]
    PROVE  f \in Seq(S) /\ Len(f) = n
OBVIOUS

(* The first copy of a push or a drain is no longer than the bytes copied,
   and no longer than what is left of the ring. *)
LEMMA FirstCopy ==
    ASSUME NEW n \in Nat, NEW m \in Nat
    PROVE  /\ Smaller(n, m) \in Nat
           /\ Smaller(n, m) <= n /\ Smaller(n, m) <= m
           /\ Smaller(n, m) = n \/ Smaller(n, m) = m
BY DEF Smaller

LEMMA BlockFacts ==
    ASSUME AInv, pc \in {"pushing", "waiting"}
    PROVE  block \in Blocks /\ block \in Seq(Byte) /\ Len(block) \in Nat \ {0}
<1>1. block \in Blocks /\ block # <<>>
  BY DEF AInv, TypeOK
<1>2. block \in Seq(Byte)
  BY <1>1, AudioAssumption
<1> QED BY <1>1, <1>2

LEMMA WrittenType ==
    ASSUME AInv, NEW b \in Seq(Byte)
    PROVE  Written(b) \in [Slots -> Byte]
<1> DEFINE first == Smaller(Len(b), Capacity - writePos)
           at(i) == IF i \in writePos .. writePos + first - 1 THEN b[i - writePos + 1]
                   ELSE IF i \in 0 .. Len(b) - first - 1 THEN b[first + i + 1]
                   ELSE ring[i]
<1>1. Len(b) \in Nat /\ Capacity - writePos \in Nat /\ writePos \in Nat
  BY AudioAssumption DEF AInv, TypeOK, Slots
<1>2. first \in Nat /\ first <= Len(b)
  BY <1>1, FirstCopy
<1>3. ASSUME NEW i \in Slots PROVE at(i) \in Byte
  <2>0. i \in Nat
    BY AudioAssumption DEF Slots
  <2> HIDE DEF first
  <2>1. CASE i \in writePos .. writePos + first - 1
    <3>1. i - writePos + 1 \in 1 .. Len(b)
      BY <1>1, <1>2, <2>1
    <3> QED BY <2>1, <3>1
  <2>2. CASE i \notin writePos .. writePos + first - 1 /\ i \in 0 .. Len(b) - first - 1
    <3>1. first + i + 1 \in 1 .. Len(b)
      BY <1>1, <1>2, <2>0, <2>2
    <3> QED BY <2>2, <3>1
  <2>3. CASE i \notin writePos .. writePos + first - 1 /\ i \notin 0 .. Len(b) - first - 1
    BY <2>3 DEF AInv, TypeOK
  <2> QED BY <2>1, <2>2, <2>3
<1>4. Written(b) = [i \in Slots |-> at(i)]
  BY DEF Written
<1> HIDE DEF at
<1> QED BY <1>3, <1>4

LEMMA ReadType ==
    ASSUME AInv, NEW n \in 0 .. totalSize
    PROVE  Read(n) \in [1 .. n -> Byte] /\ Read(n) \in Seq(Byte) /\ Len(Read(n)) = n
<1> DEFINE first == Smaller(n, Capacity - readPos)
           at(i) == IF i <= first THEN ring[readPos + i - 1] ELSE ring[i - first - 1]
<1>1. n \in Nat /\ n <= Capacity /\ Capacity - readPos \in Nat /\ readPos \in Slots
      /\ Capacity \in Nat /\ readPos \in Nat
  BY AudioAssumption DEF AInv, TypeOK, Slots
<1>2. /\ first \in Nat /\ first <= n /\ first <= Capacity - readPos
      /\ first = n \/ first = Capacity - readPos
  BY <1>1, FirstCopy
<1>3. ASSUME NEW i \in 1 .. n PROVE at(i) \in Byte
  <2> HIDE DEF first
  <2>1. CASE i <= first
    <3>1. readPos + i - 1 \in Slots
      BY <1>1, <1>2, <2>1 DEF Slots
    <3> QED BY <2>1, <3>1 DEF AInv, TypeOK
  <2>2. CASE ~(i <= first)
    <3>1. i - first - 1 \in Slots
      BY <1>1, <1>2, <2>2 DEF Slots
    <3> QED BY <2>2, <3>1 DEF AInv, TypeOK
  <2> QED BY <2>1, <2>2
<1>4. Read(n) = [i \in 1 .. n |-> at(i)]
  BY DEF Read
<1> HIDE DEF at
<1>5. Read(n) \in [1 .. n -> Byte]
  BY <1>3, <1>4
<1> QED BY <1>1, <1>5, FunctionsAreSequences

(* Writing behind the last byte, and reading the first, keep the ring tight. *)
LEMMA Wraps ==
    ASSUME NEW c \in Nat \ {0}, NEW r \in 0 .. c - 1, NEW t \in 0 .. c
    PROVE  /\ \A l \in 0 .. c - t : (((r + t) % c) + l) % c = (r + (t + l)) % c
           /\ \A n \in 0 .. t : (((r + n) % c) + (t - n)) % c = (r + t) % c
<1> DEFINE m(a) == a % c
<1>1. \A a \in Nat : /\ a < c => m(a) = a
                     /\ c <= a /\ a < c + c => m(a) = a - c
  BY Modulo
<1> HIDE DEF m
<1>2. ASSUME NEW l \in 0 .. c - t PROVE m(m(r + t) + l) = m(r + (t + l))
  <2>1. CASE r + t < c
    <3>1. m(r + t) = r + t
      BY <1>1, <2>1
    <3> QED BY <3>1
  <2>2. CASE c <= r + t
    <3>1. m(r + t) = r + t - c
      BY <1>1, <2>2
    <3>2. m(r + t - c + l) = r + t - c + l
      BY <1>1, <2>2
    <3>3. m(r + (t + l)) = r + (t + l) - c
      BY <1>1, <2>2
    <3> QED BY <3>1, <3>2, <3>3
  <2> QED BY <2>1, <2>2
<1>3. ASSUME NEW n \in 0 .. t PROVE m(m(r + n) + (t - n)) = m(r + t)
  <2>1. CASE r + n < c
    <3>1. m(r + n) = r + n
      BY <1>1, <2>1
    <3> QED BY <3>1
  <2>2. CASE c <= r + n
    <3>1. m(r + n) = r + n - c
      BY <1>1, <2>2
    <3>2. m(r + t - c) = r + t - c
      BY <1>1, <2>2
    <3>3. m(r + t) = r + t - c
      BY <1>1, <2>2
    <3>4. r + n - c + (t - n) = r + t - c
      BY <2>2
    <3> QED BY <3>1, <3>2, <3>3, <3>4
  <2> QED BY <2>1, <2>2
<1> QED BY <1>2, <1>3 DEF m

(* A push leaves the ring well-formed. *)
LEMMA CopyInKeeps ==
    ASSUME AInv, pc \in {"pushing", "waiting"}, Fits(block), CopyIn
    PROVE  /\ ring' \in [Slots -> Byte] /\ readPos' \in Slots /\ writePos' \in Slots
           /\ totalSize' \in 0 .. Capacity
           /\ Tight'
<1>1. block \in Seq(Byte) /\ Len(block) \in Nat
  BY BlockFacts
<1>2. Capacity \in Nat \ {0} /\ readPos \in 0 .. Capacity - 1 /\ totalSize \in 0 .. Capacity
      /\ writePos \in Nat /\ writePos = (readPos + totalSize) % Capacity
  BY AudioAssumption DEF AInv, TypeOK, Slots, Tight
<1>3. Len(block) \in 0 .. Capacity - totalSize
  BY <1>1, <1>2 DEF Fits
<1>4. ring' \in [Slots -> Byte]
  BY <1>1, WrittenType DEF CopyIn
<1>5. readPos' \in Slots
  BY DEF CopyIn, AInv, TypeOK
<1>6. writePos' \in Slots
  BY <1>1, <1>2, Modulo DEF CopyIn, Slots
<1>7. totalSize' \in 0 .. Capacity
  BY <1>2, <1>3 DEF CopyIn
<1>8. writePos' = (readPos' + totalSize') % Capacity
  BY <1>2, <1>3, Wraps DEF CopyIn
<1> QED BY <1>4, <1>5, <1>6, <1>7, <1>8 DEF Tight

-----------------------------------------------------------------------------
LEMMA InitAInv == Init => AInv
<1> SUFFICES ASSUME Init PROVE AInv
  OBVIOUS
<1>1. 0 \in Slots /\ 0 \in 0 .. Capacity
  BY AudioAssumption DEF Slots
<1>2. TypeOK
  BY <1>1 DEF Init, TypeOK
<1>3. Tight
  BY AudioAssumption, Modulo DEF Init, Tight
<1>4. Control /\ NothingStale /\ NoLostWakeup /\ PauseIsNoStall
  BY DEF Init, Control, NothingStale, NoLostWakeup, PauseIsNoStall, Idle
<1> QED BY <1>2, <1>3, <1>4 DEF AInv

(* The calls that leave the ring alone or clear it. *)
LEMMA ClearKeeps ==
    ASSUME AInv, Clear
    PROVE  /\ ring' \in [Slots -> Byte] /\ readPos' \in Slots /\ writePos' \in Slots
           /\ totalSize' \in 0 .. Capacity /\ totalSize' = 0
           /\ Tight'
<1>1. 0 \in Slots /\ 0 \in 0 .. Capacity /\ 0 % Capacity = 0
  BY AudioAssumption, Modulo DEF Slots
<1>2. readPos' = 0 /\ writePos' = 0 /\ totalSize' = 0
  BY DEF Clear
<1>3. Tight'
  BY <1>1, <1>2 DEF Tight
<1> QED BY <1>1, <1>2, <1>3 DEF Clear, AInv, TypeOK

LEMMA QuietKeeps ==
    ASSUME AInv, UNCHANGED queueVars
    PROVE  /\ ring' \in [Slots -> Byte] /\ readPos' \in Slots /\ writePos' \in Slots
           /\ totalSize' \in 0 .. Capacity /\ totalSize' = totalSize
           /\ Tight'
           /\ \A b : MustWait(b)' <=> MustWait(b)
BY DEF queueVars, AInv, TypeOK, Tight, MustWait, Fits

-----------------------------------------------------------------------------
(* One lemma per action. *)
LEMMA StartKeeps == ASSUME AInv, NEW ok \in BOOLEAN, Start(ok) PROVE AInv'
<1>1. /\ ring' \in [Slots -> Byte] /\ readPos' \in Slots /\ writePos' \in Slots
      /\ totalSize' \in 0 .. Capacity /\ totalSize' = totalSize /\ Tight'
  BY QuietKeeps DEF Start
<1>2. TypeOK'
  BY <1>1 DEF Start, Renew, AInv, TypeOK, sysVars, Idle
<1>3. Control' /\ NothingStale'
  BY <1>1 DEF Start, Renew, AInv, Control, NothingStale, sysVars, Idle
<1>4. NoLostWakeup' /\ PauseIsNoStall'
  BY DEF Start, Renew, AInv, NoLostWakeup, PauseIsNoStall, sysVars, Idle
<1> QED BY <1>1, <1>2, <1>3, <1>4 DEF AInv

LEMMA RenewedKeeps == ASSUME AInv, Renewed PROVE AInv'
<1>1. /\ ring' \in [Slots -> Byte] /\ readPos' \in Slots /\ writePos' \in Slots
      /\ totalSize' \in 0 .. Capacity /\ Tight'
  BY QuietKeeps DEF Renewed
<1>2. TypeOK'
  BY <1>1 DEF Renewed, AInv, TypeOK
<1>3. Control' /\ NothingStale' /\ NoLostWakeup' /\ PauseIsNoStall'
  BY DEF Renewed, Control, NothingStale, NoLostWakeup, PauseIsNoStall, Idle
<1> QED BY <1>1, <1>2, <1>3 DEF AInv

LEMMA PlayKeeps ==
    ASSUME AInv, NEW b \in Blocks, NEW restarted \in BOOLEAN, Play(b, restarted)
    PROVE  AInv'
<1>1. /\ ring' \in [Slots -> Byte] /\ readPos' \in Slots /\ writePos' \in Slots
      /\ totalSize' \in 0 .. Capacity /\ totalSize' = totalSize /\ Tight'
  BY QuietKeeps DEF Play
<1>2. b # <<>> /\ <<>> \in Seq(Byte)
  BY AudioAssumption
<1>3. CASE NeedsRestart
  <2>1. /\ core' = core /\ woken' = woken /\ isPlaying' = isPlaying
        /\ isInitialized' = isInitialized /\ lastWrite' = lastWrite
        /\ flushedSincePlay' = flushedSincePlay
        /\ device' = <<>> /\ renderer' \in {"running", "none"}
        /\ pc = "idle" /\ pc' \in {"renewed", "idle"} /\ block' \in {b, <<>>}
    BY <1>3 DEF Play, Renew, Idle
  <2>2. TypeOK'
    BY <1>1, <1>2, <2>1 DEF AInv, TypeOK
  <2>3. Control' /\ NothingStale' /\ NoLostWakeup' /\ PauseIsNoStall'
    BY <1>1, <2>1 DEF AInv, Control, NothingStale, NoLostWakeup, PauseIsNoStall, Idle
  <2> QED BY <1>1, <2>2, <2>3 DEF AInv
<1>4. CASE ~NeedsRestart
  <2>1. /\ core' = core /\ woken' = woken /\ isPlaying' = isPlaying
        /\ isInitialized' = isInitialized /\ lastWrite' = lastWrite
        /\ flushedSincePlay' = FALSE /\ device' = device /\ renderer' = renderer
        /\ pc' = "pushing" /\ block' = b
    BY <1>4 DEF Play, FlushedAtPlay
  <2>2. TypeOK'
    BY <1>1, <1>2, <2>1 DEF AInv, TypeOK
  <2>3. Control' /\ NothingStale' /\ NoLostWakeup' /\ PauseIsNoStall'
    BY <2>1 DEF AInv, Control, NothingStale, NoLostWakeup, PauseIsNoStall, Idle
  <2> QED BY <1>1, <2>2, <2>3 DEF AInv
<1> QED BY <1>3, <1>4

(* A push that returns, with its block copied or not. *)
LEMMA ReturnKeeps ==
    ASSUME AInv, pc \in {"pushing", "waiting"}, PushReturns,
           (Fits(block) /\ CopyIn) \/ UNCHANGED queueVars,
           UNCHANGED <<core, renderer, device, sysVars>>
    PROVE  AInv'
<1>1. /\ ring' \in [Slots -> Byte] /\ readPos' \in Slots /\ writePos' \in Slots
      /\ totalSize' \in 0 .. Capacity /\ Tight'
  BY CopyInKeeps, QuietKeeps
<1>2. TypeOK'
  BY <1>1 DEF PushReturns, AInv, TypeOK, sysVars
<1>3. Control' /\ NothingStale' /\ NoLostWakeup' /\ PauseIsNoStall'
  BY DEF PushReturns, AInv, Control, NothingStale, NoLostWakeup, PauseIsNoStall, sysVars, Idle
<1> QED BY <1>1, <1>2, <1>3 DEF AInv

LEMMA PushKeeps == ASSUME AInv, Push PROVE AInv'
<1>1. pc \in {"pushing", "waiting"} /\ UNCHANGED <<core, renderer, device, sysVars>>
  BY DEF Push
<1>2. CASE Len(block) > Capacity
  BY <1>1, <1>2, ReturnKeeps DEF Push
<1>3. CASE ~(Len(block) > Capacity) /\ MustWait(block)
  <2>1. /\ pc' = "waiting" /\ woken' = FALSE /\ block' = block /\ UNCHANGED queueVars
    BY <1>3 DEF Push
  <2>2. /\ ring' \in [Slots -> Byte] /\ readPos' \in Slots /\ writePos' \in Slots
        /\ totalSize' \in 0 .. Capacity /\ Tight'
        /\ MustWait(block)'
    BY <1>3, <2>1, QuietKeeps DEF queueVars, MustWait, Fits
  <2>3. TypeOK'
    BY <1>1, <2>1, <2>2 DEF AInv, TypeOK, sysVars
  <2>4. NoLostWakeup'
    BY <2>2 DEF NoLostWakeup
  <2>5. Control' /\ NothingStale' /\ PauseIsNoStall'
    BY <1>1, <2>1 DEF AInv, Control, NothingStale, PauseIsNoStall, sysVars, Idle
  <2> QED BY <2>2, <2>3, <2>4, <2>5 DEF AInv
<1>4. CASE ~(Len(block) > Capacity) /\ ~MustWait(block)
  <2>1. PushReturns /\ CopyIn
    BY <1>4 DEF Push
  <2>2. Fits(block)
    BY <1>4 DEF MustWait
  <2> QED BY <1>1, <2>1, <2>2, ReturnKeeps
<1> QED BY <1>2, <1>3, <1>4

LEMMA PushTimesOutKeeps == ASSUME AInv, PushTimesOut PROVE AInv'
BY ReturnKeeps DEF PushTimesOut, RoomAfterWait

LEMMA PauseKeeps == ASSUME AInv, Pause PROVE AInv'
<1>1. /\ ring' \in [Slots -> Byte] /\ readPos' \in Slots /\ writePos' \in Slots
      /\ totalSize' \in 0 .. Capacity /\ totalSize' = totalSize /\ Tight'
  BY QuietKeeps DEF Pause
<1>2. /\ core' = "paused" /\ isPlaying' \in BOOLEAN
      /\ renderer' \in {"none", "running", "paused", "dead"}
      /\ lastWrite' \in {"none", "recent", "old"}
      /\ renderer' = "paused" => lastWrite' = "none"
  BY DEF Pause, LastWriteAfterPause, AInv, TypeOK, PauseIsNoStall
<1>3. TypeOK'
  BY <1>1, <1>2 DEF Pause, AInv, TypeOK
<1>4. Control' /\ NothingStale' /\ NoLostWakeup' /\ PauseIsNoStall'
  BY <1>1, <1>2 DEF Pause, AInv, Control, NothingStale, NoLostWakeup, PauseIsNoStall, Idle
<1> QED BY <1>1, <1>3, <1>4 DEF AInv

LEMMA ResumeKeeps == ASSUME AInv, Resume PROVE AInv'
<1>1. /\ ring' \in [Slots -> Byte] /\ readPos' \in Slots /\ writePos' \in Slots
      /\ totalSize' \in 0 .. Capacity /\ totalSize' = totalSize /\ Tight'
  BY QuietKeeps DEF Resume
<1>2. isPlaying' \in BOOLEAN /\ renderer' \in {"running", renderer}
  BY DEF Resume, AInv, TypeOK
<1>3. TypeOK'
  BY <1>1, <1>2 DEF Resume, AInv, TypeOK
<1>4. Control' /\ NothingStale' /\ NoLostWakeup' /\ PauseIsNoStall'
  BY <1>1, <1>2 DEF Resume, AInv, Control, NothingStale, NoLostWakeup, PauseIsNoStall, Idle
<1> QED BY <1>1, <1>3, <1>4 DEF AInv

LEMMA FlushKeeps == ASSUME AInv, Flush PROVE AInv'
<1>1. /\ ring' \in [Slots -> Byte] /\ readPos' \in Slots /\ writePos' \in Slots
      /\ totalSize' \in 0 .. Capacity /\ totalSize' = 0 /\ Tight'
  BY ClearKeeps DEF Flush
<1>2. TypeOK'
  BY <1>1 DEF Flush, AInv, TypeOK, sysVars
<1>3. Control' /\ NothingStale' /\ NoLostWakeup' /\ PauseIsNoStall'
  BY <1>1 DEF Flush, AInv, Control, NothingStale, NoLostWakeup, PauseIsNoStall, sysVars, Idle
<1> QED BY <1>1, <1>2, <1>3 DEF AInv

LEMMA FlushRendererKeeps == ASSUME AInv, FlushRenderer PROVE AInv'
<1>1. /\ ring' \in [Slots -> Byte] /\ readPos' \in Slots /\ writePos' \in Slots
      /\ totalSize' \in 0 .. Capacity /\ totalSize' = totalSize /\ Tight'
  BY QuietKeeps DEF FlushRenderer
<1>2. device' \in Seq(Byte) /\ flushedSincePlay' \in BOOLEAN
  BY EmptySeq DEF FlushRenderer, AInv, TypeOK
<1>3. TypeOK'
  BY <1>1, <1>2 DEF FlushRenderer, AInv, TypeOK
<1>4. Control' /\ NothingStale' /\ NoLostWakeup' /\ PauseIsNoStall'
  BY <1>1 DEF FlushRenderer, AInv, Control, NothingStale, NoLostWakeup, PauseIsNoStall, Idle
<1> QED BY <1>1, <1>3, <1>4 DEF AInv

LEMMA StopKeeps == ASSUME AInv, Stop PROVE AInv'
<1>1. /\ ring' \in [Slots -> Byte] /\ readPos' \in Slots /\ writePos' \in Slots
      /\ totalSize' \in 0 .. Capacity /\ totalSize' = 0 /\ Tight'
  BY ClearKeeps DEF Stop
<1>2. TypeOK'
  BY <1>1, EmptySeq DEF Stop, AInv, TypeOK
<1>3. Control' /\ NothingStale' /\ NoLostWakeup' /\ PauseIsNoStall'
  BY <1>1 DEF Stop, AInv, Control, NothingStale, NoLostWakeup, PauseIsNoStall, Idle
<1> QED BY <1>1, <1>2, <1>3 DEF AInv

(* What one callback moves. *)
LEMMA CallbackFacts ==
    ASSUME AInv, NEW length \in 1 .. DeviceSize, OnWriteData(length)
    PROVE  LET n == Smaller(length, totalSize)
           IN  /\ n \in 0 .. totalSize
               /\ device' = device \o Read(n)
               /\ device' \in Seq(Byte)
               /\ readPos' = (readPos + n) % Capacity /\ readPos' \in Slots
               /\ totalSize' = totalSize - n /\ totalSize' \in 0 .. Capacity
               /\ Tight'
<1> DEFINE n == Smaller(length, totalSize)
<1>1. /\ Capacity \in Nat \ {0} /\ readPos \in 0 .. Capacity - 1
      /\ totalSize \in 0 .. Capacity /\ writePos = (readPos + totalSize) % Capacity
  BY AudioAssumption DEF AInv, TypeOK, Slots, Tight
<1>2. length \in Nat
  BY AudioAssumption
<1>3. n \in 0 .. totalSize
  BY <1>1, <1>2, FirstCopy
<1>4. /\ device' = device \o Read(n) /\ readPos' = (readPos + n) % Capacity
      /\ totalSize' = totalSize - n /\ writePos' = writePos
  BY DEF OnWriteData
<1> HIDE DEF n
<1>5. device' \in Seq(Byte)
  BY <1>3, <1>4, ReadType, ConcatProperties DEF AInv, TypeOK
<1>6. readPos' \in Slots
  BY <1>1, <1>3, <1>4, Modulo DEF Slots
<1>7. totalSize' \in 0 .. Capacity
  BY <1>1, <1>3, <1>4
<1>8. Tight'
  BY <1>1, <1>3, <1>4, Wraps DEF Tight
<1> QED BY <1>3, <1>4, <1>5, <1>6, <1>7, <1>8 DEF n

LEMMA OnWriteDataKeeps ==
    ASSUME AInv, NEW length \in 1 .. DeviceSize, OnWriteData(length)
    PROVE  AInv'
<1> DEFINE n == Smaller(length, totalSize)
<1>1. /\ n \in 0 .. totalSize /\ device' = device \o Read(n) /\ device' \in Seq(Byte)
      /\ readPos' \in Slots /\ totalSize' = totalSize - n /\ totalSize' \in 0 .. Capacity
      /\ Tight'
  BY CallbackFacts
<1>2. /\ renderer = "running" /\ lastWrite' = "recent"
      /\ woken' = (woken \/ (pc = "waiting" /\ n > 0))
      /\ UNCHANGED <<core, pc, block, ring, writePos, renderer, isPlaying, isInitialized,
                     flushedSincePlay>>
  BY DEF OnWriteData, WakesPush
<1>3. totalSize \in Nat
  BY AudioAssumption DEF AInv, TypeOK
<1> HIDE DEF n
<1>4. TypeOK'
  BY <1>1, <1>2 DEF AInv, TypeOK
<1>5. NoLostWakeup'
  <2>1. CASE n = 0
    <3>1. totalSize' = totalSize
      BY <1>1, <1>3, <2>1
    <3>2. woken' = woken
      BY <1>2, <2>1 DEF AInv, TypeOK
    <3> QED BY <1>2, <3>1, <3>2 DEF AInv, NoLostWakeup, MustWait, Fits
  <2>2. CASE n # 0
    <3>1. n > 0
      BY <1>1, <1>3, <2>2
    <3> QED BY <1>2, <3>1 DEF NoLostWakeup
  <2> QED BY <2>1, <2>2
<1>6. NothingStale'
  <2> SUFFICES ASSUME Idle, flushedSincePlay PROVE totalSize' = 0 /\ device' = <<>>
    BY <1>2 DEF NothingStale, Idle
  <2>1. totalSize = 0 /\ device = <<>>
    BY DEF AInv, NothingStale
  <2>2. n = 0
    BY <1>1, <2>1
  <2>3. Read(n) \in Seq(Byte) /\ Len(Read(n)) = 0
    BY <1>1, <2>2, ReadType
  <2>4. device \o Read(n) = <<>>
    BY <2>1, <2>3, ConcatProperties DEF AInv, TypeOK
  <2> QED BY <1>1, <2>1, <2>2, <2>4
<1>7. Control' /\ PauseIsNoStall'
  BY <1>1, <1>2 DEF AInv, Control, PauseIsNoStall
<1> QED BY <1>1, <1>4, <1>5, <1>6, <1>7 DEF AInv

LEMMA HearKeeps == ASSUME AInv, Hear PROVE AInv'
<1>1. /\ ring' \in [Slots -> Byte] /\ readPos' \in Slots /\ writePos' \in Slots
      /\ totalSize' \in 0 .. Capacity /\ totalSize' = totalSize /\ Tight'
  BY QuietKeeps DEF Hear
<1>2. device # <<>> /\ device' \in Seq(Byte)
  BY HeadTailProperties DEF Hear, AInv, TypeOK
<1>3. TypeOK'
  BY <1>1, <1>2 DEF Hear, AInv, TypeOK, sysVars
<1>4. Control' /\ NothingStale' /\ NoLostWakeup' /\ PauseIsNoStall'
  BY <1>1, <1>2 DEF Hear, AInv, Control, NothingStale, NoLostWakeup, MustWait, Fits,
                    PauseIsNoStall, sysVars, Idle
<1> QED BY <1>1, <1>3, <1>4 DEF AInv

LEMMA FalterKeeps == ASSUME AInv, Falter PROVE AInv'
<1>1. /\ ring' \in [Slots -> Byte] /\ readPos' \in Slots /\ writePos' \in Slots
      /\ totalSize' \in 0 .. Capacity /\ totalSize' = totalSize /\ Tight'
  BY QuietKeeps DEF Falter
<1>2. TypeOK'
  BY <1>1 DEF Falter, AInv, TypeOK, sysVars
<1>3. Control' /\ NothingStale' /\ NoLostWakeup' /\ PauseIsNoStall'
  BY <1>1 DEF Falter, AInv, Control, NothingStale, NoLostWakeup, MustWait, Fits,
              PauseIsNoStall, sysVars, Idle
<1> QED BY <1>1, <1>2, <1>3 DEF AInv

LEMMA TwoSecondsPassKeeps == ASSUME AInv, TwoSecondsPass PROVE AInv'
<1>1. /\ ring' \in [Slots -> Byte] /\ readPos' \in Slots /\ writePos' \in Slots
      /\ totalSize' \in 0 .. Capacity /\ totalSize' = totalSize /\ Tight'
  BY QuietKeeps DEF TwoSecondsPass
<1>2. TypeOK'
  BY <1>1 DEF TwoSecondsPass, AInv, TypeOK
<1>3. Control' /\ NothingStale' /\ NoLostWakeup' /\ PauseIsNoStall'
  BY <1>1 DEF TwoSecondsPass, AInv, Control, NothingStale, NoLostWakeup, MustWait, Fits,
              PauseIsNoStall, Idle
<1> QED BY <1>1, <1>2, <1>3 DEF AInv

LEMMA StutterKeeps == ASSUME AInv, UNCHANGED vars PROVE AInv'
BY DEF vars, queueVars, sysVars, AInv, TypeOK, Tight, Control, NothingStale, NoLostWakeup,
       MustWait, Fits, PauseIsNoStall, Idle

LEMMA NextKeeps == AInv /\ [Next]_vars => AInv'
BY StartKeeps, RenewedKeeps, PlayKeeps, PushKeeps, PushTimesOutKeeps, PauseKeeps, ResumeKeeps,
   FlushKeeps, FlushRendererKeeps, StopKeeps, OnWriteDataKeeps, HearKeeps, FalterKeeps,
   TwoSecondsPassKeeps, StutterKeeps
   DEF Next, Call, System

(* The invariant the theorems rest on. *)
LEMMA AlwaysAInv == Spec => []AInv
<1> QED BY InitAInv, NextKeeps, PTL DEF Spec

(* The ring's indices stay inside it and it never holds more than it can,
   whatever is pushed and drained. *)
THEOREM TypeCorrect == Spec => []TypeOK
<1>1. AInv => TypeOK
  BY DEF AInv
<1> QED BY <1>1, AlwaysAInv, PTL

(* A flush that is skipped would have found nothing: the ring and the
   renderer are empty. *)
THEOREM FlushLeavesNothing == Spec => []NothingStale
<1>1. AInv => NothingStale
  BY DEF AInv
<1> QED BY <1>1, AlwaysAInv, PTL

(* No push sleeps beside room it could use without having been signalled. *)
THEOREM WakeupsArrive == Spec => []NoLostWakeup
<1>1. AInv => NoLostWakeup
  BY DEF AInv
<1> QED BY <1>1, AlwaysAInv, PTL

(* A long pause is never taken for a stalled renderer. *)
THEOREM PauseIsPause == Spec => []PauseIsNoStall
<1>1. AInv => PauseIsNoStall
  BY DEF AInv
<1> QED BY <1>1, AlwaysAInv, PTL

-----------------------------------------------------------------------------
(* Refinement of AudioFifo *)
QueuedIsRead ==
    /\ Queued \in Seq(Byte) /\ Len(Queued) = totalSize
    /\ \A i \in 1 .. totalSize : Queued[i] = ring[(readPos + i - 1) % Capacity]

LEMMA QueuedType == AInv => QueuedIsRead
<1> SUFFICES ASSUME AInv PROVE QueuedIsRead
  OBVIOUS
<1>1. /\ Capacity \in Nat \ {0} /\ totalSize \in Nat /\ readPos \in Nat
      /\ ring \in [0 .. Capacity - 1 -> Byte]
  BY AudioAssumption DEF AInv, TypeOK, Slots
<1> DEFINE at(i) == ring[(readPos + i - 1) % Capacity]
<1>2. ASSUME NEW i \in 1 .. totalSize PROVE at(i) \in Byte
  <2>1. readPos + i - 1 \in Nat
    BY <1>1
  <2>2. (readPos + i - 1) % Capacity \in 0 .. Capacity - 1
    BY <1>1, <2>1, Modulo
  <2> QED BY <1>1, <2>2
<1>3. Queued = [i \in 1 .. totalSize |-> at(i)]
  BY DEF Queued
<1>4. \A i \in 1 .. totalSize : Queued[i] = at(i)
  BY <1>3
<1> HIDE DEF at
<1>5. Queued \in [1 .. totalSize -> Byte]
  BY <1>2, <1>3
<1> QED BY <1>1, <1>4, <1>5, FunctionsAreSequences DEF at, QueuedIsRead

LEMMA QueuedUnchanged == UNCHANGED queueVars => Queued' = Queued
BY DEF queueVars, Queued

(* Where a slot lies that is d behind r in a ring of c slots. *)
LEMMA Behind ==
    ASSUME NEW c \in Nat \ {0}, NEW r \in 0 .. c - 1, NEW d \in 0 .. c
    PROVE  (r + d) % c = IF r + d < c THEN r + d ELSE r + d - c
<1> DEFINE m(a) == a % c
<1>1. \A a \in Nat : /\ a < c => m(a) = a
                     /\ c <= a /\ a < c + c => m(a) = a - c
  BY Modulo
<1> HIDE DEF m
<1>2. m(r + d) = IF r + d < c THEN r + d ELSE r + d - c
  BY <1>1
<1> QED BY <1>2 DEF m

(* A push appends its block: it writes behind the last byte and spares those
   that are queued. *)
LEMMA CopyInTakes ==
    ASSUME AInv, pc \in {"pushing", "waiting"}, Fits(block), CopyIn, AInv'
    PROVE  Queued' = Queued \o block
<1> DEFINE c == Capacity  r == readPos  t == totalSize  w == writePos  l == Len(block)
           first == Smaller(l, c - w)
<1>1. /\ c \in Nat \ {0} /\ r \in 0 .. c - 1 /\ t \in 0 .. c /\ w \in 0 .. c - 1
      /\ block \in Seq(Byte) /\ l \in Nat /\ l <= c - t
  BY AudioAssumption, BlockFacts DEF AInv, TypeOK, Slots, Fits
<1>2. w = IF r + t < c THEN r + t ELSE r + t - c
  BY <1>1, Behind DEF AInv, Tight
<1>3. /\ first \in Nat /\ first <= l /\ first <= c - w
      /\ first = l \/ first = c - w
  <2>1. c - w \in Nat
    BY <1>1
  <2> QED BY <1>1, <2>1, FirstCopy
<1>4. /\ Queued \in Seq(Byte) /\ Len(Queued) = t
      /\ \A i \in 1 .. t : Queued[i] = ring[(r + i - 1) % c]
  BY QueuedType DEF QueuedIsRead
<1>5. /\ Queued' \in Seq(Byte) /\ Len(Queued') = t + l
      /\ \A i \in 1 .. t + l : Queued'[i] = ring'[(r + i - 1) % c]
  <2>1. /\ Queued' \in Seq(Byte) /\ Len(Queued') = totalSize'
        /\ \A i \in 1 .. totalSize' : Queued'[i] = ring'[(readPos' + i - 1) % Capacity]
    <3>1. QueuedIsRead'
      BY QueuedType, PTL
    <3> QED BY <3>1 DEF QueuedIsRead
  <2> QED BY <2>1 DEF CopyIn
<1>6. ASSUME NEW j \in 0 .. c - 1
      PROVE  ring'[j] = IF j \in w .. w + first - 1 THEN block[j - w + 1]
                        ELSE IF j \in 0 .. l - first - 1 THEN block[first + j + 1]
                        ELSE ring[j]
  BY <1>6 DEF CopyIn, Written, Slots
<1>7. /\ Queued \o block \in Seq(Byte) /\ Len(Queued \o block) = t + l
      /\ \A i \in 1 .. t + l :
            (Queued \o block)[i] = IF i <= t THEN Queued[i] ELSE block[i - t]
  BY <1>1, <1>4, ConcatProperties
<1> HIDE DEF c, r, t, w, l, first
<1>8. ASSUME NEW i \in 1 .. t + l PROVE Queued'[i] = (Queued \o block)[i]
  <2> DEFINE j == (r + i - 1) % c
  <2>1. j = IF r + i - 1 < c THEN r + i - 1 ELSE r + i - 1 - c
    <3>1. i - 1 \in 0 .. c
      BY <1>1
    <3>2. (r + (i - 1)) % c = IF r + (i - 1) < c THEN r + (i - 1) ELSE r + (i - 1) - c
      BY <1>1, <3>1, Behind
    <3>3. r + (i - 1) = r + i - 1
      BY <1>1
    <3> QED BY <3>2, <3>3
  <2>2. Queued'[i] = ring'[j] /\ (i <= t => Queued[i] = ring[j])
    BY <1>1, <1>4, <1>5
  <2> HIDE DEF j
  <2>3. j \in 0 .. c - 1
    BY <1>1, <2>1
  <2>4. CASE i <= t
    <3>1. j \notin w .. w + first - 1 /\ j \notin 0 .. l - first - 1
      <4>1. CASE r + t < c
        <5>1. w = r + t /\ j = r + i - 1 /\ j < w /\ r <= j
          BY <1>1, <1>2, <2>1, <2>4, <4>1
        <5>2. l - first <= r
          BY <1>1, <1>3, <4>1, <5>1
        <5> QED BY <1>1, <1>3, <5>1, <5>2
      <4>2. CASE c <= r + t
        <5>0. w = r + t - c /\ l < c - w /\ w + l <= r
          BY <1>1, <1>2, <4>2
        <5>1. w = r + t - c /\ first = l /\ w + first <= r
          BY <1>1, <1>3, <5>0
        <5>2. r <= j \/ j < w
          BY <1>1, <1>2, <2>1, <2>4, <5>1
        <5>3. j \in Nat /\ w \in Nat /\ first \in Nat /\ r \in Nat
          BY <1>1, <1>3, <2>3
        <5>4. j \notin w .. w + first - 1
          BY <5>1, <5>2, <5>3
        <5>5. l - first - 1 = 0 - 1
          BY <1>1, <5>1
        <5> QED BY <5>4, <5>5
      <4> QED BY <1>1, <4>1, <4>2
    <3>2. ring'[j] = ring[j]
      BY <1>6, <2>3, <3>1
    <3> QED BY <1>7, <2>2, <2>4, <3>2
  <2>5. CASE ~(i <= t)
    <3>1. CASE i - t <= first
      <4>1. j \in w .. w + first - 1 /\ j - w + 1 = i - t
        BY <1>1, <1>2, <1>3, <2>1, <2>5, <3>1
      <4>2. ring'[j] = block[i - t]
        BY <1>6, <2>3, <4>1
      <4> QED BY <1>7, <2>2, <2>5, <4>2
    <3>2. CASE ~(i - t <= first)
      <4>1. /\ j \notin w .. w + first - 1 /\ j \in 0 .. l - first - 1
            /\ first + j + 1 = i - t
        BY <1>1, <1>2, <1>3, <2>1, <2>5, <3>2
      <4>2. ring'[j] = block[i - t]
        BY <1>6, <2>3, <4>1
      <4> QED BY <1>7, <2>2, <2>5, <4>2
    <3> QED BY <3>1, <3>2
  <2> QED BY <2>4, <2>5
<1> QED BY <1>5, <1>7, <1>8, SeqEqual

(* A callback takes the oldest bytes, in order, and leaves the others. *)
LEMMA CallbackHands ==
    ASSUME AInv, NEW length \in 1 .. DeviceSize, OnWriteData(length), AInv'
    PROVE  LET n == Smaller(length, totalSize)
           IN  /\ n \in 0 .. Len(Queued)
               /\ device' = device \o SubSeq(Queued, 1, n)
               /\ Queued' = SubSeq(Queued, n + 1, Len(Queued))
<1> DEFINE n == Smaller(length, totalSize)
           c == Capacity  r == readPos  t == totalSize
           first == Smaller(n, c - r)
<1>1. /\ n \in 0 .. t /\ device' = device \o Read(n)
      /\ readPos' = (r + n) % c /\ totalSize' = t - n
  BY CallbackFacts
<1>2. c \in Nat \ {0} /\ r \in 0 .. c - 1 /\ t \in 0 .. c
  BY AudioAssumption DEF AInv, TypeOK, Slots
<1>3. /\ Queued \in Seq(Byte) /\ Len(Queued) = t
      /\ \A i \in 1 .. t : Queued[i] = ring[(r + i - 1) % c]
  BY QueuedType DEF QueuedIsRead
<1>4. /\ Queued' \in Seq(Byte) /\ Len(Queued') = t - n
      /\ \A i \in 1 .. t - n : Queued'[i] = ring[(((r + n) % c) + i - 1) % c]
  <2>1. QueuedIsRead'
    BY QueuedType, PTL
  <2>2. ring' = ring
    BY DEF OnWriteData
  <2> QED BY <1>1, <2>1, <2>2 DEF QueuedIsRead
<1>5. /\ first \in Nat /\ first <= n /\ first <= c - r
      /\ first = n \/ first = c - r
  <2>1. c - r \in Nat /\ n \in Nat
    BY <1>1, <1>2
  <2> QED BY <2>1, FirstCopy
<1>6. /\ Read(n) \in Seq(Byte) /\ Len(Read(n)) = n
      /\ \A i \in 1 .. n :
            Read(n)[i] = IF i <= first THEN ring[r + i - 1] ELSE ring[i - first - 1]
  <2>1. Read(n) = [i \in 1 .. n |-> IF i <= first THEN ring[r + i - 1] ELSE ring[i - first - 1]]
    BY DEF Read
  <2> QED BY <1>1, <2>1, ReadType
<1> HIDE DEF n, c, r, t, first
<1>7. /\ SubSeq(Queued, 1, n) \in Seq(Byte) /\ Len(SubSeq(Queued, 1, n)) = n
      /\ \A i \in 1 .. n : SubSeq(Queued, 1, n)[i] = Queued[i]
  <2>1. n \in Int /\ \A i \in 1 .. n : Queued[i] \in Byte
    BY <1>1, <1>2, <1>3
  <2>2. /\ SubSeq(Queued, 1, n) \in Seq(Byte)
        /\ Len(SubSeq(Queued, 1, n)) = IF 1 <= n THEN n - 1 + 1 ELSE 0
        /\ \A i \in 1 .. n - 1 + 1 : SubSeq(Queued, 1, n)[i] = Queued[1 + i - 1]
    BY <2>1, SubSeqProperties
  <2>3. n - 1 + 1 = n /\ (1 <= n \/ n = 0) /\ \A i \in 1 .. n : 1 + i - 1 = i
    BY <1>1, <1>2
  <2> QED BY <2>2, <2>3
<1>8. /\ SubSeq(Queued, n + 1, t) \in Seq(Byte) /\ Len(SubSeq(Queued, n + 1, t)) = t - n
      /\ \A i \in 1 .. t - n : SubSeq(Queued, n + 1, t)[i] = Queued[n + i]
  <2>1. n + 1 \in Int /\ t \in Int /\ \A i \in n + 1 .. t : Queued[i] \in Byte
    BY <1>1, <1>2, <1>3
  <2>2. /\ SubSeq(Queued, n + 1, t) \in Seq(Byte)
        /\ Len(SubSeq(Queued, n + 1, t)) = IF n + 1 <= t THEN t - (n + 1) + 1 ELSE 0
        /\ \A i \in 1 .. t - (n + 1) + 1 :
              SubSeq(Queued, n + 1, t)[i] = Queued[(n + 1) + i - 1]
    BY <2>1, SubSeqProperties
  <2>3. /\ t - (n + 1) + 1 = t - n /\ (n + 1 <= t \/ t - n = 0)
        /\ \A i \in 1 .. t - n : (n + 1) + i - 1 = n + i
    BY <1>1, <1>2
  <2> QED BY <2>2, <2>3
<1>9. Read(n) = SubSeq(Queued, 1, n)
  <2>1. ASSUME NEW i \in 1 .. n PROVE Read(n)[i] = Queued[i]
    <3>1. i \in 1 .. t /\ i - 1 \in 0 .. c /\ r + (i - 1) = r + i - 1
      BY <1>1, <1>2
    <3>2. (r + (i - 1)) % c = IF r + (i - 1) < c THEN r + (i - 1) ELSE r + (i - 1) - c
      BY <1>2, <3>1, Behind
    <3>3. CASE i <= first
      <4>1. r + i - 1 < c
        BY <1>2, <1>5, <3>3
      <4> QED BY <1>3, <1>6, <3>1, <3>2, <3>3, <4>1
    <3>4. CASE ~(i <= first)
      <4>1. first = c - r
        BY <1>1, <1>2, <1>5, <3>4
      <4>2. ~(r + i - 1 < c) /\ r + i - 1 - c = i - first - 1
        BY <1>2, <3>4, <4>1
      <4> QED BY <1>3, <1>6, <3>1, <3>2, <3>4, <4>2
    <3> QED BY <3>3, <3>4
  <2> QED BY <1>6, <1>7, <2>1, SeqEqual
<1>10. Queued' = SubSeq(Queued, n + 1, t)
  <2>1. ASSUME NEW i \in 1 .. t - n PROVE Queued'[i] = Queued[n + i]
    <3>1. /\ n + i \in 1 .. t /\ i - 1 \in 0 .. c - n /\ n \in 0 .. c
          /\ r + (n + (i - 1)) = r + (n + i) - 1
      BY <1>1, <1>2
    <3>2. (((r + n) % c) + (i - 1)) % c = (r + (n + (i - 1))) % c
      BY <1>2, <3>1, Wraps
    <3>3. (r + n) % c \in 0 .. c - 1
      BY <1>2, <3>1, Modulo
    <3>4. ((r + n) % c) + (i - 1) = ((r + n) % c) + i - 1
      BY <1>2, <3>1, <3>3
    <3> QED BY <1>3, <1>4, <3>1, <3>2, <3>4
  <2> QED BY <1>4, <1>8, <2>1, SeqEqual
<1> QED BY <1>1, <1>3, <1>9, <1>10 DEF n, t

LEMMA ClearEmpties == AInv /\ Clear => Queued' = <<>>
<1> SUFFICES ASSUME AInv, Clear PROVE Queued' = <<>>
  OBVIOUS
<1>1. totalSize' = 0
  BY DEF Clear
<1>2. Queued' = [i \in 1 .. 0 |-> ring'[(readPos' + i - 1) % Capacity]]
  BY <1>1 DEF Queued
<1> QED BY <1>2

(* A push that returns hands the queue its block or nothing. *)
LEMMA ReturnTakes ==
    ASSUME AInv, AInv', pc \in {"pushing", "waiting"}, UNCHANGED device,
           (Fits(block) /\ CopyIn) \/ UNCHANGED queueVars
    PROVE  Fifo!Next \/ UNCHANGED Fifo!fifo
<1>1. CASE Fits(block) /\ CopyIn
  <2>1. block \in Blocks /\ Queued' = Queued \o block
    BY <1>1, CopyInTakes, BlockFacts
  <2> QED BY <2>1 DEF Fifo!Next, Fifo!Take
<1>2. CASE UNCHANGED queueVars
  BY <1>2, QueuedUnchanged DEF Fifo!fifo
<1> QED BY <1>1, <1>2

(* The ring and the renderer's buffer implement the queue of AudioFifo:
   whole blocks, in order, whatever their sizes. *)
THEOREM Refinement == Spec => ImplementsFifo
<1>1. Init => Fifo!Init
  <2> SUFFICES ASSUME Init PROVE Queued = <<>> /\ device = <<>>
    BY DEF Fifo!Init
  <2>1. totalSize = 0 /\ device = <<>>
    BY DEF Init
  <2>2. Queued = [i \in 1 .. 0 |-> ring[(readPos + i - 1) % Capacity]]
    BY <2>1 DEF Queued
  <2> QED BY <2>1, <2>2
<1>2. AInv /\ AInv' /\ [Next]_vars => [Fifo!Next]_(Fifo!fifo)
  <2> SUFFICES ASSUME AInv, AInv', [Next]_vars
               PROVE  Fifo!Next \/ UNCHANGED Fifo!fifo
    BY DEF Fifo!fifo
  <2>1. ASSUME UNCHANGED queueVars, device' \in {device, <<>>}
        PROVE  Fifo!Next \/ UNCHANGED Fifo!fifo
    BY <2>1, QueuedUnchanged DEF Fifo!Next, Fifo!DropDevice, Fifo!fifo
  <2>2. ASSUME Clear, device' \in {device, <<>>}
        PROVE  Fifo!Next
    BY <2>2, ClearEmpties DEF Fifo!Next, Fifo!DropQueue
  <2>3. ASSUME NEW ok \in BOOLEAN, Start(ok) PROVE Fifo!Next \/ UNCHANGED Fifo!fifo
    BY <2>1, <2>3 DEF Start, Renew
  <2>4. ASSUME NEW b \in Blocks, NEW ok \in BOOLEAN, Play(b, ok)
        PROVE  Fifo!Next \/ UNCHANGED Fifo!fifo
    <3>1. UNCHANGED queueVars /\ device' \in {device, <<>>}
      BY <2>4 DEF Play, Renew
    <3> QED BY <2>1, <3>1
  <2>5. CASE Renewed
    BY <2>1, <2>5 DEF Renewed
  <2>6. CASE Push
    <3>1. /\ pc \in {"pushing", "waiting"} /\ UNCHANGED device
          /\ (Fits(block) /\ CopyIn) \/ UNCHANGED queueVars
      BY <2>6 DEF Push, MustWait
    <3> QED BY <3>1, ReturnTakes
  <2>7. CASE PushTimesOut
    <3>1. /\ pc \in {"pushing", "waiting"} /\ UNCHANGED device
          /\ (Fits(block) /\ CopyIn) \/ UNCHANGED queueVars
      BY <2>7 DEF PushTimesOut, RoomAfterWait
    <3> QED BY <3>1, ReturnTakes
  <2>8. CASE Pause \/ Resume
    BY <2>1, <2>8 DEF Pause, Resume
  <2>9. CASE Flush \/ Stop
    BY <2>2, <2>9 DEF Flush, Stop
  <2>10. CASE FlushRenderer
    BY <2>1, <2>10 DEF FlushRenderer
  <2>11. ASSUME NEW length \in 1 .. DeviceSize, OnWriteData(length)
         PROVE  Fifo!Next \/ UNCHANGED Fifo!fifo
    <3> DEFINE n == Smaller(length, totalSize)
    <3>1. /\ n \in 0 .. Len(Queued)
          /\ device' = device \o SubSeq(Queued, 1, n)
          /\ Queued' = SubSeq(Queued, n + 1, Len(Queued))
      BY <2>11, CallbackHands
    <3> HIDE DEF n
    <3>2. Len(Queued) \in Nat /\ Queued \in Seq(Byte) /\ device \in Seq(Byte)
      BY QueuedType DEF QueuedIsRead, AInv, TypeOK
    <3>3. CASE n = 0
      <4>1. SubSeq(Queued, 1, 0) = <<>> /\ SubSeq(Queued, 1, Len(Queued)) = Queued
        BY <3>2
      <4>2. device \o <<>> = device
        BY <3>2
      <4>3. device' = device
        BY <3>1, <3>3, <4>1, <4>2
      <4>4. Queued' = Queued
        <5>1. n + 1 = 1
          BY <3>3
        <5> QED BY <3>1, <4>1, <5>1
      <4> QED BY <4>3, <4>4 DEF Fifo!fifo
    <3>4. CASE n # 0
      <4>1. n \in 1 .. Len(Queued)
        BY <3>1, <3>2, <3>4
      <4> QED BY <3>1, <4>1 DEF Fifo!Next, Fifo!Hand
    <3> QED BY <3>3, <3>4
  <2>12. CASE Hear
    BY <2>12, QueuedUnchanged DEF Hear, Fifo!Next, Fifo!Hear
  <2>13. CASE Falter \/ TwoSecondsPass
    BY <2>1, <2>13 DEF Falter, TwoSecondsPass
  <2>14. CASE UNCHANGED vars
    BY <2>1, <2>14 DEF vars
  <2> QED BY <2>3, <2>4, <2>5, <2>6, <2>7, <2>8, <2>9, <2>10, <2>11, <2>12, <2>13, <2>14
             DEF Next, Call, System
<1> QED BY <1>1, <1>2, AlwaysAInv, PTL DEF Spec, ImplementsFifo, Fifo!Spec
=============================================================================
