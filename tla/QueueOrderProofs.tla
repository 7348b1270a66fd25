-------------------------- MODULE QueueOrderProofs --------------------------
(***************************************************************************)
(* Proofs about the play order, for queues of every length.  The part on   *)
(* shuffle rests on two counting facts about the history: a history that   *)
(* is short of the queue leaves an index to draw, and one that is not and  *)
(* holds nothing twice has met all of them.                                *)
(***************************************************************************)
EXTENDS QueueOrder, FiniteSetTheorems, SequenceTheorems, TLAPS

(* A queue that is not empty has a current item; an empty one plays nothing. *)
Placed == (size > 0 => current # None) /\ (playing => size > 0)

OInv == TypeOK /\ Placed

-----------------------------------------------------------------------------
LEMMA SeqFacts ==
    ASSUME NEW S
    PROVE  /\ <<>> \in Seq(S)
           /\ \A s \in Seq(S), e \in S : Append(s, e) \in Seq(S)
           /\ \A s \in Seq(S) : s # <<>> => s[Len(s)] \in S
           /\ \A s \in Seq(S) : s # <<>> => SubSeq(s, 1, Len(s) - 1) \in Seq(S)
OBVIOUS

LEMMA SeqWidens ==
    ASSUME NEW S, NEW T, S \subseteq T, NEW s \in Seq(S)
    PROVE  s \in Seq(T)
OBVIOUS

(* What prev leaves of the history. *)
LEMMA FrontFacts ==
    ASSUME NEW S, NEW s \in Seq(S), s # <<>>
    PROVE  /\ Len(SubSeq(s, 1, Len(s) - 1)) = Len(s) - 1
           /\ \A k \in 1 .. Len(s) - 1 : SubSeq(s, 1, Len(s) - 1)[k] = s[k]
<1>1. Len(s) \in Nat \ {0} /\ \A i \in 1 .. Len(s) - 1 : s[i] \in S
  OBVIOUS
<1>2. /\ Len(SubSeq(s, 1, Len(s) - 1)) = IF 1 <= Len(s) - 1 THEN (Len(s) - 1) - 1 + 1 ELSE 0
      /\ \A i \in 1 .. (Len(s) - 1) - 1 + 1 : SubSeq(s, 1, Len(s) - 1)[i] = s[1 + i - 1]
  BY <1>1, SubSeqProperties
<1> DEFINE f == SubSeq(s, 1, Len(s) - 1)
<1>3. Len(f) = Len(s) - 1
  <2> HIDE DEF f
  <2>1. Len(f) = IF 1 <= Len(s) - 1 THEN (Len(s) - 1) - 1 + 1 ELSE 0
    BY <1>2 DEF f
  <2>2. \A n \in Nat \ {0} : \A m : m = (IF 1 <= n - 1 THEN (n - 1) - 1 + 1 ELSE 0) => m = n - 1
    OBVIOUS
  <2> QED BY <1>1, <2>1, <2>2
<1>4. \A k \in 1 .. Len(s) - 1 : f[k] = s[k]
  <2> HIDE DEF f
  <2>1. \A i \in 1 .. (Len(s) - 1) - 1 + 1 : f[i] = s[1 + i - 1]
    BY <1>2 DEF f
  <2> TAKE k \in 1 .. Len(s) - 1
  <2>2. k \in 1 .. (Len(s) - 1) - 1 + 1 /\ 1 + k - 1 = k
    BY <1>1
  <2> QED BY <2>1, <2>2
<1> QED BY <1>3, <1>4 DEF f

LEMMA InitOInv == Init => OInv
<1> SUFFICES ASSUME Init PROVE OInv
  OBVIOUS
<1>1. history \in Seq(Indices)
  BY DEF Init
<1>2. size \in 0 .. MaxSize
  BY OrderAssumption DEF Init
<1>3. shuffle \in BOOLEAN /\ playing \in BOOLEAN /\ heard \subseteq Indices
  BY DEF Init
<1>4. Placed
  BY DEF Init, Placed
<1> QED BY <1>1, <1>2, <1>3, <1>4 DEF Init, OInv, TypeOK

LEMMA ShuffledType ==
    ASSUME OInv, size > 0, NEW over \in BOOLEAN, Shuffled(over)
    PROVE  /\ current' \in Indices /\ heard' \subseteq Indices
           /\ history' \in Seq(Indices) /\ inVain' \in BOOLEAN
<1>1. current \in Indices
  BY DEF OInv, TypeOK, Placed
<1>2. current' \in Indices
  BY DEF Shuffled
<1>3. heard' \subseteq Indices
  BY <1>1, <1>2 DEF Shuffled, Heard, OInv, TypeOK
<1>4. history' \in Seq(Indices)
  BY <1>1, SeqFacts DEF Shuffled, OInv, TypeOK
<1>5. inVain' \in BOOLEAN
  BY DEF Shuffled, Heard
<1> QED BY <1>2, <1>3, <1>4, <1>5

LEMMA GoOnType ==
    ASSUME OInv, size > 0, GoOn
    PROVE  /\ current' \in Indices /\ current' # None /\ heard' \subseteq Indices
           /\ history' \in Seq(Indices) /\ playing' = TRUE
           /\ inVain' \in BOOLEAN
           /\ UNCHANGED <<size, shuffle, repeatMode>>
<1>1. CASE shuffle /\ repeatMode # 2
  <2>1. Shuffled(RoundOver)
    BY <1>1 DEF GoOn
  <2>2. RoundOver \in BOOLEAN
    BY DEF RoundOver
  <2>3. /\ current' \in Indices /\ heard' \subseteq Indices
        /\ history' \in Seq(Indices) /\ inVain' \in BOOLEAN
    BY <2>1, <2>2, ShuffledType
  <2> QED BY <2>3 DEF GoOn, Indices, None
<1>2. CASE ~(shuffle /\ repeatMode # 2)
  <2>1. /\ current' = Sequential /\ heard' = heard \cup {current'}
        /\ UNCHANGED <<history, inVain>>
    BY <1>2 DEF GoOn
  <2>2. current' \in Indices
    BY <2>1 DEF Sequential, Indices, OInv, TypeOK, Placed, None
  <2> QED BY <2>1, <2>2 DEF GoOn, OInv, TypeOK, Indices, None
<1> QED BY <1>1, <1>2

LEMMA StopType ==
    ASSUME OInv, StopPlaying
    PROVE  /\ history' = <<>> /\ playing' = FALSE /\ heard' = {current} \ {None}
           /\ inVain' = FALSE
           /\ UNCHANGED <<size, current, shuffle, repeatMode>>
BY DEF StopPlaying, ForgetHistory

LEMMA NextOInv == OInv /\ [Next]_vars => OInv'
<1> SUFFICES ASSUME OInv, [Next]_vars PROVE OInv'
  OBVIOUS
<1>1. ASSUME size > 0, GoOn, cameFrom' \in {current, None} PROVE OInv'
  <2>1. /\ current' \in Indices /\ current' # None /\ heard' \subseteq Indices
        /\ history' \in Seq(Indices) /\ playing' = TRUE
        /\ inVain' \in BOOLEAN
        /\ UNCHANGED <<size, shuffle, repeatMode>>
    BY <1>1, GoOnType
  <2>2. Indices' = Indices
    BY <2>1 DEF Indices
  <2> QED BY <1>1, <2>1, <2>2 DEF OInv, TypeOK, Placed
<1>2. ASSUME StopPlaying, cameFrom' = None PROVE OInv'
  <2>1. Indices' = Indices /\ history' \in Seq(Indices)
    BY <1>2, StopType, SeqFacts DEF Indices
  <2> QED BY <1>2, <2>1, StopType DEF OInv, TypeOK, Placed
<1>3. CASE NextTrack
  BY <1>1, <1>3 DEF NextTrack
<1>4. CASE OnComplete
  <2>1. CASE StopPlaying
    BY <1>2, <1>4, <2>1 DEF OnComplete
  <2>2. CASE GoOn
    BY <1>1, <1>4, <2>2 DEF OnComplete, OInv, Placed
  <2> QED BY <1>4, <2>1, <2>2 DEF OnComplete
<1>5. ASSUME NEW late \in BOOLEAN, Prev(late) PROVE OInv'
  <2>1. Indices' = Indices /\ current \in Indices /\ size > 0
    BY <1>5 DEF Prev, Indices, OInv, TypeOK, Placed
  <2>2. CASE StayHere /\ UNCHANGED playing
    BY <1>5, <2>1, <2>2 DEF Prev, StayHere, OInv, TypeOK, Placed
  <2>3. CASE Back /\ heard' = heard \cup {current'} /\ playing' = TRUE
    <3>1. current' \in Indices /\ history' \in Seq(Indices)
      <4>1. CASE shuffle /\ history # <<>>
        <5>1. current' = history[Len(history)] /\ history' = SubSeq(history, 1, Len(history) - 1)
          BY <2>3, <4>1 DEF Back
        <5> QED BY <4>1, <5>1, SeqFacts DEF OInv, TypeOK
      <4>2. CASE shuffle /\ history = <<>>
        BY <2>1, <2>3, <4>2 DEF Back, OInv, TypeOK
      <4>3. CASE ~shuffle
        <5>1. history' = history /\ current' = IF current = 0 THEN size - 1 ELSE current - 1
          BY <2>3, <4>3 DEF Back
        <5>2. current' \in Indices
          BY <2>1, <5>1 DEF Indices, OInv, TypeOK
        <5> QED BY <5>1, <5>2 DEF OInv, TypeOK
      <4> QED BY <4>1, <4>2, <4>3
    <3>2. current' # None
      BY <3>1 DEF Indices, None
    <3> QED BY <1>5, <2>1, <2>3, <3>1, <3>2 DEF Prev, OInv, TypeOK, Placed
  <2> QED BY <1>5, <2>2, <2>3 DEF Prev
<1>6. CASE Stop
  BY <1>2, <1>6 DEF Stop
<1>7. CASE Play
  BY <1>7 DEF Play, OInv, TypeOK, Placed, Indices, roundVars
<1>8. ASSUME NEW n \in 1 .. MaxSize, NEW i \in 0 .. n - 1, PlayList(n, i) PROVE OInv'
  <2>1. history' \in Seq(Indices')
    BY <1>8, SeqFacts DEF PlayList
  <2>2. size' \in 0 .. MaxSize /\ current' \in Indices' /\ current' # None
    BY <1>8, OrderAssumption DEF PlayList, Indices, None
  <2>3. heard' \subseteq Indices' /\ cameFrom' = None
    BY <1>8, <2>2 DEF PlayList
  <2>4. inVain' \in BOOLEAN /\ playing' \in BOOLEAN /\ UNCHANGED <<shuffle, repeatMode>>
    BY <1>8 DEF PlayList
  <2>5. TypeOK'
    BY <2>1, <2>2, <2>3, <2>4 DEF OInv, TypeOK
  <2>6. Placed'
    <3>1. size' > 0
      BY <1>8, OrderAssumption DEF PlayList
    <3> QED BY <2>2, <3>1 DEF Placed
  <2> QED BY <2>5, <2>6 DEF OInv
<1>9. ASSUME NEW n \in 1 .. MaxSize, AppendItems(n) PROVE OInv'
  <2>1. Indices \subseteq Indices' /\ size \in Indices' /\ size' \in 0 .. MaxSize
    BY <1>9, OrderAssumption DEF AppendItems, OInv, TypeOK, Indices
  <2>2. history' \in Seq(Indices')
    BY <1>9, <2>1, SeqWidens DEF AppendItems, OInv, TypeOK
  <2>3. current' # None /\ size' > 0
    BY <1>9, OrderAssumption DEF AppendItems, OInv, TypeOK, None
  <2> QED BY <1>9, <2>1, <2>2, <2>3 DEF AppendItems, OInv, TypeOK, Placed
<1>10. CASE ToggleShuffle
  <2>1. history' \in Seq(Indices') /\ Indices' = Indices
    BY <1>10, SeqFacts DEF ToggleShuffle, ForgetHistory, Indices
  <2> QED BY <1>10, <2>1 DEF ToggleShuffle, ForgetHistory, OInv, TypeOK, Placed
<1>11. CASE CycleRepeat
  BY <1>11 DEF CycleRepeat, OInv, TypeOK, Placed, Indices, roundVars
<1>12. CASE UNCHANGED vars
  BY <1>12 DEF vars, OInv, TypeOK, Placed, Indices, roundVars
<1> QED
  BY <1>3, <1>4, <1>5, <1>6, <1>7, <1>8, <1>9, <1>10, <1>11, <1>12 DEF Next, User

(* The current index stays within the queue and the history too. *)
THEOREM TypeCorrect == Spec => []TypeOK
<1>1. OInv => TypeOK
  BY DEF OInv
<1> QED BY InitOInv, NextOInv, <1>1, PTL DEF Spec

-----------------------------------------------------------------------------
(* The history holds distinct indices while computeNextIndex goes on. *)
LEMMA HistoryStep ==
    ASSUME OInv, size > 0, NEW over \in BOOLEAN, Shuffled(over)
    PROVE  IF over THEN history' = <<current>>
           ELSE /\ Len(history') = Len(history) + 1
                /\ history'[Len(history) + 1] = current
                /\ \A k \in 1 .. Len(history) : history'[k] = history[k]
<1>1. current \in Indices /\ history \in Seq(Indices)
  BY DEF OInv, TypeOK, Placed
<1> QED BY <1>1 DEF Shuffled

(* HistoryBounded needs nothing but the types. *)
LEMMA BoundedStep == OInv /\ HistoryBounded /\ [Next]_vars => HistoryBounded'
<1> SUFFICES ASSUME OInv, HistoryBounded, [Next]_vars PROVE HistoryBounded'
  OBVIOUS
<1>0. size \in Nat /\ Len(history) \in Nat
  BY OrderAssumption DEF OInv, TypeOK
<1>1. ASSUME size > 0, GoOn PROVE HistoryBounded'
  <2>1. UNCHANGED <<size, shuffle>>
    BY <1>1 DEF GoOn
  <2>2. CASE shuffle /\ repeatMode # 2 /\ RoundOver
    <3>1. Shuffled(RoundOver) /\ RoundOver \in BOOLEAN
      BY <1>1, <2>2 DEF GoOn, RoundOver
    <3>2. history' = <<current>>
      BY <1>1, <2>2, <3>1, HistoryStep
    <3> QED BY <1>0, <1>1, <2>1, <2>2, <3>2 DEF HistoryBounded
  <2>3. CASE shuffle /\ repeatMode # 2 /\ ~RoundOver
    <3>1. Shuffled(RoundOver) /\ RoundOver \in BOOLEAN
      BY <1>1, <2>3 DEF GoOn, RoundOver
    <3>2. Len(history') = Len(history) + 1
      BY <1>1, <2>3, <3>1, HistoryStep
    <3> QED BY <1>0, <2>1, <2>3, <3>2 DEF HistoryBounded, RoundOver
  <2>4. CASE ~(shuffle /\ repeatMode # 2)
    <3>1. history' = history
      BY <1>1, <2>4 DEF GoOn
    <3> QED BY <2>1, <3>1 DEF HistoryBounded
  <2> QED BY <2>2, <2>3, <2>4
<1>2. ASSUME history' = <<>>, size' \in Nat PROVE HistoryBounded'
  BY <1>2 DEF HistoryBounded
<1>3. ASSUME UNCHANGED <<size, shuffle, history>> PROVE HistoryBounded'
  BY <1>3 DEF HistoryBounded
<1>4. CASE NextTrack
  BY <1>1, <1>4 DEF NextTrack
<1>5. CASE OnComplete
  BY <1>0, <1>1, <1>2, <1>5 DEF OnComplete, StopPlaying, ForgetHistory, OInv, Placed
<1>6. ASSUME NEW late \in BOOLEAN, Prev(late) PROVE HistoryBounded'
  <2>1. CASE StayHere \/ history' = history
    BY <1>3, <1>6, <2>1 DEF Prev, StayHere
  <2>2. CASE shuffle /\ history # <<>> /\ history' = SubSeq(history, 1, Len(history) - 1)
    <3>1. Len(history') = Len(history) - 1
      BY <2>2, FrontFacts DEF OInv, TypeOK
    <3>2. UNCHANGED <<size, shuffle>>
      BY <1>6 DEF Prev
    <3> QED BY <1>0, <2>2, <3>1, <3>2 DEF HistoryBounded
  <2> QED BY <1>6, <2>1, <2>2 DEF Prev, Back
<1>7. CASE Stop \/ ToggleShuffle
  BY <1>0, <1>2, <1>7 DEF Stop, StopPlaying, ToggleShuffle, ForgetHistory
<1>8. ASSUME NEW n \in 1 .. MaxSize, NEW i \in 0 .. n - 1, PlayList(n, i) PROVE HistoryBounded'
  BY <1>2, <1>8, OrderAssumption DEF PlayList
<1>9. ASSUME NEW n \in 1 .. MaxSize, AppendItems(n) PROVE HistoryBounded'
  <2>1. size' = size + n /\ n > 0 /\ n \in Nat /\ UNCHANGED <<shuffle, history>>
    BY <1>9, OrderAssumption DEF AppendItems
  <2>2. Len(history) < size'
    BY <1>0, <2>1 DEF HistoryBounded
  <2> QED BY <1>0, <2>1, <2>2 DEF HistoryBounded
<1>10. CASE Play \/ CycleRepeat \/ UNCHANGED vars
  BY <1>3, <1>10 DEF Play, CycleRepeat, vars
<1> QED BY <1>4, <1>5, <1>6, <1>7, <1>8, <1>9, <1>10 DEF Next, User

(* The shuffle history never outgrows the queue, so a round of shuffle is  *)
(* over after at most as many steps as the queue is long.                  *)
THEOREM HistoryStaysBounded == Spec => []HistoryBounded
<1>1. Init => HistoryBounded
  BY DEF Init, HistoryBounded
<1> QED BY InitOInv, NextOInv, BoundedStep, <1>1, PTL DEF Spec

-----------------------------------------------------------------------------
(***************************************************************************)
(* The rounds of shuffle, while the draws find an index not yet played.    *)
(***************************************************************************)
(* A history shorter than the rest of the queue leaves an index to draw. *)
LEMMA LeavesOne ==
    ASSUME NEW n \in Nat, NEW h \in Seq(0 .. n - 1), NEW c, Len(h) + 1 < n
    PROVE  (0 .. n - 1) \ ({c} \cup Members(h)) # {}
<1> DEFINE S == 0 .. n - 1
           T == 1 .. Len(h) + 1
           At(k) == IF k = Len(h) + 1 THEN c ELSE h[k]
           g == [i \in S |-> CHOOSE k \in T : At(k) = i]
<1>1. SUFFICES ASSUME S \ ({c} \cup Members(h)) = {} PROVE FALSE
  OBVIOUS
<1>2. Len(h) \in Nat
  OBVIOUS
<1>3. ASSUME NEW i \in S PROVE \E k \in T : At(k) = i
  <2>1. CASE i = c
    <3>1. Len(h) + 1 \in T
      BY <1>2
    <3>2. At(Len(h) + 1) = i
      BY <2>1
    <3> QED BY <3>1, <3>2
  <2>2. CASE i \in Members(h)
    <3>1. PICK k \in 1 .. Len(h) : h[k] = i
      BY <2>2 DEF Members
    <3>2. k \in T /\ k # Len(h) + 1
      BY <1>2, <3>1
    <3> QED BY <3>1, <3>2
  <2> QED BY <1>1, <1>3, <2>1, <2>2
<1>4. \A i \in S : g[i] \in T /\ At(g[i]) = i
  <2> TAKE i \in S
  <2>1. g[i] = CHOOSE k \in T : At(k) = i
    OBVIOUS
  <2> HIDE DEF g, At, T
  <2> QED BY <1>3, <2>1
<1>5. g \in [S -> T]
  BY <1>4
<1>6. /\ IsFiniteSet(S) /\ Cardinality(S) = n
      /\ IsFiniteSet(T) /\ Cardinality(T) = Len(h) + 1
  <2>1. IsFiniteSet(S) /\ Cardinality(S) = IF 0 > n - 1 THEN 0 ELSE (n - 1) - 0 + 1
    BY FS_Interval
  <2>2. IsFiniteSet(T) /\ Cardinality(T) = IF 1 > Len(h) + 1 THEN 0 ELSE (Len(h) + 1) - 1 + 1
    BY <1>2, FS_Interval
  <2> HIDE DEF S, T
  <2> QED BY <1>2, <2>1, <2>2
<1> HIDE DEF S, T, g, At
<1>7. Cardinality(T) < Cardinality(S)
  BY <1>2, <1>6
<1>8. \E x, y \in S : x # y /\ g[x] = g[y]
  BY <1>5, <1>6, <1>7, FS_PigeonHole
<1> QED BY <1>4, <1>8

(* A history as long as the rest of the queue that holds nothing twice     *)
(* has, together with the current index, met the whole queue.              *)
LEMMA MetAll ==
    ASSUME NEW n \in Nat, NEW h \in Seq(0 .. n - 1), NEW c \in 0 .. n - 1,
           c \notin Members(h), Len(h) + 1 >= n,
           \A j, k \in 1 .. Len(h) : j # k => h[j] # h[k]
    PROVE  0 .. n - 1 \subseteq {c} \cup Members(h)
<1> DEFINE S == 1 .. Len(h) + 1
           f == [k \in S |-> IF k = Len(h) + 1 THEN c ELSE h[k]]
<1>1. SUFFICES ASSUME NEW i \in 0 .. n - 1, i \notin {c} \cup Members(h) PROVE FALSE
  OBVIOUS
<1> DEFINE T == (0 .. n - 1) \ {i}
<1>2. Len(h) \in Nat /\ \A k \in S : k # Len(h) + 1 => k \in 1 .. Len(h)
  <2>1. \A m \in Nat : \A k \in 1 .. m + 1 : k # m + 1 => k \in 1 .. m
    OBVIOUS
  <2>2. Len(h) \in Nat
    OBVIOUS
  <2>3. \A k \in 1 .. Len(h) + 1 : k # Len(h) + 1 => k \in 1 .. Len(h)
    BY <2>1, <2>2
  <2> QED BY <2>2, <2>3
<1>3. \A k \in 1 .. Len(h) : h[k] \in 0 .. n - 1 /\ h[k] \in Members(h)
  BY DEF Members
<1>4. f \in [S -> T]
  <2> SUFFICES ASSUME NEW k \in S
               PROVE  (IF k = Len(h) + 1 THEN c ELSE h[k]) \in T
    OBVIOUS
  <2>1. CASE k = Len(h) + 1
    BY <1>1, <2>1
  <2>2. CASE k # Len(h) + 1
    <3>1. k \in 1 .. Len(h)
      BY <1>2, <2>2
    <3> QED BY <1>1, <1>3, <2>2, <3>1
  <2> QED BY <2>1, <2>2
<1>5. /\ IsFiniteSet(S) /\ Cardinality(S) = Len(h) + 1
      /\ IsFiniteSet(T) /\ Cardinality(T) = n - 1
  <2>1. IsFiniteSet(S) /\ Cardinality(S) = IF 1 > Len(h) + 1 THEN 0 ELSE (Len(h) + 1) - 1 + 1
    BY <1>2, FS_Interval
  <2>2. /\ IsFiniteSet(0 .. n - 1)
        /\ Cardinality(0 .. n - 1) = IF 0 > n - 1 THEN 0 ELSE (n - 1) - 0 + 1
    BY FS_Interval
  <2>3. IsFiniteSet(T) /\ Cardinality(T) = Cardinality(0 .. n - 1) - 1
    BY <1>1, <2>2, FS_RemoveElement
  <2>4. n > 0
    BY <1>1
  <2> HIDE DEF S, T
  <2>5. Cardinality(S) = Len(h) + 1
    BY <1>2, <2>1
  <2>6. Cardinality(T) = n - 1
    BY <2>2, <2>3, <2>4
  <2> QED BY <2>1, <2>3, <2>5, <2>6
<1>6. \A k \in S : f[k] = IF k = Len(h) + 1 THEN c ELSE h[k]
  OBVIOUS
<1>7. \A x, y \in S : x # y => f[x] # f[y]
  <2> SUFFICES ASSUME NEW x \in S, NEW y \in S, x # y PROVE f[x] # f[y]
    OBVIOUS
  <2> HIDE DEF f
  <2>1. CASE x # Len(h) + 1 /\ y # Len(h) + 1
    <3>1. x \in 1 .. Len(h) /\ y \in 1 .. Len(h)
      BY <1>2, <2>1
    <3> QED BY <1>6, <2>1, <3>1
  <2>2. CASE x = Len(h) + 1 /\ y # Len(h) + 1
    <3>1. y \in 1 .. Len(h)
      BY <1>2, <2>2
    <3> QED BY <1>3, <1>6, <2>2, <3>1
  <2>3. CASE x # Len(h) + 1 /\ y = Len(h) + 1
    <3>1. x \in 1 .. Len(h)
      BY <1>2, <2>3
    <3> QED BY <1>3, <1>6, <2>3, <3>1
  <2> QED BY <2>1, <2>2, <2>3
<1> HIDE DEF S, T, f
<1>8. Cardinality(T) < Cardinality(S)
  BY <1>2, <1>5
<1>9. \E x, y \in S : x # y /\ f[x] = f[y]
  BY <1>4, <1>5, <1>8, FS_PigeonHole
<1> QED BY <1>7, <1>9

(* What was played in the round is recorded: no index of the history was   *)
(* forgotten by heard.                                                     *)
AllHeard == Members(history) \subseteq heard /\ (size > 0 => current \in heard)

RoundInv == NothingTwice /\ AllHeard

(* Going on with shuffle draws a new index and remembers the current one. *)
LEMMA ShuffledRound ==
    ASSUME OInv, RoundInv, size > 0, UNCHANGED size, Shuffled(RoundOver)
    PROVE  RoundInv'
<1>1. /\ current \in Indices /\ history \in Seq(Indices)
      /\ size \in Nat /\ Len(history) \in Nat /\ RoundOver \in BOOLEAN
  BY OrderAssumption DEF OInv, TypeOK, Placed, RoundOver
<1>2. CASE RoundOver
  <2>1. /\ history' = <<current>> /\ heard' = {current, current'}
        /\ Fresh(<<>>) # {} /\ ~inVain' => current' \in Fresh(<<>>)
    <3>1. history' = Append(<<>>, current) /\ Heard(TRUE, <<>>)
      BY <1>2 DEF Shuffled
    <3>2. history' = <<current>>
      BY <3>1
    <3>3. heard' = {current, current'}
      BY <3>1 DEF Heard
    <3>4. Fresh(<<>>) # {} /\ ~inVain' => current' \in Fresh(<<>>)
      BY <3>1, Zenon DEF Heard
    <3> QED BY <3>2, <3>3, <3>4
  <2>2. Members(<<>>) = {} /\ Members(history') = {current}
    BY <2>1 DEF Members
  <2>3. size > 1 /\ ~inVain' => current' # current
    <3> SUFFICES ASSUME size > 1, ~inVain' PROVE current' # current
      OBVIOUS
    <3>1. 0 \in Indices /\ 1 \in Indices
      BY <1>1 DEF Indices
    <3>2. Fresh(<<>>) # {}
      BY <2>2, <3>1 DEF Fresh
    <3> QED BY <2>1, <3>2 DEF Fresh
  <2>4. NothingTwice'
    BY <2>1, <2>2, <2>3 DEF NothingTwice
  <2> QED BY <2>1, <2>2, <2>4 DEF RoundInv, AllHeard
<1>3. CASE ~RoundOver
  <2>1. /\ history' = Append(history, current) /\ heard' = heard \cup {current'}
        /\ ~inVain' => ~inVain
        /\ Fresh(history) # {} /\ ~inVain' => current' \in Fresh(history)
    BY <1>3 DEF Shuffled, Heard
  <2>2. /\ Len(history') = Len(history) + 1
        /\ history'[Len(history) + 1] = current
        /\ \A k \in 1 .. Len(history) : history'[k] = history[k]
    BY <1>1, <2>1
  <2>3. Members(history') = Members(history) \cup {current}
    <3>1. \A k \in 1 .. Len(history') : k \in 1 .. Len(history) \/ k = Len(history) + 1
      BY <1>1, <2>2
    <3>2. Len(history) + 1 \in 1 .. Len(history')
      BY <1>1, <2>2
    <3>3. \A k \in 1 .. Len(history) : k \in 1 .. Len(history')
      BY <1>1, <2>2
    <3>4. Members(history') \subseteq Members(history) \cup {current}
      BY <2>2, <3>1 DEF Members
    <3>5. Members(history) \cup {current} \subseteq Members(history')
      BY <2>2, <3>2, <3>3 DEF Members
    <3> QED BY <3>4, <3>5
  <2>4. Indices \ ({current} \cup Members(history)) # {}
    <3>1. history \in Seq(0 .. size - 1)
      BY <1>1 DEF Indices
    <3>2. Len(history) + 1 < size
      BY <1>1, <1>3 DEF RoundOver
    <3>3. (0 .. size - 1) \ ({current} \cup Members(history)) # {}
      BY <1>1, <3>1, <3>2, LeavesOne
    <3> QED BY <3>3 DEF Indices
  <2>5. ~inVain' => current' \notin Members(history')
    BY <2>1, <2>3, <2>4 DEF Fresh
  <2>6. ~inVain' => size > 1 /\ current \notin Members(history)
    BY <1>1, <1>3, <2>1 DEF RoundOver, RoundInv, NothingTwice
  <2>7. ASSUME ~inVain', NEW j \in 1 .. Len(history'), NEW k \in 1 .. Len(history'), j # k
        PROVE  history'[j] # history'[k]
    <3>1. \A i \in 1 .. Len(history) : history[i] # current
      BY <2>6, <2>7 DEF Members
    <3>2. /\ j \in 1 .. Len(history) \/ j = Len(history) + 1
          /\ k \in 1 .. Len(history) \/ k = Len(history) + 1
      BY <1>1, <2>2
    <3>3. CASE j \in 1 .. Len(history) /\ k \in 1 .. Len(history)
      BY <2>1, <2>2, <2>7, <3>3 DEF RoundInv, NothingTwice
    <3>4. CASE ~(j \in 1 .. Len(history) /\ k \in 1 .. Len(history))
      BY <2>2, <2>7, <3>1, <3>2, <3>4
    <3> QED BY <3>3, <3>4
  <2>8. NothingTwice'
    BY <2>5, <2>7 DEF NothingTwice
  <2>9. AllHeard'
    BY <2>1, <2>3 DEF RoundInv, AllHeard
  <2> QED BY <2>8, <2>9 DEF RoundInv
<1> QED BY <1>2, <1>3

(* An empty history is a round that begins. *)
LEMMA FreshRound ==
    ASSUME history' = <<>>, size' > 0 => current' \in heard'
    PROVE  RoundInv'
<1>1. Members(history') = {}
  BY DEF Members
<1>2. NothingTwice'
  BY <1>1 DEF NothingTwice
<1>3. AllHeard'
  BY <1>1 DEF AllHeard
<1> QED BY <1>2, <1>3 DEF RoundInv

LEMMA RoundStep ==
    OInv /\ HistoryBounded /\ RoundInv /\ [Next]_vars => RoundInv'
<1> SUFFICES ASSUME OInv, HistoryBounded, RoundInv, [Next]_vars PROVE RoundInv'
  OBVIOUS
<1>0. /\ size \in Nat /\ Len(history) \in Nat /\ history \in Seq(Indices)
      /\ heard \subseteq Indices /\ current \in Indices \cup {None}
  BY OrderAssumption DEF OInv, TypeOK
<1>1. ASSUME UNCHANGED <<size, current, history, heard, inVain>> PROVE RoundInv'
  BY <1>1 DEF RoundInv, NothingTwice, AllHeard, Members
<1>2. ASSUME size > 0, GoOn PROVE RoundInv'
  <2>1. CASE shuffle /\ repeatMode # 2
    BY <1>2, <2>1, ShuffledRound DEF GoOn
  <2>2. CASE ~(shuffle /\ repeatMode # 2)
    <3>1. /\ UNCHANGED <<history, size, inVain>>
          /\ heard' = heard \cup {current'} /\ current' = Sequential
      BY <1>2, <2>2 DEF GoOn
    <3>2. CASE shuffle
      <4>1. current' = current
        BY <2>2, <3>1, <3>2 DEF Sequential
      <4>2. heard' = heard
        BY <1>2, <3>1, <4>1 DEF RoundInv, AllHeard
      <4> QED BY <1>1, <3>1, <4>1, <4>2
    <3>3. CASE ~shuffle
      BY <3>1, <3>3, FreshRound DEF HistoryBounded
    <3> QED BY <3>2, <3>3
  <2> QED BY <2>1, <2>2
<1>3. ASSUME ForgetHistory, UNCHANGED <<size, current>> PROVE RoundInv'
  BY <1>3, FreshRound DEF ForgetHistory, OInv, Placed
<1>4. CASE NextTrack
  BY <1>2, <1>4 DEF NextTrack
<1>5. CASE OnComplete
  BY <1>2, <1>3, <1>5 DEF OnComplete, StopPlaying, OInv, Placed
<1>6. ASSUME NEW late \in BOOLEAN, Prev(late) PROVE RoundInv'
  <2>0. UNCHANGED <<size, inVain>>
    BY <1>6 DEF Prev, StayHere
  <2>1. CASE StayHere
    BY <1>1, <1>6, <2>1 DEF Prev, StayHere
  <2>2. CASE ~shuffle /\ history' = history /\ heard' = heard \cup {current'}
    BY <2>2, FreshRound DEF HistoryBounded
  <2>3. CASE shuffle /\ history = <<>> /\ UNCHANGED <<current, history>>
             /\ heard' = heard \cup {current'}
    BY <2>3, FreshRound
  <2>4. CASE shuffle /\ history # <<>> /\ current' = history[Len(history)]
             /\ history' = SubSeq(history, 1, Len(history) - 1)
             /\ heard' = heard \cup {current'}
    <3>1. /\ Len(history') = Len(history) - 1 /\ Len(history) \in 1 .. Len(history)
          /\ \A k \in 1 .. Len(history') : k \in 1 .. Len(history) /\ k # Len(history)
      BY <1>0, <2>4, FrontFacts
    <3>2. \A k \in 1 .. Len(history') : history'[k] = history[k]
      BY <1>0, <2>4, <3>1, FrontFacts
    <3>3. Members(history') \subseteq Members(history)
      BY <3>1, <3>2 DEF Members
    <3>4. ~inVain' => current' \notin Members(history')
      BY <2>0, <2>4, <3>1, <3>2 DEF Members, RoundInv, NothingTwice
    <3>5. NothingTwice'
      BY <2>0, <3>1, <3>2, <3>4 DEF RoundInv, NothingTwice
    <3>6. AllHeard'
      BY <2>4, <3>3 DEF RoundInv, AllHeard
    <3> QED BY <3>5, <3>6 DEF RoundInv
  <2> QED BY <1>6, <2>1, <2>2, <2>3, <2>4 DEF Prev, Back
<1>7. CASE Stop \/ ToggleShuffle
  BY <1>3, <1>7 DEF Stop, StopPlaying, ToggleShuffle
<1>8. ASSUME NEW n \in 1 .. MaxSize, NEW i \in 0 .. n - 1, PlayList(n, i) PROVE RoundInv'
  BY <1>8, FreshRound DEF PlayList
<1>9. ASSUME NEW n \in 1 .. MaxSize, AppendItems(n) PROVE RoundInv'
  <2>1. /\ current' = size /\ heard' = heard \cup {size}
        /\ UNCHANGED <<history, inVain>>
    BY <1>9 DEF AppendItems
  <2>2. Members(history') = Members(history) /\ size \notin Members(history)
    <3>1. size \notin Indices
      BY <1>0 DEF Indices
    <3> QED BY <1>0, <2>1, <3>1 DEF Members
  <2>3. NothingTwice'
    BY <2>1, <2>2 DEF RoundInv, NothingTwice
  <2>4. AllHeard'
    BY <2>1, <2>2 DEF RoundInv, AllHeard
  <2> QED BY <2>3, <2>4 DEF RoundInv
<1>10. CASE Play \/ CycleRepeat \/ UNCHANGED vars
  BY <1>1, <1>10 DEF Play, CycleRepeat, vars, roundVars
<1> QED BY <1>4, <1>5, <1>6, <1>7, <1>8, <1>9, <1>10 DEF Next, User

LEMMA InitRound == Init => HistoryBounded /\ RoundInv
<1> SUFFICES ASSUME Init PROVE HistoryBounded /\ RoundInv
  OBVIOUS
<1>1. Members(history) = {} /\ history = <<>> /\ size = 0
  BY DEF Init, Members
<1> QED BY <1>1 DEF HistoryBounded, RoundInv, NothingTwice, AllHeard

LEMMA RoundAlways == Spec => [](OInv /\ HistoryBounded /\ RoundInv)
<1>1. OInv /\ HistoryBounded /\ RoundInv /\ [Next]_vars
         => (OInv /\ HistoryBounded /\ RoundInv)'
  BY NextOInv, BoundedStep, RoundStep
<1>2. Init => OInv /\ HistoryBounded /\ RoundInv
  BY InitOInv, InitRound
<1> QED BY <1>1, <1>2, PTL DEF Spec

(* While the draws find an index not yet played, shuffle plays nothing     *)
(* twice in a round.                                                       *)
THEOREM ShuffleRepeatsNothing == Spec => []NothingTwice
<1>1. RoundInv => NothingTwice
  BY DEF RoundInv
<1> QED BY RoundAlways, <1>1, PTL

(* ... and a round that ends by itself has played the whole queue. *)
THEOREM ShufflePlaysAll == Spec => []StopsAfterAll
<1>1. OInv /\ HistoryBounded /\ RoundInv => StopsAfterAll
  <2> SUFFICES ASSUME OInv, HistoryBounded, RoundInv, ~inVain, playing, shuffle, EndOfQueue
               PROVE  heard = Indices
    BY DEF StopsAfterAll
  <2>1. /\ size \in Nat /\ size > 0 /\ history \in Seq(0 .. size - 1)
        /\ current \in 0 .. size - 1 /\ Len(history) \in Nat
        /\ heard \subseteq 0 .. size - 1 /\ Len(history) + 1 >= size
    BY OrderAssumption DEF OInv, TypeOK, Placed, Indices, EndOfQueue, RoundOver
  <2>2. {current} \cup Members(history) \subseteq heard
    BY <2>1 DEF RoundInv, AllHeard
  <2>3. CASE size > 1
    <3>1. 0 .. size - 1 \subseteq {current} \cup Members(history)
      BY <2>1, <2>3, MetAll DEF RoundInv, NothingTwice
    <3> QED BY <2>1, <2>2, <3>1 DEF Indices
  <2>4. CASE size = 1
    <3>1. 0 .. size - 1 = {0} /\ current = 0
      BY <2>1, <2>4
    <3> QED BY <2>1, <2>2, <3>1 DEF Indices
  <2>5. size > 1 \/ size = 1
    BY <2>1
  <2> QED BY <2>3, <2>4, <2>5
<1> QED BY RoundAlways, <1>1, PTL

-----------------------------------------------------------------------------
(* What prev goes back to, as long as a manual next is the last move. *)
PrevFindsIt ==
    cameFrom # None /\ repeatMode # 2 =>
        IF shuffle
        THEN history # <<>> /\ history[Len(history)] = cameFrom
        ELSE cameFrom = IF current = 0 THEN size - 1 ELSE current - 1

(* next leaves what prev needs: in the history, or one place back. *)
LEMMA NextLeavesIt ==
    ASSUME OInv, size > 0, GoOn, cameFrom' = current
    PROVE  PrevFindsIt'
<1>0. /\ size \in Nat /\ current \in Indices /\ history \in Seq(Indices)
      /\ UNCHANGED <<size, shuffle, repeatMode>>
  BY OrderAssumption DEF OInv, TypeOK, Placed, GoOn
<1>1. CASE repeatMode = 2
  BY <1>0, <1>1 DEF PrevFindsIt
<1>2. CASE repeatMode # 2 /\ shuffle
  <2>1. history' = Append(<<>>, current) \/ history' = Append(history, current)
    BY <1>2 DEF GoOn, Shuffled
  <2>2. history' # <<>> /\ history'[Len(history')] = current
    BY <1>0, <2>1
  <2> QED BY <1>0, <1>2, <2>2 DEF PrevFindsIt
<1>3. CASE repeatMode # 2 /\ ~shuffle
  <2>1. current' = IF current + 1 < size THEN current + 1 ELSE 0
    BY <1>3 DEF GoOn, Sequential
  <2>2. current = IF current' = 0 THEN size - 1 ELSE current' - 1
    BY <1>0, <2>1 DEF Indices
  <2> QED BY <1>0, <1>3, <2>2 DEF PrevFindsIt
<1> QED BY <1>1, <1>2, <1>3

LEMMA FindsStep == OInv /\ PrevFindsIt /\ [Next]_vars => PrevFindsIt'
<1> SUFFICES ASSUME OInv, PrevFindsIt, [Next]_vars PROVE PrevFindsIt'
  OBVIOUS
<1>1. ASSUME cameFrom' = None PROVE PrevFindsIt'
  BY <1>1 DEF PrevFindsIt
<1>2. ASSUME UNCHANGED <<size, current, shuffle, repeatMode, history, cameFrom>>
      PROVE  PrevFindsIt'
  BY <1>2 DEF PrevFindsIt
<1>3. CASE NextTrack
  BY <1>3, NextLeavesIt DEF NextTrack
<1>4. CASE Play \/ UNCHANGED vars
  BY <1>2, <1>4 DEF Play, vars
<1>5. CASE OnComplete \/ Stop \/ ToggleShuffle \/ CycleRepeat
  BY <1>1, <1>5 DEF OnComplete, Stop, ToggleShuffle, CycleRepeat
<1>6. ASSUME NEW late \in BOOLEAN, Prev(late) PROVE PrevFindsIt'
  BY <1>1, <1>6 DEF Prev
<1>7. ASSUME NEW n \in 1 .. MaxSize, AppendItems(n) PROVE PrevFindsIt'
  BY <1>1, <1>7 DEF AppendItems
<1>8. ASSUME NEW n \in 1 .. MaxSize, NEW i \in 0 .. n - 1, PlayList(n, i)
      PROVE  PrevFindsIt'
  BY <1>1, <1>8 DEF PlayList
<1> QED BY <1>3, <1>4, <1>5, <1>6, <1>7, <1>8 DEF Next, User

(* prev after next is where the listener was: whatever the order of        *)
(* playing, and also when next started a round or wrapped around.          *)
THEOREM PrevGoesBack == Spec => PrevUndoesNext
<1>1. Init => OInv /\ PrevFindsIt
  BY InitOInv DEF Init, PrevFindsIt
<1>2. OInv /\ PrevFindsIt /\ [Next]_vars => (OInv /\ PrevFindsIt)'
  BY NextOInv, FindsStep
<1>3. ASSUME OInv, PrevFindsIt
      PROVE  [Prev(FALSE) /\ repeatMode # 2 /\ cameFrom # None => current' = cameFrom]_vars
  <2> SUFFICES ASSUME Prev(FALSE), repeatMode # 2, cameFrom # None
               PROVE  current' = cameFrom
    OBVIOUS
  <2>1. Back
    BY DEF Prev
  <2> QED BY <1>3, <2>1 DEF Back, PrevFindsIt
<1> QED BY <1>1, <1>2, <1>3, PTL DEF Spec, PrevUndoesNext
=============================================================================
