---------------------------- MODULE ServiceProofs ----------------------------
(***************************************************************************)
(* Two followers of the events of the player: the background task          *)
(* (ContinuousTask) and the media session of the system (MediaSession).    *)
(*                                                                         *)
(* Of the task, that none the system runs is unknown to the service but    *)
(* one whose end it refused, and that the task is there while playback     *)
(* goes on, however many calls are under way.  Of the session, that a      *)
(* silence is never lost among throttled and merged updates.               *)
(***************************************************************************)
EXTENDS ContinuousTask, MediaSession, SequenceTheorems, TLAPS

-----------------------------------------------------------------------------
(***************************************************************************)
(* The background task                                                     *)
(***************************************************************************)
Kinds == {"start", "stop"}

(* The requests no stop is among. *)
NoStop(q) == \A k \in 1 .. Len(q) : q[k] # "stop"

LEMMA AppendGrows ==
    ASSUME NEW q \in Seq(Kinds), NEW x \in Kinds
    PROVE  Append(q, x) \in Seq(Kinds) /\ Len(Append(q, x)) = Len(q) + 1
OBVIOUS

LEMMA TailShrinks ==
    ASSUME NEW q \in Seq(Kinds), q # <<>>
    PROVE  /\ Tail(q) \in Seq(Kinds)
           /\ Len(q) \in Nat \ {0}
           /\ Len(Tail(q)) = Len(q) - 1
           /\ \A k \in 1 .. Len(Tail(q)) : Tail(q)[k] = q[k + 1]
           /\ Head(q) = q[1]
OBVIOUS

(* A request added to the others leaves them in their places. *)
LEMMA AppendNoStop ==
    ASSUME NEW q \in Seq(Kinds), NEW x \in Kinds, NoStop(Append(q, x))
    PROVE  NoStop(q) /\ x # "stop"
<1>1. \A k \in 1 .. Len(q) : Append(q, x)[k] = q[k]
  OBVIOUS
<1>2. Append(q, x)[Len(q) + 1] = x /\ Len(Append(q, x)) = Len(q) + 1 /\ Len(q) \in Nat
  OBVIOUS
<1>3. \A k \in 1 .. Len(q) : k \in 1 .. Len(q) + 1
  BY <1>2
<1>4. Len(q) + 1 \in 1 .. Len(q) + 1
  BY <1>2
<1> QED BY <1>1, <1>2, <1>3, <1>4 DEF NoStop

(* A queue that starts with "start" and has no stop behind it has none. *)
LEMMA TailNoStop ==
    ASSUME NEW q \in Seq(Kinds), q # <<>>, Head(q) = "start", NoStop(Tail(q))
    PROVE  NoStop(q)
<1>1. /\ Len(q) \in Nat \ {0} /\ Len(Tail(q)) = Len(q) - 1 /\ q[1] = "start"
      /\ \A k \in 1 .. Len(Tail(q)) : Tail(q)[k] = q[k + 1]
  BY TailShrinks
<1>2. ASSUME NEW k \in 1 .. Len(q) PROVE q[k] # "stop"
  <2>1. CASE k = 1
    BY <1>1, <2>1
  <2>2. CASE k # 1
    <3>1. k - 1 \in 1 .. Len(Tail(q)) /\ (k - 1) + 1 = k
      BY <1>1, <2>2
    <3> QED BY <1>1, <3>1 DEF NoStop
  <2> QED BY <2>1, <2>2
<1> QED BY <1>2 DEF NoStop

-----------------------------------------------------------------------------
LEMMA TaskTypeInit == TaskInit => TaskTypeOK
<1> SUFFICES ASSUME TaskInit PROVE TaskTypeOK
  OBVIOUS
<1>1. requests \in Seq({"start", "stop"}) /\ Len(requests) = 0
  BY DEF TaskInit
<1>2. awaiting + Len(requests) <= MaxCalls /\ awaiting \in Nat
  BY <1>1, TaskAssumption DEF TaskInit
<1> QED BY <1>1, <1>2 DEF TaskInit, TaskTypeOK, UnderWay

LEMMA TaskTypeNext == TaskTypeOK /\ [TaskNext]_taskVars => TaskTypeOK'
<1> SUFFICES ASSUME TaskTypeOK, [TaskNext]_taskVars PROVE TaskTypeOK'
  OBVIOUS
<1>q. /\ requests \in Seq(Kinds) /\ Len(requests) \in Nat /\ awaiting \in Nat
      /\ awaiting + Len(requests) <= MaxCalls /\ MaxCalls \in Nat
  BY TaskAssumption DEF TaskTypeOK, UnderWay, Kinds
<1>s. requests' \in Seq(Kinds) <=> requests' \in Seq({"start", "stop"})
  BY DEF Kinds
<1>a. ASSUME NEW x \in Kinds
      PROVE  Append(requests, x) \in Seq(Kinds) /\ Len(Append(requests, x)) = Len(requests) + 1
  BY <1>q, AppendGrows
<1>1. CASE TaskOnPlaying
  <2>1. CASE active
    BY <1>1, <2>1 DEF TaskOnPlaying, StartTask, TaskTypeOK, UnderWay
  <2>2. CASE ~active /\ agent
    <3>1. requests' = Append(requests, "start") /\ awaiting' = awaiting /\ UnderWay < MaxCalls
      BY <1>1, <2>2 DEF TaskOnPlaying, StartTask
    <3>2. requests' \in Seq(Kinds) /\ awaiting' + Len(requests') <= MaxCalls
      BY <1>a, <1>q, <3>1 DEF Kinds, UnderWay
    <3> QED BY <1>1, <1>s, <3>1, <3>2 DEF TaskOnPlaying, TaskTypeOK, UnderWay
  <2>3. CASE ~active /\ ~agent
    <3>1. awaiting' = awaiting + 1 /\ requests' = requests /\ UnderWay < MaxCalls
      BY <1>1, <2>3 DEF TaskOnPlaying, StartTask
    <3>2. awaiting' \in Nat /\ awaiting' + Len(requests') <= MaxCalls
      BY <1>q, <3>1 DEF UnderWay
    <3> QED BY <1>1, <3>1, <3>2 DEF TaskOnPlaying, TaskTypeOK, UnderWay
  <2> QED BY <2>1, <2>2, <2>3
<1>2. CASE TaskOnSilent
  <2>1. CASE ~active
    BY <1>2, <2>1 DEF TaskOnSilent, StopTask, TaskTypeOK, UnderWay
  <2>2. CASE active
    <3>1. requests' = Append(requests, "stop") /\ awaiting' = awaiting /\ UnderWay < MaxCalls
      BY <1>2, <2>2 DEF TaskOnSilent, StopTask
    <3>2. requests' \in Seq(Kinds) /\ awaiting' + Len(requests') <= MaxCalls
      BY <1>a, <1>q, <3>1 DEF Kinds, UnderWay
    <3> QED BY <1>2, <1>s, <3>1, <3>2 DEF TaskOnSilent, StopTask, TaskTypeOK, UnderWay
  <2> QED BY <2>1, <2>2
<1>3. CASE AgentAnswers
  <2>1. awaiting > 0 /\ awaiting' = awaiting - 1 /\ agent' \in BOOLEAN
    BY <1>3 DEF AgentAnswers, TaskTypeOK
  <2>2. requests' = Append(requests, "start") \/ requests' = requests
    BY <1>3 DEF AgentAnswers
  <2>3. requests' \in Seq(Kinds) /\ Len(requests') <= Len(requests) + 1 /\ Len(requests') \in Nat
    BY <1>a, <1>q, <2>2 DEF Kinds
  <2>4. awaiting' \in Nat /\ awaiting' + Len(requests') <= MaxCalls
    BY <1>q, <2>1, <2>3
  <2> QED BY <1>3, <1>s, <2>1, <2>3, <2>4 DEF AgentAnswers, TaskTypeOK, UnderWay
<1>4. ASSUME NEW kind \in Kinds, Answers(kind)
      PROVE  requests' \in Seq(Kinds) /\ awaiting + Len(requests') <= MaxCalls
  <2>1. requests # <<>> /\ requests' = Tail(requests)
    BY <1>4 DEF Answers
  <2> QED BY <1>q, <2>1, TailShrinks
<1>5. CASE StartGranted
  BY <1>4, <1>5, <1>s DEF StartGranted, ActiveOnceStarted, TaskTypeOK, UnderWay, Kinds
<1>6. CASE StopGranted
  BY <1>4, <1>6, <1>s DEF StopGranted, TaskTypeOK, UnderWay, Kinds
<1>7. CASE \E kind \in Kinds : Refused(kind)
  <2>1. PICK kind \in Kinds : Refused(kind)
    BY <1>7
  <2>2. /\ Answers(kind) /\ odd' \in BOOLEAN /\ unstopped' \in BOOLEAN
        /\ UNCHANGED <<playing, active, agent, awaiting, running>>
    BY <2>1 DEF Refused
  <2>3. requests' \in Seq(Kinds) /\ awaiting + Len(requests') <= MaxCalls
    BY <1>4, <2>2
  <2> QED BY <1>s, <2>2, <2>3 DEF TaskTypeOK, UnderWay
<1>8. CASE UNCHANGED taskVars
  BY <1>8 DEF taskVars, TaskTypeOK, UnderWay
<1> QED BY <1>1, <1>2, <1>3, <1>5, <1>6, <1>7, <1>8 DEF TaskNext, Kinds

(* The calls under way stay within the bound, and what the service keeps   *)
(* of them has its type.                                                   *)
THEOREM TaskTypeCorrect == TaskSpec => []TaskTypeOK
BY TaskTypeInit, TaskTypeNext, PTL DEF TaskSpec

-----------------------------------------------------------------------------
TaskInv == TaskTypeOK /\ RunningIsKnown

LEMMA KnownNext == TaskInv /\ [TaskNext]_taskVars => RunningIsKnown'
<1> SUFFICES ASSUME TaskInv, [TaskNext]_taskVars PROVE RunningIsKnown'
  OBVIOUS
<1>q. requests \in Seq(Kinds)
  BY DEF TaskInv, TaskTypeOK, Kinds
<1>k. RunningIsKnown <=> (running /\ NoStop(requests) => active \/ unstopped)
  BY DEF RunningIsKnown, NoStop
<1>n. RunningIsKnown' <=> (running' /\ NoStop(requests') => active' \/ unstopped')
  BY DEF RunningIsKnown, NoStop
<1>i. running /\ NoStop(requests) => active \/ unstopped
  BY <1>k DEF TaskInv
<1>a. ASSUME requests' = Append(requests, "start"), running' = running, active' = active,
             unstopped' = unstopped
      PROVE  RunningIsKnown'
  BY <1>a, <1>i, <1>n, <1>q, AppendNoStop DEF Kinds
<1>1. CASE TaskOnPlaying
  <2>1. running' = running /\ active' = active /\ unstopped' = unstopped
    BY <1>1 DEF TaskOnPlaying
  <2>2. requests' = requests \/ requests' = Append(requests, "start")
    BY <1>1 DEF TaskOnPlaying, StartTask
  <2> QED BY <1>a, <1>i, <1>n, <2>1, <2>2
<1>2. CASE TaskOnSilent
  <2>1. running' = running /\ unstopped' = unstopped
    BY <1>2 DEF TaskOnSilent
  <2>2. CASE ~active
    <3>1. requests' = requests
      BY <1>2, <2>2 DEF TaskOnSilent, StopTask
    <3>2. active' = active
      BY <1>2, <2>2 DEF TaskOnSilent, StopTask, TaskInv, TaskTypeOK
    <3> QED BY <1>i, <1>n, <2>1, <3>1, <3>2
  <2>3. CASE active
    <3>1. requests' = Append(requests, "stop")
      BY <1>2, <2>3 DEF TaskOnSilent, StopTask
    <3>2. ~NoStop(requests')
      BY <1>q, <3>1, AppendNoStop DEF Kinds
    <3> QED BY <1>n, <3>2
  <2> QED BY <2>2, <2>3
<1>3. CASE AgentAnswers
  <2>1. running' = running /\ active' = active /\ unstopped' = unstopped
    BY <1>3 DEF AgentAnswers
  <2>2. requests' = requests \/ requests' = Append(requests, "start")
    BY <1>3 DEF AgentAnswers
  <2> QED BY <1>a, <1>i, <1>n, <2>1, <2>2
<1>4. CASE StartGranted
  BY <1>4, <1>n DEF StartGranted, ActiveOnceStarted
<1>5. CASE StopGranted
  BY <1>5, <1>n DEF StopGranted
<1>6. CASE \E kind \in Kinds : Refused(kind)
  <2>1. CASE Refused("start")
    <3>1. /\ requests # <<>> /\ Head(requests) = "start" /\ requests' = Tail(requests)
          /\ running' = running /\ active' = active /\ (unstopped => unstopped')
      BY <2>1 DEF Refused, Answers
    <3>2. NoStop(requests') => NoStop(requests)
      BY <1>q, <3>1, TailNoStop
    <3> QED BY <1>i, <1>n, <3>1, <3>2
  <2>2. CASE Refused("stop")
    <3>1. running' = running /\ (running => unstopped')
      BY <2>2 DEF Refused
    <3> QED BY <1>n, <3>1
  <2> QED BY <1>6, <2>1, <2>2 DEF Kinds
<1>7. CASE UNCHANGED taskVars
  BY <1>7, <1>i, <1>n DEF taskVars
<1> QED BY <1>1, <1>2, <1>3, <1>4, <1>5, <1>6, <1>7 DEF TaskNext, Kinds

(* Whatever the system refuses, and however many calls are under way: the  *)
(* service knows of every task that the system runs and that no request on *)
(* its way will end, unless it asked for its end and was refused           *)
(* (startContinuousTask, stopContinuousTask).                              *)
THEOREM RunningKnown == TaskSpec => []RunningIsKnown
<1>1. TaskInit => TaskInv
  BY TaskTypeInit DEF TaskInit, TaskInv, RunningIsKnown
<1>2. TaskInv /\ [TaskNext]_taskVars => TaskInv'
  BY TaskTypeNext, KnownNext DEF TaskInv
<1>3. TaskInv => RunningIsKnown
  BY DEF TaskInv
<1> QED BY <1>1, <1>2, <1>3, PTL DEF TaskSpec

-----------------------------------------------------------------------------
(***************************************************************************)
(* The task while playing                                                  *)
(***************************************************************************)
OneStop(q) ==
    \A i, j \in 1 .. Len(q) : q[i] = "stop" /\ q[j] = "stop" => i = j

EndsWithStart(q) == q # <<>> /\ q[Len(q)] = "start"

(* What a new request does to the others. *)
LEMMA StartAppended ==
    ASSUME NEW q \in Seq(Kinds)
    PROVE  LET r == Append(q, "start") IN
           /\ NoStop(r) <=> NoStop(q)
           /\ OneStop(q) => OneStop(r)
           /\ EndsWithStart(r)
<1> DEFINE r == Append(q, "start")
<1>1. /\ Len(q) \in Nat /\ Len(r) = Len(q) + 1
      /\ r[Len(q) + 1] = "start"
      /\ \A k \in 1 .. Len(q) : r[k] = q[k]
  OBVIOUS
<1>2. \A k \in 1 .. Len(r) : k \in 1 .. Len(q) \/ k = Len(q) + 1
  BY <1>1
<1>3. \A k \in 1 .. Len(q) : k \in 1 .. Len(r)
  BY <1>1
<1>4. r # <<>>
  OBVIOUS
<1> HIDE DEF r
<1>5. NoStop(r) <=> NoStop(q)
  BY <1>1, <1>2, <1>3 DEF NoStop
<1>6. OneStop(q) => OneStop(r)
  BY <1>1, <1>2 DEF OneStop
<1>7. EndsWithStart(r)
  BY <1>1, <1>4 DEF EndsWithStart
<1> QED BY <1>5, <1>6, <1>7 DEF r

LEMMA StopAppended ==
    ASSUME NEW q \in Seq(Kinds), NoStop(q)
    PROVE  ~NoStop(Append(q, "stop")) /\ OneStop(Append(q, "stop"))
<1> DEFINE r == Append(q, "stop")
<1>1. /\ Len(q) \in Nat /\ Len(r) = Len(q) + 1
      /\ r[Len(q) + 1] = "stop"
      /\ \A k \in 1 .. Len(q) : r[k] = q[k]
  OBVIOUS
<1>2. \A k \in 1 .. Len(r) : k \in 1 .. Len(q) \/ k = Len(q) + 1
  BY <1>1
<1>3. Len(q) + 1 \in 1 .. Len(r)
  BY <1>1
<1> HIDE DEF r
<1>4. ~NoStop(r)
  BY <1>1, <1>3 DEF NoStop
<1>5. OneStop(r)
  BY <1>1, <1>2 DEF NoStop, OneStop
<1> QED BY <1>4, <1>5 DEF r

(* What remains of the requests when the first is answered. *)
LEMMA FirstAnswered ==
    ASSUME NEW q \in Seq(Kinds), q # <<>>
    PROVE  /\ NoStop(q) => NoStop(Tail(q))
           /\ NoStop(q) => Head(q) # "stop"
           /\ OneStop(q) => OneStop(Tail(q))
           /\ OneStop(q) /\ Head(q) = "stop" => NoStop(Tail(q))
           /\ EndsWithStart(q) /\ Head(q) = "stop" => EndsWithStart(Tail(q))
           /\ EndsWithStart(q) => EndsWithStart(Tail(q)) \/ NoStop(q)
<1> DEFINE r == Tail(q)
<1>1. /\ Len(q) \in Nat \ {0} /\ Len(r) = Len(q) - 1 /\ Head(q) = q[1]
      /\ \A k \in 1 .. Len(r) : r[k] = q[k + 1]
      /\ r \in Seq(Kinds)
  BY TailShrinks
<1>2. /\ 1 \in 1 .. Len(q)
      /\ \A k \in 1 .. Len(r) : k + 1 \in 1 .. Len(q) /\ k + 1 # 1
      /\ \A i, j \in 1 .. Len(r) : i + 1 = j + 1 => i = j
  BY <1>1
<1>3. Len(r) # 0 => r # <<>> /\ Len(r) \in 1 .. Len(r) /\ Len(r) + 1 = Len(q)
  <2>1. Len(r) \in Nat /\ Len(r) + 1 = Len(q)
    BY <1>1
  <2>2. Len(r) # 0 => r # <<>>
    BY EmptySeq
  <2> QED BY <2>1, <2>2
<1> HIDE DEF r
<1>4. NoStop(q) => NoStop(r) /\ Head(q) # "stop"
  BY <1>1, <1>2 DEF NoStop
<1>5. OneStop(q) => OneStop(r)
  BY <1>1, <1>2 DEF OneStop
<1>6. OneStop(q) /\ Head(q) = "stop" => NoStop(r)
  BY <1>1, <1>2 DEF OneStop, NoStop
<1>7. EndsWithStart(q) /\ Len(r) # 0 => EndsWithStart(r)
  BY <1>1, <1>3 DEF EndsWithStart
<1>8. EndsWithStart(q) /\ Len(r) = 0 => NoStop(q) /\ Head(q) = "start"
  <2>1. Len(r) = 0 => Len(q) = 1
    BY <1>1
  <2>2. \A k \in 1 .. 1 : k = 1
    OBVIOUS
  <2> QED BY <1>1, <2>1, <2>2 DEF EndsWithStart, NoStop
<1> QED BY <1>4, <1>5, <1>6, <1>7, <1>8 DEF r

(* As long as nothing odd was answered the service takes the task to be    *)
(* active exactly when it runs and no stop is on its way, at most one stop *)
(* is, and while playback goes on a task that is not active is being asked *)
(* for.                                                                    *)
Expected ==
    ~odd =>
        /\ active <=> running /\ NoStop(requests)
        /\ OneStop(requests)
        /\ ~running => NoStop(requests)
        /\ playing /\ agent /\ awaiting = 0 /\ ~active => EndsWithStart(requests)

LEMMA ExpectedInit == TaskInit => Expected
<1> SUFFICES ASSUME TaskInit PROVE Expected
  OBVIOUS
<1>1. \A k \in 1 .. Len(requests) : FALSE
  BY DEF TaskInit
<1> QED BY <1>1 DEF TaskInit, Expected, NoStop, OneStop

LEMMA ExpectedNext == TaskTypeOK /\ Expected /\ [TaskNext]_taskVars => Expected'
<1> SUFFICES ASSUME TaskTypeOK, Expected, [TaskNext]_taskVars, ~odd' PROVE Expected'
  BY DEF Expected
<1>q. /\ requests \in Seq(Kinds) /\ awaiting \in Nat
      /\ {playing, active, agent, running, odd} \subseteq BOOLEAN
  BY DEF TaskTypeOK, Kinds
<1>o. ~odd
  BY DEF TaskNext, TaskOnPlaying, TaskOnSilent, AgentAnswers, StartGranted, StopGranted,
         Refused, taskVars
<1>e. /\ active <=> running /\ NoStop(requests)
      /\ OneStop(requests)
      /\ ~running => NoStop(requests)
      /\ playing /\ agent /\ awaiting = 0 /\ ~active => EndsWithStart(requests)
  BY <1>o DEF Expected
<1>1. CASE TaskOnPlaying
  <2>1. CASE active
    BY <1>1, <1>e, <2>1 DEF TaskOnPlaying, StartTask, Expected
  <2>2. CASE ~active /\ agent
    <3>1. requests' = Append(requests, "start")
      BY <1>1, <2>2 DEF TaskOnPlaying, StartTask
    <3> QED BY <1>1, <1>e, <1>q, <3>1, StartAppended DEF TaskOnPlaying, Expected
  <2>3. CASE ~active /\ ~agent
    BY <1>1, <1>e, <2>3 DEF TaskOnPlaying, StartTask, Expected
  <2> QED BY <2>1, <2>2, <2>3
<1>2. CASE TaskOnSilent
  <2>1. CASE ~active
    BY <1>2, <1>e, <2>1 DEF TaskOnSilent, StopTask, Expected
  <2>2. CASE active
    <3>1. requests' = Append(requests, "stop") /\ ~active' /\ ~playing'
      BY <1>2, <2>2 DEF TaskOnSilent, StopTask
    <3>2. running' /\ NoStop(requests)
      BY <1>2, <1>e, <2>2 DEF TaskOnSilent
    <3> QED BY <1>q, <3>1, <3>2, StopAppended DEF Expected
  <2> QED BY <2>1, <2>2
<1>3. CASE AgentAnswers
  <2>1. CASE agent'
    <3>1. requests' = Append(requests, "start")
      BY <1>3, <2>1 DEF AgentAnswers
    <3> QED BY <1>3, <1>e, <1>q, <3>1, StartAppended DEF AgentAnswers, Expected
  <2>2. CASE ~agent'
    BY <1>3, <1>e, <2>2 DEF AgentAnswers, Expected
  <2> QED BY <2>1, <2>2
<1>4. CASE StartGranted
  <2>1. requests # <<>> /\ requests' = Tail(requests) /\ running' /\ active'
    BY <1>4 DEF StartGranted, Answers, ActiveOnceStarted
  <2>2. ~running
    BY <1>4 DEF StartGranted
  <2> QED BY <1>e, <1>q, <2>1, <2>2, FirstAnswered DEF Expected
<1>5. CASE StopGranted
  <2>1. /\ requests # <<>> /\ requests' = Tail(requests) /\ Head(requests) = "stop"
        /\ ~running' /\ UNCHANGED <<playing, active, agent, awaiting>>
    BY <1>5 DEF StopGranted, Answers
  <2>2. ~active
    BY <1>e, <1>q, <2>1, FirstAnswered
  <2> QED BY <1>e, <1>q, <2>1, <2>2, FirstAnswered DEF Expected
<1>6. CASE \E kind \in Kinds : Refused(kind)
  <2>1. /\ requests # <<>> /\ requests' = Tail(requests) /\ Head(requests) = "start"
        /\ running /\ UNCHANGED <<playing, active, agent, awaiting, running>>
    BY <1>6 DEF Refused, Answers
  <2>2. NoStop(requests') <=> NoStop(requests)
    BY <1>q, <2>1, FirstAnswered, TailNoStop
  <2> QED BY <1>e, <1>q, <2>1, <2>2, FirstAnswered DEF Expected
<1>7. CASE UNCHANGED taskVars
  BY <1>7, <1>e DEF taskVars, Expected
<1> QED BY <1>1, <1>2, <1>3, <1>4, <1>5, <1>6, <1>7 DEF TaskNext, Kinds

(* Whatever order starts and stops come in, the task is there whenever     *)
(* playback goes on, the agent could be had, nothing is under way and the  *)
(* system granted no task twice and refused nothing else                   *)
(* (startContinuousTask, stopContinuousTask).                              *)
THEOREM TaskKept == TaskSpec => []TaskWhilePlaying
<1>1. TaskTypeOK /\ Expected => TaskWhilePlaying
  <2> SUFFICES ASSUME TaskTypeOK, Expected, ~odd, playing, agent, UnderWay = 0
               PROVE  running
    BY DEF TaskWhilePlaying
  <2>1. awaiting = 0 /\ Len(requests) = 0
    BY DEF TaskTypeOK, UnderWay
  <2>2. requests = <<>>
    BY <2>1 DEF TaskTypeOK
  <2> QED BY <2>1, <2>2 DEF Expected, EndsWithStart
<1> QED BY TaskTypeInit, TaskTypeNext, ExpectedInit, ExpectedNext, <1>1, PTL DEF TaskSpec

-----------------------------------------------------------------------------
(***************************************************************************)
(* The media session                                                       *)
(***************************************************************************)
LEMMA NoneIsNoState == "none" \notin States
BY SilentAssumption DEF States

(* What a report leaves in the mailbox. *)
LEMMA RequestType ==
    ASSUME TypeOK, NEW s \in States, Request(s)
    PROVE  /\ loop' \in {"idle", "ensure", "set"}
           /\ sending' \in Update \cup {NoUpdate}
           /\ pending' \in Update \cup {NoUpdate}
           /\ sending' = NoUpdate <=> loop' = "idle"
           /\ loop' = "set" => session'
           /\ session' = session /\ requested' = s
           /\ UNCHANGED shownVars
<1> DEFINE u == [state |-> s, fresh |-> TRUE]
<1>1. u \in Update /\ u # NoUpdate
  BY NoneIsNoState DEF Update, NoUpdate
<1>2. session' = session /\ requested' = s /\ UNCHANGED shownVars
  BY DEF Request
<1>3. CASE Throttled(s)
  BY <1>2, <1>3 DEF Request, TypeOK, mailVars
<1>4. CASE ~Throttled(s) /\ loop = "idle"
  <2>1. /\ sending' = u /\ pending' = NoUpdate
        /\ session => loop' = "set"
        /\ ~session => loop' = "ensure"
    BY <1>4 DEF Request, Take
  <2> HIDE DEF u
  <2> QED BY <1>1, <1>2, <2>1
<1>5. CASE ~Throttled(s) /\ loop # "idle"
  <2>1. pending' = u /\ loop' = loop /\ sending' = sending
    BY <1>5 DEF Request
  <2> HIDE DEF u
  <2> QED BY <1>1, <1>2, <2>1 DEF TypeOK
<1> QED BY <1>3, <1>4, <1>5

(* What the end of a round of the loop leaves in the mailbox. *)
LEMMA LoopType ==
    ASSUME TypeOK, LoopGoesOn, session' = session
    PROVE  /\ loop' \in {"idle", "ensure", "set"}
           /\ sending' \in Update \cup {NoUpdate}
           /\ pending' \in Update \cup {NoUpdate}
           /\ sending' = NoUpdate <=> loop' = "idle"
           /\ loop' = "set" => session'
<1>1. CASE pending # NoUpdate
  BY <1>1 DEF LoopGoesOn, Take, TypeOK
<1>2. CASE pending = NoUpdate
  BY <1>2 DEF LoopGoesOn, TypeOK
<1> QED BY <1>1, <1>2

(* An update that expires stays an update. *)
LEMMA ExpireType ==
    ASSUME NEW u \in Update \cup {NoUpdate}, u.fresh
    PROVE  LET e == [u EXCEPT !.fresh = FALSE] IN
           u # NoUpdate /\ e \in Update /\ e # NoUpdate /\ e.state = u.state
<1>1. u \in Update
  BY DEF NoUpdate
<1> DEFINE e == [u EXCEPT !.fresh = FALSE]
<1>2. e \in Update /\ e.state = u.state
  BY <1>1 DEF Update
<1>3. e.state # "none" /\ u.state # "none"
  BY <1>1, <1>2, NoneIsNoState DEF Update
<1>4. e # NoUpdate /\ u # NoUpdate
  BY <1>3 DEF NoUpdate
<1> QED BY <1>2, <1>4

LEMMA TypeInit == Init => TypeOK
BY DEF Init, TypeOK, States, NoUpdate

LEMMA TypeNext == TypeOK /\ [Next]_vars => TypeOK'
<1> SUFFICES ASSUME TypeOK, [Next]_vars PROVE TypeOK'
  OBVIOUS
<1>r. ASSUME NEW s \in States, Request(s), playState' \in States, syncing' \in BOOLEAN
      PROVE TypeOK'
  BY <1>r, RequestType DEF TypeOK, shownVars
<1>1. CASE OnPlaying
  BY <1>1, <1>r DEF OnPlaying, States
<1>2. CASE \E s \in Silent : OnSilent(s)
  BY <1>2, <1>r DEF OnSilent, States
<1>3. CASE OnEnded
  BY <1>3, <1>r DEF OnEnded, States, TypeOK
<1>4. CASE Load
  BY <1>4 DEF Load, TypeOK, States, mailVars, shownVars
<1>5. CASE Refresh
  BY <1>5, <1>r DEF Refresh, TypeOK, reportVars
<1>6. CASE Sync
  BY <1>6, <1>r DEF Sync, TypeOK, reportVars
<1>7. CASE EnsureSucceeds
  BY <1>7 DEF EnsureSucceeds, TypeOK, reportVars, shownVars
<1>8. CASE EnsureFails
  BY <1>8, LoopType DEF EnsureFails, TypeOK, reportVars
<1>9. CASE SetSucceeds
  <2>1. sending \in Update
    BY <1>9 DEF SetSucceeds, TypeOK
  <2>2. sending.state \in States /\ sending.fresh \in BOOLEAN
    BY <2>1 DEF Update
  <2> QED BY <1>9, <2>2, LoopType DEF SetSucceeds, TypeOK, reportVars
<1>10. CASE SetFails
  <2>1. sending \in Update
    BY <1>10 DEF SetFails, TypeOK
  <2>2. shown' \in States
    BY <1>10, <2>1 DEF SetFails, TypeOK, Update
  <2> QED BY <1>10, <2>2, LoopType DEF SetFails, TypeOK, reportVars
<1>11. CASE CreatedElsewhere
  BY <1>11 DEF CreatedElsewhere, TypeOK, reportVars, mailVars, shownVars
<1>12. CASE Expire
  <2>1. CASE lastFresh
    BY <1>12, <2>1 DEF Expire, TypeOK, reportVars
  <2>2. CASE ~lastFresh /\ sending.fresh
    BY <1>12, <2>2, ExpireType DEF Expire, TypeOK, reportVars
  <2>3. CASE ~lastFresh /\ ~sending.fresh
    BY <1>12, <2>3, ExpireType DEF Expire, TypeOK, reportVars
  <2> QED BY <2>1, <2>2, <2>3
<1>13. CASE UNCHANGED vars
  BY <1>13 DEF vars, TypeOK, reportVars, mailVars, shownVars
<1> QED
  BY <1>1, <1>2, <1>3, <1>4, <1>5, <1>6, <1>7, <1>8, <1>9, <1>10, <1>11, <1>12,
     <1>13 DEF Next

(* The variables of the mailbox keep their types, a round of the loop has  *)
(* an update exactly when it runs, and setAVPlaybackState is only called   *)
(* on a session.                                                           *)
THEOREM TypeCorrect == Spec => []TypeOK
BY TypeInit, TypeNext, PTL DEF Spec

-----------------------------------------------------------------------------
(* While the last report is one of silence, it is the update that waits,   *)
(* or the one that is being delivered, or the one that is shown.           *)
SilenceOnItsWay ==
    requested \in Silent =>
        /\ pending # NoUpdate => pending.state = requested
        /\ pending = NoUpdate /\ loop # "idle" => sending.state = requested

SInv == TypeOK /\ SilenceOnItsWay /\ SilenceIsShown

(* A report of silence is not throttled. *)
LEMMA SilenceNotThrottled == ASSUME NEW s \in Silent PROVE ~Throttled(s)
BY SilentAssumption DEF Throttled

LEMMA RequestKeeps ==
    ASSUME SInv, NEW s \in States, Request(s)
    PROVE  SilenceOnItsWay' /\ SilenceIsShown'
<1> DEFINE u == [state |-> s, fresh |-> TRUE]
<1> SUFFICES ASSUME s \in Silent PROVE SilenceOnItsWay' /\ SilenceIsShown'
  BY DEF Request, SilenceOnItsWay, SilenceIsShown
<1>1. u # NoUpdate /\ requested' = s /\ u.state = s
  BY NoneIsNoState DEF NoUpdate, Request
<1>2. CASE loop = "idle"
  <2>1. sending' = u /\ pending' = NoUpdate /\ loop' # "idle"
    BY <1>2, SilenceNotThrottled DEF Request, Take
  <2> QED BY <1>1, <2>1 DEF SilenceOnItsWay, SilenceIsShown
<1>3. CASE loop # "idle"
  <2>1. pending' = u /\ loop' = loop
    BY <1>3, SilenceNotThrottled DEF Request
  <2> QED BY <1>1, <1>3, <2>1 DEF SilenceOnItsWay, SilenceIsShown
<1> QED BY <1>2, <1>3

(* At the end of a round that was lost, or that showed its update. *)
LEMMA LoopKeeps ==
    ASSUME SInv, loop # "idle", LoopGoesOn, requested' = requested,
           lost' \/ shown' = sending.state
    PROVE  SilenceOnItsWay' /\ SilenceIsShown'
<1>1. CASE pending # NoUpdate
  <2>1. sending' = pending /\ pending' = NoUpdate /\ loop' # "idle"
    BY <1>1 DEF LoopGoesOn, Take
  <2> QED BY <1>1, <2>1 DEF SInv, SilenceOnItsWay, SilenceIsShown
<1>2. CASE pending = NoUpdate
  <2>1. loop' = "idle" /\ pending' = NoUpdate
    BY <1>2 DEF LoopGoesOn
  <2>2. requested \in Silent => sending.state = requested
    BY <1>2 DEF SInv, SilenceOnItsWay
  <2> QED BY <2>1, <2>2 DEF SilenceOnItsWay, SilenceIsShown
<1> QED BY <1>1, <1>2

LEMMA SilenceNext == SInv /\ [Next]_vars => SilenceOnItsWay' /\ SilenceIsShown'
<1> SUFFICES ASSUME SInv, [Next]_vars PROVE SilenceOnItsWay' /\ SilenceIsShown'
  OBVIOUS
<1>t. TypeOK
  BY DEF SInv
<1>1. CASE OnPlaying
  BY <1>1, RequestKeeps DEF OnPlaying, States
<1>2. CASE \E s \in Silent : OnSilent(s)
  BY <1>2, RequestKeeps DEF OnSilent, States
<1>3. CASE OnEnded
  BY <1>3, RequestKeeps DEF OnEnded, States
<1>4. CASE Load
  BY <1>4 DEF Load, SInv, SilenceOnItsWay, SilenceIsShown, mailVars, shownVars
<1>5. CASE Refresh
  BY <1>5, <1>t, RequestKeeps DEF Refresh, TypeOK
<1>6. CASE Sync
  BY <1>6, <1>t, RequestKeeps DEF Sync, TypeOK
<1>7. CASE EnsureSucceeds
  BY <1>7 DEF EnsureSucceeds, SInv, SilenceOnItsWay, SilenceIsShown, shownVars
<1>8. CASE EnsureFails
  BY <1>8, LoopKeeps DEF EnsureFails
<1>9. CASE SetSucceeds
  BY <1>9, LoopKeeps DEF SetSucceeds
<1>10. CASE SetFails
  BY <1>10, LoopKeeps DEF SetFails
<1>11. CASE CreatedElsewhere
  BY <1>11 DEF CreatedElsewhere, SInv, SilenceOnItsWay, SilenceIsShown, mailVars, shownVars
<1>12. CASE Expire
  <2>1. UNCHANGED <<loop, requested, shown, lost>>
    BY <1>12 DEF Expire
  <2>2. CASE lastFresh
    BY <1>12, <2>1, <2>2 DEF Expire, SInv, SilenceOnItsWay, SilenceIsShown
  <2>3. CASE ~lastFresh /\ sending.fresh
    <3>1. sending'.state = sending.state /\ pending' = pending
      BY <1>12, <1>t, <2>3, ExpireType DEF Expire, TypeOK
    <3> QED BY <2>1, <3>1 DEF SInv, SilenceOnItsWay, SilenceIsShown
  <2>4. CASE ~lastFresh /\ ~sending.fresh
    <3>1. /\ pending # NoUpdate /\ pending' # NoUpdate
          /\ pending'.state = pending.state
      BY <1>12, <1>t, <2>4, ExpireType DEF Expire, TypeOK
    <3> QED BY <2>1, <3>1 DEF SInv, SilenceOnItsWay, SilenceIsShown
  <2> QED BY <2>2, <2>3, <2>4
<1>13. CASE UNCHANGED vars
  BY <1>13 DEF vars, SInv, SilenceOnItsWay, SilenceIsShown, mailVars, shownVars
<1> QED
  BY <1>1, <1>2, <1>3, <1>4, <1>5, <1>6, <1>7, <1>8, <1>9, <1>10, <1>11, <1>12,
     <1>13 DEF Next

(* updatePlaybackState loses no report of silence: when its loop is at     *)
(* rest after a call that succeeded, the session shows it.                 *)
THEOREM SilenceShown == Spec => []SilenceIsShown
<1>1. Init => SInv
  BY TypeInit, SilentAssumption DEF Init, SInv, SilenceOnItsWay, SilenceIsShown, NoUpdate
<1>2. SInv /\ [Next]_vars => SInv'
  BY TypeNext, SilenceNext DEF SInv
<1>3. SInv => SilenceIsShown
  BY DEF SInv
<1> QED BY <1>1, <1>2, <1>3, PTL DEF Spec
=============================================================================
