--------------------------- MODULE ContinuousTask ---------------------------
(***************************************************************************)
(* The background task of playback in PlaybackService.ets: what            *)
(* startContinuousTask and stopContinuousTask believe                      *)
(* (continuousTaskActive) and what the system has granted.                 *)
(*                                                                         *)
(* The task manager of the system is external.  It serves the requests of  *)
(* one application in the order they were made; nothing the service can    *)
(* see happens between its decision and the continuation of the await, so  *)
(* the two are one step.                                                   *)
(***************************************************************************)
EXTENDS Integers, Sequences

CONSTANTS MaxCalls,  \* bound on the calls under way
          CanFail    \* the kinds of request the system may refuse

ASSUME TaskAssumption == MaxCalls \in Nat /\ CanFail \subseteq {"start", "stop"}

VARIABLES
    playing,   \* the last playback event said that playback goes on
    active,    \* continuousTaskActive
    agent,     \* wantAgentObj is there
    awaiting,  \* calls of startContinuousTask that wait for the agent
    requests,  \* the requests the task manager has not answered
    running,   \* the system has granted the task
    odd,       \* history: it granted a task it had granted, or refused another
    unstopped  \* history: it refused to stop the task, and has granted nothing since

taskVars == <<playing, active, agent, awaiting, requests, running, odd, unstopped>>

TaskInit ==
    /\ playing = FALSE /\ active = FALSE /\ running = FALSE
    /\ agent = FALSE /\ odd = FALSE /\ unstopped = FALSE
    /\ awaiting = 0
    /\ requests = <<>>

UnderWay == awaiting + Len(requests)

-----------------------------------------------------------------------------
(* startContinuousTask, up to its first await that lasts *)
StartTask ==
    IF active THEN UNCHANGED <<awaiting, requests>>
    ELSE /\ UnderWay < MaxCalls
         /\ IF agent
            THEN requests' = Append(requests, "start") /\ UNCHANGED awaiting
            ELSE awaiting' = awaiting + 1 /\ UNCHANGED requests

MutantStopTask ==
    /\ IF ~active THEN UNCHANGED requests
       ELSE /\ UnderWay < MaxCalls
            /\ requests' = Append(requests, "stop")
    /\ UNCHANGED <<awaiting, active>>

(* stopContinuousTask *)
StopTask ==
    /\ IF ~active THEN UNCHANGED requests
       ELSE /\ UnderWay < MaxCalls
            /\ requests' = Append(requests, "stop")
    /\ active' = FALSE
    /\ UNCHANGED awaiting

(* the event 'playing' *)
TaskOnPlaying ==
    /\ playing' = TRUE
    /\ StartTask
    /\ UNCHANGED <<active, agent, running, odd, unstopped>>

(* the events 'paused', 'stopped', 'ended' and 'error', and stop() *)
TaskOnSilent ==
    /\ playing' = FALSE
    /\ StopTask
    /\ UNCHANGED <<agent, running, odd, unstopped>>

(* getContinuousWantAgent answers the oldest call, which goes on unless    *)
(* the agent could not be built.                                           *)
AgentAnswers ==
    /\ awaiting > 0
    /\ awaiting' = awaiting - 1
    /\ agent' \in {agent, TRUE}
    /\ requests' = IF agent' THEN Append(requests, "start") ELSE requests
    /\ UNCHANGED <<playing, active, running, odd, unstopped>>

Answers(kind) ==
    /\ requests # <<>>
    /\ Head(requests) = kind
    /\ requests' = Tail(requests)

MutantActiveOnceStarted == active

ActiveOnceStarted == TRUE

(* startBackgroundRunning is granted. *)
StartGranted ==
    /\ Answers("start")
    /\ running' = TRUE
    /\ odd' = (odd \/ running)
    /\ unstopped' = FALSE
    /\ active' = ActiveOnceStarted
    /\ UNCHANGED <<playing, agent, awaiting>>

(* stopBackgroundRunning is carried out. *)
StopGranted ==
    /\ Answers("stop")
    /\ running' = FALSE
    /\ unstopped' = FALSE
    /\ UNCHANGED <<playing, active, agent, awaiting, odd>>

(* A request that throws is logged and leaves everything as it is: what    *)
(* stopContinuousTask cleared before it asked stays cleared.               *)
Refused(kind) ==
    /\ kind \in CanFail
    /\ Answers(kind)
    /\ odd' = (odd \/ ~(kind = "start" /\ running))
    /\ unstopped' = (unstopped \/ (kind = "stop" /\ running))
    /\ UNCHANGED <<playing, active, agent, awaiting, running>>

TaskNext ==
    \/ TaskOnPlaying \/ TaskOnSilent
    \/ AgentAnswers \/ StartGranted \/ StopGranted
    \/ \E kind \in {"start", "stop"} : Refused(kind)

TaskSpec == TaskInit /\ [][TaskNext]_taskVars

-----------------------------------------------------------------------------
TaskTypeOK ==
    /\ playing \in BOOLEAN /\ active \in BOOLEAN /\ running \in BOOLEAN
    /\ agent \in BOOLEAN /\ odd \in BOOLEAN /\ unstopped \in BOOLEAN
    /\ awaiting \in Nat
    /\ requests \in Seq({"start", "stop"})
    /\ UnderWay <= MaxCalls

(* However starts and stops overlap and whatever is refused, a task the    *)
(* system runs and that no request on its way will end is one the service  *)
(* knows of, or one it tried to give back in vain: stopContinuousTask      *)
(* clears continuousTaskActive before it asks and only logs a refusal, so  *)
(* such a task runs on, unknown, until another start is granted.  There is *)
(* no other way to lose one, above all none by the order of the answers.   *)
RunningIsKnown ==
    running /\ (\A k \in 1 .. Len(requests) : requests[k] # "stop")
        => active \/ unstopped

(* The comment at line 1556: the task is requested so that audio is not    *)
(* muted or suspended in the background.  It is there whenever playback    *)
(* goes on and nothing is under way, in whatever order the events came, as *)
(* long as the system refuses to grant it twice, and nothing else.         *)
TaskWhilePlaying == ~odd /\ playing /\ agent /\ UnderWay = 0 => running

(* The comment at line 1577 of PlaybackService.ets: the task is cancelled  *)
(* when playback is paused, stopped, failed or released.                   *)
NoTaskInSilence == ~playing /\ UnderWay = 0 => ~running
=============================================================================
