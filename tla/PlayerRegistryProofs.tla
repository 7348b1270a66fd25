------------------------ MODULE PlayerRegistryProofs ------------------------
(***************************************************************************)
(* Proofs about the registry of players, for every set of players and      *)
(* every number of listeners and queued events, and about its composition  *)
(* with the seek worker of one player.                                     *)
(***************************************************************************)
EXTENDS SeekingPlayer, SeekWorkerProofs, TLAPS

(* g_mtx is kept between two steps by getters and by a release that        *)
(* detaches the listeners, and a call is of a player.                      *)
LockOwner ==
    /\ gmtx = "js" <=> js.call \in {"get", "detach"}
    /\ js.call # "none" => js.of \in Players
    /\ js.call \in {"get", "detach"} => js.of \in players

(* Only players whose threads run, or that the JS thread is in a control   *)
(* call of, have a handler under way.                                      *)
HandlerHasCause ==
    \A p \in Players :
        handler[p].at # "idle" => playing[p] \/ js = [call |-> "control", of |-> p]

(* Once its listeners are detached no handler of a player runs. *)
DetachedIsQuiet ==
    js.call = "join" => ~attached[js.of] /\ handler[js.of].at = "idle"

(* release() is called on a player whose threads do not run. *)
ReleasedIsSilent ==
    js.call = "detach" => ReleasesPlaying \/ ~playing[js.of]

(* A background thread ends only players that are not registered. *)
EndedIsUnregistered ==
    \A p \in Players : teardown[p] # "none" => p \in created /\ p \notin players

(* The registry, the two locks and the threads agree. *)
Linked ==
    /\ NoDanglingUser /\ NoFunctionLeft
    /\ LockOwner /\ HandlerHasCause /\ DetachedIsQuiet /\ ReleasedIsSilent
    /\ EndedIsUnregistered

IInv == TypeOK /\ Linked

LEMMA InitIInv == Init => IInv
<1> SUFFICES ASSUME Init PROVE IInv
  OBVIOUS
<1> USE RegistryAssumption DEF Init, NoCall, AtRest
<1>1. TypeOK
  BY DEF TypeOK, Handler, Calls, Listeners
<1>2. Linked
  BY DEF Linked, NoDanglingUser, NoFunctionLeft, LockOwner, HandlerHasCause,
         DetachedIsQuiet, ReleasedIsSilent, EndedIsUnregistered
<1> QED BY <1>1, <1>2 DEF IInv

(* Every step keeps the types. *)
LEMMA TypeStep ==
    ASSUME TypeOK, [Next]_vars PROVE TypeOK'
<1> USE RegistryAssumption
<1>1. CASE Detached
  <2>1. fns' \in [Listeners -> {"none", "open", "released", "finalized"}]
    BY <1>1 DEF Detached, Released, TypeOK
  <2>2. js' \in [call : Calls, of : Players \cup {Nobody}]
    BY <1>1 DEF Detached, TypeOK, Calls
  <2>3. players' \subseteq created
    BY <1>1 DEF Detached, Without, TypeOK
  <2>4. 0 \in 0 .. MaxListeners
    BY RegistryAssumption DEF RegistryAssumption
  <2>5. tsfn' = [tsfn EXCEPT ![js.of] = 0]
    BY <1>1 DEF Detached
  <2>6. tsfn' \in [Players -> 0 .. MaxListeners]
    BY <2>4, <2>5 DEF TypeOK
  <2>7. user' \in [Players -> {"none", "kept", "deleted"}]
    BY <1>1 DEF Detached, TypeOK
  <2>8. attached' \in [Players -> BOOLEAN]
    BY <1>1 DEF Detached, TypeOK
  <2>9. worker' \in [Players -> {"none", "running", "ending", "exited"}]
    BY <1>1 DEF Detached, TypeOK
  <2> QED BY <1>1, <2>1, <2>2, <2>3, <2>6, <2>7, <2>8, <2>9
     DEF Detached, TypeOK
<1>2. ASSUME NEW p \in Players, LookUp(p) PROVE TypeOK'
  <2>1. tsfn[p] \in 0 .. MaxListeners /\ handler[p] \in Handler
    BY DEF TypeOK
  <2>2. AtRest \in Handler
    BY DEF Handler, AtRest
  <2>3. [handler[p] EXCEPT !.at = "found", !.fn = tsfn[p]] \in Handler
    BY <2>1 DEF Handler
  <2>4. handler' \in [Players -> Handler]
    BY <1>2, <2>2, <2>3 DEF LookUp, TypeOK
  <2> QED BY <1>2, <2>4 DEF LookUp, TypeOK, registryVars, nativeVars
<1>3. ASSUME NEW p \in Players, Acquire(p) PROVE TypeOK'
  <2>1. handler'[p] \in Handler
    BY <1>3 DEF Acquire, TypeOK, Handler, AtRest
  <2> QED BY <1>3, <2>1 DEF Acquire, TypeOK, registryVars, nativeVars
<1>4. ASSUME NEW p \in Players, Post(p) PROVE TypeOK'
  <2>1. AtRest \in Handler
    BY DEF Handler, AtRest
  <2> DEFINE f == handler[p].fn
  <2>2. queued' = [m \in Listeners |-> IF m = f THEN queued[m] + 1 ELSE queued[m]]
    BY <1>4 DEF Post, TypeOK
  <2>3. queued' \in [Listeners -> Nat]
    BY <2>2 DEF TypeOK
  <2> QED BY <1>4, <2>1, <2>3 DEF Post, TypeOK, registryVars, nativeVars
<1> USE DEF TypeOK, Calls, Handler, NoCall, AtRest, JsIdle, Listeners,
           registryVars, nativeVars
<1>5. ASSUME NEW p \in Players, Create(p) PROVE TypeOK'
  BY <1>5 DEF Create
<1>6. ASSUME NEW p \in Players, NEW n \in Listeners, SetEventListener(p, n)
      PROVE  TypeOK'
  BY <1>6 DEF SetEventListener, Released
<1>7. ASSUME NEW p \in Players, ClearEventListener(p) PROVE TypeOK'
  BY <1>7 DEF ClearEventListener, Released
<1>8. ASSUME NEW p \in Players, SetMedia(p) PROVE TypeOK'
  BY <1>8 DEF SetMedia, LockInCalls
<1>9. ASSUME NEW p \in Players, Control(p) PROVE TypeOK'
  BY <1>9 DEF Control, LockInCalls
<1>10. CASE ControlReturns
  BY <1>10 DEF ControlReturns
<1>11. ASSUME NEW p \in Players, Get(p) PROVE TypeOK'
  BY <1>11 DEF Get
<1>12. CASE GetReturns
  BY <1>12 DEF GetReturns
<1>13. ASSUME NEW p \in Players, EndInBackground(p) PROVE TypeOK'
  BY <1>13 DEF EndInBackground, Released, Without, UserAfterStop
<1>14. ASSUME NEW p \in Players, MediaPlayerRelease(p) PROVE TypeOK'
  BY <1>14 DEF MediaPlayerRelease
<1>15. CASE ReleaseReturns
  BY <1>15 DEF ReleaseReturns, WorkerIsGone
<1>16. ASSUME NEW p \in Players, TeardownBegins(p) PROVE TypeOK'
  BY <1>16 DEF TeardownBegins
<1>17. ASSUME NEW p \in Players, TeardownStops(p) PROVE TypeOK'
  BY <1>17 DEF TeardownStops, WorkerIsGone
<1>18. ASSUME NEW p \in Players, TeardownEnds(p) PROVE TypeOK'
  BY <1>18 DEF TeardownEnds
<1>19. ASSUME NEW p \in Players, WorkerExits(p) PROVE TypeOK'
  BY <1>19 DEF WorkerExits, WorkerGoes, HoldersAfterExit
<1>20. ASSUME NEW p \in Players, NEW thread \in {"vlc", "js"}, Enter(p, thread)
       PROVE  TypeOK'
  BY <1>20 DEF Enter
<1>21. ASSUME NEW n \in Listeners, Deliver(n) PROVE TypeOK'
  BY <1>21 DEF Deliver
<1>22. ASSUME NEW n \in Listeners, Finalize(n) PROVE TypeOK'
  BY <1>22 DEF Finalize
<1>23. CASE UNCHANGED vars
  BY <1>23 DEF vars
<1> HIDE DEF TypeOK
<1> QED
  BY <1>1, <1>2, <1>3, <1>4, <1>5, <1>6, <1>7, <1>8, <1>9, <1>10, <1>11,
     <1>12, <1>13, <1>14, <1>15, <1>16, <1>17, <1>18, <1>19, <1>20, <1>21,
     <1>22, <1>23
     DEF Next, JsCalls, JsGoesOn, JsLoop, Handles, TearsDown, MediaPlayerStop,
         MediaPlayerReleaseAsync


(* Every step keeps the registry, the locks and the threads in agreement. *)
LEMMA LinkedStep ==
    ASSUME TypeOK, Linked, [Next]_vars PROVE Linked'
<1> USE RegistryAssumption
<1>1. ASSUME NEW p \in Players, NEW n \in Listeners, SetEventListener(p, n)
      PROVE  Linked'
  <2>1. NoFunctionLeft'
    BY <1>1 DEF SetEventListener, Released, TypeOK, Linked, NoFunctionLeft
  <2> QED
    BY <1>1, <2>1
       DEF SetEventListener, TypeOK, Linked, NoDanglingUser, LockOwner,
           HandlerHasCause, DetachedIsQuiet, ReleasedIsSilent,
           EndedIsUnregistered, JsIdle, nativeVars
<1> USE DEF TypeOK, Linked, NoDanglingUser, NoFunctionLeft, LockOwner,
           HandlerHasCause, DetachedIsQuiet, ReleasedIsSilent,
           EndedIsUnregistered, NoCall, AtRest, JsIdle, Listeners, registryVars, nativeVars
<1>2. ASSUME NEW p \in Players, Create(p) PROVE Linked'
  BY <1>2 DEF Create
<1>3. ASSUME NEW p \in Players, ClearEventListener(p) PROVE Linked'
  BY <1>3 DEF ClearEventListener, Released
<1>4. ASSUME NEW p \in Players, SetMedia(p) PROVE Linked'
  BY <1>4 DEF SetMedia, LockInCalls
<1>5. ASSUME NEW p \in Players, Control(p) PROVE Linked'
  BY <1>5 DEF Control, LockInCalls
<1>6. CASE ControlReturns
  BY <1>6 DEF ControlReturns
<1>7. ASSUME NEW p \in Players, Get(p) PROVE Linked'
  BY <1>7 DEF Get
<1>8. CASE GetReturns
  BY <1>8 DEF GetReturns
<1>9. ASSUME NEW p \in Players, EndInBackground(p) PROVE Linked'
  BY <1>9 DEF EndInBackground, Released, Without, UserAfterStop
<1>10. ASSUME NEW p \in Players, MediaPlayerRelease(p) PROVE Linked'
  BY <1>10 DEF MediaPlayerRelease
<1>11. CASE Detached
  BY <1>11 DEF Detached, Released, Without
<1>12. CASE ReleaseReturns
  BY <1>12 DEF ReleaseReturns, WorkerIsGone
<1>13. ASSUME NEW p \in Players, TeardownBegins(p) PROVE Linked'
  BY <1>13 DEF TeardownBegins
<1>14. ASSUME NEW p \in Players, TeardownStops(p) PROVE Linked'
  BY <1>14 DEF TeardownStops, WorkerIsGone
<1>15. ASSUME NEW p \in Players, TeardownEnds(p) PROVE Linked'
  BY <1>15 DEF TeardownEnds
<1>16. ASSUME NEW p \in Players, WorkerExits(p) PROVE Linked'
  BY <1>16 DEF WorkerExits, WorkerGoes, HoldersAfterExit
<1>17. ASSUME NEW p \in Players, NEW thread \in {"vlc", "js"}, Enter(p, thread)
       PROVE  Linked'
  BY <1>17 DEF Enter
<1>18. ASSUME NEW p \in Players, LookUp(p) PROVE Linked'
  BY <1>18 DEF LookUp
<1>19. ASSUME NEW p \in Players, Acquire(p) PROVE Linked'
  BY <1>19 DEF Acquire
<1>20. ASSUME NEW p \in Players, Post(p) PROVE Linked'
  BY <1>20 DEF Post
<1>21. ASSUME NEW n \in Listeners, Deliver(n) PROVE Linked'
  BY <1>21 DEF Deliver
<1>22. ASSUME NEW n \in Listeners, Finalize(n) PROVE Linked'
  BY <1>22 DEF Finalize
<1>23. CASE UNCHANGED vars
  BY <1>23 DEF vars
<1> HIDE DEF Linked, TypeOK
<1> QED
  BY <1>1, <1>2, <1>3, <1>4, <1>5, <1>6, <1>7, <1>8, <1>9, <1>10, <1>11,
     <1>12, <1>13, <1>14, <1>15, <1>16, <1>17, <1>18, <1>19, <1>20, <1>21,
     <1>22, <1>23
     DEF Next, JsCalls, JsGoesOn, JsLoop, Handles, TearsDown, MediaPlayerStop,
         MediaPlayerReleaseAsync


THEOREM Invariance == Spec => []IInv
<1>1. IInv /\ [Next]_vars => IInv'
  BY TypeStep, LinkedStep DEF IInv
<1> QED BY InitIInv, <1>1, PTL DEF Spec

(* The tables of the registry and the places of its threads keep their     *)
(* types, whatever the players and listeners (MediaPlayerCreate,           *)
(* MediaPlayerStop, MediaPlayerRelease).                                   *)
THEOREM TypeCorrect == Spec => []TypeOK
<1>1. IInv => TypeOK
  BY DEF IInv
<1> QED BY Invariance, <1>1, PTL

(* No event finds the handle it points to deleted (on_player_event,        *)
(* DetachPlayerEventsLocked).                                              *)
THEOREM UsersStay == Spec => []NoDanglingUser
<1>1. IInv => NoDanglingUser
  BY DEF IInv, Linked
<1> QED BY Invariance, <1>1, PTL

(* Every threadsafe function that is not given up is that of a registered  *)
(* player (MediaPlayerSetEventListener, MediaPlayerStop).                  *)
THEOREM FunctionsAreOwned == Spec => []NoFunctionLeft
<1>1. IInv => NoFunctionLeft
  BY DEF IInv, Linked
<1> QED BY Invariance, <1>1, PTL

(* If release() is not called on a player whose threads run, the JS thread *)
(* never has g_mtx while it waits for a handler or for a native stop       *)
(* (MediaPlayerRelease, MediaPlayerGetTime, MediaPlayerSetMedia).          *)
THEOREM LocksNeverEmbrace == ASSUME ~ReleasesPlaying PROVE Spec => []NoEmbrace
<1>1. ASSUME IInv PROVE NoEmbrace
  <2>1. ASSUME gmtx = "js", js.call \in {"control", "detach"}
        PROVE  handler[js.of].at # "entered"
    BY <1>1, <2>1 DEF IInv, Linked, LockOwner, HandlerHasCause, ReleasedIsSilent
  <2>2. ASSUME gmtx = "js", js.call = "get" PROVE teardown[js.of] = "none"
    BY <1>1, <2>2 DEF IInv, Linked, LockOwner, EndedIsUnregistered
  <2> QED BY <2>1, <2>2 DEF NoEmbrace
<1> QED BY Invariance, <1>1, PTL

-----------------------------------------------------------------------------
(***************************************************************************)
(* The registry with the worker of Watched                                 *)
(***************************************************************************)
(* The registry's bit is what the worker was told and did. *)
WorkerAgrees ==
    /\ Watched \notin created =>
          /\ worker[Watched] = "none" /\ teardown[Watched] = "none"
          /\ pc = "waiting" /\ ~stopping /\ ~hasPending
    /\ Watched \in created =>
          worker[Watched] = IF pc = "exited" THEN "exited"
                            ELSE IF stopping THEN "ending" ELSE "running"
    /\ pc = "exited" => stopping

(* It is told once and joined once, by the one thread that ends the player. *)
EndedOnce ==
    /\ Watched \in players \/ teardown[Watched] = "started" => ~stopping
    /\ js = [call |-> "join", of |-> Watched] =>
          stopping /\ ~joined /\ teardown[Watched] = "none"
    /\ teardown[Watched] = "joining" => stopping /\ ~joined
    /\ teardown[Watched] \in {"stopping", "done"} => joined

(* The registry's reference is there until the join, the worker's until    *)
(* the thread ends.                                                        *)
ReferencesAgree ==
    /\ Watched \in created /\ ~joined => "registry" \in holders[Watched]
    /\ "worker" \in holders[Watched] <=> Watched \in created /\ pc # "exited"

Agree == WorkerAgrees /\ EndedOnce /\ ReferencesAgree

JointInv == IInv /\ SeekInv /\ Agree

LEMMA JointInit == SeekingInit => JointInv
<1> SUFFICES ASSUME SeekingInit PROVE JointInv
  OBVIOUS
<1>1. IInv /\ SeekInv
  BY InitIInv, SeekInitInv DEF SeekingInit
<1>2. Agree
  BY WatchedAssumption
     DEF SeekingInit, Init, SeekInit, Agree, WorkerAgrees, EndedOnce, ReferencesAgree, NoCall
<1> QED BY <1>1, <1>2 DEF JointInv

(* What a step of the composition is to each component, and what it leaves *)
(* of their agreement.                                                     *)
Fits == [Next]_vars /\ [SeekNext]_seekVars /\ Agree'

LEMMA SetTimeFits == ASSUME JointInv, NEW t \in Targets, SetTime(t) PROVE Fits
<1>1. [Next]_vars /\ [SeekNext]_seekVars
  BY DEF SetTime, SeekNext
<1>2. Agree'
  BY DEF SetTime, QueueSeek, Enqueue, JointInv, Agree, WorkerAgrees, EndedOnce,
         ReferencesAgree, vars, registryVars, nativeVars, IInv, TypeOK
<1> QED BY <1>1, <1>2 DEF Fits

LEMMA WorkerFits == ASSUME JointInv, WorkerGoesOn \/ Ages PROVE Fits
<1>1. [Next]_vars /\ [SeekNext]_seekVars
  BY DEF WorkerGoesOn, Ages, SeekNext, Worker
<1>2. Agree'
  BY DEF WorkerGoesOn, Ages, BeginWindow, RestartWindow, TakeRequest, MayTake, FinishSeek,
         AgeLastApplied, JointInv, SeekInv, SlotsFit, Agree, WorkerAgrees, EndedOnce,
         ReferencesAgree, vars, registryVars, nativeVars
<1> QED BY <1>1, <1>2 DEF Fits

(* The thread sees stopping, which only ShutdownSeekWorker sets: its player *)
(* is being ended.                                                         *)
LEMMA ExitFits == ASSUME JointInv, NEW p \in Players, Exits(p) PROVE Fits
<1>1. CASE p = Watched
  <2>1. stopping /\ pc # "exited" /\ Watched \in created
    BY <1>1 DEF Exits, ExitWorker, MayExit, JointInv, Agree, WorkerAgrees
  <2>2. WorkerExits(p) /\ ExitWorker
    BY <1>1, <2>1 DEF Exits, WorkerExits, JointInv, Agree, WorkerAgrees
  <2>3. [Next]_vars /\ [SeekNext]_seekVars
    BY <2>2 DEF Next, SeekNext, Worker
  <2>4. Agree'
    BY <1>1, <2>1, <2>2
       DEF WorkerExits, WorkerGoes, HoldersAfterExit, ExitWorker, JointInv, IInv, TypeOK,
           Agree, WorkerAgrees, EndedOnce, ReferencesAgree, registryVars
  <2> QED BY <2>3, <2>4 DEF Fits
<1>2. CASE p # Watched
  <2>1. [Next]_vars /\ [SeekNext]_seekVars
    BY <1>2 DEF Exits, Next
  <2>2. Agree'
    BY <1>2, WatchedAssumption
       DEF Exits, WorkerExits, WorkerGoes, HoldersAfterExit, seekVars, JointInv, IInv,
           TypeOK, Agree, WorkerAgrees, EndedOnce, ReferencesAgree, registryVars
  <2> QED BY <2>1, <2>2 DEF Fits
<1> QED BY <1>1, <1>2

(* MediaPlayerRelease: the entry has just been taken out, so nobody has    *)
(* told the worker yet; it is joined when it is gone.                      *)
LEMMA JsEndFits == ASSUME JointInv, JsEnds PROVE Fits
<1> DEFINE p == js.of
<1>1. CASE Detached /\ Signals(p)
  <2>1. p \in players /\ p \in Players /\ teardown[p] = "none" /\ p \in created
    BY <1>1 DEF Detached, JointInv, IInv, Linked, LockOwner, EndedIsUnregistered, TypeOK
  <2>2. [Next]_vars
    BY <1>1 DEF Next, JsGoesOn
  <2>3. CASE p = Watched
    <3>1. ~stopping
      BY <2>1, <2>3 DEF JointInv, Agree, EndedOnce
    <3>2. [SeekNext]_seekVars
      BY <1>1, <2>3, <3>1 DEF Signals, SeekNext, BeginShutdown
    <3>3. pc # "exited" /\ ~joined
      BY <3>1 DEF JointInv, Agree, WorkerAgrees, SeekInv, SlotsFit
    <3>4. Agree'
      BY <1>1, <2>1, <2>3, <3>1, <3>3
         DEF Detached, Signals, SignalStop, Without, JointInv, IInv, TypeOK, Agree,
             WorkerAgrees, EndedOnce, ReferencesAgree
    <3> QED BY <2>2, <3>2, <3>4 DEF Fits
  <2>4. CASE p # Watched
    <3>1. Agree'
      BY <1>1, <2>1, <2>4, WatchedAssumption
         DEF Detached, Signals, seekVars, Without, JointInv, IInv, TypeOK, Agree,
             WorkerAgrees, EndedOnce, ReferencesAgree
    <3>2. [SeekNext]_seekVars
      BY <1>1, <2>4 DEF Signals
    <3> QED BY <2>2, <3>1, <3>2 DEF Fits
  <2> QED BY <2>3, <2>4
<1>2. CASE ReleaseReturns /\ Joins(p)
  <2>1. p \in Players /\ js = [call |-> "join", of |-> p]
    BY <1>2 DEF ReleaseReturns, JointInv, IInv, Linked, LockOwner, TypeOK, Calls
  <2>2. [Next]_vars
    BY <1>2 DEF Next, JsGoesOn
  <2>3. CASE p = Watched
    <3>1. stopping /\ ~joined /\ teardown[p] = "none" /\ Watched \in created
      BY <2>1, <2>3 DEF JointInv, Agree, WorkerAgrees, EndedOnce
    <3>2. pc = "exited"
      BY <1>2, <2>3, <3>1 DEF ReleaseReturns, WorkerIsGone, JointInv, Agree, WorkerAgrees
    <3>3. [SeekNext]_seekVars
      BY <1>2, <2>3, <3>1, <3>2 DEF Joins, SeekNext, JoinWorker
    <3>4. Agree'
      BY <1>2, <2>3, <3>1, <3>2
         DEF ReleaseReturns, Joins, JoinReturns, JointInv, IInv, TypeOK, Agree,
             WorkerAgrees, EndedOnce, ReferencesAgree, NoCall, registryVars
    <3> QED BY <2>2, <3>3, <3>4 DEF Fits
  <2>4. CASE p # Watched
    <3>1. Agree'
      BY <1>2, <2>1, <2>4, WatchedAssumption
         DEF ReleaseReturns, Joins, seekVars, JointInv, IInv, TypeOK, Agree,
             WorkerAgrees, EndedOnce, ReferencesAgree, NoCall, registryVars
    <3>2. [SeekNext]_seekVars
      BY <1>2, <2>4 DEF Joins
    <3> QED BY <2>2, <3>1, <3>2 DEF Fits
  <2> QED BY <2>3, <2>4
<1>3. CASE (ControlReturns \/ GetReturns) /\ UNCHANGED seekVars
  <2>1. [Next]_vars /\ [SeekNext]_seekVars
    BY <1>3 DEF Next, JsGoesOn
  <2>2. Agree'
    BY <1>3 DEF ControlReturns, GetReturns, NoCall, seekVars, registryVars, nativeVars,
                JointInv, Agree, WorkerAgrees, EndedOnce, ReferencesAgree
  <2> QED BY <2>1, <2>2 DEF Fits
<1> QED BY <1>1, <1>2, <1>3 DEF JsEnds

(* The background thread is the only one that tells the worker of a player *)
(* that was stopped.                                                       *)
LEMMA EndFits == ASSUME JointInv, NEW p \in Players, Ends(p) PROVE Fits
<1> USE DEF JointInv, IInv, TypeOK, Agree, WorkerAgrees, EndedOnce, ReferencesAgree,
            seekVars, registryVars
<1>1. [Next]_vars
  BY DEF Ends, Next, TearsDown
<1>2. CASE TeardownBegins(p) /\ Signals(p)
  <2>1. CASE p = Watched
    <3>1. ~stopping /\ pc # "exited" /\ Watched \in created
      BY <1>2, <2>1 DEF TeardownBegins
    <3>2. ~joined
      BY <3>1 DEF SeekInv, SlotsFit
    <3>3. [SeekNext]_seekVars
      BY <1>2, <2>1, <3>1 DEF Signals, SeekNext, BeginShutdown
    <3>4. Watched \notin players /\ js # [call |-> "join", of |-> Watched]
      BY <1>2, <2>1 DEF TeardownBegins, Linked, EndedIsUnregistered
    <3>5. Agree'
      BY <1>2, <2>1, <3>1, <3>2, <3>4 DEF TeardownBegins, Signals, SignalStop
    <3> QED BY <1>1, <3>3, <3>5 DEF Fits
  <2>2. CASE p # Watched
    <3>1. Agree'
      BY <1>2, <2>2, WatchedAssumption DEF TeardownBegins, Signals
    <3> QED BY <1>1, <1>2, <2>2, <3>1 DEF Fits, Signals
  <2> QED BY <2>1, <2>2
<1>3. CASE TeardownStops(p) /\ Joins(p)
  <2>1. CASE p = Watched
    <3>1. stopping /\ ~joined /\ Watched \in created
      BY <1>3, <2>1 DEF TeardownStops
    <3>2. pc = "exited"
      BY <1>3, <2>1, <3>1 DEF TeardownStops, WorkerIsGone
    <3>3. [SeekNext]_seekVars
      BY <1>3, <2>1, <3>1, <3>2 DEF Joins, SeekNext, JoinWorker
    <3>4. Watched \notin players /\ js # [call |-> "join", of |-> Watched]
      BY <1>3, <2>1 DEF TeardownStops, Linked, EndedIsUnregistered
    <3>5. Agree'
      BY <1>3, <2>1, <3>1, <3>2, <3>4 DEF TeardownStops, Joins, JoinReturns
    <3> QED BY <1>1, <3>3, <3>5 DEF Fits
  <2>2. CASE p # Watched
    <3>1. Agree'
      BY <1>3, <2>2, WatchedAssumption DEF TeardownStops, Joins
    <3> QED BY <1>1, <1>3, <2>2, <3>1 DEF Fits, Joins
  <2> QED BY <2>1, <2>2
<1>4. CASE TeardownEnds(p) /\ UNCHANGED seekVars
  <2>1. Agree'
    BY <1>4, WatchedAssumption DEF TeardownEnds
  <2> QED BY <1>1, <1>4, <2>1 DEF Fits
<1> QED BY <1>2, <1>3, <1>4 DEF Ends

(* The registry alone: a player is created with a worker that waits, and   *)
(* ended with one that was not told to yet.                                *)
LEMMA AloneFits == ASSUME JointInv, RegistryAlone PROVE Fits
<1>1. [Next]_vars /\ [SeekNext]_seekVars
  BY DEF RegistryAlone, Next
<1>2. UNCHANGED seekVars
  BY DEF RegistryAlone
<1> USE <1>2, WatchedAssumption
        DEF JointInv, IInv, TypeOK, Agree, WorkerAgrees, EndedOnce, ReferencesAgree,
            seekVars, registryVars, nativeVars, JsIdle
<1>3. ASSUME NEW n \in Listeners, JsLoop(n) PROVE Agree'
  BY <1>3 DEF JsLoop, Deliver, Finalize
<1>4. ASSUME NEW p \in Players, NEW thread \in {"vlc", "js"}, Enter(p, thread) PROVE Agree'
  BY <1>4 DEF Enter
<1>5. ASSUME NEW p \in Players, Handles(p) PROVE Agree'
  BY <1>5 DEF Handles, LookUp, Acquire, Post
<1>6. ASSUME NEW p \in Players, Create(p) PROVE Agree'
  <2>1. CASE p = Watched
    BY <1>6, <2>1 DEF Create
  <2>2. CASE p # Watched
    BY <1>6, <2>2 DEF Create
  <2> QED BY <2>1, <2>2
<1>7. ASSUME NEW p \in Players, EndInBackground(p) PROVE Agree'
  BY <1>7 DEF EndInBackground, Without
<1>8. ASSUME NEW p \in Players,
             \/ ClearEventListener(p) \/ SetMedia(p) \/ Control(p) \/ Get(p)
             \/ MediaPlayerRelease(p)
             \/ \E n \in Listeners : SetEventListener(p, n)
      PROVE  Agree'
  BY <1>8 DEF ClearEventListener, SetMedia, Control, Get, MediaPlayerRelease,
              SetEventListener
<1>9. Agree'
  BY <1>3, <1>4, <1>5, <1>6, <1>7, <1>8
     DEF RegistryAlone, JsCalls, MediaPlayerStop, MediaPlayerReleaseAsync
<1> QED BY <1>1, <1>9 DEF Fits

LEMMA JointStep ==
    ASSUME JointInv, [SeekingNext]_<<vars, seekVars>>
    PROVE  JointInv' /\ [Next]_vars /\ [SeekNext]_seekVars
<1>1. Fits
  <2>1. CASE SeekingNext
    BY <2>1, SetTimeFits, WorkerFits, ExitFits, JsEndFits, EndFits, AloneFits
       DEF SeekingNext
  <2>2. CASE UNCHANGED <<vars, seekVars>>
    BY <2>2 DEF Fits, vars, seekVars, registryVars, nativeVars, JointInv, Agree,
                WorkerAgrees, EndedOnce, ReferencesAgree
  <2> QED BY <2>1, <2>2
<1>2. IInv' /\ SeekInv'
  BY <1>1, TypeStep, LinkedStep, SeekStep DEF Fits, JointInv, IInv
<1> QED BY <1>1, <1>2 DEF Fits, JointInv

THEOREM JointInvariance == SeekingSpec => []JointInv
<1>1. JointInv /\ [SeekingNext]_<<vars, seekVars>> => JointInv'
  BY JointStep
<1> QED BY JointInit, <1>1, PTL DEF SeekingSpec

(* The composition implements the registry: the worker of RunSeekWorker    *)
(* does what the registry's functions rely on, in each of the three ways a *)
(* player ends (ShutdownSeekWorker).                                       *)
THEOREM RegistryImplemented == SeekingSpec => ImplementsRegistry
<1>1. SeekingInit => Init
  BY DEF SeekingInit
<1>2. JointInv /\ [SeekingNext]_<<vars, seekVars>> => [Next]_vars
  BY JointStep
<1> QED BY <1>1, <1>2, JointInvariance, PTL DEF SeekingSpec, ImplementsRegistry, Spec

(* And it implements the worker: whoever ends the player signals it once   *)
(* and joins it once, after it was signalled (MediaPlayerRelease,          *)
(* MediaPlayerReleaseAsync, MediaPlayerStop).                              *)
THEOREM WorkerImplemented == SeekingSpec => ImplementsWorker
<1>1. SeekingInit => SeekInit
  BY DEF SeekingInit
<1>2. JointInv /\ [SeekingNext]_<<vars, seekVars>> => [SeekNext]_seekVars
  BY JointStep
<1> QED BY <1>1, <1>2, JointInvariance, PTL DEF SeekingSpec, ImplementsWorker, SeekSpec

(* So the seeks of a registered player reach libVLC as through the mailbox *)
(* (MediaPlayerSetTime, MediaPlayerSetPosition).                           *)
THEOREM MailboxOfPlayer == SeekingSpec => ImplementsMailbox
BY WorkerImplemented, Refinement DEF ImplementsWorker

(* libVLC never ends or frees a player that it is still seeking in         *)
(* (RunSeekWorker, ShutdownSeekWorker, MediaPlayerStop).                   *)
THEOREM SeeksEnd == SeekingSpec => []SeeksEndBeforeStop
<1>1. ASSUME JointInv PROVE SeeksEndBeforeStop
  <2>1. SUFFICES ASSUME pc = "applying"
                 PROVE  /\ holders[Watched] = {"registry", "worker"}
                        /\ teardown[Watched] \notin {"stopping", "done"}
    BY DEF SeeksEndBeforeStop
  <2>2. ~joined
    BY <1>1, <2>1 DEF JointInv, SeekInv, SlotsFit
  <2>3. Watched \in created
    BY <1>1, <2>1 DEF JointInv, Agree, WorkerAgrees
  <2>4. holders[Watched] \in SUBSET {"registry", "worker"}
    BY <1>1, WatchedAssumption DEF JointInv, IInv, TypeOK
  <2> QED BY <1>1, <2>1, <2>2, <2>3, <2>4
          DEF JointInv, Agree, EndedOnce, ReferencesAgree
<1> QED BY <1>1, JointInvariance, PTL
=============================================================================
