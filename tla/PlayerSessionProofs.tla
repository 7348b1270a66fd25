------------------------ MODULE PlayerSessionProofs ------------------------
(***************************************************************************)
(* Proofs about the playback session, for every length of the queue, every *)
(* repeat mode, every set of discs and broken items and every bound.       *)
(***************************************************************************)
EXTENDS PlayerSession, TLAPS

(* A load that got past the save chain knows its item, and a player that   *)
(* does something has a media.                                             *)
HasItem == \A l \in Loads : loads[l].stage \in {"options", "resume"} => loads[l].item \in Items

HasMedia == native # "idle" => media # None

(* A completed video is not the active one, so no save can name it. *)
CompletedInactive == active \notin completed

TInv == TypeOK /\ HasItem /\ HasMedia

(* The event queue and the save chain are sequences. *)
LEMMA SeqFacts ==
    ASSUME NEW S
    PROVE  /\ <<>> \in Seq(S)
           /\ \A s \in Seq(S), e \in S : Append(s, e) \in Seq(S)
           /\ \A s \in Seq(S) : s # <<>> => Head(s) \in S /\ Tail(s) \in Seq(S)
OBVIOUS

LEMMA ItemFacts ==
    /\ Items # {} /\ None \notin Items /\ 0 \in Items
    /\ \A i \in Items : i + 1 < QueueLen => i + 1 \in Items
    /\ \A i \in Items : (IF i = 0 THEN QueueLen - 1 ELSE i - 1) \in Items
BY SessionAssumption DEF Items, None

LEMMA NextIndexType ==
    ASSUME current \in Items, NEW manual \in BOOLEAN
    PROVE  /\ NextIndex(manual) \in Items \cup {None}
           /\ manual => NextIndex(manual) \in Items
BY ItemFacts, SessionAssumption DEF NextIndex

LEMMA SavedType ==
    ASSUME TypeOK, NEW completes \in BOOLEAN
    PROVE  Saved(completes) \in Seq(Save)
<1>1. CASE MaySave
  <2>1. active \in Items
    BY <1>1 DEF MaySave, TypeOK
  <2>2. [video |-> active, at |-> IF completes THEN 0 ELSE position] \in Save
    BY <2>1 DEF TypeOK, Save, Positions, Late
  <2> QED BY <2>2 DEF Saved, TypeOK
<1>2. CASE ~MaySave
  BY <1>2 DEF Saved, TypeOK
<1> QED BY <1>1, <1>2

(* Replacing the record of one call keeps the calls typed. *)
LEMMA LoadUpdate ==
    ASSUME TInv, NEW l \in Loads, NEW r \in LoadRecord,
           r.stage \in {"options", "resume"} => r.item \in Items,
           loads' = [loads EXCEPT ![l] = r]
    PROVE  loads' \in [Loads -> LoadRecord] /\ HasItem'
BY DEF TInv, TypeOK, HasItem

LEMMA StartLoadType ==
    ASSUME TInv, NEW n \in Nat, StartLoad(n)
    PROVE  /\ loads' \in [Loads -> LoadRecord] /\ HasItem'
           /\ issued' \in 0 .. MaxLoads
<1>1. issued + 1 \in Loads /\ issued' \in 0 .. MaxLoads
  BY SessionAssumption DEF TInv, TypeOK, StartLoad, Loads
<1>2. ToFlush(n) \in LoadRecord /\ ToFlush(n).stage = "chain"
  BY DEF ToFlush, LoadRecord, Positions, Late
<1> QED BY <1>1, <1>2, LoadUpdate DEF StartLoad

LEMMA HandOverType ==
    ASSUME TInv, NEW l \in Loads, NEW item \in Items, HandOver(l, item)
    PROVE  /\ loads' \in [Loads -> LoadRecord] /\ HasItem'
           /\ media' \in Items /\ active' \in Items /\ position' \in Positions
           /\ native' = "idle" /\ completed' \subseteq Items
<1> DEFINE r == [stage |-> "resume", item |-> item, waits |-> 0, resume |-> store[item]]
<1>1. r \in LoadRecord /\ r.item \in Items
  BY DEF TInv, TypeOK, LoadRecord
<1>2. loads' = [loads EXCEPT ![l] = r]
  BY DEF HandOver
<1>3. loads' \in [Loads -> LoadRecord] /\ HasItem'
  BY <1>1, <1>2, LoadUpdate
<1> QED BY <1>3 DEF HandOver, TInv, TypeOK, Positions, Late

LEMMA NoLoadType == NoLoad \in LoadRecord /\ NoLoad.stage = "none"
BY DEF NoLoad, LoadRecord, Positions, Late

LEMMA InitTInv == Init => TInv
<1> SUFFICES ASSUME Init PROVE TInv
  OBVIOUS
<1>1. loads \in [Loads -> LoadRecord] /\ HasItem
  BY NoLoadType DEF Init, HasItem
<1>2. store \in [Items -> Positions] /\ position \in Positions /\ pendingResume \in Positions
  BY DEF Init, Positions, Late
<1>3. issued \in 0 .. MaxLoads
  BY SessionAssumption DEF Init
<1>4. state \in States /\ chain \in Seq(Save) /\ events \in Seq(Event)
  BY DEF Init, States
<1>5. /\ current \in Items /\ stopAfter \in BOOLEAN /\ live \in BOOLEAN
      /\ active \in Items \cup {None} /\ media \in Items \cup {None}
      /\ resumeOf \in Items \cup {None} /\ ops \in Nat /\ completed \subseteq Items
  BY DEF Init
<1>6. /\ native \in {"idle", "starting", "playing", "paused", "ended", "failed"}
      /\ HasMedia
  BY DEF Init, HasMedia
<1> QED BY <1>1, <1>2, <1>3, <1>4, <1>5, <1>6 DEF TInv, TypeOK

(* Tails and appended saves and events stay typed. *)
LEMMA ChainType ==
    ASSUME TInv, NEW completes \in BOOLEAN, ChainBecomes(Saved(completes))
    PROVE  chain' \in Seq(Save) /\ Len(chain') \in Nat
BY SavedType DEF ChainBecomes, TInv

LEMMA PlayType ==
    ASSUME TInv
    PROVE  /\ NativeAfterPlay \in {"idle", "starting", "playing", "paused", "ended", "failed"}
           /\ NativeAfterPlay # "idle" => media # None
BY DEF NativeAfterPlay, TInv, TypeOK, HasMedia

LEMMA LoadsKept ==
    ASSUME TInv, loads' = loads
    PROVE  loads' \in [Loads -> LoadRecord] /\ HasItem'
BY DEF TInv, TypeOK, HasItem

LEMMA StopEffectsType ==
    ASSUME TInv, StopEffects
    PROVE  /\ pendingResume' \in Positions /\ state' \in States
           /\ live' \in BOOLEAN /\ media' = None /\ native' = "idle"
           /\ events' \in Seq(Event) /\ loads' \in [Loads -> LoadRecord] /\ HasItem'
           /\ UNCHANGED <<position, resumeOf, issued, current>>
<1>1. pendingResume' \in Positions
  BY DEF StopEffects, Positions, Late
<1>2. state' \in States
  BY DEF StopEffects, StateAfterStop, States
<1>3. /\ live' \in BOOLEAN /\ media' = None /\ native' = "idle"
      /\ events' \in Seq(Event)
  BY SeqFacts DEF StopEffects, ReleasePlayer
<1>4. loads' \in [Loads -> LoadRecord] /\ HasItem'
  <2>1. loads' = loads
    BY DEF StopEffects
  <2> QED BY <2>1, LoadsKept
<1> QED BY <1>1, <1>2, <1>3, <1>4 DEF StopEffects

LEMMA GoToType ==
    ASSUME TInv, NEW i \in Items, GoTo(i), UserStep
    PROVE  TInv'
<1>1. chain' \in Seq(Save) /\ Len(chain') \in Nat
  BY ChainType DEF GoTo
<1>2. loads' \in [Loads -> LoadRecord] /\ HasItem' /\ issued' \in 0 .. MaxLoads
  BY <1>1, StartLoadType DEF GoTo
<1> QED
  BY <1>1, <1>2 DEF GoTo, UserStep, TInv, TypeOK, HasMedia, resumeVars, playerVars

LEMMA UserTInv == ASSUME TInv, User PROVE TInv'
<1>1. CASE Stop
  <2>1. chain' \in Seq(Save)
    BY <1>1, ChainType DEF Stop
  <2> QED
    BY <1>1, <2>1, StopEffectsType DEF Stop, UserStep, TInv, TypeOK, HasMedia
<1>2. CASE Play
  <2>1. CASE state \in {"IDLE", "STOPPED", "ERROR"}
    <3>1. chain' \in Seq(Save) /\ Len(chain') \in Nat
      BY <1>2, <2>1, ChainType DEF Play
    <3>2. loads' \in [Loads -> LoadRecord] /\ HasItem' /\ issued' \in 0 .. MaxLoads
      BY <1>2, <2>1, <3>1, StartLoadType DEF Play
    <3> QED BY <1>2, <2>1, <3>1, <3>2
               DEF Play, UserStep, TInv, TypeOK, HasMedia, resumeVars
  <2>2. CASE state \notin {"IDLE", "STOPPED", "ERROR"}
    BY <1>2, <2>2, PlayType DEF Play, UserStep, TInv, TypeOK, HasItem, HasMedia, resumeVars
  <2> QED BY <2>1, <2>2
<1>3. CASE Pause
  <2>1. chain' \in Seq(Save)
    BY <1>3, ChainType DEF Pause
  <2>2. /\ events' \in Seq(Event) /\ HasMedia'
        /\ native' \in {"idle", "starting", "playing", "paused", "ended", "failed"}
    <3>1. CASE live /\ native = "playing" /\ Len(events) < MaxEvents
      <4>1. [kind |-> "paused", of |-> media, at |-> 0] \in Event
        BY <3>1 DEF TInv, TypeOK, HasMedia, Event, Positions, Late
      <4>2. events' \in Seq(Event)
        <5>1. events' = Append(events, [kind |-> "paused", of |-> media, at |-> 0])
          BY <1>3, <3>1 DEF Pause
        <5> QED BY <5>1, <4>1, SeqFacts DEF TInv, TypeOK
      <4>3. native' = "paused" /\ media' # None
        BY <1>3, <3>1 DEF Pause, TInv, HasMedia
      <4> QED BY <4>2, <4>3 DEF HasMedia
    <3>2. CASE ~(live /\ native = "playing" /\ Len(events) < MaxEvents)
      BY <1>3, <3>2 DEF Pause, TInv, TypeOK, HasMedia
    <3> QED BY <3>1, <3>2
  <2>3. loads' = loads /\ UNCHANGED <<current, state, stopAfter, resumeVars, issued,
                                      store, live, media, completed>>
    BY <1>3 DEF Pause
  <2>4. loads' \in [Loads -> LoadRecord] /\ HasItem'
    BY <2>3, LoadsKept
  <2> QED BY <1>3, <2>1, <2>2, <2>3, <2>4
             DEF Pause, UserStep, TInv, TypeOK, resumeVars
<1>4. CASE NextTrack
  <2>1. NextIndex(TRUE) \in Items
    BY NextIndexType DEF TInv, TypeOK
  <2> QED BY <1>4, <2>1, GoToType DEF NextTrack
<1>5. CASE Prev
  <2>1. CASE Replay
    BY <1>5, <2>1, PlayType
       DEF Prev, Replay, UserStep, TInv, TypeOK, HasItem, HasMedia, resumeVars, saveVars
  <2>2. CASE GoTo(IF current = 0 THEN QueueLen - 1 ELSE current - 1)
    BY <1>5, <2>2, GoToType, ItemFacts DEF Prev, TInv, TypeOK
  <2> QED BY <1>5, <2>1, <2>2 DEF Prev
<1>6. CASE SetStopAfterCurrent
  BY <1>6 DEF SetStopAfterCurrent, UserStep, TInv, TypeOK, HasItem, HasMedia,
              resumeVars, saveVars, playerVars
<1>7. ASSUME NEW i \in Items, BindAndPlay(i) PROVE TInv'
  <2> DEFINE r == [stage |-> "attach", item |-> None, waits |-> 0, resume |-> 0]
  <2>1. r \in LoadRecord /\ r.stage = "attach"
    BY DEF LoadRecord, Positions, Late
  <2>2. issued + 1 \in Loads /\ issued' \in 0 .. MaxLoads
    BY <1>7, SessionAssumption DEF BindAndPlay, TInv, TypeOK, Loads
  <2>3. loads' = [loads EXCEPT ![issued + 1] = r]
    BY <1>7 DEF BindAndPlay
  <2>4. loads' \in [Loads -> LoadRecord] /\ HasItem'
    BY <2>1, <2>2, <2>3, LoadUpdate
  <2> QED BY <1>7, <2>2, <2>4
             DEF BindAndPlay, UserStep, LiveAfterEnsure, TInv, TypeOK, HasMedia,
                 resumeVars, saveVars
<1> QED BY <1>1, <1>2, <1>3, <1>4, <1>5, <1>6, <1>7 DEF User

LEMMA LoadStepTInv == ASSUME TInv, NEW l \in Loads, LoadStep(l) PROVE TInv'
<1>1. CASE EndAttach(l)
  <2>1. chain' \in Seq(Save) /\ Len(chain') \in Nat
    BY <1>1, ChainType DEF EndAttach
  <2>2. ToFlush(Len(chain')) \in LoadRecord /\ ToFlush(Len(chain')).stage = "chain"
    BY <2>1 DEF ToFlush, LoadRecord, Positions, Late
  <2>3. loads' = [loads EXCEPT ![l] = ToFlush(Len(chain'))]
    BY <1>1 DEF EndAttach
  <2>4. loads' \in [Loads -> LoadRecord] /\ HasItem'
    BY <2>2, <2>3, LoadUpdate
  <2> QED BY <1>1, <2>1, <2>4
             DEF EndAttach, TInv, TypeOK, HasMedia, resumeVars, playerVars
<1>2. ASSUME NEW item \in Items, HandOver(l, item), live' \in BOOLEAN,
             UNCHANGED <<current, stopAfter, pendingResume, resumeOf, issued, chain,
                         store, ops>>
      PROVE  TInv'
  <2>1. /\ loads' \in [Loads -> LoadRecord] /\ HasItem'
        /\ media' \in Items /\ active' \in Items /\ position' \in Positions
        /\ native' = "idle" /\ completed' \subseteq Items
    BY <1>2, HandOverType
  <2>2. UNCHANGED <<events, state>>
    BY <1>2 DEF HandOver
  <2> QED BY <1>2, <2>1, <2>2 DEF TInv, TypeOK, HasMedia
<1>3. ASSUME FailLoad(l), live' \in BOOLEAN,
             UNCHANGED <<current, stopAfter, pendingResume, resumeOf, issued, chain,
                         store, ops>>
      PROVE  TInv'
  <2>1. loads' \in [Loads -> LoadRecord] /\ HasItem'
    BY <1>3, NoLoadType, LoadUpdate DEF FailLoad
  <2>2. state' \in States
    BY <1>3 DEF FailLoad, States
  <2>3. UNCHANGED <<media, native, events, active, position, completed>>
    BY <1>3 DEF FailLoad
  <2> QED BY <1>3, <2>1, <2>2, <2>3 DEF TInv, TypeOK, HasMedia
<1>4. CASE EndChain(l)
  <2>1. live' \in BOOLEAN /\ current \in Items
    BY <1>4 DEF EndChain, LiveAfterEnsure, TInv, TypeOK
  <2>2. CASE current \in Broken /\ FailLoad(l)
    BY <1>3, <1>4, <2>1, <2>2 DEF EndChain
  <2>3. CASE current \in Discs \ Broken /\ HandOver(l, current)
    BY <1>2, <1>4, <2>1, <2>3 DEF EndChain
  <2>4. CASE /\ loads' = [loads EXCEPT ![l] = [stage |-> "options", item |-> current,
                                              waits |-> 0, resume |-> 0]]
             /\ UNCHANGED <<state, active, position, completed, media, native, events>>
    <3> DEFINE r == [stage |-> "options", item |-> current, waits |-> 0, resume |-> 0]
    <3>1. r \in LoadRecord /\ r.item \in Items
      BY <2>1 DEF LoadRecord, Positions, Late
    <3>2. loads' \in [Loads -> LoadRecord] /\ HasItem'
      BY <2>4, <3>1, LoadUpdate
    <3>3. UNCHANGED <<current, stopAfter, pendingResume, resumeOf, issued, chain,
                      store, ops>>
      BY <1>4 DEF EndChain
    <3> QED BY <2>1, <2>4, <3>2, <3>3 DEF TInv, TypeOK, HasMedia
  <2> QED BY <1>4, <2>2, <2>3, <2>4 DEF EndChain
<1>5. CASE EndOptions(l)
  <2>1. loads[l].item \in Items
    BY <1>5 DEF EndOptions, At, TInv, HasItem
  <2>2. live' \in BOOLEAN
    BY <1>5 DEF EndOptions, TInv, TypeOK
  <2>3. CASE HandOver(l, loads[l].item)
    BY <1>2, <1>5, <2>1, <2>2, <2>3 DEF EndOptions
  <2>4. CASE FailLoad(l)
    BY <1>3, <1>5, <2>2, <2>4 DEF EndOptions
  <2> QED BY <1>5, <2>3, <2>4 DEF EndOptions
<1>6. CASE EndResume(l)
  <2>1. loads[l].item \in Items
    BY <1>6 DEF EndResume, At, TInv, HasItem
  <2>2. loads[l].resume \in Positions /\ store[loads[l].item] \in Positions
    BY <2>1 DEF TInv, TypeOK, LoadRecord
  <2>3. pendingResume' \in Positions /\ resumeOf' \in Items
    BY <1>6, <2>1, <2>2 DEF EndResume, Positions, Late
  <2>4. loads' \in [Loads -> LoadRecord] /\ HasItem'
    BY <1>6, NoLoadType, LoadUpdate DEF EndResume
  <2>5. state' \in States
    BY <1>6 DEF EndResume, States
  <2>6. native' = NativeAfterPlay
    BY <1>6 DEF EndResume
  <2>7. UNCHANGED <<current, stopAfter, position, active, issued, chain, completed,
                    store, live, media, events, ops>>
    BY <1>6 DEF EndResume, saveVars
  <2> QED BY <2>3, <2>4, <2>5, <2>6, <2>7, PlayType DEF TInv, TypeOK, HasMedia
<1> QED BY <1>1, <1>4, <1>5, <1>6 DEF LoadStep

LEMMA PersistTInv == ASSUME TInv, PersistSave PROVE TInv'
<1>1. Head(chain) \in Save /\ Tail(chain) \in Seq(Save)
  BY SeqFacts DEF PersistSave, TInv, TypeOK
<1>2. Head(chain).video \in Items /\ Head(chain).at \in Positions
  BY <1>1 DEF Save
<1>3. store' \in [Items -> Positions]
  BY <1>2 DEF PersistSave, TInv, TypeOK
<1>4. \A l \in Loads : /\ loads'[l] \in LoadRecord
                      /\ loads'[l].stage = loads[l].stage
                      /\ loads'[l].item = loads[l].item
  <2> TAKE l \in Loads
  <2>1. loads[l] \in LoadRecord
    BY DEF TInv, TypeOK
  <2>2. CASE loads[l].waits > 0
    <3>1. loads'[l] = [loads[l] EXCEPT !.waits = loads[l].waits - 1]
      BY <2>2 DEF PersistSave
    <3>2. loads[l].waits - 1 \in Nat
      BY <2>1, <2>2 DEF LoadRecord
    <3> QED BY <2>1, <3>1, <3>2 DEF LoadRecord
  <2>3. CASE ~(loads[l].waits > 0)
    BY <2>1, <2>3 DEF PersistSave
  <2> QED BY <2>2, <2>3
<1>5. loads' \in [Loads -> LoadRecord] /\ HasItem'
  BY <1>4 DEF PersistSave, TInv, HasItem
<1> QED BY <1>1, <1>3, <1>5
           DEF PersistSave, TInv, TypeOK, HasMedia, resumeVars, playerVars

LEMMA NativeTInv ==
    ASSUME TInv,
           \/ NativeStarts \/ NativeFails \/ NativeEnds
           \/ \E p \in Positions \ {0} : NativeTime(p)
    PROVE  TInv'
<1>1. ASSUME NEW kind \in {"playing", "ended", "error", "time"},
             NEW at \in Positions, Emit(kind, at), media # None
      PROVE  events' \in Seq(Event)
  <2>1. [kind |-> kind, of |-> media, at |-> at] \in Event
    BY <1>1 DEF Event, TInv, TypeOK
  <2> QED BY <1>1, <2>1, SeqFacts DEF Emit, TInv, TypeOK
<1>2. 0 \in Positions
  BY DEF Positions, Late
<1>3. ASSUME NEW from \in {"starting", "playing"}, NEW to \in {"playing", "failed", "ended"},
             NEW kind \in {"playing", "ended", "error"}, NativeStep(from, to, kind)
      PROVE  TInv'
  <2>1. native # "idle" /\ media # None
    BY <1>3 DEF NativeStep, TInv, HasMedia
  <2>2. events' \in Seq(Event)
    BY <1>1, <1>2, <1>3, <2>1 DEF NativeStep
  <2>3. loads' = loads /\ media' = media /\ native' = to
    BY <1>3 DEF NativeStep
  <2>4. loads' \in [Loads -> LoadRecord] /\ HasItem' /\ HasMedia'
    BY <2>1, <2>3, LoadsKept DEF HasMedia
  <2> QED BY <1>3, <2>2, <2>3, <2>4 DEF NativeStep, TInv, TypeOK, resumeVars, saveVars
<1>4. ASSUME NEW p \in Positions, NativeTime(p) PROVE TInv'
  <2>1. media # None
    BY <1>4 DEF NativeTime, TInv, HasMedia
  <2>2. events' \in Seq(Event)
    BY <1>1, <1>4, <2>1 DEF NativeTime
  <2> QED BY <1>4, <2>2 DEF NativeTime, TInv, TypeOK, HasItem, HasMedia, resumeVars, saveVars
<1> QED BY <1>3, <1>4 DEF NativeStarts, NativeFails, NativeEnds

LEMMA DeliveredType ==
    ASSUME TInv, events # <<>>
    PROVE  Head(events).at \in Positions /\ Tail(events) \in Seq(Event)
<1>1. Head(events) \in Event /\ Tail(events) \in Seq(Event)
  BY SeqFacts DEF TInv, TypeOK
<1> QED BY <1>1 DEF Event

LEMMA TimeChangedTInv ==
    ASSUME TInv, NEW p \in Positions, TimeChanged(p), events' \in Seq(Event)
    PROVE  TInv'
<1>1. chain' \in Seq(Save)
  <2>1. CASE MaySave /\ ChainBecomes(Append(chain, [video |-> active, at |-> p]))
    <3>1. [video |-> active, at |-> p] \in Save
      BY <2>1 DEF MaySave, Save, TInv, TypeOK
    <3> QED BY <2>1, <3>1, SeqFacts DEF ChainBecomes, TInv, TypeOK
  <2> QED BY <2>1 DEF TimeChanged, TInv, TypeOK
<1> QED BY <1>1 DEF TimeChanged, TInv, TypeOK, HasItem, HasMedia

LEMMA EndedTInv == ASSUME TInv, OnEnded PROVE TInv'
<1>1. active' \in Items \cup {None}
  BY DEF OnEnded, ActiveAfterCompletion, TInv, TypeOK
<1>2. chain' \in Seq(Save) /\ Len(chain') \in Nat
  <2>1. Saved(TRUE) \in Seq(Save)
    BY SavedType DEF TInv
  <2>2. active' = None \/ ~MaySave
    BY DEF OnEnded, ActiveAfterCompletion
  <2>3. chain' = Saved(TRUE)
    <3>1. chain' = IF active' # None /\ MaySave /\ position > 0
                   THEN Append(Saved(TRUE), [video |-> active, at |-> position])
                   ELSE Saved(TRUE)
      BY DEF OnEnded, ChainBecomes
    <3> QED BY <2>2, <3>1
  <2>4. chain' \in Seq(Save)
    BY <2>1, <2>3
  <2> QED BY <2>4
<1>3. completed' \subseteq Items
  BY DEF OnEnded, MaySave, TInv, TypeOK
<1>4. CASE StopEffects
  BY <1>1, <1>2, <1>3, <1>4, StopEffectsType DEF OnEnded, TInv, TypeOK, HasMedia
<1>5. CASE /\ ~stopAfter /\ NextIndex(FALSE) # None
           /\ ReleasePlayer
           /\ current' = NextIndex(FALSE)
           /\ StartLoad(Len(chain'))
           /\ UNCHANGED <<state, position, pendingResume, resumeOf>>
  <2>1. current' \in Items
    BY <1>5, NextIndexType DEF TInv, TypeOK
  <2>2. loads' \in [Loads -> LoadRecord] /\ HasItem' /\ issued' \in 0 .. MaxLoads
    BY <1>2, <1>5, StartLoadType
  <2>3. live' \in BOOLEAN /\ media' = None /\ native' = "idle" /\ events' \in Seq(Event)
    BY <1>5, SeqFacts DEF ReleasePlayer
  <2> QED BY <1>1, <1>2, <1>3, <1>5, <2>1, <2>2, <2>3 DEF OnEnded, TInv, TypeOK, HasMedia
<1> QED BY <1>4, <1>5 DEF OnEnded

LEMMA DeliverTInv ==
    ASSUME TInv, Deliver \/ \E p \in Positions : Watchdog(p)
    PROVE  TInv'
<1>1. CASE OnPlaying
  <2>1. Tail(events) \in Seq(Event) /\ 0 \in Positions
    BY <1>1, DeliveredType DEF OnPlaying, Arrives, Positions, Late
  <2>2. state' \in States /\ loads' = loads
    BY <1>1 DEF OnPlaying, States
  <2> QED BY <1>1, <2>1, <2>2, LoadsKept DEF OnPlaying, TInv, TypeOK, HasMedia, saveVars
<1>2. CASE OnPaused
  <2>1. Tail(events) \in Seq(Event) /\ chain' \in Seq(Save)
    BY <1>2, DeliveredType, ChainType DEF OnPaused, Arrives
  <2>2. state' \in States /\ loads' = loads
    BY <1>2 DEF OnPaused, States
  <2> QED BY <1>2, <2>1, <2>2, LoadsKept DEF OnPaused, TInv, TypeOK, HasMedia, resumeVars
<1>3. CASE OnError
  <2>1. Tail(events) \in Seq(Event)
    BY <1>3, DeliveredType DEF OnError, Arrives
  <2>2. state' \in States /\ loads' = loads
    BY <1>3 DEF OnError, States
  <2> QED BY <1>3, <2>1, <2>2, LoadsKept
          DEF OnError, TInv, TypeOK, HasMedia, resumeVars, saveVars
<1>4. CASE OnTime
  BY <1>4, DeliveredType, TimeChangedTInv DEF OnTime, Arrives
<1>5. ASSUME NEW p \in Positions, Watchdog(p) PROVE TInv'
  BY <1>5, TimeChangedTInv DEF Watchdog, TInv, TypeOK
<1> QED BY <1>1, <1>2, <1>3, <1>4, <1>5, EndedTInv DEF Deliver

LEMMA StutterTInv == ASSUME TInv, UNCHANGED vars PROVE TInv'
BY DEF vars, resumeVars, saveVars, playerVars, TInv, TypeOK, HasItem, HasMedia

(* Every variable keeps its type: the queue index is in the queue, and no  *)
(* load hands a missing item to the player.                                *)
THEOREM TypeCorrect == Spec => []TypeOK
<1>1. TInv /\ [Next]_vars => TInv'
  BY UserTInv, LoadStepTInv, PersistTInv, NativeTInv, DeliverTInv, StutterTInv
     DEF Next, System
<1>2. TInv => TypeOK
  BY DEF TInv
<1> QED BY InitTInv, <1>1, <1>2, PTL DEF Spec

(***************************************************************************)
(* Completion.  CompletedStays is not inductive alone: the next save could *)
(* name a completed video if that one were still active.                   *)
(***************************************************************************)
CInv == CompletedInactive /\ CompletedStays

(* A save of the active video leaves the newest save of every other one. *)
LEMMA AppendKeeps ==
    ASSUME TypeOK, UNCHANGED store, NEW v, v # active, NEW p, NewestIs(v, p),
           NEW s \in Save, s.video = active, chain' = Append(chain, s)
    PROVE  NewestIs(v, p)'
<1>1. /\ Len(chain') = Len(chain) + 1 /\ Len(chain) \in Nat
      /\ chain'[Len(chain) + 1] = s
      /\ \A k \in 1 .. Len(chain) : chain'[k] = chain[k]
  BY DEF TypeOK
<1>2. CASE /\ store[v] = p
           /\ \A k \in 1 .. Len(chain) : chain[k].video # v
  <2>1. \A k \in 1 .. Len(chain') : chain'[k].video # v
    BY <1>1, <1>2
  <2> QED BY <1>2, <2>1 DEF NewestIs
<1>3. ASSUME NEW k \in 1 .. Len(chain), chain[k] = [video |-> v, at |-> p],
             \A j \in k + 1 .. Len(chain) : chain[j].video # v
      PROVE  NewestIs(v, p)'
  <2>1. k \in 1 .. Len(chain') /\ chain'[k] = [video |-> v, at |-> p]
    BY <1>1, <1>3
  <2>2. \A j \in k + 1 .. Len(chain') : chain'[j].video # v
    BY <1>1, <1>3
  <2> QED BY <2>1, <2>2 DEF NewestIs
<1> QED BY <1>2, <1>3 DEF NewestIs

(* It is the newest save of the active one. *)
LEMMA AppendSets ==
    ASSUME TypeOK, NEW v \in Items, NEW p \in Positions,
           chain' = Append(chain, [video |-> v, at |-> p])
    PROVE  NewestIs(v, p)'
<1> DEFINE s == [video |-> v, at |-> p]
<1>1. /\ Len(chain') = Len(chain) + 1 /\ Len(chain) \in Nat
      /\ chain'[Len(chain) + 1] = s
  BY DEF TypeOK, Save
<1>2. /\ Len(chain) + 1 \in 1 .. Len(chain')
      /\ chain'[Len(chain) + 1] = [video |-> v, at |-> p]
      /\ \A j \in (Len(chain) + 1) + 1 .. Len(chain') : chain'[j].video # v
  BY <1>1
<1> QED BY <1>2 DEF NewestIs

(* Persisting the oldest save of the chain moves it into the store, and no *)
(* video's newest save changes.                                            *)
LEMMA PersistKeeps ==
    ASSUME TypeOK, PersistSave, NEW v \in Items, NEW p, NewestIs(v, p)
    PROVE  NewestIs(v, p)'
<1>1. /\ Len(chain) \in Nat \ {0} /\ Len(chain') = Len(chain) - 1
      /\ \A k \in 1 .. Len(chain') : chain'[k] = chain[k + 1]
      /\ chain[1] \in Save /\ Head(chain) = chain[1]
  BY DEF PersistSave, TypeOK
<1>2. store' = [store EXCEPT ![chain[1].video] = chain[1].at] /\ chain[1].video \in Items
  BY <1>1 DEF PersistSave, Save
<1>3. CASE /\ store[v] = p
           /\ \A k \in 1 .. Len(chain) : chain[k].video # v
  <2>1. store'[v] = p
    BY <1>1, <1>2, <1>3 DEF TypeOK
  <2>2. \A k \in 1 .. Len(chain') : chain'[k].video # v
    BY <1>1, <1>3
  <2> QED BY <2>1, <2>2 DEF NewestIs
<1>4. ASSUME NEW k \in 1 .. Len(chain), chain[k] = [video |-> v, at |-> p],
             \A j \in k + 1 .. Len(chain) : chain[j].video # v
      PROVE  NewestIs(v, p)'
  <2>1. CASE k = 1
    <3>1. store'[v] = p
      BY <1>2, <1>4, <2>1 DEF TypeOK
    <3>2. ASSUME NEW j \in 1 .. Len(chain') PROVE chain'[j].video # v
      <4>1. j + 1 \in k + 1 .. Len(chain) /\ chain'[j] = chain[j + 1]
        BY <1>1, <2>1, <3>2
      <4> QED BY <1>4, <4>1
    <3> QED BY <3>1, <3>2 DEF NewestIs
  <2>2. CASE k # 1
    <3>1. k - 1 \in 1 .. Len(chain') /\ chain'[k - 1] = [video |-> v, at |-> p]
      BY <1>1, <1>4, <2>2
    <3>2. \A j \in (k - 1) + 1 .. Len(chain') : chain'[j].video # v
      BY <1>1, <1>4, <2>2
    <3> QED BY <3>1, <3>2 DEF NewestIs
  <2> QED BY <2>1, <2>2
<1> QED BY <1>3, <1>4 DEF NewestIs

(* A step that leaves the store alone and adds at most a save of the       *)
(* active video keeps what the completed videos have.                      *)
LEMMA SavingKeeps ==
    ASSUME TypeOK, CInv, UNCHANGED store, completed' \subseteq completed,
           active' \notin completed',
           \/ chain' = chain
           \/ \E s \in Save : s.video = active /\ chain' = Append(chain, s)
    PROVE  CInv'
<1>1. SUFFICES ASSUME NEW v \in completed' PROVE NewestIs(v, 0)'
  BY DEF CInv, CompletedInactive, CompletedStays
<1>2. v # active /\ NewestIs(v, 0)
  BY <1>1 DEF CInv, CompletedInactive, CompletedStays
<1>3. CASE chain' = chain
  BY <1>2, <1>3 DEF NewestIs
<1>4. CASE \E s \in Save : s.video = active /\ chain' = Append(chain, s)
  BY <1>2, <1>4, AppendKeeps
<1> QED BY <1>3, <1>4

LEMMA SavedForm ==
    ASSUME TypeOK, NEW completes \in BOOLEAN
    PROVE  \/ Saved(completes) = chain
           \/ \E s \in Save : /\ s.video = active
                             /\ Saved(completes) = Append(chain, s)
<1>1. CASE MaySave
  <2>1. [video |-> active, at |-> IF completes THEN 0 ELSE position] \in Save
    BY <1>1 DEF MaySave, TypeOK, Save, Positions, Late
  <2> QED BY <2>1 DEF Saved
<1>2. CASE ~MaySave
  BY <1>2 DEF Saved
<1> QED BY <1>1, <1>2

(* The video that ends is completed: its save of position 0 is the last    *)
(* of the chain.                                                           *)
LEMMA EndedCInv == ASSUME TypeOK, CInv, OnEnded PROVE CInv'
<1>1. chain' = Saved(TRUE)
  <2>1. active' = None \/ ~MaySave
    BY DEF OnEnded, ActiveAfterCompletion
  <2>2. chain' = IF active' # None /\ MaySave /\ position > 0
                 THEN Append(Saved(TRUE), [video |-> active, at |-> position])
                 ELSE Saved(TRUE)
    BY DEF OnEnded, ChainBecomes
  <2> QED BY <2>1, <2>2
<1>2. UNCHANGED store
  BY DEF OnEnded
<1>3. CASE ~MaySave
  <2>1. chain' = chain /\ completed' = completed /\ active' = active
    BY <1>1, <1>3 DEF OnEnded, Saved, ActiveAfterCompletion
  <2> QED BY <1>2, <2>1, SavingKeeps DEF CInv, CompletedInactive
<1>4. CASE MaySave
  <2> DEFINE s == [video |-> active, at |-> 0]
  <2>1. chain' = Append(chain, s)
    BY <1>1, <1>4 DEF Saved
  <2>2. active' = None /\ completed' = completed \cup {active}
    BY <1>4 DEF OnEnded, ActiveAfterCompletion
  <2>3. s \in Save /\ s.video = active /\ active \in Items /\ completed \subseteq Items
    BY <1>4 DEF MaySave, TypeOK, Save, Positions, Late
  <2>4. CompletedInactive'
    BY <2>2, <2>3, ItemFacts DEF CompletedInactive
  <2>5. \A v \in Items : v = active => NewestIs(v, 0)'
    <3> SUFFICES ASSUME NEW v \in Items, v = active PROVE NewestIs(v, 0)'
      OBVIOUS
    <3>1. 0 \in Positions /\ chain' = Append(chain, [video |-> v, at |-> 0])
      BY <2>1 DEF Positions, Late
    <3> HIDE DEF s
    <3> QED BY <3>1, AppendSets
  <2>6. \A v \in completed : NewestIs(v, 0)'
    <3> SUFFICES ASSUME NEW v \in completed PROVE NewestIs(v, 0)'
      OBVIOUS
    <3>1. v # active /\ NewestIs(v, 0)
      BY DEF CInv, CompletedInactive, CompletedStays
    <3> HIDE DEF s
    <3> QED BY <1>2, <2>1, <2>3, <3>1, AppendKeeps
  <2>7. CompletedStays'
    BY <2>2, <2>3, <2>5, <2>6 DEF CompletedStays
  <2> QED BY <2>4, <2>7 DEF CInv
<1> QED BY <1>3, <1>4

LEMMA PersistCInv == ASSUME TypeOK, CInv, PersistSave PROVE CInv'
<1>1. completed' = completed /\ active' = active
  BY DEF PersistSave, resumeVars
<1>2. ASSUME NEW v \in completed PROVE NewestIs(v, 0)'
  BY <1>2, PersistKeeps DEF CInv, CompletedStays, TypeOK
<1> QED BY <1>1, <1>2 DEF CInv, CompletedInactive, CompletedStays

(* A step that saves at most the position of the active video, and leaves  *)
(* which videos are active and completed.                                  *)
LEMMA SaveOnly ==
    ASSUME TypeOK, CInv, UNCHANGED <<store, completed, active>>,
           chain' = chain \/ chain' = Saved(FALSE)
    PROVE  CInv'
<1>1. \/ chain' = chain
      \/ \E s \in Save : s.video = active /\ chain' = Append(chain, s)
  BY SavedForm
<1>2. active' \notin completed' /\ completed' \subseteq completed
  BY DEF CInv, CompletedInactive
<1> QED BY <1>1, <1>2, SavingKeeps

LEMMA UserCInv == ASSUME TypeOK, CInv, User PROVE CInv'
<1>1. UNCHANGED <<store, completed, active>> /\ (chain' = chain \/ chain' = Saved(FALSE))
  <2>1. CASE Stop
    BY <2>1 DEF Stop, ChainBecomes
  <2>2. CASE Play
    BY <2>2 DEF Play, ChainBecomes, resumeVars
  <2>3. CASE Pause
    BY <2>3 DEF Pause, ChainBecomes, resumeVars
  <2>4. ASSUME NEW i, GoTo(i)
        PROVE  UNCHANGED <<store, completed, active>> /\ chain' = Saved(FALSE)
    BY <2>4 DEF GoTo, ChainBecomes, resumeVars
  <2>5. CASE NextTrack
    BY <2>4, <2>5 DEF NextTrack
  <2>6. CASE Prev
    BY <2>4, <2>6 DEF Prev, Replay, resumeVars, saveVars
  <2>7. CASE SetStopAfterCurrent
    BY <2>7 DEF SetStopAfterCurrent, resumeVars, saveVars
  <2>8. ASSUME NEW i \in Items, BindAndPlay(i)
        PROVE  UNCHANGED <<store, completed, active, chain>>
    BY <2>8 DEF BindAndPlay, resumeVars, saveVars
  <2> QED BY <2>1, <2>2, <2>3, <2>5, <2>6, <2>7, <2>8 DEF User
<1> QED BY <1>1, SaveOnly

(* Handing a video over makes it active and withdraws its completion. *)
LEMMA LoadStepCInv == ASSUME TypeOK, CInv, NEW l \in Loads, LoadStep(l) PROVE CInv'
<1>1. CASE EndAttach(l)
  BY <1>1, SaveOnly DEF EndAttach, ChainBecomes, resumeVars
<1>2. ASSUME NEW item, HandOver(l, item), UNCHANGED <<chain, store>> PROVE CInv'
  <2>1. completed' \subseteq completed /\ active' \notin completed'
    BY <1>2 DEF HandOver
  <2> QED BY <1>2, <2>1, SavingKeeps
<1>3. ASSUME FailLoad(l), UNCHANGED <<chain, store>> PROVE CInv'
  BY <1>3, SaveOnly DEF FailLoad
<1>4. CASE EndChain(l)
  BY <1>2, <1>3, <1>4, SaveOnly DEF EndChain
<1>5. CASE EndOptions(l)
  BY <1>2, <1>3, <1>5 DEF EndOptions
<1>6. CASE EndResume(l)
  BY <1>6, SaveOnly DEF EndResume, saveVars
<1> QED BY <1>1, <1>4, <1>5, <1>6 DEF LoadStep

LEMMA TimeChangedCInv ==
    ASSUME TypeOK, CInv, NEW p \in Positions, TimeChanged(p)
    PROVE  CInv'
<1>1. UNCHANGED <<store, completed, active>>
  BY DEF TimeChanged
<1>2. active' \notin completed' /\ completed' \subseteq completed
  BY <1>1 DEF CInv, CompletedInactive
<1>3. CASE UNCHANGED chain
  BY <1>1, <1>3, SaveOnly
<1>4. CASE MaySave /\ ChainBecomes(Append(chain, [video |-> active, at |-> p]))
  <2>1. [video |-> active, at |-> p] \in Save
    BY <1>4 DEF MaySave, TypeOK, Save
  <2>2. \E s \in Save : s.video = active /\ chain' = Append(chain, s)
    BY <1>4, <2>1 DEF ChainBecomes
  <2> QED BY <1>1, <1>2, <2>2, SavingKeeps
<1> QED BY <1>3, <1>4 DEF TimeChanged

LEMMA DeliverCInv ==
    ASSUME TInv, CInv, Deliver \/ \E p \in Positions : Watchdog(p)
    PROVE  CInv'
<1>1. TypeOK
  BY DEF TInv
<1>2. CASE OnPlaying
  BY <1>1, <1>2, SaveOnly DEF OnPlaying, saveVars
<1>3. CASE OnPaused
  BY <1>1, <1>3, SaveOnly DEF OnPaused, ChainBecomes, resumeVars
<1>4. CASE OnError
  BY <1>1, <1>4, SaveOnly DEF OnError, resumeVars, saveVars
<1>5. CASE OnTime
  BY <1>1, <1>5, DeliveredType, TimeChangedCInv DEF OnTime, Arrives
<1>6. ASSUME NEW p \in Positions, Watchdog(p) PROVE CInv'
  BY <1>1, <1>6, TimeChangedCInv DEF Watchdog
<1> QED BY <1>1, <1>2, <1>3, <1>4, <1>5, <1>6, EndedCInv DEF Deliver

LEMMA NativeCInv ==
    ASSUME TypeOK, CInv,
           \/ NativeStarts \/ NativeFails \/ NativeEnds
           \/ \E p \in Positions \ {0} : NativeTime(p)
           \/ UNCHANGED vars
    PROVE  CInv'
<1>1. UNCHANGED <<store, completed, active, chain>>
  BY DEF NativeStarts, NativeFails, NativeEnds, NativeStep, NativeTime,
         resumeVars, saveVars, vars
<1> QED BY <1>1, SaveOnly

LEMMA InitCInv == Init => CInv
BY DEF Init, CInv, CompletedInactive, CompletedStays

(* A completed video starts from the beginning next time, whatever loads,  *)
(* stops, late events and saves follow its end.                            *)
THEOREM CompletionStays == Spec => []CompletedStays
<1>1. TInv /\ CInv /\ [Next]_vars => CInv'
  <2> SUFFICES ASSUME TInv, CInv, [Next]_vars PROVE CInv'
    OBVIOUS
  <2>1. TypeOK
    BY DEF TInv
  <2> QED BY <2>1, UserCInv, LoadStepCInv, PersistCInv, NativeCInv, DeliverCInv
             DEF Next, System
<1>2. TInv /\ [Next]_vars => TInv'
  BY UserTInv, LoadStepTInv, PersistTInv, NativeTInv, DeliverTInv, StutterTInv
     DEF Next, System
<1>3. CInv => CompletedStays
  BY DEF CInv
<1> QED BY InitTInv, InitCInv, <1>1, <1>2, <1>3, PTL DEF Spec

-----------------------------------------------------------------------------
(***************************************************************************)
(* The saves are a register (module ResumeRegister).  The newest save of a *)
(* video exists because every step hands one on, so no induction over the  *)
(* chain is needed; and no queued event reports the time 0, which a player *)
(* that plays never reports, so that recording is no reset.                *)
(***************************************************************************)
NewestExists == \A v \in Items : \E p \in Positions : NewestIs(v, p)

TimesHavePassed ==
    \A k \in 1 .. Len(events) : events[k].kind = "time" => events[k].at # 0

RInv == NewestExists /\ TimesHavePassed

(* Two newest saves of a video are the same one. *)
LEMMA NewestUnique ==
    ASSUME NEW v, NEW p, NEW q
    PROVE  /\ TypeOK /\ NewestIs(v, p) /\ NewestIs(v, q) => p = q
           /\ TypeOK' /\ NewestIs(v, p)' /\ NewestIs(v, q)' => p = q
<1>1. ASSUME NEW c \in Seq(Save), NEW st,
             NEW j \in 1 .. Len(c), c[j] = [video |-> v, at |-> p],
             \A i \in j + 1 .. Len(c) : c[i].video # v,
             NEW k \in 1 .. Len(c), c[k] = [video |-> v, at |-> q],
             \A i \in k + 1 .. Len(c) : c[i].video # v
      PROVE  p = q
  <2>1. c[j].video = v /\ c[k].video = v /\ Len(c) \in Nat
    BY <1>1
  <2>2. j = k
    BY <1>1, <2>1
  <2> QED BY <1>1, <2>2
<1>2. ASSUME NEW c, NEW w, NEW r, NEW j \in 1 .. Len(c), c[j] = [video |-> w, at |-> r]
      PROVE  c[j].video = w
  BY <1>2
<1>3. TypeOK /\ NewestIs(v, p) /\ NewestIs(v, q) => p = q
  BY <1>1, <1>2 DEF NewestIs, TypeOK
<1>4. TypeOK' /\ NewestIs(v, p)' /\ NewestIs(v, q)' => p = q
  BY <1>1, <1>2 DEF NewestIs, TypeOK
<1> QED BY <1>3, <1>4

LEMMA NewestValue ==
    ASSUME NEW v \in Items, NEW p \in Positions
    PROVE  /\ TypeOK /\ NewestIs(v, p) => Newest[v] = p
           /\ TypeOK' /\ NewestIs(v, p)' => Newest'[v] = p
<1>1. ASSUME TypeOK, NewestIs(v, p) PROVE Newest[v] = p
  <2>1. \A q \in Positions : NewestIs(v, q) => q = p
    BY <1>1, NewestUnique
  <2>2. (CHOOSE q \in Positions : NewestIs(v, q)) = p
    BY <1>1, <2>1
  <2> QED BY <2>2 DEF Newest
<1>2. ASSUME TypeOK', NewestIs(v, p)' PROVE Newest'[v] = p
  <2>1. \A q \in Positions : NewestIs(v, q)' => q = p
    BY <1>2, NewestUnique
  <2>2. (CHOOSE q \in Positions : NewestIs(v, q)') = p
    BY <1>2, <2>1
  <2> QED BY <2>2 DEF Newest
<1> QED BY <1>1, <1>2

(***************************************************************************)
(* What a step other than PersistSave can do to the saves: nothing, or     *)
(* another video is loaded; a position of the active video is saved; or    *)
(* its completion is.                                                      *)
(***************************************************************************)
Saves(p) ==
    /\ active \in Items
    /\ chain' = Append(chain, [video |-> active, at |-> p])

NothingSaved == chain' = chain /\ active' \in Items \cup {active}

PositionSaved == active' = active /\ \E p \in Positions \ {0} : Saves(p)

CompletionSaved == active' = None /\ Saves(0)

SaveStep == store' = store /\ (NothingSaved \/ PositionSaved \/ CompletionSaved)

(* saveVideoResume without a completion saves a position or nothing. *)
LEMMA SavingIsSaveStep ==
    ASSUME TypeOK, UNCHANGED <<store, active>>, chain' = chain \/ chain' = Saved(FALSE)
    PROVE  SaveStep
<1>1. CASE chain' = chain
  BY <1>1 DEF SaveStep, NothingSaved
<1>2. CASE chain' = Saved(FALSE) /\ MaySave /\ position > 0
  <2>1. active \in Items /\ position \in Positions \ {0}
    BY <1>2 DEF MaySave, TypeOK, Positions, Late
  <2>2. chain' = Append(chain, [video |-> active, at |-> position])
    BY <1>2 DEF Saved
  <2> QED BY <2>1, <2>2 DEF SaveStep, PositionSaved, Saves
<1>3. CASE chain' = Saved(FALSE) /\ ~(MaySave /\ position > 0)
  BY <1>3 DEF Saved, SaveStep, NothingSaved
<1> QED BY <1>1, <1>2, <1>3

LEMMA UserSaves == ASSUME TypeOK, User PROVE SaveStep
<1>1. CASE Stop
  BY <1>1, SavingIsSaveStep DEF Stop, ChainBecomes
<1>2. CASE Play
  BY <1>2, SavingIsSaveStep DEF Play, ChainBecomes, resumeVars
<1>3. CASE Pause
  BY <1>3, SavingIsSaveStep DEF Pause, ChainBecomes, resumeVars
<1>4. ASSUME NEW i, GoTo(i) PROVE SaveStep
  BY <1>4, SavingIsSaveStep DEF GoTo, ChainBecomes, resumeVars
<1>5. CASE NextTrack
  BY <1>4, <1>5 DEF NextTrack
<1>6. CASE Prev
  BY <1>4, <1>6, SavingIsSaveStep DEF Prev, Replay, resumeVars, saveVars
<1>7. CASE SetStopAfterCurrent
  BY <1>7, SavingIsSaveStep DEF SetStopAfterCurrent, resumeVars, saveVars
<1>8. ASSUME NEW i \in Items, BindAndPlay(i) PROVE SaveStep
  BY <1>8, SavingIsSaveStep DEF BindAndPlay, resumeVars, saveVars
<1> QED BY <1>1, <1>2, <1>3, <1>5, <1>6, <1>7, <1>8 DEF User

LEMMA LoadStepSaves == ASSUME TInv, NEW l \in Loads, LoadStep(l) PROVE SaveStep
<1>0. TypeOK
  BY DEF TInv
<1>1. CASE EndAttach(l)
  BY <1>0, <1>1, SavingIsSaveStep DEF EndAttach, ChainBecomes, resumeVars
<1>2. ASSUME NEW item \in Items, HandOver(l, item), UNCHANGED <<chain, store>>
      PROVE  SaveStep
  BY <1>2 DEF HandOver, SaveStep, NothingSaved
<1>3. ASSUME FailLoad(l), UNCHANGED <<chain, store>> PROVE SaveStep
  BY <1>0, <1>3, SavingIsSaveStep DEF FailLoad
<1>4. CASE EndChain(l)
  <2>1. current \in Items
    BY <1>0 DEF TypeOK
  <2> QED BY <1>0, <1>2, <1>3, <1>4, <2>1, SavingIsSaveStep DEF EndChain
<1>5. CASE EndOptions(l)
  BY <1>2, <1>3, <1>5 DEF EndOptions, At, TInv, HasItem
<1>6. CASE EndResume(l)
  BY <1>0, <1>6, SavingIsSaveStep DEF EndResume, saveVars
<1> QED BY <1>1, <1>4, <1>5, <1>6 DEF LoadStep

LEMMA TimeChangedSaves ==
    ASSUME TypeOK, NEW p \in Positions \ {0}, TimeChanged(p)
    PROVE  SaveStep
<1>1. UNCHANGED <<store, active>>
  BY DEF TimeChanged
<1>2. CASE MaySave /\ ChainBecomes(Append(chain, [video |-> active, at |-> p]))
  <2>1. active \in Items
    BY <1>2 DEF MaySave, TypeOK
  <2> QED BY <1>1, <1>2, <2>1 DEF ChainBecomes, SaveStep, PositionSaved, Saves
<1> QED BY <1>1, <1>2, SavingIsSaveStep DEF TimeChanged

LEMMA EndedSaves == ASSUME TypeOK, OnEnded PROVE SaveStep
<1>1. chain' = Saved(TRUE)
  <2>1. active' = None \/ ~MaySave
    BY DEF OnEnded, ActiveAfterCompletion
  <2>2. chain' = IF active' # None /\ MaySave /\ position > 0
                 THEN Append(Saved(TRUE), [video |-> active, at |-> position])
                 ELSE Saved(TRUE)
    BY DEF OnEnded, ChainBecomes
  <2> QED BY <2>1, <2>2
<1>2. store' = store
  BY DEF OnEnded
<1>3. CASE MaySave
  BY <1>1, <1>2, <1>3 DEF OnEnded, ActiveAfterCompletion, MaySave, Saved, TypeOK,
     SaveStep, CompletionSaved, Saves
<1>4. CASE ~MaySave
  BY <1>1, <1>2, <1>4 DEF OnEnded, ActiveAfterCompletion, Saved, SaveStep, NothingSaved
<1> QED BY <1>3, <1>4

LEMMA DeliverSaves ==
    ASSUME TypeOK, TimesHavePassed, Deliver \/ \E p \in Positions \ {0} : Watchdog(p)
    PROVE  SaveStep
<1>1. CASE OnPlaying
  BY <1>1, SavingIsSaveStep DEF OnPlaying, saveVars
<1>2. CASE OnPaused
  BY <1>2, SavingIsSaveStep DEF OnPaused, ChainBecomes, resumeVars
<1>3. CASE OnError
  BY <1>3, SavingIsSaveStep DEF OnError, resumeVars, saveVars
<1>4. CASE OnTime
  <2>1. Head(events).at \in Positions \ {0}
    <3>1. events \in Seq(Event) /\ events # <<>> /\ Head(events).kind = "time"
      BY <1>4 DEF OnTime, Arrives, TypeOK
    <3>2. Head(events) = events[1] /\ 1 \in 1 .. Len(events) /\ events[1] \in Event
      BY <3>1
    <3> QED BY <3>1, <3>2 DEF TimesHavePassed, Event
  <2> QED BY <1>4, <2>1, TimeChangedSaves DEF OnTime
<1>5. ASSUME NEW p \in Positions \ {0}, Watchdog(p) PROVE SaveStep
  BY <1>5, TimeChangedSaves DEF Watchdog
<1> QED BY <1>1, <1>2, <1>3, <1>4, <1>5, EndedSaves DEF Deliver

LEMMA NativeSaves ==
    ASSUME TypeOK,
           \/ NativeStarts \/ NativeFails \/ NativeEnds
           \/ \E p \in Positions \ {0} : NativeTime(p)
           \/ UNCHANGED vars
    PROVE  SaveStep
<1>1. UNCHANGED <<store, active, chain>>
  BY DEF NativeStarts, NativeFails, NativeEnds, NativeStep, NativeTime,
         resumeVars, saveVars, vars
<1> QED BY <1>1, SavingIsSaveStep

LEMMA StepSaves == ASSUME TInv, RInv, [Next]_vars PROVE SaveStep \/ PersistSave
<1>1. TypeOK /\ TimesHavePassed
  BY DEF TInv, RInv
<1> QED BY <1>1, UserSaves, LoadStepSaves, DeliverSaves, NativeSaves DEF Next, System

(* Both kinds of step hand the newest saves on. *)
LEMMA SaveStepNewest ==
    ASSUME TypeOK, SaveStep, NEW v \in Items, NEW p \in Positions, NewestIs(v, p)
    PROVE  \E q \in Positions :
              /\ NewestIs(v, q)'
              /\ \/ q = p /\ chain' = chain
                 \/ q = p /\ v # active
                 \/ v = active /\ chain' = Append(chain, [video |-> active, at |-> q])
<1>1. CASE chain' = chain
  BY <1>1 DEF SaveStep, NewestIs
<1>2. ASSUME NEW r \in Positions, Saves(r)
      PROVE  \E q \in Positions :
                /\ NewestIs(v, q)'
                /\ \/ q = p /\ v # active
                   \/ v = active /\ chain' = Append(chain, [video |-> active, at |-> q])
  <2>1. CASE v = active
    <3>1. chain' = Append(chain, [video |-> v, at |-> r])
      BY <1>2, <2>1 DEF Saves
    <3>2. NewestIs(v, r)'
      BY <3>1, AppendSets
    <3> QED BY <2>1, <3>1, <3>2
  <2>2. CASE v # active
    <3>1. [video |-> active, at |-> r] \in Save
      BY <1>2 DEF Saves, Save
    <3>2. NewestIs(v, p)'
      BY <1>2, <2>2, <3>1, AppendKeeps DEF Saves, SaveStep
    <3> QED BY <2>2, <3>2
  <2> QED BY <2>1, <2>2
<1>3. CASE \E r \in Positions : Saves(r)
  BY <1>2, <1>3
<1>4. chain' = chain \/ \E r \in Positions : Saves(r)
  BY DEF SaveStep, NothingSaved, PositionSaved, CompletionSaved, Positions, Late
<1> QED BY <1>1, <1>3, <1>4

(* The events of a step are the old ones, the old ones but the first, none *)
(* at all, or the old ones and a new one, which reports no time 0.         *)
LEMMA EventsBecome ==
    ASSUME TInv, [Next]_vars
    PROVE  \/ events' \in {events, <<>>}
           \/ events # <<>> /\ events' = Tail(events)
           \/ \E e \in Event : /\ events' = Append(events, e)
                               /\ e.kind = "time" => e.at # 0
<1>1. CASE UNCHANGED vars \/ PersistSave \/ \E p \in Positions \ {0} : Watchdog(p)
  BY <1>1 DEF vars, playerVars, PersistSave, Watchdog
<1>2. CASE User
  <2>1. CASE Pause
    BY <2>1 DEF Pause, TInv, TypeOK, HasMedia, Event, Positions, Late
  <2> QED BY <1>2, <2>1 DEF User, Stop, StopEffects, ReleasePlayer, Play, NextTrack, Prev,
         GoTo, Replay, SetStopAfterCurrent, BindAndPlay, playerVars
<1>3. ASSUME NEW l \in Loads, LoadStep(l) PROVE events' = events
  BY <1>3 DEF LoadStep, EndAttach, EndChain, EndOptions, EndResume, HandOver, FailLoad,
     playerVars
<1>4. CASE Deliver
  <2>1. CASE OnEnded
    BY <2>1 DEF OnEnded, StopEffects, ReleasePlayer
  <2> QED BY <1>4, <2>1 DEF Deliver, OnPlaying, OnPaused, OnError, OnTime, Arrives
<1>5. ASSUME NEW kind \in {"playing", "error", "ended", "time"}, NEW at \in Positions,
             kind = "time" => at # 0, Emit(kind, at), native # "idle"
      PROVE  \E e \in Event : /\ events' = Append(events, e)
                              /\ e.kind = "time" => e.at # 0
  <2> DEFINE e == [kind |-> kind, of |-> media, at |-> at]
  <2>1. e \in Event /\ events' = Append(events, e) /\ (e.kind = "time" => e.at # 0)
    BY <1>5 DEF Emit, TInv, TypeOK, HasMedia, Event
  <2> QED BY <2>1
<1>6. CASE NativeStarts \/ NativeFails \/ NativeEnds
  BY <1>6, <1>5 DEF NativeStarts, NativeFails, NativeEnds, NativeStep, Positions, Late
<1>7. ASSUME NEW p \in Positions \ {0}, NativeTime(p)
      PROVE  \E e \in Event : /\ events' = Append(events, e)
                              /\ e.kind = "time" => e.at # 0
  BY <1>7, <1>5 DEF NativeTime
<1> QED BY <1>1, <1>2, <1>3, <1>4, <1>6, <1>7 DEF Next, System

LEMMA NextRInv == ASSUME TInv, RInv, [Next]_vars PROVE RInv'
<1>1. TypeOK
  BY DEF TInv
<1>2. NewestExists'
  <2>1. SUFFICES ASSUME NEW v \in Items PROVE \E p \in Positions : NewestIs(v, p)'
    BY DEF NewestExists
  <2>2. PICK p \in Positions : NewestIs(v, p)
    BY DEF RInv, NewestExists
  <2> QED BY <1>1, <2>2, StepSaves, SaveStepNewest, PersistKeeps
<1>3. TimesHavePassed'
  <2>1. TimesHavePassed
    BY DEF RInv
  <2>2. CASE events' \in {events, <<>>}
    BY <2>1, <2>2 DEF TimesHavePassed
  <2>3. CASE events # <<>> /\ events' = Tail(events)
    <3>1. /\ Len(events) \in Nat \ {0} /\ Len(events') = Len(events) - 1
          /\ \A k \in 1 .. Len(events') : events'[k] = events[k + 1]
      BY <1>1, <2>3 DEF TypeOK
    <3>2. \A k \in 1 .. Len(events') : k + 1 \in 1 .. Len(events)
      BY <3>1
    <3> QED BY <2>1, <3>1, <3>2 DEF TimesHavePassed
  <2>4. ASSUME NEW e \in Event, events' = Append(events, e), e.kind = "time" => e.at # 0
        PROVE  TimesHavePassed'
    <3>1. /\ Len(events') = Len(events) + 1 /\ Len(events) \in Nat
          /\ events'[Len(events) + 1] = e
          /\ \A k \in 1 .. Len(events) : events'[k] = events[k]
      BY <1>1, <2>4 DEF TypeOK
    <3>2. \A k \in 1 .. Len(events') : k \in 1 .. Len(events) \/ k = Len(events) + 1
      BY <3>1
    <3> QED BY <2>1, <2>4, <3>1, <3>2 DEF TimesHavePassed
  <2> QED BY <2>2, <2>3, <2>4, EventsBecome
<1> QED BY <1>2, <1>3 DEF RInv

LEMMA InitRInv == Init => RInv
<1> SUFFICES ASSUME Init PROVE RInv
  OBVIOUS
<1>1. ASSUME NEW v \in Items PROVE store[v] \in Positions /\ NewestIs(v, store[v])
  BY <1>1 DEF Init, Positions, Late, NewestIs
<1> QED BY <1>1 DEF RInv, NewestExists, TimesHavePassed, Init

(* Saving while a load, a stop or a late event overlaps, and persisting    *)
(* later: seen from outside, a video's resume position is a register that  *)
(* only the loaded video writes and only its end resets.                   *)
THEOREM Refinement == Spec => ImplementsRegister
<1>1. Init => Register!Init
  <2> SUFFICES ASSUME Init PROVE Register!Init
    OBVIOUS
  <2>1. ASSUME NEW v \in Items PROVE Newest[v] \in Positions
    <3>1. TypeOK /\ store[v] \in Positions /\ NewestIs(v, store[v])
      BY <2>1, InitTInv DEF TInv, TypeOK, Init, NewestIs
    <3> QED BY <3>1, NewestValue
  <2>2. Newest \in [Items -> Positions]
    BY <2>1 DEF Newest
  <2> QED BY <2>2 DEF Init, Register!Init
<1>2. TInv /\ TInv' /\ RInv /\ [Next]_vars => [Register!Next]_(Register!registerVars)
  <2> SUFFICES ASSUME TInv, TInv', RInv, [Next]_vars
               PROVE  Register!Next \/ UNCHANGED Register!registerVars
    OBVIOUS
  <2> USE DEF Register!Next, Register!registerVars
  <2>1. TypeOK /\ TypeOK'
    BY DEF TInv
  <2>2. ASSUME NEW v \in Items, NEW p \in Positions, NewestIs(v, p), NewestIs(v, p)'
        PROVE  Newest'[v] = Newest[v]
    BY <2>1, <2>2, NewestValue
  <2>3. /\ Newest = [v \in Items |-> Newest[v]]
        /\ Newest' = [v \in Items |-> Newest'[v]]
    BY DEF Newest
  <2>4. CASE PersistSave
    <3>1. \A v \in Items : Newest'[v] = Newest[v]
      BY <2>1, <2>2, <2>4, PersistKeeps DEF RInv, NewestExists
    <3>2. Newest' = Newest /\ active' = active
      BY <2>3, <2>4, <3>1 DEF PersistSave, resumeVars
    <3> QED BY <3>2
  <2>5. CASE SaveStep /\ NothingSaved
    <3>1. Newest' = Newest
      BY <2>5 DEF SaveStep, NothingSaved, Newest, NewestIs
    <3>2. CASE active' = active
      BY <3>1, <3>2
    <3>3. CASE active' \in Items
      BY <3>1, <3>3 DEF Register!Load
    <3> QED BY <2>5, <3>2, <3>3 DEF NothingSaved
  <2>6. ASSUME SaveStep, NEW q \in Positions, Saves(q)
        PROVE  active # None /\ Newest' = [Newest EXCEPT ![active] = q]
    <3>1. active \in Items /\ active # None
      BY <2>6, ItemFacts DEF Saves
    <3>2. ASSUME NEW v \in Items, v = active PROVE Newest'[v] = q
      <4>1. chain' = Append(chain, [video |-> v, at |-> q])
        BY <2>6, <3>2 DEF Saves
      <4>2. NewestIs(v, q)'
        BY <2>1, <4>1, AppendSets
      <4> QED BY <2>1, <4>2, NewestValue
    <3>3. ASSUME NEW v \in Items, v # active PROVE Newest'[v] = Newest[v]
      <4>1. [video |-> active, at |-> q] \in Save
        BY <3>1 DEF Save
      <4>2. PICK p \in Positions : NewestIs(v, p)
        BY DEF RInv, NewestExists
      <4>3. NewestIs(v, p)'
        BY <2>1, <2>6, <3>3, <4>1, <4>2, AppendKeeps DEF Saves, SaveStep
      <4> QED BY <2>2, <4>2, <4>3
    <3> QED BY <2>3, <3>1, <3>2, <3>3
  <2>7. CASE SaveStep /\ PositionSaved
    <3>1. PICK q \in Positions \ {0} : Saves(q)
      BY <2>7 DEF PositionSaved
    <3>2. Register!Record(q)
      BY <2>6, <2>7, <3>1 DEF PositionSaved, Register!Record
    <3> QED BY <3>2
  <2>8. CASE SaveStep /\ CompletionSaved
    <3>1. Register!Complete
      BY <2>6, <2>8 DEF CompletionSaved, Register!Complete, Positions, Late
    <3> QED BY <3>1
  <2> QED BY <2>4, <2>5, <2>7, <2>8, StepSaves DEF SaveStep
<1>3. TInv /\ [Next]_vars => TInv'
  BY UserTInv, LoadStepTInv, PersistTInv, NativeTInv, DeliverTInv, StutterTInv
     DEF Next, System
<1>4. TInv /\ RInv /\ [Next]_vars => RInv'
  BY NextRInv
<1> QED BY InitTInv, InitRInv, <1>1, <1>2, <1>3, <1>4, PTL
        DEF Spec, ImplementsRegister, Register!Spec

-----------------------------------------------------------------------------
(***************************************************************************)
(* The loads settle.  LoadedIsCurrent says nothing while a load is under   *)
(* way; what is kept then is that a load which will set the current item   *)
(* is still to come, behind every load that holds an older one.            *)
(***************************************************************************)
Fresh == \A k \in Loads : k > issued => loads[k].stage = "none"

LiveHasMedia == media # None => live

WillLoad(n) ==
    \/ loads[n].stage \in {"attach", "chain"}
    \/ loads[n].stage = "options" /\ loads[n].item = current

OldOnesAreBehind ==
    \A l \in Loads :
        loads[l].stage = "options" /\ loads[l].item # current =>
            \E n \in Loads : n > l /\ WillLoad(n)

OldMediaIsReplaced == media \notin {None, current} => \E n \in Loads : WillLoad(n)

LoadsSettle ==
    current \notin Broken \cup Discs => OldOnesAreBehind /\ OldMediaIsReplaced

SInv == Fresh /\ LiveHasMedia /\ LoadsSettle

(* A new load will read the current item, and every older one is ahead.    *)
LEMMA NewLoadSettles ==
    ASSUME TypeOK, SInv, issued < MaxLoads, issued' = issued + 1,
           loads'[issued + 1].stage \in {"attach", "chain"},
           \A k \in Loads : k # issued + 1 => loads'[k] = loads[k]
    PROVE  Fresh' /\ LoadsSettle'
<1>1. issued + 1 \in Loads /\ issued \in Nat
  BY SessionAssumption DEF TypeOK, Loads
<1>n. PICK n \in Loads : n = issued + 1
  BY <1>1
<1>2. /\ loads'[n].stage \in {"attach", "chain"}
      /\ \A k \in Loads : k # n => loads'[k] = loads[k]
  BY <1>n
<1>w. WillLoad(n)'
  BY <1>2 DEF WillLoad
<1>3. Fresh'
  <2> SUFFICES ASSUME NEW k \in Loads, k > issued + 1 PROVE loads'[k].stage = "none"
    BY DEF Fresh
  <2>1. k > issued /\ k # n
    BY <1>1, <1>n DEF Loads
  <2> QED BY <1>2, <2>1 DEF SInv, Fresh
<1>4. OldOnesAreBehind'
  <2> SUFFICES ASSUME NEW l \in Loads, loads'[l].stage = "options"
               PROVE  n > l
    BY <1>w DEF OldOnesAreBehind
  <2>1. l # n /\ loads[l].stage = "options"
    BY <1>2
  <2>2. ~(l > issued)
    BY <2>1 DEF SInv, Fresh
  <2> QED BY <1>1, <1>n, <2>1, <2>2 DEF Loads
<1>5. OldMediaIsReplaced'
  BY <1>w DEF OldMediaIsReplaced
<1> QED BY <1>3, <1>4, <1>5 DEF LoadsSettle

(* A step that leaves the loads where they are and sets no media. *)
LEMMA OthersSettle ==
    ASSUME TypeOK, SInv, UNCHANGED <<current, issued>>, media' \in {media, None},
           \A l \in Loads : /\ loads'[l].stage = loads[l].stage
                            /\ loads'[l].item = loads[l].item
    PROVE  Fresh' /\ LoadsSettle'
<1>1. Fresh'
  BY DEF SInv, Fresh
<1>2. \A n \in Loads : WillLoad(n) <=> WillLoad(n)'
  BY DEF WillLoad
<1>3. OldOnesAreBehind => OldOnesAreBehind'
  BY <1>2 DEF OldOnesAreBehind
<1>4. OldMediaIsReplaced => OldMediaIsReplaced'
  BY <1>2 DEF OldMediaIsReplaced
<1> QED BY <1>1, <1>3, <1>4 DEF SInv, LoadsSettle

(* A load goes that no older one, and no older media, rests on. *)
LEMMA LeavingSettles ==
    ASSUME TypeOK, SInv, NEW l \in Loads, NEW r, UNCHANGED <<current, issued, media>>,
           loads[l].stage # "none", ~WillLoad(l), r.stage \in {"none", "resume"},
           loads' = [loads EXCEPT ![l] = r]
    PROVE  Fresh' /\ LoadsSettle'
<1>1. Fresh'
  BY DEF TypeOK, SInv, Fresh
<1>2. \A n \in Loads : WillLoad(n) => WillLoad(n)'
  BY DEF WillLoad, TypeOK
<1>3. OldOnesAreBehind => OldOnesAreBehind'
  <2> SUFFICES ASSUME OldOnesAreBehind, NEW k \in Loads, loads'[k].stage = "options",
                      loads'[k].item # current
               PROVE  \E n \in Loads : n > k /\ WillLoad(n)'
    BY DEF OldOnesAreBehind
  <2>1. k # l /\ loads'[k] = loads[k]
    BY DEF TypeOK
  <2> QED BY <1>2, <2>1 DEF OldOnesAreBehind
<1>4. OldMediaIsReplaced => OldMediaIsReplaced'
  BY <1>2 DEF OldMediaIsReplaced
<1> QED BY <1>1, <1>3, <1>4 DEF SInv, LoadsSettle

LEMMA StartSettles ==
    ASSUME TypeOK, SInv, NEW n, StartLoad(n)
    PROVE  Fresh' /\ LoadsSettle'
<1>1. issued + 1 \in Loads
  BY SessionAssumption DEF StartLoad, TypeOK, Loads
<1>2. /\ loads'[issued + 1] = ToFlush(n)
      /\ \A k \in Loads : k # issued + 1 => loads'[k] = loads[k]
  BY <1>1 DEF StartLoad, TypeOK
<1>3. loads'[issued + 1].stage = "chain"
  BY <1>2 DEF ToFlush
<1> QED BY <1>2, <1>3, NewLoadSettles DEF StartLoad

LEMMA UserSInv == ASSUME TInv, SInv, User PROVE SInv'
<1>t. TypeOK
  BY DEF TInv
<1>1. ASSUME NEW i, GoTo(i) PROVE SInv'
  <2>1. Fresh' /\ LoadsSettle'
    BY <1>t, <1>1, StartSettles DEF GoTo
  <2>2. LiveHasMedia'
    BY <1>1 DEF GoTo, playerVars, SInv, LiveHasMedia
  <2> QED BY <2>1, <2>2 DEF SInv
<1>2. CASE Stop
  <2>1. /\ UNCHANGED <<current, issued, loads>> /\ media' = None
    BY <1>2 DEF Stop, StopEffects, ReleasePlayer
  <2> QED BY <1>t, <2>1, OthersSettle DEF SInv, LiveHasMedia
<1>3. CASE Play
  <2>1. UNCHANGED <<current, live, media>>
    BY <1>3 DEF Play
  <2>2. CASE StartLoad(Len(chain'))
    <3>1. Fresh' /\ LoadsSettle'
      BY <1>t, <2>2, StartSettles
    <3> QED BY <2>1, <3>1 DEF SInv, LiveHasMedia
  <2>3. CASE UNCHANGED <<issued, loads>>
    BY <1>t, <2>1, <2>3, OthersSettle DEF SInv, LiveHasMedia
  <2> QED BY <1>3, <2>2, <2>3 DEF Play
<1>4. CASE Pause
  BY <1>t, <1>4, OthersSettle DEF Pause, SInv, LiveHasMedia
<1>5. CASE NextTrack
  BY <1>1, <1>5 DEF NextTrack
<1>6. CASE Prev
  <2>1. CASE Replay
    BY <1>t, <2>1, OthersSettle DEF Replay, SInv, LiveHasMedia
  <2> QED BY <1>1, <1>6, <2>1 DEF Prev
<1>7. CASE SetStopAfterCurrent
  BY <1>t, <1>7, OthersSettle DEF SetStopAfterCurrent, playerVars, SInv, LiveHasMedia
<1>8. ASSUME NEW i \in Items, BindAndPlay(i) PROVE SInv'
  <2> DEFINE r == [stage |-> "attach", item |-> None, waits |-> 0, resume |-> 0]
  <2>1. /\ issued < MaxLoads /\ issued' = issued + 1
        /\ loads' = [loads EXCEPT ![issued + 1] = r]
        /\ live' = TRUE
    BY <1>8 DEF BindAndPlay, LiveAfterEnsure
  <2>2. issued + 1 \in Loads
    BY <2>1, SessionAssumption DEF TInv, TypeOK, Loads
  <2>3. /\ loads'[issued + 1].stage = "attach"
        /\ \A k \in Loads : k # issued + 1 => loads'[k] = loads[k]
    BY <2>1, <2>2 DEF TInv, TypeOK
  <2>4. Fresh' /\ LoadsSettle'
    BY <1>t, <2>1, <2>3, NewLoadSettles
  <2> QED BY <2>1, <2>4 DEF SInv, LiveHasMedia
<1> QED BY <1>2, <1>3, <1>4, <1>5, <1>6, <1>7, <1>8 DEF User

(* The load hands an item over: the current one, or an older one with a    *)
(* load that will replace it behind.                                       *)
LEMMA HandOverSettles ==
    ASSUME TInv, SInv, NEW l \in Loads, NEW item \in Items, HandOver(l, item),
           FirstInStage(l), UNCHANGED <<current, issued>>,
           \/ loads[l].stage = "chain" /\ item = current /\ current \in Discs
           \/ loads[l].stage = "options" /\ item = loads[l].item
    PROVE  Fresh' /\ LoadsSettle'
<1> DEFINE r == [stage |-> "resume", item |-> item, waits |-> 0, resume |-> store[item]]
<1>1. loads' = [loads EXCEPT ![l] = r] /\ media' = item
  BY DEF HandOver
<1>2. r.stage = "resume" /\ TypeOK
  BY DEF TInv
<1> HIDE DEF r
<1>3. Fresh'
  BY <1>1, <1>2 DEF TypeOK, SInv, Fresh
<1>4. \A n \in Loads : n # l /\ WillLoad(n) => WillLoad(n)'
  BY <1>1 DEF WillLoad, TypeOK
<1>5. CASE current \in Discs
  BY <1>3, <1>5 DEF LoadsSettle
<1>6. CASE current \notin Broken \cup Discs
  <2>1. loads[l].stage = "options" /\ item = loads[l].item
    BY <1>6
  <2>2. OldOnesAreBehind /\ OldMediaIsReplaced
    BY <1>6 DEF SInv, LoadsSettle
  <2>3. OldOnesAreBehind'
    <3> SUFFICES ASSUME NEW k \in Loads, loads'[k].stage = "options",
                        loads'[k].item # current
                 PROVE  \E n \in Loads : n > k /\ WillLoad(n)'
      BY DEF OldOnesAreBehind
    <3>1. k # l /\ loads'[k] = loads[k]
      BY <1>1, <1>2 DEF TypeOK
    <3>2. ~(k < l)
      <4>1. k < l => k \in 1 .. l - 1
        BY DEF Loads
      <4> QED BY <2>1, <3>1, <4>1 DEF FirstInStage
    <3>3. PICK n \in Loads : n > k /\ WillLoad(n)
      BY <2>2, <3>1 DEF OldOnesAreBehind
    <3>4. n # l
      BY <3>2, <3>3 DEF Loads
    <3> QED BY <1>4, <3>3, <3>4
  <2>4. OldMediaIsReplaced'
    <3> SUFFICES ASSUME item # current PROVE \E n \in Loads : WillLoad(n)'
      BY <1>1 DEF OldMediaIsReplaced
    <3>1. PICK n \in Loads : n > l /\ WillLoad(n)
      BY <2>1, <2>2 DEF OldOnesAreBehind
    <3>2. n # l
      BY <3>1 DEF Loads
    <3> QED BY <1>4, <3>1, <3>2
  <2> QED BY <1>3, <2>3, <2>4 DEF LoadsSettle
<1> QED BY <1>3, <1>5, <1>6 DEF LoadsSettle

LEMMA LoadStepSInv == ASSUME TInv, SInv, NEW l \in Loads, LoadStep(l) PROVE SInv'
<1>t. TypeOK
  BY DEF TInv
<1>1. CASE EndAttach(l)
  <2>1. loads[l].stage = "attach" /\ UNCHANGED <<current, issued, live, media>>
    BY <1>1 DEF EndAttach, At, playerVars
  <2> DEFINE r == ToFlush(Len(chain'))
  <2>2. loads' = [loads EXCEPT ![l] = r] /\ r.stage = "chain"
    BY <1>1 DEF EndAttach, ToFlush
  <2> HIDE DEF r
  <2>3. Fresh'
    BY <1>t, <2>1, <2>2 DEF TypeOK, SInv, Fresh
  <2>4. \A n \in Loads : WillLoad(n) => WillLoad(n)'
    BY <1>t, <2>1, <2>2 DEF WillLoad, TypeOK
  <2>5. OldOnesAreBehind => OldOnesAreBehind'
    BY <1>t, <2>1, <2>2, <2>4 DEF OldOnesAreBehind, TypeOK
  <2>6. OldMediaIsReplaced => OldMediaIsReplaced'
    BY <2>1, <2>4 DEF OldMediaIsReplaced
  <2> QED BY <2>1, <2>3, <2>5, <2>6 DEF SInv, LoadsSettle, LiveHasMedia
<1>2. CASE EndChain(l)
  <2>1. /\ loads[l].stage = "chain" /\ FirstInStage(l) /\ live'
        /\ UNCHANGED <<current, issued>> /\ current \in Items
    BY <1>2 DEF EndChain, At, LiveAfterEnsure, TInv, TypeOK
  <2>2. LiveHasMedia'
    BY <2>1 DEF LiveHasMedia
  <2>3. CASE current \in Broken /\ FailLoad(l)
    <3>1. Fresh'
      BY <1>t, <2>1, <2>3, NoLoadType DEF FailLoad, TypeOK, SInv, Fresh
    <3> QED BY <2>1, <2>2, <2>3, <3>1 DEF SInv, LoadsSettle
  <2>4. CASE current \in Discs \ Broken /\ HandOver(l, current)
    BY <2>1, <2>2, <2>4, HandOverSettles DEF SInv
  <2>5. CASE /\ loads' = [loads EXCEPT ![l] = [stage |-> "options", item |-> current,
                                              waits |-> 0, resume |-> 0]]
             /\ UNCHANGED <<state, active, position, completed, media, native, events>>
    <3> DEFINE r == [stage |-> "options", item |-> current, waits |-> 0, resume |-> 0]
    <3>1. loads' = [loads EXCEPT ![l] = r] /\ r.stage = "options" /\ r.item = current
      BY <2>5
    <3> HIDE DEF r
    <3>2. Fresh'
      BY <1>t, <2>1, <3>1 DEF TypeOK, SInv, Fresh
    <3>3. \A n \in Loads : WillLoad(n) => WillLoad(n)'
      BY <1>t, <2>1, <3>1 DEF WillLoad, TypeOK
    <3>4. OldOnesAreBehind => OldOnesAreBehind'
      BY <1>t, <2>1, <3>1, <3>3 DEF OldOnesAreBehind, TypeOK
    <3>5. OldMediaIsReplaced => OldMediaIsReplaced'
      BY <2>1, <2>5, <3>3 DEF OldMediaIsReplaced
    <3> QED BY <2>1, <2>2, <3>2, <3>4, <3>5 DEF SInv, LoadsSettle
  <2> QED BY <1>2, <2>3, <2>4, <2>5 DEF EndChain
<1>3. CASE EndOptions(l)
  <2>1. /\ loads[l].stage = "options" /\ FirstInStage(l) /\ loads[l].item \in Items
        /\ UNCHANGED <<current, issued, live>>
    BY <1>3 DEF EndOptions, At, TInv, HasItem
  <2>2. CASE live /\ HandOver(l, loads[l].item)
    BY <2>1, <2>2, HandOverSettles DEF SInv, LiveHasMedia
  <2>3. CASE ~live /\ FailLoad(l)
    <3>1. media = None /\ media' = None /\ loads' = [loads EXCEPT ![l] = NoLoad]
      BY <2>3 DEF FailLoad, SInv, LiveHasMedia
    <3>2. Fresh'
      BY <1>t, <2>1, <3>1, NoLoadType DEF TypeOK, SInv, Fresh
    <3>3. CASE current \in Broken \cup Discs
      BY <2>1, <3>1, <3>2, <3>3 DEF SInv, LoadsSettle, LiveHasMedia
    <3>4. CASE current \notin Broken \cup Discs
      <4>1. OldOnesAreBehind'
        <5> SUFFICES ASSUME NEW k \in Loads, loads'[k].stage = "options",
                            loads'[k].item # current
                     PROVE  \E n \in Loads : n > k /\ WillLoad(n)'
          BY <2>1 DEF OldOnesAreBehind
        <5>1. k # l /\ loads'[k] = loads[k]
          BY <1>t, <3>1, NoLoadType DEF TypeOK
        <5>2. ~(k < l)
          <6>1. k < l => k \in 1 .. l - 1
            BY DEF Loads
          <6> QED BY <2>1, <5>1, <6>1 DEF FirstInStage
        <5>3. PICK n \in Loads : n > k /\ WillLoad(n)
          BY <3>4, <5>1 DEF SInv, LoadsSettle, OldOnesAreBehind
        <5>4. n # l
          BY <5>2, <5>3 DEF Loads
        <5>5. loads'[n] = loads[n]
          BY <1>t, <3>1, <5>4 DEF TypeOK
        <5> QED BY <2>1, <5>3, <5>5 DEF WillLoad
      <4> QED BY <3>1, <3>2, <4>1
         DEF SInv, LoadsSettle, OldMediaIsReplaced, LiveHasMedia
    <3> QED BY <3>3, <3>4
  <2> QED BY <1>3, <2>2, <2>3 DEF EndOptions
<1>4. CASE EndResume(l)
  <2>1. /\ loads[l].stage = "resume" /\ loads' = [loads EXCEPT ![l] = NoLoad]
        /\ UNCHANGED <<current, issued, live, media>>
    BY <1>4 DEF EndResume, At
  <2>2. ~WillLoad(l)
    BY <2>1 DEF WillLoad
  <2> QED BY <1>t, <2>1, <2>2, NoLoadType, LeavingSettles DEF SInv, LiveHasMedia
<1> QED BY <1>1, <1>2, <1>3, <1>4 DEF LoadStep

LEMMA PersistStages ==
    ASSUME TypeOK, PersistSave, NEW l \in Loads
    PROVE  loads'[l].stage = loads[l].stage /\ loads'[l].item = loads[l].item
<1>1. loads[l] \in LoadRecord
  BY DEF TypeOK
<1>2. CASE loads[l].waits > 0
  <2>1. loads'[l] = [loads[l] EXCEPT !.waits = loads[l].waits - 1]
    BY <1>2 DEF PersistSave
  <2> QED BY <1>1, <2>1 DEF LoadRecord
<1>3. CASE ~(loads[l].waits > 0)
  BY <1>3 DEF PersistSave
<1> QED BY <1>2, <1>3

LEMMA EndedSInv == ASSUME TInv, SInv, OnEnded PROVE SInv'
<1>t. TypeOK
  BY DEF TInv
<1>1. CASE StopEffects
  <2>1. UNCHANGED <<current, issued, loads>> /\ media' = None
    BY <1>1 DEF StopEffects, ReleasePlayer
  <2> QED BY <1>t, <2>1, OthersSettle DEF SInv, LiveHasMedia
<1>2. CASE ReleasePlayer /\ StartLoad(Len(chain'))
  <2>1. LiveHasMedia'
    BY <1>2 DEF ReleasePlayer, LiveHasMedia
  <2>2. Fresh' /\ LoadsSettle'
    BY <1>t, <1>2, StartSettles
  <2> QED BY <2>1, <2>2 DEF SInv
<1> QED BY <1>1, <1>2 DEF OnEnded

LEMMA OtherSInv ==
    ASSUME TInv, SInv,
           \/ PersistSave \/ NativeStarts \/ NativeFails \/ NativeEnds
           \/ \E p \in Positions \ {0} : NativeTime(p) \/ Watchdog(p)
           \/ OnPlaying \/ OnPaused \/ OnError \/ OnTime
           \/ UNCHANGED vars
    PROVE  SInv'
<1>t. TypeOK
  BY DEF TInv
<1>1. UNCHANGED <<current, issued, live, media>>
  BY DEF PersistSave, NativeStarts, NativeFails, NativeEnds, NativeStep, NativeTime,
         Watchdog, OnPlaying, OnPaused, OnError, OnTime, TimeChanged, playerVars, vars
<1>2. PersistSave \/ loads' = loads
  BY DEF NativeStarts, NativeFails, NativeEnds, NativeStep, NativeTime, Watchdog,
         OnPlaying, OnPaused, OnError, OnTime, TimeChanged, vars
<1>3. \A l \in Loads : /\ loads'[l].stage = loads[l].stage
                      /\ loads'[l].item = loads[l].item
  BY <1>t, <1>2, PersistStages
<1> QED BY <1>t, <1>1, <1>3, OthersSettle DEF SInv, LiveHasMedia

LEMMA InitSInv == Init => SInv
BY NoLoadType DEF Init, NoLoad, SInv, Fresh, LiveHasMedia, LoadsSettle,
   OldOnesAreBehind, OldMediaIsReplaced

LEMMA NextTInv == TInv /\ [Next]_vars => TInv'
BY UserTInv, LoadStepTInv, PersistTInv, NativeTInv, DeliverTInv, StutterTInv
   DEF Next, System

LEMMA NextSInv == TInv /\ SInv /\ [Next]_vars => SInv'
BY UserSInv, LoadStepSInv, EndedSInv, OtherSInv DEF Next, System, Deliver

(* When no load is under way the media set is the queue's current item     *)
(* (next, prev, onComplete, loadCurrent), but for the two ends its         *)
(* statement names.                                                        *)
THEOREM LoadsReachCurrent == Spec => []LoadedIsCurrent
<1>1. TInv /\ SInv => LoadedIsCurrent
  <2> SUFFICES ASSUME SInv, ~Loading, media # None, media # current,
                      current \notin Broken \cup Discs
               PROVE  FALSE
    BY DEF LoadedIsCurrent
  <2>1. PICK n \in Loads : WillLoad(n)
    BY DEF SInv, LoadsSettle, OldMediaIsReplaced
  <2> QED BY <2>1 DEF WillLoad, Loading
<1> QED BY InitTInv, NextTInv, InitSInv, NextSInv, <1>1, PTL DEF Spec

-----------------------------------------------------------------------------
(***************************************************************************)
(* The state shown.  UiAgreesWithPlayer speaks of the moments when nothing *)
(* is under way; what is kept between them is that the last event on its   *)
(* way, and without one the state shown, fits what the player does, unless *)
(* a load will say something newer or an 'ended' will clear everything.    *)
(***************************************************************************)
NoEnd(q) == \A k \in 1 .. Len(q) : q[k].kind # "ended"

OnlyTimes(q) == \A k \in 1 .. Len(q) : q[k].kind = "time"

LastIs(q, kind) ==
    \E k \in 1 .. Len(q) :
        /\ q[k].kind = kind
        /\ \A j \in k + 1 .. Len(q) : q[j].kind = "time"

NoMediaIsQuiet == media = None => events = <<>> /\ native = "idle"

IdleIsLoading ==
    native = "idle" /\ media # None => \E l \in Loads : loads[l].stage = "resume"

StoppedIsEmpty == state = "STOPPED" => media = None \/ Loading

EventsFollow ==
    NoEnd(events) =>
        /\ LastIs(events, "playing") => native \in {"idle", "starting", "playing"}
        /\ LastIs(events, "paused") => native \in {"idle", "starting", "paused"}

StateFollows ==
    OnlyTimes(events) /\ ~Loading =>
        /\ state = "PLAYING" => native \in {"starting", "playing"}
        /\ state = "PAUSED" => native \in {"starting", "paused"}

UInv ==
    /\ NoMediaIsQuiet /\ IdleIsLoading /\ StoppedIsEmpty
    /\ EventsFollow /\ StateFollows

LEMMA EventAppended ==
    ASSUME NEW q \in Seq(Event), NEW e \in Event
    PROVE  LET r == Append(q, e) IN
           /\ r # <<>>
           /\ NoEnd(r) => NoEnd(q) /\ e.kind # "ended"
           /\ OnlyTimes(r) => OnlyTimes(q) /\ e.kind = "time"
           /\ \A kind : LastIs(r, kind) =>
                 \/ e.kind = kind
                 \/ e.kind = "time" /\ LastIs(q, kind)
<1> DEFINE r == Append(q, e)
<1>1. /\ Len(q) \in Nat /\ Len(r) = Len(q) + 1 /\ r[Len(q) + 1] = e
      /\ \A k \in 1 .. Len(q) : r[k] = q[k]
      /\ r # <<>>
  OBVIOUS
<1> HIDE DEF r
<1>2. /\ \A k \in 1 .. Len(q) : k \in 1 .. Len(r)
      /\ Len(q) + 1 \in 1 .. Len(r)
      /\ \A k \in 1 .. Len(r) : k \in 1 .. Len(q) \/ k = Len(q) + 1
  BY <1>1
<1>3. NoEnd(r) => NoEnd(q) /\ e.kind # "ended"
  BY <1>1, <1>2 DEF NoEnd
<1>4. OnlyTimes(r) => OnlyTimes(q) /\ e.kind = "time"
  BY <1>1, <1>2 DEF OnlyTimes
<1>5. ASSUME NEW kind, LastIs(r, kind), e.kind # kind
      PROVE  e.kind = "time" /\ LastIs(q, kind)
  <2>1. PICK k \in 1 .. Len(r) : /\ r[k].kind = kind
                                 /\ \A j \in k + 1 .. Len(r) : r[j].kind = "time"
    BY <1>5 DEF LastIs
  <2>2. k \in 1 .. Len(q) /\ r[k] = q[k]
    BY <1>1, <1>2, <1>5, <2>1
  <2>3. Len(q) + 1 \in k + 1 .. Len(r)
    BY <1>1, <2>2
  <2>4. \A j \in k + 1 .. Len(q) : j \in k + 1 .. Len(r) /\ j \in 1 .. Len(q)
    BY <1>1, <2>2
  <2> QED BY <1>1, <2>1, <2>2, <2>3, <2>4 DEF LastIs
<1> QED BY <1>1, <1>3, <1>4, <1>5 DEF r

LEMMA EventDelivered ==
    ASSUME NEW q \in Seq(Event), q # <<>>
    PROVE  /\ NoEnd(Tail(q)) /\ Head(q).kind # "ended" => NoEnd(q)
           /\ OnlyTimes(Tail(q)) => NoEnd(Tail(q)) /\ LastIs(q, Head(q).kind)
           /\ OnlyTimes(Tail(q)) /\ Head(q).kind = "time" => OnlyTimes(q)
           /\ \A kind : LastIs(Tail(q), kind) => LastIs(q, kind)
<1> DEFINE r == Tail(q)
<1>1. /\ Len(q) \in Nat \ {0} /\ Len(r) = Len(q) - 1 /\ Head(q) = q[1]
      /\ \A k \in 1 .. Len(r) : r[k] = q[k + 1]
  OBVIOUS
<1> HIDE DEF r
<1>2. /\ 1 \in 1 .. Len(q)
      /\ \A k \in 1 .. Len(r) : k + 1 \in 1 .. Len(q)
      /\ \A k \in 1 .. Len(q) : k = 1 \/ (k - 1 \in 1 .. Len(r) /\ (k - 1) + 1 = k)
  BY <1>1
<1>3. \A k \in 1 .. Len(q) : k = 1 \/ (k - 1 \in 1 .. Len(r) /\ q[k] = r[k - 1])
  BY <1>1, <1>2
<1>4. NoEnd(r) /\ Head(q).kind # "ended" => NoEnd(q)
  BY <1>1, <1>3 DEF NoEnd
<1>5. OnlyTimes(r) => NoEnd(r)
  BY DEF OnlyTimes, NoEnd
<1>6. OnlyTimes(r) => LastIs(q, Head(q).kind)
  <2>1. \A k \in 1 + 1 .. Len(q) : k \in 1 .. Len(q) /\ k # 1
    BY <1>1
  <2> QED BY <1>1, <1>2, <1>3, <2>1 DEF OnlyTimes, LastIs
<1>7. OnlyTimes(r) /\ Head(q).kind = "time" => OnlyTimes(q)
  BY <1>1, <1>3 DEF OnlyTimes
<1>8. ASSUME NEW kind, LastIs(r, kind) PROVE LastIs(q, kind)
  <2>1. PICK k \in 1 .. Len(r) : /\ r[k].kind = kind
                                 /\ \A j \in k + 1 .. Len(r) : r[j].kind = "time"
    BY <1>8 DEF LastIs
  <2>2. k + 1 \in 1 .. Len(q) /\ q[k + 1].kind = kind
    BY <1>1, <1>2, <2>1
  <2>3. \A j \in (k + 1) + 1 .. Len(q) :
           j \in 1 .. Len(q) /\ j # 1 /\ j - 1 \in k + 1 .. Len(r)
    BY <1>1, <2>1
  <2>4. \A j \in (k + 1) + 1 .. Len(q) : q[j].kind = "time"
    BY <1>3, <2>1, <2>3
  <2> QED BY <2>2, <2>4 DEF LastIs
<1> QED BY <1>4, <1>5, <1>6, <1>7, <1>8 DEF r

(* Nothing changes but that loads may begin or go on. *)
LEMMA QuietUInv ==
    ASSUME UInv, UNCHANGED <<state, media, native, events>>,
           \A l \in Loads :
               /\ loads[l].stage # "none" => loads'[l].stage # "none"
               /\ loads[l].stage = "resume" => loads'[l].stage = "resume"
    PROVE  UInv'
<1>1. Loading => Loading'
  BY DEF Loading
<1>2. IdleIsLoading'
  BY DEF UInv, IdleIsLoading
<1>3. NoMediaIsQuiet' /\ StoppedIsEmpty'
  BY <1>1 DEF UInv, NoMediaIsQuiet, StoppedIsEmpty
<1>4. EventsFollow' /\ StateFollows'
  BY <1>1 DEF UInv, EventsFollow, StateFollows
<1> QED BY <1>2, <1>3, <1>4 DEF UInv

(* The player is told to play. *)
LEMMA PlayUInv ==
    ASSUME UInv, SInv, UNCHANGED <<state, media, events, loads>>,
           native' = NativeAfterPlay
    PROVE  UInv'
<1>1. Loading' <=> Loading
  BY DEF Loading
<1>2. /\ native' \in {native, "starting"}
      /\ native' = "starting" => native = "starting" \/ media # None
  BY DEF NativeAfterPlay
<1>3. NoMediaIsQuiet' /\ StoppedIsEmpty' /\ IdleIsLoading'
  BY <1>1, <1>2 DEF UInv, NoMediaIsQuiet, StoppedIsEmpty, IdleIsLoading
<1>4. EventsFollow' /\ StateFollows'
  BY <1>1, <1>2 DEF UInv, EventsFollow, StateFollows
<1> QED BY <1>3, <1>4 DEF UInv

(* The player is released, and STOPPED is shown or a load goes on. *)
LEMMA ReleaseUInv ==
    ASSUME ReleasePlayer, state' = "STOPPED" \/ Loading'
    PROVE  UInv'
<1>1. media' = None /\ native' = "idle" /\ events' = <<>>
  BY DEF ReleasePlayer
<1>2. ~LastIs(events', "playing") /\ ~LastIs(events', "paused")
  BY <1>1 DEF LastIs
<1>3. NoMediaIsQuiet' /\ StoppedIsEmpty' /\ IdleIsLoading'
  BY <1>1 DEF NoMediaIsQuiet, StoppedIsEmpty, IdleIsLoading
<1>4. EventsFollow' /\ StateFollows'
  BY <1>2 DEF EventsFollow, StateFollows
<1> QED BY <1>3, <1>4 DEF UInv

(* An event is sent by a player that has a media. *)
LEMMA SentUInv ==
    ASSUME TInv, UInv, NEW e \in Event, events' = Append(events, e),
           UNCHANGED <<state, media, loads>>, media # None, native' # "idle",
           e.kind = "time" => native' = native,
           e.kind = "playing" => native' = "playing",
           e.kind = "paused" => native' = "paused"
    PROVE  UInv'
<1>1. Loading' <=> Loading
  BY DEF Loading
<1>2. /\ NoEnd(events') => NoEnd(events)
      /\ OnlyTimes(events') => OnlyTimes(events) /\ e.kind = "time"
      /\ LastIs(events', "playing") =>
            e.kind = "playing" \/ (e.kind = "time" /\ LastIs(events, "playing"))
      /\ LastIs(events', "paused") =>
            e.kind = "paused" \/ (e.kind = "time" /\ LastIs(events, "paused"))
  BY EventAppended DEF TInv, TypeOK
<1>3. NoMediaIsQuiet' /\ StoppedIsEmpty' /\ IdleIsLoading'
  BY <1>1 DEF UInv, NoMediaIsQuiet, StoppedIsEmpty, IdleIsLoading
<1>4. EventsFollow'
  BY <1>2 DEF UInv, EventsFollow
<1>5. StateFollows'
  BY <1>1, <1>2 DEF UInv, StateFollows
<1> QED BY <1>3, <1>4, <1>5 DEF UInv

(* An event other than 'ended' is delivered. *)
LEMMA DeliveredUInv ==
    ASSUME TInv, UInv, events # <<>>, events' = Tail(events),
           UNCHANGED <<media, native, loads>>, Head(events).kind # "ended",
           Head(events).kind = "time" => state' = state,
           Head(events).kind = "playing" => state' = "PLAYING",
           Head(events).kind = "paused" => state' = "PAUSED",
           Head(events).kind = "error" => state' = "ERROR"
    PROVE  UInv'
<1> DEFINE kind == Head(events).kind
<1>1. Loading' <=> Loading
  BY DEF Loading
<1>2. kind \in {"time", "playing", "paused", "error"}
  <2>1. Head(events) \in Event
    BY SeqFacts DEF TInv, TypeOK
  <2> QED BY <2>1 DEF Event
<1>3. /\ NoEnd(events') => NoEnd(events)
      /\ OnlyTimes(events') => NoEnd(events) /\ LastIs(events, kind)
      /\ OnlyTimes(events') /\ kind = "time" => OnlyTimes(events)
      /\ LastIs(events', "playing") => LastIs(events, "playing")
      /\ LastIs(events', "paused") => LastIs(events, "paused")
  BY EventDelivered DEF TInv, TypeOK
<1>4. media # None
  BY DEF UInv, NoMediaIsQuiet
<1>5. ~Loading => native # "idle"
  BY <1>4 DEF UInv, IdleIsLoading, Loading
<1> HIDE DEF kind
<1>6. NoMediaIsQuiet' /\ IdleIsLoading'
  BY <1>4 DEF UInv, NoMediaIsQuiet, IdleIsLoading
<1>7. StoppedIsEmpty'
  BY <1>1, <1>2 DEF UInv, StoppedIsEmpty, kind
<1>8. EventsFollow'
  BY <1>3 DEF UInv, EventsFollow
<1>9. StateFollows'
  <2> SUFFICES ASSUME OnlyTimes(events'), ~Loading
               PROVE  /\ state' = "PLAYING" => native \in {"starting", "playing"}
                      /\ state' = "PAUSED" => native \in {"starting", "paused"}
    BY <1>1 DEF StateFollows
  <2>1. CASE kind = "time"
    BY <1>3, <2>1 DEF UInv, StateFollows, kind
  <2>2. CASE kind = "playing"
    BY <1>3, <1>5, <2>2 DEF UInv, EventsFollow, kind
  <2>3. CASE kind = "paused"
    BY <1>3, <1>5, <2>3 DEF UInv, EventsFollow, kind
  <2>4. CASE kind = "error"
    BY <2>4 DEF kind
  <2> QED BY <1>2, <2>1, <2>2, <2>3, <2>4
<1> QED BY <1>6, <1>7, <1>8, <1>9 DEF UInv

(* A call that begins takes a place that no call under way has. *)
LEMMA StartKeepsLoads ==
    ASSUME TInv, SInv, NEW n, StartLoad(n)
    PROVE  /\ Loading'
           /\ \A l \in Loads :
                 /\ loads[l].stage # "none" => loads'[l].stage # "none"
                 /\ loads[l].stage = "resume" => loads'[l].stage = "resume"
<1>1. issued + 1 \in Loads /\ issued + 1 > issued
  BY SessionAssumption DEF StartLoad, TInv, TypeOK, Loads
<1>2. /\ loads'[issued + 1].stage = "chain"
      /\ \A k \in Loads : k # issued + 1 => loads'[k] = loads[k]
      /\ loads[issued + 1].stage = "none"
  BY <1>1 DEF StartLoad, ToFlush, TInv, TypeOK, SInv, Fresh
<1> QED BY <1>1, <1>2 DEF Loading

LEMMA UserUInv == ASSUME TInv, SInv, UInv, User PROVE UInv'
<1>1. ASSUME NEW i, GoTo(i) PROVE UInv'
  BY <1>1, StartKeepsLoads, QuietUInv DEF GoTo, playerVars
<1>2. CASE Stop
  BY <1>2, ReleaseUInv DEF Stop, StopEffects, StateAfterStop
<1>3. CASE Play
  <2>1. UNCHANGED <<state, media, events>>
    BY <1>3 DEF Play
  <2>2. CASE StartLoad(Len(chain')) /\ UNCHANGED native
    BY <2>1, <2>2, StartKeepsLoads, QuietUInv
  <2>3. CASE native' = NativeAfterPlay /\ UNCHANGED loads
    BY <2>1, <2>3, PlayUInv
  <2> QED BY <1>3, <2>2, <2>3 DEF Play
<1>4. CASE Pause
  <2>1. UNCHANGED <<state, media, loads>>
    BY <1>4 DEF Pause
  <2>2. CASE live /\ native = "playing" /\ Len(events) < MaxEvents
    <3> DEFINE e == [kind |-> "paused", of |-> media, at |-> 0]
    <3>1. e \in Event /\ e.kind = "paused" /\ media # None
      BY <2>2 DEF TInv, TypeOK, HasMedia, Event, Positions, Late
    <3>2. events' = Append(events, e) /\ native' = "paused"
      BY <1>4, <2>2 DEF Pause
    <3> HIDE DEF e
    <3> QED BY <2>1, <3>1, <3>2, SentUInv
  <2>3. CASE UNCHANGED <<native, events>>
    BY <2>1, <2>3, QuietUInv
  <2> QED BY <1>4, <2>2, <2>3 DEF Pause
<1>5. CASE NextTrack
  BY <1>1, <1>5 DEF NextTrack
<1>6. CASE Prev
  <2>1. CASE Replay
    BY <2>1, PlayUInv DEF Replay
  <2> QED BY <1>1, <1>6, <2>1 DEF Prev
<1>7. CASE SetStopAfterCurrent
  BY <1>7, QuietUInv DEF SetStopAfterCurrent, playerVars
<1>8. ASSUME NEW i \in Items, BindAndPlay(i) PROVE UInv'
  <2> DEFINE r == [stage |-> "attach", item |-> None, waits |-> 0, resume |-> 0]
  <2>1. /\ issued < MaxLoads /\ loads' = [loads EXCEPT ![issued + 1] = r]
        /\ UNCHANGED <<state, media, native, events>>
    BY <1>8 DEF BindAndPlay
  <2>2. issued + 1 \in Loads /\ issued + 1 > issued
    BY <2>1, SessionAssumption DEF TInv, TypeOK, Loads
  <2>3. /\ \A k \in Loads : k # issued + 1 => loads'[k] = loads[k]
        /\ loads[issued + 1].stage = "none"
    BY <2>1, <2>2 DEF TInv, TypeOK, SInv, Fresh
  <2> QED BY <2>1, <2>2, <2>3, QuietUInv
<1> QED BY <1>2, <1>3, <1>4, <1>5, <1>6, <1>7, <1>8 DEF User

LEMMA LoadStepUInv == ASSUME TInv, SInv, UInv, NEW l \in Loads, LoadStep(l) PROVE UInv'
<1>1. CASE EndAttach(l)
  <2>1. /\ loads[l].stage = "attach" /\ UNCHANGED <<state, media, native, events>>
        /\ loads' = [loads EXCEPT ![l] = ToFlush(Len(chain'))]
    BY <1>1 DEF EndAttach, At, playerVars
  <2>2. \A k \in Loads : /\ k # l => loads'[k] = loads[k]
                         /\ loads'[l].stage = "chain"
    BY <2>1 DEF TInv, TypeOK, ToFlush
  <2> QED BY <2>1, <2>2, QuietUInv
<1>2. ASSUME NEW item \in Items, HandOver(l, item) PROVE UInv'
  <2>1. /\ media' = item /\ media' # None /\ native' = "idle"
        /\ loads'[l].stage = "resume"
    BY <1>2, ItemFacts DEF HandOver, TInv, TypeOK
  <2>2. Loading'
    BY <2>1 DEF Loading
  <2>3. NoMediaIsQuiet' /\ StoppedIsEmpty' /\ IdleIsLoading'
    BY <2>1, <2>2 DEF NoMediaIsQuiet, StoppedIsEmpty, IdleIsLoading
  <2>4. EventsFollow' /\ StateFollows'
    BY <2>1, <2>2 DEF EventsFollow, StateFollows
  <2> QED BY <2>3, <2>4 DEF UInv
<1>3. ASSUME FailLoad(l), loads[l].stage # "resume" PROVE UInv'
  <2>1. /\ state' = "ERROR" /\ UNCHANGED <<media, native, events>>
        /\ \A k \in Loads : k # l => loads'[k] = loads[k]
    BY <1>3 DEF FailLoad, TInv, TypeOK
  <2>2. NoMediaIsQuiet' /\ StoppedIsEmpty' /\ IdleIsLoading'
    BY <1>3, <2>1 DEF UInv, NoMediaIsQuiet, StoppedIsEmpty, IdleIsLoading
  <2>3. EventsFollow' /\ StateFollows'
    BY <2>1 DEF UInv, EventsFollow, StateFollows
  <2> QED BY <2>2, <2>3 DEF UInv
<1>4. CASE EndChain(l)
  <2>1. loads[l].stage = "chain" /\ current \in Items
    BY <1>4 DEF EndChain, At, TInv, TypeOK
  <2>2. CASE /\ loads' = [loads EXCEPT ![l] = [stage |-> "options", item |-> current,
                                              waits |-> 0, resume |-> 0]]
             /\ UNCHANGED <<state, active, position, completed, media, native, events>>
    <3>1. /\ \A k \in Loads : k # l => loads'[k] = loads[k]
          /\ loads'[l].stage = "options"
      BY <2>2 DEF TInv, TypeOK
    <3> QED BY <2>1, <2>2, <3>1, QuietUInv
  <2> QED BY <1>2, <1>3, <1>4, <2>1, <2>2 DEF EndChain
<1>5. CASE EndOptions(l)
  BY <1>2, <1>3, <1>5 DEF EndOptions, At, TInv, HasItem
<1>6. CASE EndResume(l)
  <2>1. /\ state' = "PREPARED" /\ native' = NativeAfterPlay
        /\ UNCHANGED <<media, events, live>>
    BY <1>6 DEF EndResume
  <2>2. /\ native' \in {native, "starting"}
        /\ media = None => native' = native
        /\ media # None => native' # "idle"
    BY <2>1 DEF NativeAfterPlay, SInv, LiveHasMedia
  <2>3. NoMediaIsQuiet' /\ StoppedIsEmpty' /\ IdleIsLoading'
    BY <2>1, <2>2 DEF UInv, NoMediaIsQuiet, StoppedIsEmpty, IdleIsLoading
  <2>4. EventsFollow' /\ StateFollows'
    BY <2>1, <2>2 DEF UInv, EventsFollow, StateFollows
  <2> QED BY <2>3, <2>4 DEF UInv
<1> QED BY <1>1, <1>4, <1>5, <1>6 DEF LoadStep

LEMMA NativeUInv ==
    ASSUME TInv, UInv,
           \/ NativeStarts \/ NativeFails \/ NativeEnds
           \/ \E p \in Positions \ {0} : NativeTime(p)
    PROVE  UInv'
<1>1. ASSUME NEW kind \in {"playing", "error", "ended", "time"}, NEW at \in Positions,
             Emit(kind, at), UNCHANGED <<state, media, loads>>,
             native # "idle", native' # "idle",
             kind = "time" => native' = native,
             kind = "playing" => native' = "playing"
      PROVE  UInv'
  <2> DEFINE e == [kind |-> kind, of |-> media, at |-> at]
  <2>1. media \in Items /\ media # None
    BY <1>1, ItemFacts DEF TInv, TypeOK, HasMedia
  <2>2. e \in Event /\ e.kind = kind
    BY <2>1 DEF Event
  <2>3. events' = Append(events, e)
    BY <1>1 DEF Emit
  <2> HIDE DEF e
  <2> QED BY <1>1, <2>1, <2>2, <2>3, SentUInv
<1>2. 0 \in Positions
  BY DEF Positions, Late
<1>3. CASE NativeStarts
  BY <1>1, <1>2, <1>3 DEF NativeStarts, NativeStep
<1>4. CASE NativeFails
  BY <1>1, <1>2, <1>4 DEF NativeFails, NativeStep
<1>5. CASE NativeEnds
  BY <1>1, <1>2, <1>5 DEF NativeEnds, NativeStep
<1>6. ASSUME NEW p \in Positions \ {0}, NativeTime(p) PROVE UInv'
  BY <1>1, <1>6 DEF NativeTime
<1> QED BY <1>3, <1>4, <1>5, <1>6

LEMMA DeliverUInv == ASSUME TInv, SInv, UInv, Deliver PROVE UInv'
<1>1. CASE OnPlaying
  BY <1>1, DeliveredUInv DEF OnPlaying, Arrives
<1>2. CASE OnPaused
  BY <1>2, DeliveredUInv DEF OnPaused, Arrives
<1>3. CASE OnError
  BY <1>3, DeliveredUInv DEF OnError, Arrives
<1>4. CASE OnTime
  BY <1>4, DeliveredUInv DEF OnTime, TimeChanged, Arrives
<1>5. CASE OnEnded
  <2>1. CASE StopEffects
    BY <2>1, ReleaseUInv DEF StopEffects, StateAfterStop
  <2>2. CASE ReleasePlayer /\ StartLoad(Len(chain'))
    BY <2>2, ReleaseUInv, StartKeepsLoads
  <2> QED BY <1>5, <2>1, <2>2 DEF OnEnded
<1> QED BY <1>1, <1>2, <1>3, <1>4, <1>5 DEF Deliver

LEMMA QuietStepUInv ==
    ASSUME TInv, UInv,
           PersistSave \/ (\E p \in Positions \ {0} : Watchdog(p)) \/ UNCHANGED vars
    PROVE  UInv'
<1>1. UNCHANGED <<state, media, native, events>>
  BY DEF PersistSave, Watchdog, TimeChanged, playerVars, vars
<1>2. PersistSave \/ loads' = loads
  BY DEF Watchdog, TimeChanged, vars
<1>3. \A l \in Loads : loads'[l].stage = loads[l].stage
  BY <1>2, PersistStages DEF TInv
<1> QED BY <1>1, <1>3, QuietUInv

LEMMA InitUInv == Init => UInv
<1> SUFFICES ASSUME Init PROVE UInv
  OBVIOUS
<1>1. ~LastIs(events, "playing") /\ ~LastIs(events, "paused")
  BY DEF Init, LastIs
<1> QED BY <1>1 DEF Init, UInv, NoMediaIsQuiet, IdleIsLoading, StoppedIsEmpty,
                    EventsFollow, StateFollows

(* Whatever loads, stops and late events overlap, once they are all done   *)
(* the state shown is the player's (onNativeEvent, stop, loadCurrent).     *)
THEOREM UiTellsTheTruth == Spec => []UiAgreesWithPlayer
<1>1. TInv /\ SInv /\ UInv /\ [Next]_vars => UInv'
  BY UserUInv, LoadStepUInv, NativeUInv, DeliverUInv, QuietStepUInv DEF Next, System
<1>2. TInv /\ SInv /\ UInv => UiAgreesWithPlayer
  <2> SUFFICES ASSUME TInv, SInv, UInv, ~Loading, events = <<>>, native # "starting"
               PROVE  /\ state = "PLAYING" => live /\ native = "playing"
                      /\ state = "PAUSED" => live /\ native = "paused"
                      /\ state = "STOPPED" => native \notin {"playing", "paused"}
    BY DEF UiAgreesWithPlayer
  <2>1. OnlyTimes(events)
    BY DEF OnlyTimes
  <2>2. /\ state = "PLAYING" => native = "playing"
        /\ state = "PAUSED" => native = "paused"
    BY <2>1 DEF UInv, StateFollows
  <2>3. state = "STOPPED" => native = "idle"
    BY DEF UInv, StoppedIsEmpty, NoMediaIsQuiet
  <2>4. native # "idle" => live
    BY DEF TInv, HasMedia, SInv, LiveHasMedia
  <2> QED BY <2>2, <2>3, <2>4
<1> QED BY InitTInv, NextTInv, InitSInv, NextSInv, InitUInv, <1>1, <1>2, PTL DEF Spec
=============================================================================
