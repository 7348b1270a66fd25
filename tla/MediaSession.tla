---------------------------- MODULE MediaSession ----------------------------
(***************************************************************************)
(* The playback state that the system's media controls show:               *)
(* MediaSessionManager.updatePlaybackState, a throttled mailbox of one     *)
(* place in front of an asynchronous call, and the reports PlaybackService *)
(* makes to it.  A report carries the state only; "fresh" says that it was *)
(* made less than five seconds ago.                                        *)
(*                                                                         *)
(* The AVSession of the system is external: a call of setAVPlaybackState   *)
(* succeeds, or fails, and then it may have been carried out all the same. *)
(***************************************************************************)
CONSTANT Silent  \* the states an event reports when playback is not going on

ASSUME SilentAssumption == Silent \subseteq {"PAUSED", "STOPPED", "ERROR"}

VARIABLES
    playState,  \* PlaybackService.state
    syncing,    \* sessionSyncTimer is set
    session,    \* the session was created
    loop,       \* what the loop of updatePlaybackState awaits
    sending,    \* the update it has taken
    pending,    \* pendingPlaybackUpdate
    lastState,  \* lastPlaybackState
    lastFresh,  \* lastStateUpdate is less than five seconds old
    shown,      \* the state the AVSession shows
    requested,  \* history: the state of the last report
    lost        \* history: the last update taken was not delivered

reportVars == <<playState, syncing>>
mailVars == <<loop, sending, pending>>
shownVars == <<lastState, lastFresh, shown, lost>>
vars == <<reportVars, session, mailVars, shownVars, requested>>

States == {"IDLE", "PREPARED", "PLAYING", "ERROR"} \cup Silent

Update == [state : States, fresh : BOOLEAN]

NoUpdate == [state |-> "none", fresh |-> FALSE]

Init ==
    /\ playState = "IDLE" /\ syncing = FALSE
    /\ session = FALSE
    /\ loop = "idle" /\ sending = NoUpdate /\ pending = NoUpdate
    /\ lastState = "IDLE" /\ lastFresh = FALSE
    /\ shown = "IDLE" /\ requested = "IDLE" /\ lost = FALSE

-----------------------------------------------------------------------------
(***************************************************************************)
(* MediaSessionManager                                                     *)
(***************************************************************************)
MutantThrottled(s) == s = lastState /\ s = "PLAYING"

(* A report that playback goes on is not repeated within five seconds. *)
Throttled(s) == s = lastState /\ s = "PLAYING" /\ lastFresh

(* The loop takes update u. *)
Take(u) ==
    /\ sending' = u
    /\ pending' = NoUpdate
    /\ loop' = IF session THEN "set" ELSE "ensure"

(* updatePlaybackState(s), up to its first await. *)
Request(s) ==
    LET u == [state |-> s, fresh |-> TRUE] IN
    /\ requested' = s
    /\ IF Throttled(s) THEN UNCHANGED mailVars
       ELSE IF loop = "idle" THEN Take(u)
       ELSE pending' = u /\ UNCHANGED <<loop, sending>>
    /\ UNCHANGED <<session, shownVars>>

MutantLoopGoesOn ==
    /\ loop' = "idle"
    /\ sending' = NoUpdate
    /\ pending' = NoUpdate

(* The loop goes on with the update that has come meanwhile, or ends. *)
LoopGoesOn ==
    IF pending # NoUpdate
    THEN Take(pending)
    ELSE /\ loop' = "idle"
         /\ sending' = NoUpdate
         /\ UNCHANGED pending

(* ensure() answers; without a session the update is dropped. *)
EnsureSucceeds ==
    /\ loop = "ensure"
    /\ session' = TRUE
    /\ loop' = "set"
    /\ UNCHANGED <<reportVars, sending, pending, shownVars, requested>>

EnsureFails ==
    /\ loop = "ensure"
    /\ UNCHANGED session
    /\ LoopGoesOn
    /\ lost' = TRUE
    /\ UNCHANGED <<reportVars, lastState, lastFresh, shown, requested>>

(* setAVPlaybackState answers. *)
SetSucceeds ==
    /\ loop = "set"
    /\ shown' = sending.state
    /\ lastState' = sending.state
    /\ lastFresh' = sending.fresh
    /\ lost' = FALSE
    /\ LoopGoesOn
    /\ UNCHANGED <<reportVars, session, requested>>

SetFails ==
    /\ loop = "set"
    /\ shown' \in {shown, sending.state}
    /\ lost' = TRUE
    /\ LoopGoesOn
    /\ UNCHANGED <<reportVars, session, lastState, lastFresh, requested>>

(* ensureInit or a metadata update has the session created. *)
CreatedElsewhere ==
    /\ ~session /\ loop # "ensure"
    /\ session' = TRUE
    /\ UNCHANGED <<reportVars, mailVars, shownVars, requested>>

(* Five seconds have passed since the oldest report that was fresh. *)
Expire ==
    /\ IF lastFresh
       THEN lastFresh' = FALSE /\ UNCHANGED <<sending, pending>>
       ELSE IF sending.fresh
       THEN sending' = [sending EXCEPT !.fresh = FALSE] /\ UNCHANGED <<lastFresh, pending>>
       ELSE /\ pending.fresh
            /\ pending' = [pending EXCEPT !.fresh = FALSE]
            /\ UNCHANGED <<lastFresh, sending>>
    /\ UNCHANGED <<reportVars, session, loop, lastState, shown, requested, lost>>

-----------------------------------------------------------------------------
(***************************************************************************)
(* The reports of PlaybackService                                          *)
(***************************************************************************)
(* the event 'playing' *)
OnPlaying ==
    /\ playState' = "PLAYING"
    /\ syncing' = TRUE
    /\ Request("PLAYING")

(* the events 'paused', 'stopped' and 'error', and stop() *)
OnSilent(s) ==
    /\ playState' = s
    /\ syncing' = FALSE
    /\ Request(s)

(* the event 'ended' when another item follows: state stays what it is *)
OnEnded ==
    /\ "STOPPED" \in Silent
    /\ UNCHANGED playState
    /\ syncing' = FALSE
    /\ Request("STOPPED")

(* loadCurrent has started the player, or its media could not be made or   *)
(* set: neither is reported here, and the timer is left as it is.          *)
Load ==
    /\ playState' \in {"PREPARED", "ERROR"}
    /\ UNCHANGED <<syncing, session, mailVars, shownVars, requested>>

(* loadCurrent after the metadata of a load that succeeded, and the event  *)
(* 'lengthChanged', in whatever state that finds                           *)
Refresh == Request(playState) /\ UNCHANGED reportVars

(* sessionSyncTimer, every ten seconds *)
Sync == syncing /\ Request(playState) /\ UNCHANGED reportVars

Next ==
    \/ OnPlaying \/ OnEnded \/ Load \/ Refresh \/ Sync
    \/ \E s \in Silent : OnSilent(s)
    \/ EnsureSucceeds \/ EnsureFails \/ SetSucceeds \/ SetFails
    \/ CreatedElsewhere \/ Expire

Spec == Init /\ [][Next]_vars

(* Time passes, the timer fires, calls are answered, and a call that is    *)
(* tried again and again succeeds at last.                                 *)
FairSpec ==
    /\ Spec
    /\ WF_vars(Expire) /\ WF_vars(Sync)
    /\ SF_vars(EnsureSucceeds) /\ SF_vars(SetSucceeds)

-----------------------------------------------------------------------------
TypeOK ==
    /\ playState \in States
    /\ syncing \in BOOLEAN /\ session \in BOOLEAN
    /\ loop \in {"idle", "ensure", "set"}
    /\ sending \in Update \cup {NoUpdate} /\ pending \in Update \cup {NoUpdate}
    /\ sending = NoUpdate <=> loop = "idle"
    /\ loop = "set" => session
    /\ lastState \in States /\ shown \in States /\ requested \in States
    /\ lastFresh \in BOOLEAN /\ lost \in BOOLEAN

(* A report that playback has paused, stopped or failed is never merged    *)
(* away: when the loop is at rest and its last call succeeded, the media   *)
(* controls show it, whatever reports and answers came in between.         *)
SilenceIsShown ==
    loop = "idle" /\ ~lost /\ requested \in Silent => shown = requested

(* While playback goes on, the media controls come to show it for good,    *)
(* though single calls fail and reports are throttled and merged.          *)
PlayingIsShown ==
    <>[](playState = "PLAYING" /\ syncing) => <>[](shown = "PLAYING")
=============================================================================
