# Verification of the playback core of vlc-harmony

vlc-harmony is a HarmonyOS player: ArkTS pages and services on one JS thread, a
C++ NAPI bridge, and libVLC with its own threads below. This directory holds
TLA+ models of the parts where those meet, TLC configurations that check them
on small instances, and TLAPS proofs that do not depend on the instance.

    tlc -config VideoSurface.cfg VideoSurface      check a run
    tlapm VideoSurfaceProofs.tla                   check the proofs of a module

Paths below are relative to `src/`; `data/` is `entry/src/main/ets/common/data/`
and `cpp/` is `entry/src/main/cpp/`.

## 1. The system

| component | state | operations | talks to |
|---|---|---|---|
| `data/PlaybackService.ets`, session | queue, `currentIndex`, `state`, `position`, `activeVideoUri`, `pendingResumeMs`, `resumeSaveChain`, `player` | `loadCurrent`, `play`, `pause`, `stop`, `next`, `prev`, `bindAndPlay`, `onNativeEvent`, `onComplete`, the session timer | libVLC wrapper, VideoResumeStore, MediaSessionManager, settings |
| the same, queue order | `shuffle`, `repeatMode`, `shuffleHistory` | `computeNextIndex`, `toggleShuffle`, `cycleRepeat`, `playList` | the session |
| the same, background task | `continuousTaskActive`, `wantAgentObj` | `startContinuousTask`, `stopContinuousTask` | the system's task manager |
| the same, audio focus | `lossTransient`, `duckedVolume`, `pausedByCall`, `headsetWasPlaying` | `handleAudioInterrupt`, `handleCallStateChange`, `handleDeviceChange` | settings, the session |
| the same, metered network | none of its own | `checkMeteredNetwork` | NetworkConnectionManager, `stop` |
| `data/MediaSessionManager.ets` | `pendingPlaybackUpdate`, `playbackUpdateInFlight`, `lastPlaybackState`, the session, metadata version | `updatePlaybackState`, `updateMetadata`, `ensure`, `release` | the system's AVSession |
| `data/VideoResumeStore.ets` | persisted positions | `save`, `get` | the session's save chain |
| `cpp/vlc_napi.cpp`, seek worker | one waiting and one running request, the last applied one, the worker thread | `QueueSeek`, `RunSeekWorker`, `ShutdownSeekWorker` | libVLC, the UI thread |
| the same, registry of players | `g_mtx`, `g_players`: native player, outs, bound generations, threadsafe function; the handles its events point to | create, play, stop, release, `releaseAsync`, listeners, `on_player_event`, setters and getters | libVLC, xcomponent manager, JS thread, seek worker |
| the same, media and renderers | `g_medias` with the descriptors they own, `g_rds`, `g_renderers` | create, release; discover, cast | libVLC, PlaybackService |
| `cpp/playback_diagnostics.h`, playback trace | `queue_`, `budget_`, `dropped_`, `enabled_`, its worker | `Submit`, `SetEnabled`, `Run` | the log callbacks of libVLC and FFmpeg, the system's log |
| `cpp/xcomponent_manager.cpp` | windows and generations by id | surface created, changed, destroyed | the players |
| `entry/src/main/ets/libvlc/` | released flag | forwards to the bridge | PlaybackService |
| `data/PlaybackHistory.ets`, `PlaybackQueueHistory.ets` | recent media, last queue | `record`, `refresh`, `save`, `load` | preferences |
| `data/MediaLibrary.ets`, `PermissionCoordinator.ets` | library, scan flag, bookmarks, playlists | scan, edit | files, database |
| VLC's audio output (`ohos_vlc/patches/0030-vlc-3.0.24-ohos.patch:2081`, `audiounit_ohos.c`) | ring of samples, renderer, `is_playing`, `last_write_time`, `flushed_since_play` | `Start`, `Stop`, `Play`, `Pause`, `Flush`, `OnWriteData` | VLC's core, the system's audio thread |
| the other VLC and FFmpeg patches | the decoder's output queue, video output, threads | | VLC, FFmpeg |
| `data/Settings.ets`, `NetworkConnectionManager.ets`, `VideoRefreshPolicy.ets`, pages, ability, build scripts | | | |

**How they interact.** The JS thread runs one handler or one continuation of an
`await` at a time; everything between two awaits is one step. Awaits are the
places where other handlers run. Native events are posted by libVLC's threads to
a threadsafe function and delivered to the JS thread later, in order. The seek
worker is a thread of its own under a mutex and a condition variable. Surface
callbacks come on the UI thread, which is the JS thread. Below libVLC, its core
calls the audio output one call at a time, while the system's audio thread calls
back for samples on its own. libVLC sends a player's events under the lock of that
player's event manager, and the bridge's handler then takes `g_mtx`: a call made with
`g_mtx` that waits for a handler waits for ever. A stopped player is handed to a
thread of its own. The log callbacks of all native threads meet in the trace.

**What is hard.** Loads that overlap at every await; events of a media that is no
longer loaded; a stop during a load; a save of a video that has completed; a
queue order with history under any mix of buttons; surfaces that come and go
between any two calls; a throttled mailbox in front of a call that can fail; two
requests to the system that overlap; a thread that has to be joined in whatever
it is doing; a ring that two threads fill and empty in pieces of any size, in front
of a renderer that may fall silent; two locks taken in both orders; objects on the
heap and file descriptors that are used by number after they were closed.
`PROJECT.json` lists these hazards at their lines.

**What makes each component correct.**
- Session: with nothing under way, the state shown is the player's; the media
  loaded is the current item; a completed video starts at 0 next time; a load
  that is left alone plays.
- Queue order: shuffle repeats nothing in a round and ends after all of it;
  `prev` undoes `next`; playback without repeat ends.
- Background task: there while playback goes on, known when it is there.
- Media session: silence is never merged away; playing is shown in the end.
- Seek worker: seeks reach libVLC in order, none lost for good or flushed twice;
  shutdown returns and nothing is called on a released player.
- Surfaces: a player draws only on live windows, draws wherever it should, and in
  the present size.
- Registry of players: the JS thread always gets back from the bridge; no event finds
  its handle gone; no callback is left behind; an ended player is freed.
- Media and renderers: the player reads the file it was given; what is created is
  released once; the discovery is over before it is released under the lock.
- Playback trace: every message is written or counted, counts are reported, and a trace
  that is off keeps nothing.
- Audio output: the samples reach the renderer in order; nothing from before a
  flush is heard; a silent renderer is replaced.
- Audio focus: a lowered volume is raised again; the user's pause is not undone.
- Histories and library: no edit is lost to one that was under way.

## 2. Modules

| module | models | extends |
|---|---|---|
| `SeekMailbox` | what the seek worker promises: a mailbox of one place, served in order, closed by shutdown | |
| `SeekWorker` | the worker of the bridge; refines `SeekMailbox` | |
| `VideoSurface` | xcomponent manager, the outs of the player's entry, the attach logic of PlaybackService | |
| `ResumeRegister` | what the saves of positions promise: a register for each video, written while it is loaded, reset by its end | |
| `PlayerSession` | PlaybackService's session, VideoResumeStore, the native player and its event queue; refines `ResumeRegister` | |
| `QueueOrder` | the play order | |
| `MediaSession` | `updatePlaybackState` and its callers | |
| `ContinuousTask` | the background task and its callers | |
| `PlayerRegistry` | `g_players`, listeners, events, the ends of a player and the threads that see to them | |
| `SeekingPlayer` | the registry and the seek worker of one of its players, together | `PlayerRegistry`, `SeekWorker` |
| `NativeObjects` | media, descriptors, the discoverer of renderers and casting, as PlaybackService uses them | |
| `Diagnostics` | the playback trace | |
| `AudioFifo` | what the audio output promises: a queue of whole blocks in front of a device | |
| `AudioOutput` | the audio output and its renderer; refines `AudioFifo` | |
| `MCAudioOutput` | the blocks of its run | `AudioOutput` |
| `ServiceProofs` | theorems about the background task and the media session | `ContinuousTask`, `MediaSession`, TLAPS |
| `BridgeProofs` | theorems about the objects of the bridge and its trace | `NativeObjects`, `Diagnostics`, TLAPS |
| `PlayerRegistryProofs` | theorems about the registry and about `SeekingPlayer` | `SeekingPlayer`, `SeekWorkerProofs`, TLAPS |
| every other `*Proofs` | theorems about the module of that name | the module, TLAPS |

The `MutantX` operators in a module are deliberately wrong variants of `X`; with
one in place of its original a property fails, which shows that the property
depends on that piece of code.

### SeekWorker
`pending`, `hasPending`, `inFlight`, `lastApplied`, `nextSerial`, `stopping` are
the fields of `SeekWorker`; `pc` is where the thread is: idle on the condition,
in the coalescing window (24 ms, restarted by every new request), applying (in
libVLC, without the lock), exited. One action is one critical section. Time is
abstract: `AgeLastApplied` makes the last applied request older than the 250 ms
filter at any moment, so both answers of the filter are explored. The abstract
mailbox knows nothing of windows and filters.

A seek equal to the one in flight is dropped although another one waits
(`cpp/vlc_napi.cpp:239`): dragging back to where the worker just is ends at the target
in between, against "latest-wins" and "the newest request" of the comments at 139 and
172. The abstract mailbox counts a dropped seek as not accepted.

The module says what the worker's threads do and leaves open who seeks and who shuts it
down; `SeekingPlayer` puts it in its place and is what TLC runs.

### VideoSurface
`window` and `generation` are the maps of the xcomponent manager; `outId`,
`bound`, `boundGen` the fields of `PlayerEntry`, for the video and the OSD alike;
`native` and `drawn` are what libVLC has been told: the window and the generation
whose size it draws in; `wanted` are the ids PlaybackService keeps; `tries` the
waits left to each call of `bindAndPlay`. Windows are numbered as the system makes
them, so a stale one is never confused with a new one. `Supported` has the outs
whose setter libVLC exports (the OSD's is looked up at run time). Nothing is assumed
of the order in which the system makes and destroys the surfaces of an id: the
callbacks ask neither whether a window is known already nor which one is destroyed
(`cpp/xcomponent_manager.cpp:92`, 116). When a surface is made before the last one is
destroyed, the destruction therefore forgets the new window, and the picture stays
away until the surface changes or is made again; `WantedIsShown` says nothing then,
since no window is known.
`Play` binds late outs exactly like `MediaPlayerPlay`; the proof shows that, with
the other steps as they are, it never finds one to bind.

### PlayerSession
A load is a record with the await it is suspended in: `attach` (bindAndPlay's
attempts), `chain` (the saves queued before it), `options` (the settings),
`resume` (the stored position). Operations are the public methods; each action is the
part of the handler up to its next await, with the saves, the stop and the new
load it makes. `events` is the queue of the threadsafe function; the native
player is a small machine that starts, plays, pauses, ends, fails and reports
times. Positions are 0, `Early` (up to 5 s) and `Late`, which is what `prev` and the
saves tell apart. The settings answer the requests in the order they were made.

Seen from outside, the saves in the chain and the store are one register for each video:
its newest save, waiting or persisted. `ResumeRegister` says who may write it and what may
reset it ("An unprepared/failed player must not erase its previous progress with zero",
`data/VideoResumeStore.ets:11`), and `ImplementsRegister` that the session keeps to this.
It does not say that the position written is right: a time event of the previous video,
delivered late, is recorded for the video handed over since, which `OnTime` includes.

A stop during a load's await of the settings lets it call `setMedia` on the released
player (`data/PlaybackService.ets:1833` and 1869, against the comment at 1775), and
the session shows an error. The model has this: a load that comes back from its await
and finds the player not `live` fails.

After `stop()` the position stays where it was, so `prev` beyond 5 s seeks a
released player and nothing happens, although the comment at
`data/PlaybackService.ets:931` says that it replays the current item. The model
includes it.

Two more things it includes. A late 'ended' of the previous media records the video
loaded since as completed (1661, against `data/VideoResumeStore.ets:11`), and
`CompletedStays` then speaks of that video. A disc skips the settings and so overtakes
the load before it, which sets its own media afterwards while the queue shows the
disc: the exception `Discs` of `LoadedIsCurrent`.

### QueueOrder
Every operation is one synchronous step. `Math.random` is any choice;
`computeNextIndex` gives up after 200 draws, which in a queue of 200 items happens
in about a third of the rounds and in one of 50 in about one of sixty, so any draw
may fail and `inVain` remembers it. The comments at lines 149 and 1998 promise a
round without repetition without that exception; the properties hold of the rounds
in which no draw failed.

### MediaSession
`loop` is the loop of `updatePlaybackState` and the await it is in; `pending` the
mailbox; `fresh` the 5 s of the throttle. A failed call may have been carried out.
While a pause is being sent, a new 'playing' report may be dropped by the throttle:
the controls then show a pause until the 10 s timer reports again. That is why
`SilenceIsShown` is an invariant and `PlayingIsShown` a liveness property. A load whose
media cannot be made or set writes ERROR without a report
(`data/PlaybackService.ets:1811`, 1872): the controls show what was reported before, until
the timer of an earlier playback, if it is still set, reports the error.

### ContinuousTask
`awaiting` and `requests` are the calls of `startContinuousTask` that wait for the
agent or for the system, and the stops. The system answers an application's
requests in order; which kinds it may refuse is the constant `CanFail`. `odd`
marks behaviours in which it granted a second task, refused a stop, or refused a
start of a task that did not run.
`unstopped` remembers that it refused to stop the task and has granted nothing since.

`stopContinuousTask` clears `continuousTaskActive` before it asks (1582) and only logs a
refusal (1589-1592). A refused stop so leaves a task that runs and that no later stop
asks to end, until another start is granted. No sentence of the source promises
otherwise; `RunningIsKnown` names the case and says that there is no other.

### PlayerRegistry
`players`, `tsfn` and `user` are `g_players`, the entry's threadsafe function (by the
number of its listener) and the handle on the heap the native events point to; `fns`
and `queued` are what the system keeps of each threadsafe function. `gmtx` is the owner
of `g_mtx` between two steps, so a section that only touches the registry is one step
and one that calls libVLC is several. `js` is the native call the JS thread is in,
`handler` the place of `on_player_event`, which holds the lock of the event manager as
long as it is not idle. `holders` counts the references to the native player by owner.
Setters made outside `g_mtx` are one action (`Control`), getters under it another
(`Get`); `SetMedia` is a third, since libVLC ends the old input in it and may emit on
the JS thread. `Hanging` are players whose native stop never returns.

`ReleasesPlaying` is FALSE in the run: `MediaPlayerRelease` detaches the handlers under
`g_mtx` (line 1331), so releasing a player that emits can lock the JS thread out for
good, although `releaseAsync` was made to avoid just that. No page calls `release()`.
With TRUE, TLC finds `NoEmbrace` violated; the theorem assumes FALSE, and what the run
says of the locks is about the calls the pages make.

A handler that copied a threadsafe function and is overtaken by its finalisation
(671) is reached by the model and taken to drop its event; what the system's N-API
does then is not defined by the repository.

### SeekingPlayer
`PlayerRegistry` keeps one bit of a seek worker (told to end, gone), and `SeekWorker` leaves
open when the shutdown comes. Here the two are one system for the player `Watched`: the JS
thread seeks while the player is registered (`SetTime`), the three ways a player ends
signal and join the worker (`Signals`, `Joins`), and the worker's thread ends by its own
loop (`Exits`). A step they take together carries the guard of the component whose code
has it and only the effect of the other: the join waits for the registry's bit, the exit
for the worker's `stopping`. That the guards left out hold is a theorem, not a premise.

### NativeObjects
One action is `loadCurrent`, `stop` or `release` of PlaybackService between two
awaits, with the calls of the wrappers and the bridge they make. `descriptors` is the
process's table of open descriptors, in which a closed number is free for any
new file; `input` is what a native player's input reads, opened by number and later
(`InputOpens`). A stopped player's input may therefore open a number that is another
document's by then; it is silent and torn down, and `LiveReadsItsFile` speaks of the
session's player only. `rdHandler` and `rdCall` are `on_renderer_event` and the call of
the discoverer the JS thread is in.

Remarks. `PlaybackService.release` is modelled with no load under way: with one, the
load finds no player, throws, and its medium stays registered. A renderer that goes
away stays in `g_renderers` until the discoverer is released: on 'deleted' only a
message without a handle is posted (line 2979). A new player made after
a stop does not cast, nor has it the equalizer, while `currentRendererHandle` still
shows the renderer as selected (`data/PlaybackService.ets:1167`).

### Diagnostics
A critical section is two steps, so that a `try_lock` finds it taken. The budget's
window may end at any message and the report may come due at any time. `balance` counts
what `Submit` took less what was accounted for. `OnLibvlcLog` reads the switch before
`Submit` does: a warning that finds the trace switched off in between reaches neither
the trace nor the system log, and the model has no trace of it.

### AudioOutput
`ring`, `readPos`, `writePos`, `totalSize` are the fields of `audio_queue_t`; the
copies of a push and of a drain are split at the end of the ring as the code's are
(`Written`, `Read`). `pc` is where the core's call is: in a renewal of the renderer
between `OH_AudioRenderer_Start` and the assignments after it, about to push,
waiting for room, or between the halves of a flush; callbacks run in all of these.
`renderer` is the system's: `dead` is one that has stopped calling back. The core is
external: it starts, pauses and stops in turn, holds its lock during every call, and
does not play while paused. The calls that stop, pause or flush a renderer are taken
to wait for a callback under way, so a callback is one step.

Three things the model shows and no property forbids: a renderer that dies before
its first callback after a start or a pause is never noticed, as `Play` ignores a
`last_write_time` of 0 (line 2639 of the patch; the third case of `SoundComesBack`);
a resume that the renderer refuses is taken for one that worked (2686); and `Flush`
ignores `wait` (2694), so a flush that should let the queue play out drops it.

## 3. Runs

| run | shows | bounds and why they suffice |
|---|---|---|
| `SeekingPlayer.cfg` | no seek in a player that is stopped or freed, the join returns, seeks are served, refinement of the mailbox | 4 requests over 3 targets: one in flight, one waiting, one replacing it, one after; one player, since others do not share its worker |
| `VideoSurface.cfg` | live window, wish granted, size followed (the types are proved only) | two outs, two overlapping calls of `bindAndPlay` with 3 waits each, 3 windows, 3 generations of each surface: create, rotate, destroy, recreate |
| `PlayerSession.cfg` | agreement, current item, completion, a load plays, refinement of the register | three items, one a disc (loaded without the settings) and one broken, 3 loads, 2 user operations, 2 queued events, 2 queued saves: all pairs of overlapping loads and one after them |
| `QueueOrder.cfg` | play order | up to 4 items: the smallest queue where a round has a middle |
| `MediaSession.cfg` | what the controls show | unbounded: the state is finite |
| `ContinuousTask.cfg` | the task while playing | 4 calls under way, so that two starts and two stops can wait in any order the code allows; both may be refused |
| `AudioOutput.cfg` | order of the samples, flush, wakeup, stall | ring of 4, blocks of 1, 2, 3 and 5 bytes, callbacks for 1 and 2: both copies wrap at every position; the soft target equals the threshold, so the stall is noticed only because blocks are taken over the target |
| `PlayerRegistry.cfg` | locks, life of handles and callbacks, no listener left behind, an ended player is freed (the types are proved only) | two players, one of which hangs in its stop: what one does wrong must not hold up the other; two listeners, so that one replaces the other; one queued event |
| `NativeObjects.cfg` | descriptors, media, discovery | two documents and two descriptor numbers, so that a number is used again; a stream; three media, two players, two overlapping loads, one renderer |
| `Diagnostics.cfg` | no message lost, counts reported | two threads, a queue of 2, a budget of 3: both limits are met, in both orders |
| `PlayerSessionResume.cfg`, `ContinuousTaskSilence.cfg` | disagreements of the code with its comments | as above; three items |

Deadlock is checked except in `PlayerSession`, `PlayerRegistry`, `SeekingPlayer` and
`NativeObjects`, whose behaviours have nothing left to do once their bounded loads, players or media
are used up.

The two runs that end in a violation each check one sentence of the source:
- the position read for one video is applied to another
  (`data/PlaybackService.ets:1891`, against 1890);
- a pause while the background task starts leaves it running (1578, against 1577).

## 4. Fairness

- `SeekingPlayer`: that of `PlayerRegistry`, and the worker thread is scheduled and
  libVLC's seek returns. The UI need not seek.
- `PlayerSession`: settings and stored positions are answered, saves are written,
  a started player plays or fails, queued events are delivered. The user need not
  act; a playing video need not end.
- `QueueOrder`: a media that plays comes to its end.
- `MediaSession`: time passes, the sync timer fires, calls are answered; a call
  repeated for ever succeeds at last (strong fairness: a system that always fails
  can show nothing).
- `AudioOutput`: the core's calls run on, time passes, and in the long run a
  renderer can be made (strong fairness). The core keeps playing blocks that fit over
  the threshold: blocks are milliseconds long, the ring holds minutes.
- `PlayerRegistry`: a native call whose wait is over returns, the JS loop serves its
  queue, the threads are scheduled; a lock that is free again and again is had in the
  end (strong fairness). A hanging player's stop is never enabled. Nothing is assumed
  of the user.
- `Diagnostics`: the threads are scheduled and seconds pass; the worker gets a lock that
  others only try or hold for a step (strong fairness).
- `VideoSurface`, `ContinuousTask` and `NativeObjects` have safety properties only.

## 5. Proofs

The theorems hold for every value of the constants that satisfies the named
assumption of the module. Each has the shape: initial states satisfy an inductive
invariant, every action preserves it (one lemma per action), and it implies the
property.

- `SeekWorkerProofs`: types, `NoDoubleFlush`, `ServedInOrder`,
  `NativePlayerOutlivesCalls`, `NoSeekStartsAfterShutdown` and the refinement of
  `SeekMailbox`. The invariant adds `SlotsFit`, which ties the thread's place to the
  slots (applying exactly when a request is in flight; the player referenced
  until the exit) and bounds all serials by `nextSerial`.
- `VideoSurfaceProofs`: types, `DrawsOnLiveWindow`, `WantedIsShown`,
  `GeometryFollows`. The invariant adds that an entry that knows an out is bound to
  its live window (`EntryFollows`), that the generation of a binding is the present
  one (`BindingIsPresent`), without which a rotation could look like none, and that
  a wanted out is known to the player unless an attempt is under way
  (`WishIsKnown`).
- `PlayerSessionProofs`: types; `CompletedStays`, which needs that a completed video is
  not the active one, so that no later save can name it; `LoadedIsCurrent`, by the
  fact that behind every load that is about to set another item, and behind another
  item that is set, comes a load that will set the current one (`LoadsSettle`);
  the refinement of `ResumeRegister`, by a classification of every step by what it saves
  (`SaveStep`) and two invariants: that every video has a newest save, which each step
  hands on (`NewestExists`; no induction over the chain is needed), and that no queued
  event reports the time 0 (`TimesHavePassed`), so that recording never resets;
  `UiAgreesWithPlayer`, by what the last event in the queue says of the player
  (`EventsFollow`) and, once only times are left in it, what the state shown says
  (`StateFollows`), for a session with no load under way.
- `QueueOrderProofs`: types, `HistoryBounded`, `NothingTwice`, `StopsAfterAll`,
  `PrevUndoesNext`. `StopsAfterAll` needs that all of the history, and the current item,
  have been heard; `PrevUndoesNext` that what next left is at the end of the history,
  or one place back (`PrevFindsIt`).
- `ServiceProofs`, media session: types and `SilenceIsShown`, by the stronger fact that
  the last silence reported is shown, being sent, or in the mailbox.
- `ServiceProofs`, background task: types; `RunningIsKnown`, whatever the system
  refuses, by what an answer leaves of the requests behind it; `TaskWhilePlaying`, by what the last request under way will
  leave (`Expected`).
- `AudioOutputProofs`: types, `NothingStale`, `NoLostWakeup`, `PauseIsNoStall` and
  the refinement of `AudioFifo`. The invariant adds that the ring is tight
  (`writePos` is `totalSize` ahead of `readPos`, modulo the capacity) and that nothing
  is played between the halves of a flush. The refinement follows from two lemmas
  that go through the ways a block or a callback can lie across the end of the
  ring (`CopyInTakes`, `CallbackHands`).
- `PlayerRegistryProofs`: types, `NoDanglingUser`, `NoFunctionLeft`, and `NoEmbrace` if
  `release()` is called on silent players only. The invariant `Linked` ties the threads
  together: who owns `g_mtx` and in which call (`LockOwner`), that a handler has a
  playing player or a call of the JS thread behind it (`HandlerHasCause`), that a
  detached player has none and a released one stays silent (`DetachedIsQuiet`,
  `ReleasedIsSilent`), and that a player being ended is no longer registered
  (`EndedIsUnregistered`).
- `PlayerRegistryProofs`, with the worker: `SeekingPlayer` implements `PlayerRegistry` and
  `SeekWorker`, so that everything proved of each holds in the composition, the mailbox
  included; and `SeeksEndBeforeStop`. The invariant is those of the parts and what they
  know of each other: the registry's bit is what the worker was told and did
  (`WorkerAgrees`), one thread tells and joins it, once (`EndedOnce`), and the references
  counted are the ones held (`ReferencesAgree`). Each step is shown to be a step of both
  parts and to keep the agreement (`Fits`); the invariants of the parts then follow from
  their own lemmas.
- `BridgeProofs`, objects: types, `LiveReadsItsFile`, `NothingLeaks`,
  `DiscoveryNeverEmbraces`. Types
  alone are not inductive: a renderer is filed while a handler is entered, which needs
  that the list is not over (`EnteredFits`). `NothingLeaks` needs that each descriptor in
  the table belongs to the medium that `g_medias` lists with it and to no other
  (`FdsAreOwned`); `LiveReadsItsFile`, that what the session's player has set is a
  medium the session still holds (`OpensMedium`, `PlayerHasMedium`, `MediasAreHeld`) and
  that a load closes only what it opened itself (`LoadsOwn`); `DiscoveryNeverEmbraces`, that a
  discoverer is stopped before it is released under `g_mtx` (`StoppedFirst`).
- `BridgeProofs`, trace: types, `NothingLost`, `OffIsEmpty`. What the worker carries
  out of the queue is written before it looks again, so that between two rounds its
  hands are empty (`HandIsEmpty`).

Proved and in no run: `NoDoubleFlush`, `ServedInOrder`, `NativePlayerOutlivesCalls`,
`NoSeekStartsAfterShutdown`, `HistoryBounded`, `PauseIsNoStall`, and the types of
`SeekWorker`, `VideoSurface`, `MediaSession`, `ContinuousTask` and `PlayerRegistry`, and that
`SeekingPlayer` implements its two parts.

Every invariant that a run checks is proved, and so are the three refinements. Only
model-checked is all liveness (`AcceptedIsServed`, `LoadPlays`,
`PlaybackEnds`, `PlayingIsShown`, `SoundComesBack`, `JsReturns`, `EndedIsFreed`,
`OmissionsAreReported`), which is beyond the prover.

## 6. Not modelled

- In `PlayerSession`: audio queues, shuffle (its order is `QueueOrder`'s), incognito
  mode, seeking and speed, a player that cannot be created, `release()` (no page
  calls it) and the fallback queue of `bindAndPlay` (no caller passes one).
- In `QueueOrder`: the settings that stop playback after the current item.
- In `VideoSurface`: the window that a torn-down player holds until its background
  thread has released it, while the next player may already draw on it
  (`cpp/vlc_napi.cpp:1713`); ids other than the page's fixed ones.
- In `MediaSession`: metadata with its versions and pixel maps, and `release()`. A
  newer metadata call releases the pixel map an older one may still be sending
  (`data/MediaSessionManager.ets:126`); what the system does with it is not known here.
- In `NativeObjects`: media lists, media discoverers and parsing, which no page uses.
- In `Diagnostics`: the end of the process and the switch of FFmpeg's own callback.
- In `AudioOutput`: volume, mute, formats, the delay that `TimeGet` reports.
- Audio focus, calls, headset: flags read before an await and used after it
  (`data/PlaybackService.ets:1392`, 1432). Two hints at once lose the original volume,
  and a RESUME or the end of a call starts what the user paused meanwhile. No sentence
  of the source promises otherwise, so there is nothing to refute, and what holds of
  one hint at a time restates its guards.
- Metered network: one check with two awaits (1600); the same holds of it.
- Tracks, equalizer: forwarding of getters and setters to libVLC.
- Histories and library: records read, changed and written across awaits. `refresh` and
  `record` of `data/PlaybackHistory.ets` (41), the list and the index that
  `PlaybackQueueHistory.ets` writes one after the other (33) and the bookmarks of
  `MediaLibrary.ets` (609) can overlap, and the later write wins; no sentence promises
  otherwise, and the storage itself is not in the repository.
- `bindAndPlay` loads and plays after its attempts even when the page has been left
  meanwhile (814): the session module has the load, not the page.
- `VideoRefreshPolicy`: a pure function in floating point.
- Settings, pages, ability: no protocol of their own. The other native patches change VLC
  and FFmpeg inside protocols whose code is not in the repository; the build scripts
  are sequential.

## 7. State of the plan

Done, in the order of importance: seek worker, session, queue order, media session,
background task, surfaces, audio output, registry of players and its composition with
the seek worker, media and renderers, playback trace; and the proofs above, which cover every invariant checked.

What would come next:

1. An abstract session (the item asked for, the item played, the state shown) that
   `PlayerSession` implements, beside the register of its positions.
2. Audio focus, once it is decided what two overlapping hints should do.
3. The decoder's bounded output queue and its wakeups
   (`ohos_vlc/patches/0015-ffmpeg-ohcodec-bounded-output-queue.patch`, 0019), with
   FFmpeg's decoder threads as the environment.
