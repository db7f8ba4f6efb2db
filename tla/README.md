# General MIDI Boop: TLA+ models and proofs

General MIDI Boop is a Node.js server that plays MIDI files on a set of physical
instruments (USB, serial, Bluetooth, RTP-MIDI), adapts them to what each instrument
can do, and turns audio into MIDI files. This directory holds TLA+ models of
the parts in which order, time and failure matter, the TLC configurations that check
them, and TLAPS proofs about most of them.

All source paths are relative to the repository and the line of code each
definition stands for is in `PROJECT.json` under `map`.

## 1. Inventory

The server is one Node process: one event loop, many callbacks. Its concurrency is
that of suspended `async` handlers, timers (`setTimeout`, `setInterval`,
`setImmediate`), sockets that drain when they like, and external processes.

| Component | State | Operations | Interacts with | Hard behaviour | Module |
|---|---|---|---|---|---|
| Player, control plane (`midi/playback/MidiPlayer.js`, `PlaybackControlCommands.js`, `PlaylistCommands.js`, `PlaybackStateMachine.js`) | flags `playing`, `paused`, `_advancing`, `_fileEndPending`, queue and index, `_playToken`, gap timer, snapshot, last status | playback and playlist commands, end of file, gap timer | scheduler, MIDI clock, snapshot, clients | commands that interleave with a suspended advance, stale timers, failed loads | `PlaybackControl` |
| Player, timeline (`MidiPlayer.js`, `PlaybackScheduler.js`) | `startTime`, `position`, `playbackRate`, cursor in the event list, armed send timers | tick, pause, resume, seek, tempo change, file end | event loop lag, devices | events lost or sent twice, late ticks, rate changes | `PlaybackTimeline` |
| Voice gating (`PlaybackScheduler.js`, `adaptation/NoteEnforcement.js`) | active and dropped notes, strike times, deferred note-offs | note on, note off, mute, panic | instrument capabilities | pairing of note-offs with the note-ons that were really sent | `VoiceTracking` |
| Split routing of the player (`MidiPlayer.getOutputForChannel` and the strategies behind it) | routing of a channel, turn counters, loads, queues of decisions | note on, note off, set and clear routing, pause, seek | scheduler, devices | a note-off to the device of its note-on, decided ahead of sending | `PlayerRouting` |
| MIDI clock (`MidiClockGenerator.js`) | enabled, running, paused, tick timer, latency buckets, delayed messages | start, pause, resume, stop, locate, enable, tick | player, slaves | messages delayed per device, latencies that change | `MidiClock`, `PlaybackControl` |
| Snapshot (`PlaybackSnapshot.js`) | frozen settings of the instruments | capture, release | settings events | changes deferred until the stop | `PlaybackControl` |
| Transcription jobs (`transcription/TranscriptionJobManager.js`, `AudioTranscriptionService.js`) | jobs, queue, running set, abort controllers, timers, results | create, cancel, delete, destroy, timeout | FFmpeg, engines, file library, clients | hanging engines, late aborts, bounded memory | `JobLifecycle`, `TranscriptionJobs` |
| File library (`files/FileManager.js`, `BlobStore.js`, `persistence/busyRetry.js`) | table `midi_files`, blobs named by their content | upload, save, bake, replace, derive, delete, collect orphans | disk, SQLite, backups | retries on a locked database, stale rows after an await, crashes between disk and table | `FileLibrary` |
| Assignments (`PlaybackAssignmentCommands.js`, `files/FileWriteLock.js`) | bytes and routings of a file and of its adapted copy, lock chains, version tokens | apply, edit | file library, repositories, baker | waiters that give up, checks on what was read before a wait | `ApplyAssignments` |
| WebSocket output (`api/WsOutputQueue.js`, `api/WebSocketServer.js`) | FIFO, latest-value slots, set of clients | broadcast, flush, connect, leave, close | sockets | overflow policy, reordering, backpressure | `WsOutput` |
| Uploads (`files/UploadQueue.js`) | a promise chain, a byte budget | add | file library | none: its only task never awaits | none |
| Live routing (`midi/routing/`) | routes, filters, delayed sends | route a message | devices, players | latency-compensated sends | none |
| Network sessions (`transports/NetworkManager.js`, `RtpMidiSession.js`) | sessions and connected instruments by address, state of each session, its timers | connect, disconnect, shut down, answer a peer | peers over UDP, device manager | lost, late and repeated datagrams, timeouts, several connects of one address | `NetworkSessions` |
| Devices and other transports (`midi/devices/`, `transports/`) | open ports | scan, connect, send | hardware | hot-plug, reconnect | none |
| Adaptation planners (`midi/adaptation/`) | none, or caches | assign, transpose, plan hands | repositories | heuristics over large tables | none |
| Sound fonts, persistence, repositories | SQLite, caches | CRUD, convert | disk | left to SQLite | none |
| Lighting, calibration, system, core | device handles, configuration | I/O | hardware | I/O | none |
| Front end (`public/`) | views | user interface | server | rendering | none |

What makes each of the modelled components correct:

* control plane: a stop is final for all it can reach; at most one advance may start a file, and it is the
  one the queue points at; scheduler interval, MIDI clock and status agree with the flags;
* timeline: every event is sent once, in order and in time, whatever pauses, seeks and
  rate changes happen, and the end of the file cuts nothing;
* voice gating: no note stays on, the polyphony holds, a strike lasts as long as the actuator
  needs;
* split routing: a note-off reaches the instrument that plays its note, and what the
  strategies remember of a note ends with it;
* MIDI clock: one chain of ticks; every slave stands, runs and is where the clock is, once
  what is on its way to it has arrived;
* transcription jobs: every job ends, once, with the status its history justifies; slots are
  not lost; memory is bounded;
* file library: every row has its bytes on disk under its own hash, through failures and crashes, and
  through collections but one; what no row uses is collected or accounted for; an answered save is stored;
* assignments: two applies never interleave between their reads and writes, and none overwrites
  unseen what its token covers;
* network sessions: the registry, the list and the events of an address agree and lead to sessions
  that live; a connect comes back; no session outlives its timers;
* WebSocket output: a stale value never follows a newer one, and a browser that keeps up
  misses nothing but what the overflow policy gave up.

## 2. Modules

| Module | Role |
|---|---|
| `PlaybackControl` | control plane of the player: one action per command, timer or continuation |
| `PlaybackControlProofs` | its inductive invariant and seven theorems |
| `PlaybackTimeline` | song time, dispatch and armed timers |
| `PlaybackTimelineProofs` | its inductive invariant and six theorems |
| `VoiceTracking` | one channel of one instrument |
| `VoiceTrackingProofs` | its inductive invariant and six theorems |
| `PlayerRouting` | one channel of the file, split over instruments |
| `MidiClock` | the clock generator, its player and the slaves behind their latencies |
| `MidiClockProofs` | its inductive invariants and three theorems |
| `JobLifecycle` | abstract specification: what the job manager promises |
| `TranscriptionJobs` | the job manager and its pipeline; implements `JobLifecycle` |
| `TranscriptionJobsProofs` | its inductive invariant, six theorems, the refinement among them |
| `FileLibrary` | rows and blobs of the MIDI files |
| `FileLibraryProofs` | isolation of commands that do not meet, and four theorems |
| `ApplyAssignments` | the apply command, its lock and its version token, and an editor without either |
| `RoutingProofs` | `ApplyAssignments` and `PlayerRouting`, who writes routings and who plays by them: their inductive invariants and six theorems |
| `WsOutput` | the broadcast queue and the clients of the server |
| `NetworkSessions` | the RTP-MIDI sessions of one address, their manager and a peer |
| `ConnectionProofs` | `NetworkSessions` and `WsOutput`, the two ends of the box: their inductive invariants and seven theorems |
| `MC*` | instances for TLC |

The modules of a proof module of two components have no name in common, hence the prefixes of
`RoutingSpec` and `WsSpec`.

### PlaybackControl

An action is one handler up to its `await`. The player is one record, `player`, whose
fields carry the names of the code (`fsm`, `loaded`, `queue`, `queueIndex`,
`fileEndPending`, ...), and a method of `MidiPlayer` is a function of that record, or to the
set of records it may leave when a load can fail, a shuffle can choose or a send can hit a
lost device.

* `loadFile` is `async` without an `await` of its own, so the file is swapped at once and
  the rest of the caller is a microtask. `player.calls` is that microtask queue:
  `advance` (the rest of `playQueueItem`), `start` (the rest of `playback_start`),
  `settle` (the `catch`/`finally` of `_handleFileEnd`). `Continue` runs its head.
* Commands that came in one socket read are handled before the microtasks of the first
  one, hence a command may come while `calls` is not empty; once microtasks are being run
  (`draining`) no command and no timer gets in between.
* `current` in a suspended advance is `myToken === this._playToken`; `BumpToken` clears it,
  so the token counter itself needs no bound.
* Positions are reduced to whether the first pass of a `start` or `resume` already lies past
  the end.
* `halted` is a history variable: the last transport order was a stop, and whether that stop was one that
  a lost gap timer survives (`leaking`).

`_startGapDelay` does not clear the timer it replaces (`MidiPlayer.js:3047`). `playback_start` in a gap leaves the
gap's timer pending, and when its file ends and the queue is still set a second one takes the handle.
`gapTimer` is the timer that the handle names, `lostGaps` counts those that nothing can clear any more; each
fires in its turn (`LostGapFires`) and plays the next item. `NoResurrection` promises nothing of a stop that
meets such a timer and leaves a queue to it; it holds of all others, `playlist_stop`, which clears the queue, included.
Of the countdown interval, which only announces the seconds left and which leaks likewise, there is nothing in the model.

A command's advance whose load fails rejects before line 3104 clears `_advancing`. Nothing else clears it before
the next stop or advance, and the player it silenced stays as it is: the clock runs, clients were last told that it plays, and
no advance is in flight. `stranded` is a history field for exactly this, set by the failing load and
cleared by the next start, stop or advance. `AdvanceUnderWay` does not look at `_advancing` at all: it asks
whether an advance is really suspended, or failed and yet to be heard of by the end-of-file handler that
stops the player then. `ClockFollowsPlayer` and `StatusIsCurrent` except these two states, by name, and no other.

`PlaybackStart` has no failing load: a load that throws leaves the player as it was and
is a stuttering step. The device check of `start()` is the choice in `AdvanceContinues` and
`StartContinues`.

The handler of a failed advance stops the player without asking whether a newer command has
started something since (`MidiPlayer.js:3233`); the model has that step, so a stale failure may
silence a newer playback. No document forbids it and no property is about it.

### PlaybackTimeline

One unit of time is `EMIT_AHEAD_MS`. `anchor` is the position the code computes from
`performance.now()`, `startTime` and `playbackRate`; `position` is the field, which only
ticks, pauses and seeks refresh. `armed` are the one-shot timers, with due times relative
to now in grains of a unit, so that every rate of the run divides it. `Elapse` lets a
unit pass; a timer runs at most `Lag` units late, and in order of expiry, as
Node does. A pass (`Dispatch`) takes the events of the look-ahead window, sends those that are
near and arms the rest. `FileEnd` stops or loops. `PausePolicy` lets any send find its device
lost and pause the player, within a pass (which the code then goes on with) or from a timer.

History fields say what the properties need: sends per event (`sent`), events the rewind of a
resume deliberately steps over (`forgiven`), sends cancelled by an end of file (`cut`),
whether rate changes or pauses in mid-pass disturbed the timers (`disturbed`).

### VoiceTracking

One channel on one device. The file is any legal sequence of paired note-ons and
note-offs (`held`). `voices` are the scheduler's maps, `releases` its deferred note-offs
(`current` is the instance id still matching), `sounding` and `struck` the instrument.
`NoteOnPlays` includes the eviction of the median voice and the release it causes. The
code keeps two clocks, song time for the gate and wall time for deferrals; the model
has rate 1, where they agree. Ages stop counting at the largest limit.
`StrikeLasts` leaves out the two steps that silence the whole channel, `Mute` and `PauseOrSeek`, and no
note-off, eviction or deferral, whether other pitches sound or not.

### PlayerRouting

A channel that is split over instruments whose ranges overlap: `routing` is its entry of
`channelRouting`, a strategy and its outputs; `split` are the maps the strategies keep
(`_overlapCounters`, `_alternateCounters`, `_segmentNoteCounts`, `_overlapNoteAssign`). `Choice` and
`Chosen` are the decision on a note-on and what it leaves in the maps, `NoteOffChoice` and `Released`
those on a note-off (`_popSegmentAssignment`). Every note lies in all the ranges; one that
lies in a single range is routed as by a split of one segment.

The decision is made when the scheduler takes the event, the event is sent when its timer
fires: `queue` holds what is armed, with the output chosen. A pause cancels it and the cursor is
rewound, so the events come once more (`again`) and are decided a second time on maps that still
hold the first decision. New routings keep the maps as well. `excuses` records which of
these came between a decision and its use since the maps were last reset:
`rescheduled` (a pause cancelled armed events), `rerouted` (new routings met armed events, or
did not silence the old outputs), `carried` (new routings met maps that hold decisions). The
passing properties hold while there is no excuse; `ShareHolds` also leaves out a split that names one
instrument twice, whose overflow comes back to it; `RerouteStrandsNothing`, which TLC refutes,
shows what a `carried` decision does to a later note.

### MidiClock

`MidiPlayer` calls the generator from its transport (`player` is the little of it these
calls depend on); `clock` are `_enabled`, `_running`, `_paused` and the number of tick timers
armed. The code groups slaves by how much faster than the slowest one they are and holds a
message back by the difference: `delay` is that difference per slave, `wire.queue` the timers
it has in flight, `wire.slave` a slave that obeys MIDI 1.0 (start, stop, continue, clock, and
song position while stopped). Stopping the tick timer cancels every delayed message, and the
buckets change when settings do (`Resettle`) or at a start.

`song` counts ticks. `wire.overtaken` and `wire.cut` are history: slaves that a change of
latencies let a message overtake another for, and slaves that lost a tick or a locate to a
cancellation since they were last located. `toggled` is history as well: the switch was off
since the player last started the clock.

### TranscriptionJobs and JobLifecycle

A job is its creation number. `jobs` is the map of the code, with what closures keep of a
job after it was forgotten; `work` is where the promise chain of `_start` stands;
`queue`, `running`, `draining` (a pending `setImmediate`) and `destroyed` are the fields.
`told` is a history variable: the terminal events emitted per job. The stages
`postprocessing` and `generating_midi` begin and end in one synchronous block and are merged
with their neighbour. A job that is created with `autoImportToLibrary` off, which skips the
import, is not modelled.

`JobLifecycle` knows only the phase of each job. `TranscriptionJobs` implements it
under the refinement mapping `Phase`, which is both checked and proved as `KeepsLifecycle`.

### FileLibrary

A content stands for its bytes, their hash and the path of their blob, which the code derives
from one another. `rows` is the table (`hash`, `blob` and `parent` are `content_hash`,
`blob_path` and `parent_file_id`), `cmd` the command each worker has suspended, at one of
three awaits: the bake (`baking`), the pause after `SQLITE_BUSY` (`retry`) and the end of the
transaction (`cleanup`). What runs to the end without an await (`handleUpload`, `deleteFile`,
`gcOrphans`, the first attempt of a write) is one step. A locked database is a choice of
every attempt. Commands that came in one socket read run their microtasks in turn, so
another command may run at `cleanup` as well.

`overlap` is a history variable: a command touched a file or a blob that another one in flight
holds. The library has no lock against this (`FileWriteLock` serves `apply_assignments`
only), and what goes wrong then is the subject of `FileLibraryOldBlob`. Without an overlap any
interleaving of commands is safe, and that is what the passing properties say: isolation by
disjointness, with failures and crashes at every step. `leaked` names the
orphans the code accepts: those of a crash, of a failed bake, replacement or copy, and
of the adapted copies a deletion cascades to.

A collection of orphans may run at every step as well, and it is no overlap when it meets a write that waits for the locked database.
The blob of that write has no row yet, so it goes, and the row is then committed without its bytes. `swept` names
what was lost in this way, until the same bytes are written again. `RowsAreWhole` says that it is the only
loss, and `CollectionsAreQuiet`, that there is none, is refuted.

### ApplyAssignments

`apply_assignments` takes a snapshot of what it is going to write over (`Token`), waits its turn in
`FileWriteLock`, refuses if the snapshot has drifted, and writes bytes and routings with up to three
awaits in between: the retry on a locked database, the end of the transaction, the bake of hand
positions. The lock is a promise chain per file: `ahead[c]` are the tickets that `c`'s
`previous` waits for. A waiter that gives up (`Expire`) enters without the lock, and its ticket
still holds back those behind it. `Edit` is a save of the editor, which takes no lock.

The bytes of a file are the set of transformations they contain, so that contents are equal
exactly when their hashes are. The active automatic routings of a file are a record of two parts: `print`, the columns
that `routingFingerprint` reads (channels, device, transposition, split, note remapping), and `rest`, those that an apply deletes and
inserts with them and that are not in the fingerprint (overlap strategy, behaviour mode, instrument name, hand
positions). `Token` holds the two hashes and the `print` of one file's rows, so applies that differ in the `rest` alone have equal tokens, as in the code.

An adapted copy whose bytes are in the library already, in a third file, is not created: `createDerivedFile` answers
`duplicate` and the apply writes its routings to that file (`TakeTwin`), outside lock and token. `Unique` is the
constraint on `content_hash` that makes every other write of these bytes fail.

`blind` is history: what an apply overwrote without having seen it. `slipped` marks
the applies that had another writer inside their section, which only an expired wait or the
editor can bring about; the code takes that risk knowingly. `NoBlindOverwrite` says that no other way loses bytes, or
fingerprinted columns of the rows whose file the token names. `uncovered` is all that an apply loses of the other rows and
columns, the subject of `NoRoutingsLost`, which TLC refutes.

### WsOutput

An event is the number of its broadcast. `Broadcast` is `enqueue` or `enqueueLatest`: a value of
a coalescable kind replaces the one waiting in its slot; any other event is queued, and if the queue
is at its depth, which shrinks while the event loop lags, the oldest informational event goes, or the
oldest one. `Flush` sends the slots and then the queue. Nothing drains a socket within a flush, and
a socket that is over its watermark stays over it, so that what a slow client takes of a flush is a
beginning of it, cut at any place. Clients come, hang up and are removed when their socket says
so; `Close` drops what is queued and ends the sockets, while the server still accepts
connections for half a second, in the model for ever, which shows more. Not modelled: frames that cannot be encoded, and direct
replies to a client, which do not pass through the queue.

An informational event that comes when the queue holds critical events alone displaces the oldest
critical one, although the comment on `INFORMATIONAL_EVENTS` has the informational ones dropped
first; the newcomer is not among the candidates. `KeptInStep` counts that event among the sacrificed.

### NetworkSessions

One address: `NetworkManager` keys everything by it, so that addresses meet in nothing but the sockets.
`reg` is its entry of `rtpSessions`, `device` the session in its entry of `connectedDevices`, `told` the
last event that `DeviceManager` heard, `sess` the session objects, closed ones included, and `call` the
commands suspended in `connect`: in the probe, or in the handshake of the session they created.

Code between two events of the loop is one action. `Close` includes the manager's handler of
`disconnected`, which clears the entries of the address for whichever session closed. `Establish` is
`_establish` with what listens to it. `Reachable` goes from the end of the probe to the first invitation:
binding the sockets is in it, since Node binds a literal address without returning to the loop.

A datagram of ours that may be answered is in `sent`. The peer may answer at any time, any number of times
or never, which covers loss, delay and repetition in both directions, and an answer goes to the session
registered when it arrives. It rules on a control invitation once, although it may repeat that ruling. It may
invite, say BY and give signs of life without being asked; with `EarlyEnd` also BY during a handshake.

Time is left out but for two comparisons. `connect`'s own timeout of 10 s is behind the session's at 8 s, so
`Backstop` meets only sessions that another action closed. `rx` says whether the last packet came
after the watchdog last ran, at that very millisecond or before it, which is all its comparison depends on; a tie
occurs at the establishment and after any packet.
`accepted` is history.

## 3. Runs

| Run | Properties | Bounds |
|---|---|---|
| `PlaybackControl` | `NoResurrection`, `OneCurrentAdvance`, `AdvancePlaysItsFile`, `ClockFollowsPlayer`, `SchedulerFollowsPlayer`, `StatusIsCurrent`, `MicrotasksDrain` | a file with events and an empty one, playlists with and without gap and loop, two handlers suspended at a time, `playback_start` with no gap timer lost (`MaxLostGaps` 1) |
| `PlaybackTimeline` | `NothingSkipped`, `NothingCutAtEnd`, `SentOnce`, `InOrder`, `OnTime` | five events: two close to each other, two on a device whose compensation exceeds the look-ahead, one on the last instant and outside the first look-ahead; two rates, two look-aheads, one unit of lag |
| `VoiceTracking` | `NoStuckNote`, `SoundingIsAccounted`, `PolyphonyHolds`, `StrikeLasts` | three pitches, two voices, at most three notes held |
| `PlayerRouting` | `NothingLeftBehind`, `ShareHolds` | two pitches, a split over two instruments under each strategy, a third instrument for an unsplit routing; two notes held, two events armed, two decisions kept per pitch |
| `MidiClock` | `TicksFollowPlayer`, `SlavesRunWithTheClock`, `SlavesShareThePosition`, `StopReachesSlaves` | one slave whose latency changes by up to two units, two ticks of song, two messages in flight when the next tick or locate comes |
| `TranscriptionJobs` | `SlotsAreWork`, `AnnouncedOnce`, `CompleteIsHonest`, `MemoryIsBounded`, `EveryJobEnds`, `KeepsLifecycle` | four jobs, one slot, two places in the queue, three jobs and one result kept |
| `FileLibrary` | `RowsAreWhole`, `OrphansAreExplained`, `AnsweredIsStored` | two commands in flight, three files, three contents and an unparsable one, two attempts; workers are symmetric, states past an overlap are not explored |
| `ApplyAssignments` | `SectionIsExclusive`, `NoBlindOverwrite` | three applies, each of any of four plans, of which two differ outside the fingerprint only; an adapted copy or none, a third file that may hold what an apply is going to make; one save of the editor |
| `NetworkSessions` | `RegistryIsSound`, `ListIsSound`, `EveryConnectSettles`, `LostSessionsEnd`, `ListedIsHeard` | two callers of connect, three sessions, BY at any time |
| `WsOutput` | `NothingStale`, `KeptInStep` | two browsers of which one may be connected, two coalescable kinds, a queue of three and of one under lag, four broadcasts |

The runs have between ten thousand and three million distinct states and take from seconds to two
minutes each. Why these bounds are enough to be interesting:

* one lost gap timer is enough to outlive a stop; `MaxLostGaps` bounds the `playback_start` that loses the next one,
  and not the ends of files, so a second timer may be lost all the same;
* two suspended handlers are what a stale continuation needs to meet a newer one; a third
  adds only another stale one. The empty file makes an advance end in the pass that
  starts it, which is how an advance nests in an end of file. The theorems of section 5
  hold for any number of handlers, files and playlists;
* the look-ahead of the timeline spans several events, so timers are armed when a pause or a
  seek comes, and two look-aheads let a window end before the previous one's;
* three pitches are the fewest with a median between two others, and three held notes
  exceed two voices by one, so evictions, refusals and re-strikes all occur, several in a row;
* two pitches on two instruments let every strategy choose either of them, and two held notes
  exceed the share of one; the third output makes a routing change leave the split and come back;
* the generator keeps nothing that lets the messages of one slave depend on those of
  another, so one slave is enough; its latency changes at any time, between any two messages;
* four jobs exceed the cap of three, one slot leaves two waiting. Several slots are
  covered by the proofs, which hold for any number of jobs, slots and results;
* three contents let one command move a file from one content to another while a second one
  works on the third; two attempts have both a pause and a last try, the code has four. The
  constraint of the run (`Isolated`) cuts only states in which the three invariants hold
  by their premise;
* of three applies one holds the lock, one waits and one gives up, in front of the
  waiter or behind it; the editor, an absent or present copy and a third file with the bytes of an adapted one complete the picture;
* a queue of three is filled by discrete events and drained by lag, and one connection after
  another is what a client needs to meet what was queued before it came. Clients do not interact but
  through the limit on their number;
* three sessions are one that is lost, one that takes its place and one that the peer opens afterwards.
  That one connect at a time loses none is proved, for any number of sessions. Sessions are never
  reused, as the objects of the code are not, so a behaviour ends when they are used up: `Room` keeps one for every
  call under way, so that no connect waits for ever for want of an object.

The deadlock check is on for `FileLibrary`. It is off elsewhere because the system really
may stop: clients and files have no duty to act, the timeline stops when nothing is
armed and nothing plays, and jobs, applies, broadcasts, sessions and ticks are bounded in number.

### Runs that are meant to fail

Each states what a comment or a test of the repository says and shows a behaviour of
the code that contradicts it. `PROJECT.json` quotes the lines.

| Run | What it shows |
|---|---|
| `FileLibraryOldBlob` | after the await of its transaction `saveFile` deletes the old blob, which another row, or the same file saved again, may use by then |
| `NetworkSessionsTwoCalls` | a connect whose session a later connect closed fails at its 10 s timeout and unregisters the session of the later one, which is listed, established and out of reach |

Other disagreements of the same kind were found on the way. Their definitions are kept in the modules;
to see TLC refute one, put it in the place of the properties of the module's cfg:

| Definition | What it shows |
|---|---|
| `PlaybackTimeline!ResumesWherePaused` | a tempo change during a pause moves the position at which playback resumes |
| `PlaybackTimeline!ResumeLosesNothing` | an armed event due within `EMIT_AHEAD_MS` of the pause is cancelled and not replayed |
| `PlaybackTimeline!NeverQueuedLate` | the window counts a device's compensation in song time and the send deducts it in wall time: above notated speed an event of a device compensated by more than the look-ahead is taken from the list when it should have left |
| `VoiceTracking!MuteLeavesNoStuckNote` | a mute leaves the record of a dropped note-on behind; after the unmute it swallows the note-off of a note that sounds |
| `TranscriptionJobs!TimeoutIsFailure` | a job that times out during its import is announced as cancelled |
| `TranscriptionJobs!CancelIsCancellation` | a cancelled job whose timer fires before it unwinds is announced as failed |
| `PlayerRouting!RerouteStrandsNothing` | a routing change under a held note leaves the decision on that note in the queue of its pitch (`MidiPlayer.js:2528`); back on a split, every later note-off of the pitch takes the decision of the note before it, and a note may sound on, although the comment at line 2514 says that held notes are released first, "else in-flight notes strand" |
| `PlaybackControl!EveryStopIsFinal` | a gap timer whose handle a later gap overwrote survives `playback_stop` and plays the next item of the queue; the token is there so that an advance "does not restart playback the user asked to stop" (`MidiPlayer.js:214`), but the lost timer's callback starts an advance of its own |
| `PlaybackControl!AdvancingIsBrief` | after a command's advance whose load fails, `_advancing` stays set with no advance in flight, and clock and status with it, though it is for the time in which "`playing` is briefly false during the advance" (`MidiPlayer.js:215`) |
| `FileLibrary!CollectionsAreQuiet` | a collection takes the blob of a write that waits for the locked database, whose row is then committed without bytes; the collection, says `BackupScheduler.js:102`, "never contends with live uploads" |
| `ApplyAssignments!NoRoutingsLost` | the token is said to cover "everything one `apply_assignments` may overwrite" (`PlaybackAssignmentCommands.js:180-183`) and covers neither the columns left out of the fingerprint, nor the routings of the original beside an adapted copy, nor those of a third file with the adapted bytes: of two applies, the second replaces what the first wrote there unseen and both report success |
| `NetworkSessions!AcceptedBoth` | an OK to the invitation of an earlier session advances the handshake of the next one (`RtpMidiSession.js:143` compares no token), which is established without the peer's consent; its doc, line 81, says "once the peer accepts BOTH" |
| `NetworkSessions!HangupIsTold` | a reconnect, or the end of a session the peer had opened, sends no BY, so the peer goes on with a session that ended, the half-open session the comment at `NetworkManager.js:486` means to repair |

The passing properties state what is true around these: `NothingSkipped` names the events
the rewind of a resume steps over, `InOrder` speaks of compensated devices at notated speed
only (at a faster one two events of such a device can change places: one waits for its timer
when the next, at its later pass, is already within `EMIT_AHEAD_MS`), the properties of `VoiceTracking` hold until a
mute (`tampered`) and again after the next reset, those of `PlayerRouting` until an excuse and
again after the next seek.

## 4. Fairness

* `PlaybackControl`: weak fairness of `Continue` alone, that is, Node runs the microtasks it
  has queued before anything else. No fairness for commands, timers or the end of files.
* `MidiClock`: weak fairness of `Elapse` and of `Fire(d)`: time passes while a message is held back,
  and Node runs a timer that is due. None for ticks and commands.
* `TranscriptionJobs`: weak fairness of the drain, the wall-clock timer, the unwinding of an
  aborted job, the import and the steps that settle a job. FFmpeg and the engine get none:
  left alone they may hang for ever, which is what the timer is for. `EveryJobEnds` is
  stated for a manager that is not destroyed: a shutdown drops the queue.
* `NetworkSessions`: weak fairness of the end of a probe, which its own timeout bounds, and of each timer: `Backstop`,
  `HandshakeTimeout`, `EstablishTimeout`, `Watchdog`. The peer owes nothing, and nobody has to call.

The other modules have no fairness: their properties are safety and need none.

## 5. What is proved

All theorems hold for every value of the constants, from the assumptions stated with them
(`*Assumption`) alone.

### PlaybackControlProofs

| Theorem | Property |
|---|---|
| `TypeCorrect` | `TypeOK`, in particular the queue index never leaves the queue |
| `SchedulerFollows` | `SchedulerFollowsPlayer` |
| `ClockFollows` | `ClockFollowsPlayer` |
| `StatusIsTold` | `StatusIsCurrent` |
| `AdvanceIsExclusive` | `OneCurrentAdvance` |
| `StopIsFinal` | `NoResurrection` |
| `AdvanceIsFaithful` | `AdvancePlaysItsFile` |

None of these is inductive alone. The invariant is `Inv`, a conjunction of predicates on the
record of the player:

* `Typed`: the types;
* `FlagsAgree`: the scheduler's interval, the snapshot and the state machine against the flags;
* `ClockIsEnabled` and `ClockAgrees`: a clock is up only if enabled, and only under a player
  that plays or has `_advancing` set. The first is needed because `start()` restarts the clock only
  when it is enabled: without it a paused clock could survive into a running player;
* `NeverStarted`: a player that never had an output device holds neither a snapshot nor a
  transport to be stopped;
* `AdvanceIsUnique`: at most one suspended advance is current, and then `advancing` is set;
* `Told`: while `_advancing` is not set, the status told is the status.

`ClockFollows` and `StatusIsTold` need more than that flag, since it outlives an advance that failed. `Half` is a
player that is silent while its clock runs or its status is untold, and `Whole` says that such a player is in
the hands of an advance that is really under way, or stranded. A method either leaves a whole player as it is
(`WholeFrame`), leaves an advance behind that is current (`CurrentIsWhole`), or ends with a stop or a
start (`QuietIsWhole`). The steps that matter are the failed loads (`RejectedWhole`): one that was
superseded changes nothing, any other strands the player or stops it.

`StopIsFinal` needs `HaltedIsDead`: while the last order was a stop that nothing escaped, nothing
is left that could start a file: not playing, no gap timer, no lost one with a queue to advance (`Leaks`), no advance under way or
current, no `playback_start` suspended. A handler suspended by the stopped playback may
still run, and the proof shows that it leaves such a player alone.

`AdvanceIsFaithful` needs `Faithful`, which speaks of every advance that holds the current token and
not only of the last of them: it has loaded what the queue points at, unless a `playback_start`
suspended after it swapped the file. It is inductive because every method that moves the queue
claims an advance of its own or, as a stop does, leaves none current, and every other
method leaves suspended calls, queue, index and loaded file alone.

The proofs are laid out as the code is: one lemma per method of the player says that the
method preserves each part of the invariant, one step per action of `Next` combines
them, and the theorems follow with PTL.

### PlaybackTimelineProofs

| Theorem | Property |
|---|---|
| `TypeCorrect` | `TypeOK` |
| `NothingIsSkipped` | `NothingSkipped` |
| `NothingIsCutAtEnd` | `NothingCutAtEnd` |
| `SentOnlyOnce` | `SentOnce` |
| `OrderIsKept` | `InOrder` |
| `SendsAreOnTime` | `OnTime` |

For any sorted file, compensations, rates, seek targets and look-aheads, provided that
the shortest look-ahead spans, at any speed, a tick, `EMIT_AHEAD_MS` and the lag of the event loop
(`WindowAssumption`). The invariant `Inv` is a property of one player, `Sound`, because a
handler is a function of the player:

* `Timers`: until a device is lost, nothing is armed unless the player runs, and every timer
  carries exactly the song time that is left to its event, in wall time, less the compensation;
* `Beyond`: what the cursor of a running player has not passed is out of reach until
  the next tick. This is what `WindowAssumption` buys: an event taken by a later pass can be
  neither late nor already sent, and the end of the file finds nothing armed;
* `Accounted`: what the cursor passed was sent, waits in a timer, is stepped over by a rewind or, during a
  pause, lies after the position, less the lag, where the resume finds it;
* `Kept`, `Once` and `Ordered`: the position of a pause, single sends and the order of one
  device, in terms of what is taken and what is to come.

Every handler that plays runs a pass, so `Entry` says what a player satisfies when it enters one:
`StartEntry`, `ResumeEntry` and `TickEntry` establish it, `PassSound` leads from it back to `Sound` and
bounds the time of each send. The largest compensation exists because the file is finite; `LeastNat` obtains least
elements from the well-foundedness of the naturals, without an induction.

### MidiClockProofs

| Theorem | Property |
|---|---|
| `TicksFollow` | `TicksFollowPlayer` |
| `SlavesRun` | `SlavesRunWithTheClock` |
| `SlavesShare` | `SlavesShareThePosition` |

`IInv` adds what the flags of the generator owe each other and the player: the counter of armed
timers is exactly what the flags say (`Sound`), a paused clock has a paused or advancing player
(`PausesTogether`), a running one is enabled (`EnabledWhileRunning`).

The slaves need an invariant about messages that have not arrived, `WInv`. A slave obeys its queue from the front as
long as nothing overtakes, so where it will end is the last of a path of states along the queue (`Leads`; the path is
a function, so nothing recursive has to be reasoned about). `Guided` says two things of every queue:

* `Steered`: the queue leads the slave to the clock's running flag and, unless a message of it was cancelled, to its position;
  a message taken out of turn marks the slave as overtaken and ends the claim;
* `Quieted`: while the clock stands, nothing queued sets a slave off, and one that still runs has a stop on its way. This
  is what a locate needs, since a running slave ignores it: the position is sent with the clock stopped, and arrives after the stop.

Each method of the generator is then a lemma: it sends one message (`SentSteers`), or cancels the timers and stops
(`HaltedGuided`), or a seek composes them. A slave whose queue is empty is where it is led, which is both properties.

### VoiceTrackingProofs

| Theorem | Property |
|---|---|
| `TypeCorrect` | `TypeOK` |
| `SoundingAccounted` | `SoundingIsAccounted` |
| `NothingSticks` | `NoStuckNote` |
| `PolyphonyKept` | `PolyphonyHolds` |
| `StrikesLast` | `StrikeLasts` |
| `OuterVoicesSurvive` | `KeepsOuterVoices`, which no run lists |

Voices of a pitch are counted, so the number of voices is that of a set of copies (`Copies`), and what a
step does to it is a lemma about cardinalities (`CountMore`, `CountLess`, `CountMonotone`). The median voice is the
least pitch with enough voices below it: it exists, it sounds, and at most half of the voices lie on either side
(`VictimFacts`). So an eviction makes room for the note (`RoomMade`) and takes no outer voice (`VictimIsInside`).

`IInv` is `SoundingIsAccounted` with the counts within their limits (`ChannelType`), with what a mute spoils (`muted => tampered`), and
with `StrikesAreTimed`: the instrument heard a pitch no later than the scheduler recorded it, and a current deferral fires when its pitch has
lasted. The last is not implied by the other parts and is what `StrikesLast` rests on. Silence at rest and the polyphony
follow from the accounts: what sounds is counted or has a current deferral, and each pitch has its own.

### TranscriptionJobsProofs

| Theorem | Property |
|---|---|
| `TypeCorrect` | `TypeOK` |
| `SlotsHold` | `SlotsAreWork` |
| `AnnouncementsHold` | `AnnouncedOnce` |
| `CompletionHolds` | `CompleteIsHonest` |
| `MemoryHolds` | `MemoryIsBounded` |
| `LifecycleIsKept` | `KeepsLifecycle`, the refinement of `JobLifecycle` |

The invariant has global parts (`SlotsTaken`: a slot is held exactly by the jobs with work, and
there are no more than the slots; `QueueWaits`: the queue is increasing and holds the queued
jobs; `CreatedInOrder`) and a part per job, `Sound`: which status goes with which point of
the promise chain (`Pipeline`), what has been announced (`ToldOnce`) and what a completion
implies (`Honest`). Most steps concern one job, so a frame lemma carries the others over.

That memory is bounded is a counting argument: the unfinished jobs are queued or hold a
slot, so they fit under `MaxJobs` by `LimitsAssumption` (`UnfinishedFit`), and what exceeds
`MaxJobs` at a creation are finished jobs that `_prune` can drop (`RoomIsMade`). The refinement
needs that `_drain` takes a front of an increasing queue, hence the oldest of those waiting
(`FrontIsOldest`), and that a job settles once.

### FileLibraryProofs

| Theorem | Property |
|---|---|
| `RowsStayWhole` | `RowsAreWhole` |
| `OrphansAccountedFor` | `OrphansAreExplained` |
| `AnswersAreTrue` | `AnsweredIsStored` |
| `TypeCorrect` | `TypeOK` |

They follow from `Inv`: the types, and, while `overlap` is false, `Isolated`, which says that

* the library is sound (`Good`): every row has its blob under its own hash, on disk or swept (`Kept`), and no two rows
  share a hash. A collection moves contents from the one to the other and nothing else, which is how the
  argument gets through it (`GcKeeps`). Uniqueness is needed because a deletion or a rollback removes a blob by
  its content, and would hit another row otherwise;
* each command in flight still finds what it relies on (`Safe`): during a bake and between two
  attempts the row it read is the one in the table and its new content has no other owner; at
  the cleanup no row names the old blob, and the new content is stored;
* the files and blobs that two commands in flight hold are disjoint (`Apart`).

The argument is that of a frame rule: a step changes rows and blobs only within the files
and blobs it touches (`Within`), so it keeps what commands apart from them rely on
(`FrameSafe`), and `OthersStayIsolated` reduces each action to the command that acts. One
lemma about an attempt of the transaction serves the first attempt and every retry.

Two more facts serve the other theorems. An orphan appears only among what a step touches, or where
a row goes in a cascade (`Leaves`, `OrphansComeFrom`), and a command is never left with an
orphan that nobody recorded (`Settled`, `Accounted`; the delicate case is a save that found its bytes on
disk already and does not take them back). And a row vanishes without its blob being touched only
together with the row it copies (`CascadeFollowsParents`), which is why an answered copy is in the library
unless the file it was made from is not.

### RoutingProofs

| Theorem | Property |
|---|---|
| `TypeCorrect` | `TypeOK` |
| `LockExcludes` | `SectionIsExclusive` |
| `TokenProtects` | `NoBlindOverwrite` |
| `RoutingTypeCorrect` | `RoutingTypeOK`, in particular every choice is an output of the routing |
| `NoDecisionIsLost` | `NothingLeftBehind` |
| `ShareIsKept` | `ShareHolds` |

The lock: every ticket that has not been released and was taken before `c`'s is in `ahead[c]`,
unless `c` holds the lock or gave up waiting; so one that enters by its turn finds nobody inside but the expired. The token:
an apply that is inside and was not slipped by still finds in the file what it remembers to have
seen (`Knows`: both hashes, the bytes it is going to replace, the fingerprinted columns of the rows in the token),
since every step of another command either enters, and is then recorded as slipping in, or
belongs to one that is inside already. An apply that writes to a third file has that file's bytes from the step that found it (`TwinWrites`);
its routings, as all that is uncovered, are no part of the claim.

The player: the maps are ahead of the instruments by the events that are scheduled and not sent, so neither property can be
read off a state. `Kept` says that there are decisions, those of the past that the instruments still play by, from which the
waiting events lead to the decisions in the maps (`Routes`: a path of states, one for each event, which is a function, so
that nothing recursive has to be reasoned about). Scheduling lengthens the route (`RouteOn`), sending shortens it
(`RouteFrom`), and every note that sounds has a decision at its beginning (`Heard`). The events that a pause cancelled are a second route, between the
notes held at the maps and those held at the cursor; a pause of an unsplit channel joins the two (`RouteJoin`). With nothing waiting the routes have
no length: what sounds was decided, what is decided is held, and nothing is held.

The share is a property of the decisions, not of the instruments: all states of the route are in `Fitting`, where the first output has no more decisions than
its share, because the loads that the strategy compares are the numbers of decisions kept (`LoadsRight`, `LoadMore`, `LoadLess`). At the
beginning of the route it is a bound on what sounds, as distinct notes have distinct decisions (`HeardIsDecided`).

### ConnectionProofs

| Theorem | Property |
|---|---|
| `TypeCorrect` | `TypeOK` |
| `RegistrySound` | `RegistryIsSound` |
| `ListSound` | `ListIsSound` |
| `NoneIsLost` | `NoSessionIsLost`, for one caller at a time and a peer without early BYs |
| `WsTypeCorrect` | `WsTypeOK`: the queue within its depth, one slot for each kind |
| `NothingIsStale` | `NothingStale` |
| `ClientsKeepUp` | `KeptInStep` |

The second half of `RegistryIsSound` is the one that needs help: the continuation of a connect puts the session in
the list, so a registered session that is waiting must be awaited by a call, or be a responder's, whose handler does
it (`WaitingIsAwaited`). The manager forgets an address without asking whose entries they are; what saves
the property is that no handler clears the list and leaves the registry. `NoneIsLost` has an invariant of its
own, `Alone`: the session of the only call in its handshake is the one registered and is waiting, unless a shutdown
closed it and the sockets, so that the `Backstop`, which would unregister a stranger, finds nobody registered.

The broadcast queue: `WsInv` says of what waits that the numbers in the queue rise (`Queued`), that a kind has one slot (`Slotted`)
and that a flush is scheduled for it (`FlushIsDue`); of every tape, that it is in order and all of it older than what waits (`Taped`), from
which `NothingIsStale` follows; and of a client that keeps up, that each event since it connected is on its tape, waits, was
superseded or was given up (`Reached`), which is `ClientsKeepUp` once nothing waits. One lemma per operation carries the work: the overflow loop takes out
only what it reports (`TrimmedFacts`), a slot is replaced by a newer value of its kind (`OverwrittenFacts`), a batch is both parts in
their order (`BatchFacts`), and a beginning of it, cut anywhere, keeps a tape in order (`TakenFacts`).

### Only model-checked

* liveness: `MicrotasksDrain`, `EveryJobEnds`, `StopReachesSlaves`, `EveryConnectSettles`, `LostSessionsEnd`, `ListedIsHeard`.

The prover handles neither liveness nor `ENABLED`, nor inductions over recursive definitions.

## 6. Not modelled

* Parsing, conversion, adaptation, scoring, sound fonts, event building: sequential data
  transformation without a state that outlives a call.
* Devices, Bluetooth and serial transports, lighting, calibration, system scripts: I/O through drivers; the models see a
  send that fails.
* Persistence and repositories: SQLite's own atomicity and durability. A power loss that takes
  back a commit whose blob was already unlinked is outside `FileLibrary`, as is an unlink
  that fails, which the code logs and ignores.
* `UploadQueue`: a serial worker with a timeout per task. Its only task, `FileManager.handleUpload`,
  contains no await, so tasks follow one another whatever the queue does and the timeout cannot
  fire within one; a model of it would check an interleaving the program does not have.
* The front end, more than half of the implementation: rendering and forms. What it asks of the
  server are the commands the models enumerate.
* Within the modelled components: note chasing on seek, hand-shift messages, choice of a split
  segment by range, broadcast of controllers, rename, move and re-analysis of files, the countdown of a gap, the tempo grid
  of the clock, applies to an adapted copy as an original of its own (another chain of the lock), the string and hand constraints of the gate, transcriptions without import,
  the counters of the broadcast queue, discovery, clock sync and MIDI payloads of network sessions.

The map covers a small part of the repository's lines for these reasons: the code whose
correctness depends on order, time and failure is concentrated in about a dozen files.

`PROJECT.json` lists the hazards of the code with the properties that cover them; those
without a property carry the reason.

## 7. Plan

1. `PlaybackControl` and `MidiClock` composed: the transport of the one, with its suspended
   advances, driving the other, in place of the reduced player.
2. `FileLibrary` under `ApplyAssignments`: the writes of an apply as the multi-step commands they are.
3. Live routing: the latched compensation and pitch of a held note under several sources and routes.
4. An abstract transport (stopped, playing, paused, advancing) that `PlaybackControl`
   implements.
5. Proofs: that `PlaybackControl` implements the transport of item 4, once it is stated.
