--------------------------- MODULE PlaybackControl ---------------------------
(***************************************************************************)
(* The control plane of MidiPlayer (src/src/midi/playback/MidiPlayer.js):  *)
(* the transport commands, the playlist queue with its gap timer, the      *)
(* asynchronous queue advance, the end-of-file handler, the per-playback   *)
(* snapshot with its deferred edits, the advisory state machine and the    *)
(* transport state of MidiClockGenerator.                                  *)
(*                                                                         *)
(* Node runs one handler at a time, so an action is one handler up to its  *)
(* await.  The only await of these handlers is `await loadFile(...)`;      *)
(* loadFile has no await of its own, so it loads synchronously and the     *)
(* rest of the handler is queued as a microtask.  player.calls is that     *)
(* queue.  Command handlers that arrived in the same socket read were      *)
(* queued before it and may run first; timers run only when it is empty.   *)
(*                                                                         *)
(* Positions are abstracted to the one fact the control flow tests: whether*)
(* the scheduler pass that ends start() and resume() already lies past the *)
(* last event.                                                             *)
(***************************************************************************)
EXTENDS Integers, Sequences, FiniteSets

CONSTANTS
    Files,      \* MIDI files of the database
    Empty,      \* those without events: their duration is 0
    NoFile,     \* nothing loaded yet
    Playlists,  \* stored playlists: [files, loop, gap, shuffle]
    MaxCalls,   \* bound: handlers suspended at an await at the same time
    MaxLostGaps \* bound: lost gap timers under which playback_start is given

ASSUME FilesAssumption ==
    /\ Empty \subseteq Files
    /\ NoFile \notin Files

ASSUME PlaylistsAssumption ==
    \A l \in Playlists : /\ l.files \in Seq(Files) /\ l.files # <<>>
                         /\ l.loop \in BOOLEAN
                         /\ l.gap \in BOOLEAN
                         /\ l.shuffle \in BOOLEAN

ASSUME BoundsAssumption == MaxCalls \in Nat \ {0} /\ MaxLostGaps \in Nat \ {0}

VARIABLES
    player,     \* the MidiPlayer object, with the clock it drives
    draining,   \* the microtask queue is being drained: no new handler runs
    halted      \* history: the last transport order, "stopped" or "leaking"
                \* after a stop, "no" after an order to play

vars == <<player, draining, halted>>

(***************************************************************************)
(* A suspended handler: the rest of playQueueItem, of playback_start, or   *)
(* of the _handleFileEnd that waits for an advance and learns its outcome  *)
(* a microtask later.  `current` stands for `myToken === this._playToken`: *)
(* nothing bumped the token since the advance claimed it.  `origin` says   *)
(* who awaits the promise and so what a failure does.                      *)
(***************************************************************************)
Origins == {"command", "gap", "fileEnd"}

Calls == [kind : {"advance", "start", "settle"}, file : Files \cup {NoFile},
          ok : BOOLEAN, current : BOOLEAN, origin : Origins]

Suspend(s, kind, file, ok, current, origin) ==
    [s EXCEPT !.calls = Append(@, [kind |-> kind, file |-> file, ok |-> ok,
                                   current |-> current, origin |-> origin])]

\* The promise _handleFileEnd awaits has settled.
Settle(s, ok) == Suspend(s, "settle", s.loaded, ok, FALSE, "fileEnd")

Status(s) == <<s.playing, s.paused>>

-----------------------------------------------------------------------------
(* PlaybackStateMachine: the graph of the advisory lifecycle tracker.      *)
Lifecycle == {"stopped", "loading", "playing", "paused", "seeking"}

ValidTransitions ==
    [stopped |-> {"loading", "playing"},
     loading |-> {"stopped", "playing"},
     playing |-> {"paused", "stopped", "seeking"},
     paused  |-> {"playing", "stopped", "seeking"},
     seeking |-> {"playing", "paused", "stopped"}]

TryTransition(state, next) ==
    IF next \in ValidTransitions[state] THEN next ELSE state

-----------------------------------------------------------------------------
(* Small steps shared by the handlers.                                     *)

BroadcastWhilePlaying(s) == \* mutant: nothing is said of a player that stops
    IF s.playing THEN [s EXCEPT !.status = Status(s)] ELSE s

BroadcastStatus(s) == [s EXCEPT !.status = Status(s)]

\* loadFile swaps the event list under whatever is playing; it fails before
\* it assigns anything.
LoadFile(s, f, ok) == IF ok THEN [s EXCEPT !.loaded = f] ELSE s

KeepToken(s) == s \* mutant: nothing supersedes an advance in flight

\* `++this._playToken`: every advance in flight stops being the current one.
BumpToken(s) ==
    [s EXCEPT !.calls = [i \in DOMAIN @ |-> [@[i] EXCEPT !.current = FALSE]]]

StopRunningClock(s) == \* mutant: stopPlayback ignores a paused clock
    [s EXCEPT !.clock = IF @ = "running" THEN "idle" ELSE @]

StopPlaybackClock(s) == [s EXCEPT !.clock = "idle"]

PausePlaybackClock(s) ==
    [s EXCEPT !.clock = IF @ = "running" THEN "paused" ELSE @]

ResumePlaybackClock(s) ==
    [s EXCEPT !.clock = IF @ = "paused" THEN "running" ELSE @]

StartPlaybackClock(s) ==
    [s EXCEPT !.clock = IF s.clockEnabled THEN "running" ELSE @]

SilenceKeepsInterval(s) == \* mutant: stopScheduler() is forgotten
    [s EXCEPT !.playing = FALSE, !.paused = FALSE]

\* The flags, the interval and the armed sends of a playing file go away;
\* clock, snapshot and state machine are left to the caller.
Silence(s) ==
    [s EXCEPT !.playing = FALSE, !.paused = FALSE, !.scheduling = FALSE]

ReleaseSnapshot(s) == [s EXCEPT !.snapshot = FALSE, !.deferred = FALSE]

\* _shuffleQueue: any order of the same items.
Shufflings(q) ==
    LET Orders == {f \in [DOMAIN q -> DOMAIN q] :
                      \A i, j \in DOMAIN q : f[i] = f[j] => i = j}
    IN  {[i \in 1..Len(q) |-> q[f[i]]] : f \in Orders}

-----------------------------------------------------------------------------
(* The methods of MidiPlayer, as functions of the player.  A method whose  *)
(* outcome depends on a load, a shuffle or an end-of-file pass returns the *)
(* set of players it may leave.                                            *)

Pause(s) ==
    BroadcastStatus(PausePlaybackClock(
        [s EXCEPT !.fsm = TryTransition(@, "paused"),
                  !.paused = TRUE, !.scheduling = FALSE]))

\* stop() gives up early unless something plays or `_advancing` is set.
Stop(s) ==
    LET t == [BumpToken(s) EXCEPT !.gapTimer = FALSE, !.advancing = FALSE,
                                  !.stranded = FALSE]
    IN  IF s.playing \/ s.advancing
        THEN BroadcastStatus(ReleaseSnapshot(StopPlaybackClock(
                 [Silence(t) EXCEPT !.fsm = TryTransition(@, "stopped")])))
        ELSE t

\* start() up to its first scheduler pass.  It counts deferred edits anew.
StartCore(s) ==
    StartPlaybackClock(
        [s EXCEPT !.fsm = TryTransition(@, "playing"),
                  !.playing = TRUE, !.paused = FALSE, !.scheduling = TRUE,
                  !.outputDevice = TRUE, !.snapshot = TRUE, !.deferred = FALSE,
                  !.stranded = FALSE])

\* A pass short of the end sends events at once; a send that finds its device
\* gone pauses the player under the `pause` disconnect policy.
Dispatch(s) == IF s.loaded \in Empty THEN {s} ELSE {s, Pause(s)}

\* seek() on a running player, before its start() at the new position.
SeekTeardown(s) ==
    StopPlaybackClock([Silence(s) EXCEPT !.fsm = TryTransition(@, "seeking")])

AdvanceWithoutIndex(s, i, origin) == \* mutant: the queue position is not moved
    LET claimed == [BumpToken(s) EXCEPT !.advancing = TRUE, !.gapTimer = FALSE,
                                        !.stranded = FALSE]
        ready   == IF s.playing THEN Silence(claimed) ELSE claimed
    IN  {Suspend(LoadFile(ready, s.queue[i], ok), "advance", s.queue[i], ok, TRUE, origin) :
            ok \in BOOLEAN}

\* playQueueItem up to its await: claim the advance, silence, load.
PlayQueueItem(s, i, origin) ==
    LET claimed == [BumpToken(s) EXCEPT !.advancing = TRUE, !.gapTimer = FALSE,
                                        !.stranded = FALSE]
        ready   == [(IF s.playing THEN Silence(claimed) ELSE claimed)
                       EXCEPT !.queueIndex = i]
        item    == s.queue[i]
    IN  {Suspend(LoadFile(ready, item, ok), "advance", item, ok, TRUE, origin) :
            ok \in BOOLEAN}

NextInQueue(s, origin) ==
    LET next  == s.queueIndex + 1
        order == IF s.queueShuffle /\ Len(s.queue) > 1
                 THEN Shufflings(s.queue) ELSE {s.queue}
    IN  CASE s.queue = <<>>        -> {s}
          [] s.queue # <<>> /\ next <= Len(s.queue) -> PlayQueueItem(s, next, origin)
          [] s.queue # <<>> /\ next > Len(s.queue) /\ s.queueLoop ->
                UNION {PlayQueueItem([s EXCEPT !.queue = q], 1, origin) : q \in order}
          [] OTHER                 -> {Stop(s)}

\* An index before the first item wraps to the last one of a looping queue
\* and restarts the first one otherwise.
PreviousInQueue(s, origin) ==
    CASE s.queue = <<>>      -> {s}
      [] s.queue # <<>> /\ s.queueIndex > 1 ->
            PlayQueueItem(s, s.queueIndex - 1, origin)
      [] OTHER               ->
            PlayQueueItem(s, IF s.queueLoop THEN Len(s.queue) ELSE 1, origin)

\* _startGapDelay stores the new handle without clearing a pending timer, that
\* of a gap a playback_start interrupted.  Both will fire; only the new one can
\* still be cleared.
StartGapDelay(s) ==
    [s EXCEPT !.lostGaps = IF s.gapTimer THEN @ + 1 ELSE @, !.gapTimer = TRUE]

NeverIgnored(s) == FALSE \* mutant: no guard against a second end of file

IgnoresFileEnd(s) == s.fileEndPending

\* _handleFileEnd up to its await.  The pending flag outlives the call only
\* while nextInQueue() is awaited; meanwhile another end of file is ignored,
\* the one the pass inside the advance's own start() may report included.
HandleFileEnd(s) ==
    CASE IgnoresFileEnd(s) -> {s}
      [] ~IgnoresFileEnd(s) /\ s.loop ->
            {BroadcastStatus(r) : r \in Dispatch(StartCore(SeekTeardown(s)))}
      [] ~IgnoresFileEnd(s) /\ ~s.loop /\ s.queue # <<>> /\ s.queueGap ->
            {StartGapDelay(BroadcastStatus(StopPlaybackClock(Silence(s))))}
      [] ~IgnoresFileEnd(s) /\ ~s.loop /\ s.queue # <<>> /\ ~s.queueGap ->
            {IF Len(r.calls) > Len(s.calls) THEN r ELSE Settle(r, TRUE) :
                r \in NextInQueue([s EXCEPT !.fileEndPending = TRUE], "fileEnd")}
      [] OTHER -> {Stop(s)}

\* The scheduler pass start() and resume() run before they return, and the
\* status they broadcast after it.
FirstPass(s, pastEnd) ==
    {BroadcastStatus(r) : r \in IF pastEnd THEN HandleFileEnd(s) ELSE Dispatch(s)}

\* start(): a no-op on a player that already plays.
Start(s, pastEnd) ==
    IF s.playing THEN {s} ELSE FirstPass(StartCore(s), pastEnd)

Resume(s, pastEnd) ==
    FirstPass(ResumePlaybackClock(
        [s EXCEPT !.fsm = TryTransition(@, "playing"),
                  !.paused = FALSE, !.scheduling = TRUE]), pastEnd)

\* A seek keeps a paused player paused and only moves the cursor of a stopped
\* one.  A seek to the duration makes the first pass see the end of the file.
Seek(s, toEnd) ==
    CASE s.playing /\ ~s.paused ->
            Start(SeekTeardown(s), toEnd \/ s.loaded \in Empty)
      [] s.playing /\ s.paused ->
            {BroadcastStatus([s EXCEPT
                !.fsm = TryTransition(TryTransition(@, "seeking"), "paused")])}
      [] OTHER -> {[s EXCEPT !.fsm = TryTransition(@, "seeking")]}

\* setQueue and clearQueue.
SetQueue(s, q, l) ==
    [s EXCEPT !.queue = q, !.queueIndex = 0, !.queueLoop = l.loop,
              !.queueGap = l.gap, !.queueShuffle = l.shuffle]

ClearQueue(s) ==
    [s EXCEPT !.gapTimer = FALSE, !.queue = <<>>, !.queueIndex = 0,
              !.queueLoop = FALSE, !.queueGap = FALSE, !.queueShuffle = FALSE]

-----------------------------------------------------------------------------
(* Continuations: what a suspended handler does when its load has settled. *)

\* A failed load rejects the advance.  The command that asked for it reports
\* the error and changes nothing more: unless it was superseded, the player it
\* silenced keeps `_advancing`, its clock and the status last told, and is
\* `stranded`.  The gap callback stops the player, and so does the end-of-file
\* handler once it hears of it.
Rejected(s, call) ==
    CASE call.origin = "command" -> [s EXCEPT !.stranded = @ \/ call.current]
      [] call.origin = "gap"     -> Stop(s)
      [] call.origin = "fileEnd" -> Settle(s, FALSE)

Settled(s, call) == IF call.origin = "fileEnd" THEN Settle(s, TRUE) ELSE s

\* The catch and the finally of _handleFileEnd.
FileEndSettles(s, call) ==
    [(IF call.ok THEN s ELSE Stop(s)) EXCEPT !.fileEndPending = FALSE]

\* The rest of playQueueItem.  A superseded advance leaves everything to the
\* one that superseded it.
AdvanceContinues(s, call) ==
    LET t == [s EXCEPT !.advancing = FALSE]
    IN  CASE ~call.ok                 -> {Rejected(s, call)}
          [] call.ok /\ ~call.current -> {Settled(s, call)}
          [] OTHER ->
                {Settled(r, call) : r \in Start(t, t.loaded \in Empty)}
                \cup (IF t.outputDevice THEN {} ELSE {Rejected(t, call)})

\* The rest of playback_start, which is not tied to any token: start, or no
\* device to start on.
StartContinues(s) == {s} \cup Start(s, s.loaded \in Empty)

-----------------------------------------------------------------------------
Init ==
    /\ player = [playing |-> FALSE, paused |-> FALSE, fsm |-> "stopped",
                 loaded |-> NoFile, outputDevice |-> FALSE,
                 scheduling |-> FALSE, snapshot |-> FALSE, deferred |-> FALSE,
                 loop |-> FALSE, queue |-> <<>>, queueIndex |-> 0,
                 queueLoop |-> FALSE, queueGap |-> FALSE, queueShuffle |-> FALSE,
                 gapTimer |-> FALSE, lostGaps |-> 0, advancing |-> FALSE,
                 stranded |-> FALSE, fileEndPending |-> FALSE,
                 clockEnabled |-> FALSE, clock |-> "idle",
                 status |-> <<FALSE, FALSE>>, calls |-> <<>>]
    /\ draining = FALSE
    /\ halted = "no"

\* A handler that may suspend finds room for it among the suspended ones.
Room == Len(player.calls) < MaxCalls

Command == ~draining /\ UNCHANGED draining

\* playback_start: load the file, then wait one microtask for loadFile.  It is
\* what interrupts a gap without ending it.
PlaybackStart(f) ==
    /\ Command /\ Room /\ player.lostGaps < MaxLostGaps
    /\ player' = Suspend(LoadFile(player, f, TRUE), "start", f, TRUE, FALSE, "command")
    /\ halted' = "no"

StartIsPending(s) == \E i \in DOMAIN s.calls : s.calls[i].kind = "start"

\* A stop that lost gap timers survive, with a queue left for them to advance.
Leaks(s) == s.lostGaps > 0 /\ s.queue # <<>>

Halts(s) ==
    /\ player' = s
    /\ halted' = CASE StartIsPending(player)               -> "no"
                   [] ~StartIsPending(player) /\ Leaks(s)  -> "leaking"
                   [] ~StartIsPending(player) /\ ~Leaks(s) -> "stopped"

\* playback_stop, and playlist_stop, which clears the queue as well.
PlaybackStop == Command /\ Halts(Stop(player))

PlaylistStop == Command /\ Halts(ClearQueue(Stop(player)))

PlaybackPause ==
    /\ Command
    /\ player.playing /\ ~player.paused
    /\ player' = Pause(player)
    /\ UNCHANGED halted

PlaybackResume ==
    /\ Command /\ Room
    /\ player.playing /\ player.paused
    /\ \E pastEnd \in BOOLEAN : player' \in Resume(player, pastEnd)
    /\ UNCHANGED halted

PlaybackSeek ==
    /\ Command /\ Room
    /\ \E toEnd \in BOOLEAN : player' \in Seek(player, toEnd)
    /\ UNCHANGED halted

PlaybackSetLoop ==
    /\ Command
    /\ player' = [player EXCEPT !.loop = ~@]
    /\ UNCHANGED halted

PlaylistStart(l) ==
    /\ Command /\ Room
    /\ \E q \in (IF l.shuffle /\ Len(l.files) > 1 THEN Shufflings(l.files) ELSE {l.files}),
          i \in DOMAIN l.files :
             player' \in PlayQueueItem(SetQueue(player, q, l), i, "command")
    /\ halted' = "no"

QueueIsActive == player.queue # <<>> /\ player.queueIndex > 0

PlaylistNext ==
    /\ Command /\ Room /\ QueueIsActive
    /\ player' \in NextInQueue(player, "command")
    /\ halted' = "no"

PlaylistPrevious ==
    /\ Command /\ Room /\ QueueIsActive
    /\ player' \in PreviousInQueue(player, "command")
    /\ halted' = "no"

\* The listener of instrument_settings_changed.
InstrumentSettingsChanged ==
    /\ Command /\ player.snapshot
    /\ player' = [player EXCEPT !.deferred = TRUE]
    /\ UNCHANGED halted

\* MidiClockGenerator.setEnabled: switching it off stops a running clock.
SetClockEnabled ==
    /\ Command
    /\ player' = IF player.clockEnabled
                 THEN StopPlaybackClock([player EXCEPT !.clockEnabled = FALSE])
                 ELSE [player EXCEPT !.clockEnabled = TRUE]
    /\ UNCHANGED halted

\* Timers run when no microtask is left.
Timer == player.calls = <<>> /\ UNCHANGED <<draining, halted>>

\* A scheduler pass past the duration of the file.
FileEnds ==
    /\ Timer /\ player.scheduling
    /\ player' \in HandleFileEnd(player)

\* The `pause` disconnect policy, fired by a send of a scheduler pass.
DevicePauses ==
    /\ Timer /\ player.scheduling
    /\ player' = Pause(player)

GapFires ==
    /\ Timer /\ player.gapTimer
    /\ player' \in NextInQueue([player EXCEPT !.gapTimer = FALSE], "gap")

\* The callback of a lost timer clears the one the handle names instead.
LostGapFires ==
    /\ Timer /\ player.lostGaps > 0
    /\ player' \in NextInQueue([player EXCEPT !.lostGaps = @ - 1, !.gapTimer = FALSE], "gap")

Continue ==
    /\ player.calls # <<>>
    /\ LET call == Head(player.calls)
           s    == [player EXCEPT !.calls = Tail(@)]
       IN  player' \in CASE call.kind = "advance" -> AdvanceContinues(s, call)
                          [] call.kind = "start"   -> StartContinues(s)
                          [] call.kind = "settle"  -> {FileEndSettles(s, call)}
    /\ draining' = (player'.calls # <<>>)
    /\ UNCHANGED halted

Next ==
    \/ \E f \in Files : PlaybackStart(f)
    \/ PlaybackStop
    \/ PlaybackPause
    \/ PlaybackResume
    \/ PlaybackSeek
    \/ PlaybackSetLoop
    \/ \E l \in Playlists : PlaylistStart(l)
    \/ PlaylistNext
    \/ PlaylistPrevious
    \/ PlaylistStop
    \/ InstrumentSettingsChanged
    \/ SetClockEnabled
    \/ FileEnds
    \/ DevicePauses
    \/ GapFires
    \/ LostGapFires
    \/ Continue

Spec == Init /\ [][Next]_vars

\* The event loop runs the microtasks it has queued.
FairSpec == Spec /\ WF_vars(Continue)

-----------------------------------------------------------------------------
PlayerType ==
    [playing : BOOLEAN, paused : BOOLEAN, fsm : Lifecycle,
     loaded : Files \cup {NoFile}, outputDevice : BOOLEAN,
     scheduling : BOOLEAN, snapshot : BOOLEAN, deferred : BOOLEAN,
     loop : BOOLEAN, queue : Seq(Files), queueIndex : Nat,
     queueLoop : BOOLEAN, queueGap : BOOLEAN, queueShuffle : BOOLEAN,
     gapTimer : BOOLEAN, lostGaps : Nat, advancing : BOOLEAN,
     stranded : BOOLEAN, fileEndPending : BOOLEAN,
     clockEnabled : BOOLEAN, clock : {"idle", "running", "paused"},
     status : BOOLEAN \X BOOLEAN, calls : Seq(Calls)]

TypeOK ==
    /\ player \in PlayerType
    /\ player.queueIndex <= Len(player.queue)
    /\ draining \in BOOLEAN
    /\ halted \in {"no", "stopped", "leaking"}

CurrentAdvances(s) ==
    {i \in DOMAIN s.calls : s.calls[i].kind = "advance" /\ s.calls[i].current}

\* An advance holds the transport: its file is loading, or its load failed and
\* the end-of-file handler that asked for it has yet to hear of it and stop.
AdvanceUnderWay(s) ==
    \/ CurrentAdvances(s) # {}
    \/ \E i \in DOMAIN s.calls : s.calls[i].kind = "settle" /\ ~s.calls[i].ok

\* A stop is final: whatever advance, gap timer or end of file was under way
\* when the operator stopped, nothing plays again before a new order to play.
\* (A playback_start still suspended at its own load is such an order.)  The
\* stops that leave the queue to a lost gap timer are not promised anything.
NoResurrection == halted = "stopped" => ~player.playing

\* What the token is said to give, "so it does not restart playback the user
\* asked to stop" (MidiPlayer.js:214), and the code does not: the lost timer
\* of an interrupted gap plays the next item after the stop.
EveryStopIsFinal == halted # "no" => ~player.playing

\* Of all the advances in flight at most one may still start its file, and
\* stop() can see that there is one.
OneCurrentAdvance ==
    /\ Cardinality(CurrentAdvances(player)) <= 1
    /\ CurrentAdvances(player) # {} => player.advancing

\* The current advance starts the file it loaded, which is the one the queue
\* points at, unless a playback_start swapped the events behind its back.
AdvancePlaysItsFile ==
    \A i \in CurrentAdvances(player) :
        /\ player.queueIndex \in DOMAIN player.queue
        /\ player.calls[i].file = player.queue[player.queueIndex]
        /\ player.calls[i].ok
           => \/ player.loaded = player.calls[i].file
              \/ \E j \in DOMAIN player.calls : j > i /\ player.calls[j].kind = "start"

\* The slaves of the MIDI clock run only while the player does, while an
\* advance in flight keeps the transport up between two files, or on a player
\* stranded by a command whose advance failed; a clock paused by pause() never
\* outlives the pause, and none runs through one.
ClockFollowsPlayer ==
    /\ player.clock # "idle" =>
          player.playing \/ AdvanceUnderWay(player) \/ player.stranded
    /\ player.playing =>
          player.clock # (IF player.paused THEN "running" ELSE "paused")

\* `_advancing` is set for the time of an advance ("briefly false during the
\* advance", MidiPlayer.js:215), and the code does not clear it when the load
\* fails: no advance is in flight and the player is left as it silenced it.
AdvancingIsBrief == player.advancing => AdvanceUnderWay(player)

\* The scheduler interval is armed exactly while something plays unpaused,
\* behind a snapshot of the instrument settings, and the advisory state machine
\* then agrees with the flags that really decide.
SchedulerFollowsPlayer ==
    /\ player.scheduling <=> player.playing /\ ~player.paused
    /\ player.playing => player.snapshot
    /\ player.playing => player.fsm = (IF player.paused THEN "paused" ELSE "playing")

\* The clients were last told what the player really does, but for a player
\* silenced by an advance still in flight or stranded by one that failed.
StatusIsCurrent ==
    \/ player.status = Status(player)
    \/ ~player.playing /\ (AdvanceUnderWay(player) \/ player.stranded)

\* The queue of suspended handlers always drains, so timers and orders get
\* their turn: an end of file reported by the pass inside start() never feeds
\* itself, not even on a looping queue of files without events.
MicrotasksDrain == player.calls # <<>> ~> player.calls = <<>>
=============================================================================
