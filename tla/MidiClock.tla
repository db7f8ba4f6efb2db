------------------------------- MODULE MidiClock -------------------------------
(***************************************************************************)
(* MidiClockGenerator driven by MidiPlayer: ticks and transport messages   *)
(* for slaves with different latencies.  The slowest gets a message at     *)
(* once, the others through a timer that makes up the difference, and      *)
(* stopping the clock cancels every such timer still running.              *)
(*                                                                         *)
(* A position counts ticks; `song` is where the generator has led its      *)
(* slaves.  A timer is kept per slave although the code has one per delay. *)
(* Time passes in units of the delays and timers fire when they are due.   *)
(***************************************************************************)
EXTENDS Integers, Sequences, SequencesExt

CONSTANTS
    Slaves,      \* devices with the clock enabled, or some of them
    MaxDelay,    \* the largest difference of latency
    Positions,   \* where the operator seeks to
    MaxSong,     \* bound: ticks since the top of the song
    MaxPending   \* bound: timers of one slave when a tick or a pointer is sent

ASSUME MidiClockAssumption ==
    /\ MaxDelay \in Nat /\ MaxSong \in Nat /\ MaxPending \in Nat
    /\ Positions \subseteq 0 .. MaxSong

VARIABLES
    player,   \* the part of MidiPlayer's state that its calls depend on
    clock,    \* _enabled, _running, _paused, and the tick timers armed
    delay,    \* the buckets: how long a message to each slave is held back
    wire,     \* the slaves and the timers of what is on its way to them
    song,
    toggled   \* history: the clock was off since the player last started it

vars == <<player, clock, delay, wire, song, toggled>>

Runs == clock.running /\ ~clock.paused

-----------------------------------------------------------------------------
Message(type) == [type |-> type, at |-> 0]
Position(at) == [type |-> "position", at |-> at]

\* What a slave of MIDI 1.0 does with a message; it must be stopped to take a
\* position.  One that went astray stops counting past the bound.
Pulsed(at) == IF at > MaxSong THEN at ELSE at + 1

Obey(slave, message) ==
    CASE message.type = "start"    -> [on |-> TRUE, at |-> 0]
      [] message.type = "continue" -> [slave EXCEPT !.on = TRUE]
      [] message.type = "stop"     -> [slave EXCEPT !.on = FALSE]
      [] message.type = "position" -> [slave EXCEPT !.at = IF slave.on THEN @ ELSE message.at]
      [] message.type = "clock"    -> [slave EXCEPT !.at = IF slave.on THEN Pulsed(@) ELSE @]

Locates(message) == message.type \in {"start", "position"}
Moves(message) == Locates(message) \/ message.type = "clock"

\* _dispatchToBuckets: a slave held back by nothing obeys at once.
Sent(w, held, message) ==
    LET timer(d)   == [message |-> message, delay |-> held[d], in |-> held[d]]
        overtakers == {d \in Slaves : held[d] = 0 /\ w.queue[d] # <<>>}
    IN  [queue |-> [d \in Slaves |-> IF held[d] = 0 THEN w.queue[d]
                                                    ELSE Append(w.queue[d], timer(d))],
         slave |-> [d \in Slaves |-> IF held[d] = 0 THEN Obey(w.slave[d], message)
                                                    ELSE w.slave[d]],
         overtaken |-> overtakers \cup IF Locates(message)
                                       THEN {d \in w.overtaken : w.queue[d] # <<>>}
                                       ELSE w.overtaken,
         cut |-> IF Locates(message) THEN {} ELSE w.cut]

\* _stopClockTimer: what it cancels may be what locates or moves the slave.
Cancelled(w) ==
    [w EXCEPT !.queue = [d \in Slaves |-> <<>>],
              !.cut = @ \cup {d \in Slaves :
                                 \E i \in DOMAIN w.queue[d] : Moves(w.queue[d][i].message)}]

\* It clears the timer that it knows of.
Disarmed(c) == IF c.armed > 0 THEN c.armed - 1 ELSE 0

\* Somebody is held back by nothing, who need not be among Slaves.
Buckets == [Slaves -> 0 .. MaxDelay]

CancelsLast(w, held, message) == \* mutant: the message is cancelled as well
    Cancelled(Sent(w, held, message))

\* Ticks end and a transport message goes out.
Halted(w, held, message) == Sent(Cancelled(w), held, message)

\* stopPlayback
ClockStopped(c) ==
    IF c.running
    THEN [c EXCEPT !.running = FALSE, !.paused = FALSE, !.armed = Disarmed(c)] ELSE c

WireStopped(c, w) == IF c.running THEN Halted(w, delay, Message("stop")) ELSE w

StartLeaksTimer(c) == \* mutant: the timer of a running clock is not cleared
    [c EXCEPT !.running = TRUE, !.paused = FALSE, !.armed = @ + 1]

\* startPlayback of an enabled clock
ClockStarted(c) ==
    [c EXCEPT !.running = TRUE, !.paused = FALSE,
              !.armed = (IF c.running THEN Disarmed(c) ELSE c.armed) + 1]

ContinueFirst(w, held, position) == \* mutant: the slave runs when the position comes
    IF position > 0 THEN Sent(Sent(w, held, Message("continue")), held, Position(position))
                    ELSE Sent(w, held, Message("start"))

\* Start is "from the beginning"; elsewhere a slave is located and continues.
Located(w, held, position) ==
    IF position > 0 THEN Sent(Sent(w, held, Position(position)), held, Message("continue"))
                    ELSE Sent(w, held, Message("start"))

\* startPlayback, which rebuilds the buckets: the latencies may be new.
StartPlayback(c, w, position) ==
    IF c.enabled
    THEN \E held \in Buckets :
            /\ delay' = held
            /\ clock' = ClockStarted(c)
            /\ wire' = Located(IF c.running THEN Cancelled(w) ELSE w, held, position)
            /\ song' = position
            /\ toggled' = FALSE
    ELSE clock' = c /\ wire' = w /\ UNCHANGED <<delay, song, toggled>>

StopPlayback ==
    /\ clock' = ClockStopped(clock)
    /\ wire' = WireStopped(clock, wire)
    /\ UNCHANGED <<delay, song>>

-----------------------------------------------------------------------------
Init ==
    /\ player = "stopped"
    /\ clock = [enabled |-> FALSE, running |-> FALSE, paused |-> FALSE, armed |-> 0]
    /\ delay \in Buckets
    /\ wire = [queue |-> [d \in Slaves |-> <<>>],
               slave |-> [d \in Slaves |-> [on |-> FALSE, at |-> 0]],
               overtaken |-> {}, cut |-> {}]
    /\ song = 0
    /\ toggled = TRUE

\* start, of a file or of the next queue item once it is loaded.
Play ==
    /\ player \in {"stopped", "advancing"}
    /\ player' = "playing"
    /\ StartPlayback(clock, wire, 0)

\* playQueueItem up to its await, which leaves the clock alone.  A file that
\* cannot be loaded leaves the player here.
Advance ==
    /\ player \in {"playing", "paused"}
    /\ player' = "advancing"
    /\ UNCHANGED <<clock, delay, wire, song, toggled>>

\* stop, the end of the file, and the gap after a queue item.
Stop ==
    /\ player # "stopped"
    /\ player' = "stopped"
    /\ StopPlayback
    /\ UNCHANGED toggled

\* pausePlayback
Pause ==
    /\ player = "playing"
    /\ player' = "paused"
    /\ IF Runs
       THEN /\ clock' = [clock EXCEPT !.paused = TRUE, !.armed = Disarmed(clock)]
            /\ wire' = Halted(wire, delay, Message("stop"))
       ELSE UNCHANGED <<clock, wire>>
    /\ UNCHANGED <<delay, song, toggled>>

\* resumePlayback
Resume ==
    /\ player = "paused"
    /\ player' = "playing"
    /\ IF clock.running /\ clock.paused
       THEN /\ clock' = [clock EXCEPT !.paused = FALSE, !.armed = @ + 1]
            /\ wire' = Sent(wire, delay, Message("continue"))
       ELSE UNCHANGED <<clock, wire>>
    /\ UNCHANGED <<delay, song, toggled>>

Room == \A d \in Slaves : Len(wire.queue[d]) < MaxPending

\* seek while playing, and the loop: stop, then start at the position.
SeekPlaying(position) ==
    /\ player = "playing"
    /\ StartPlayback(ClockStopped(clock), WireStopped(clock, wire), position)
    /\ UNCHANGED player

SeekPausedStops(position) == \* mutant: every seek stops the clock
    /\ player = "paused" /\ clock.enabled /\ Room
    /\ clock' = ClockStopped(clock)
    /\ wire' = Sent(WireStopped(clock, wire), delay, Position(position))
    /\ song' = position
    /\ UNCHANGED <<player, delay, toggled>>

\* seek while paused: sendSongPosition.
SeekPaused(position) ==
    /\ player = "paused" /\ clock.enabled /\ Room
    /\ wire' = Sent(wire, delay, Position(position))
    /\ song' = position
    /\ UNCHANGED <<player, clock, delay, toggled>>

Enable ==
    /\ ~clock.enabled
    /\ clock' = [clock EXCEPT !.enabled = TRUE]
    /\ UNCHANGED <<player, delay, wire, song, toggled>>

Disable ==
    /\ clock.enabled
    /\ clock' = [ClockStopped(clock) EXCEPT !.enabled = FALSE]
    /\ wire' = WireStopped(clock, wire)
    /\ toggled' = TRUE
    /\ UNCHANGED <<player, delay, song>>

\* A settings event drops the caches; the next message meets new buckets.
Resettle(held) ==
    /\ delay' = held
    /\ UNCHANGED <<player, clock, wire, song, toggled>>

\* _onTick
Tick ==
    /\ clock.armed > 0
    /\ IF Runs
       THEN /\ Room /\ song < MaxSong
            /\ wire' = Sent(wire, delay, Message("clock"))
            /\ song' = song + 1
            /\ UNCHANGED clock
       ELSE /\ clock' = [clock EXCEPT !.armed = @ - 1]
            /\ UNCHANGED <<wire, song>>
    /\ UNCHANGED <<player, delay, toggled>>

\* The timers of one duration fire in the order they were set.
Due(d, i) ==
    LET q == wire.queue[d]
    IN  q[i].in = 0 /\ \A j \in 1 .. i - 1 : q[j].delay # q[i].delay

Fire(d) ==
    \E i \in DOMAIN wire.queue[d] :
        /\ Due(d, i)
        /\ wire' = [wire EXCEPT !.queue[d] = RemoveAt(@, i),
                                !.slave[d] = Obey(@, wire.queue[d][i].message),
                                !.overtaken = IF i > 1 THEN @ \cup {d} ELSE @]
        /\ UNCHANGED <<player, clock, delay, song, toggled>>

Sooner(timer) == [timer EXCEPT !.in = @ - 1]

Elapse ==
    /\ \E d \in Slaves : wire.queue[d] # <<>>
    /\ \A d \in Slaves : \A i \in DOMAIN wire.queue[d] : wire.queue[d][i].in > 0
    /\ wire' = [wire EXCEPT !.queue = [d \in Slaves |->
                    [i \in DOMAIN wire.queue[d] |-> Sooner(wire.queue[d][i])]]]
    /\ UNCHANGED <<player, clock, delay, song, toggled>>

Next ==
    \/ Play \/ Advance \/ Stop \/ Pause \/ Resume
    \/ \E position \in Positions : SeekPlaying(position) \/ SeekPaused(position)
    \/ Enable \/ Disable
    \/ \E held \in Buckets : Resettle(held)
    \/ Tick \/ Elapse
    \/ \E d \in Slaves : Fire(d)

\* Node.js runs the timers that are due.
Fairness == WF_vars(Elapse) /\ \A d \in Slaves : WF_vars(Fire(d))

Spec == Init /\ [][Next]_vars /\ Fairness

-----------------------------------------------------------------------------
(* Each variable has its type. *)
TypeOK ==
    /\ player \in {"stopped", "playing", "paused", "advancing"}
    /\ clock \in [enabled : BOOLEAN, running : BOOLEAN, paused : BOOLEAN, armed : Nat]
    /\ delay \in Buckets
    /\ song \in 0 .. MaxSong
    /\ toggled \in BOOLEAN

(* One chain of ticks while the clock runs and none otherwise: a timer left*)
(* behind by a seek, a queue item or a toggle would double the tempo       *)
(* (startPlayback, _stopClockTimer, _onTick).  It runs only for a player   *)
(* that plays or changes files, and a player that has started it and plays *)
(* has not lost it, whatever seeks, pauses and queue items came between.   *)
TicksFollowPlayer ==
    /\ clock.armed = IF Runs THEN 1 ELSE 0
    /\ Runs => player \in {"playing", "advancing"}
    /\ player = "playing" /\ ~toggled => Runs

Reached(d) == wire.queue[d] = <<>> /\ d \notin wire.overtaken

(* A slave that nothing is on its way to runs when the clock does, unless a*)
(* change of latencies let one message overtake another.                   *)
SlavesRunWithTheClock ==
    \A d \in Slaves : Reached(d) => (wire.slave[d].on <=> Runs)

(* And it is where the clock is in the song, unless a pause or a stop      *)
(* cancelled a tick or a locate on its way to it (_stopClockTimer).        *)
SlavesShareThePosition ==
    \A d \in Slaves : Reached(d) /\ d \notin wire.cut => wire.slave[d].at = song

(* Every slave stops when the clock does, if it does not run again, delayed*)
(* by other latencies or not: no late message sets it off again.           *)
StopReachesSlaves ==
    ~Runs ~> (Runs \/ \A d \in Slaves : ~wire.slave[d].on)
=============================================================================
