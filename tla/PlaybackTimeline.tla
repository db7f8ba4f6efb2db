--------------------------- MODULE PlaybackTimeline ---------------------------
(***************************************************************************)
(* Real time in MidiPlayer and PlaybackScheduler: the anchor that maps the *)
(* wall clock to a song position, the interval that hands the events of a  *)
(* lookahead window to the emitter, the one-shot timers of the events too  *)
(* far ahead to send at once, and what start, pause, resume, seek, a tempo *)
(* change, a lost device and the end of the file do to all of them.        *)
(*                                                                         *)
(* Time is counted in units of EMIT_AHEAD_MS.  `anchor` is the position    *)
(* (now - startTime) * playbackRate: it runs while the player does and, as *)
(* resume() moves startTime by the length of the pause, stands still while *)
(* the player is paused.  `position` is the field, which only a pass, a    *)
(* pause and a seek refresh.  Due times are kept relative to the present,  *)
(* in grains, of which every rate divides a unit evenly.                   *)
(***************************************************************************)
EXTENDS Integers, Sequences, FiniteSets, FiniteSetsExt

CONSTANTS
    Times,       \* the event list: the position of each event, sorted
    Comp,        \* the sync delay of the device each event is routed to
    Grain,       \* divisions of a unit of time in which timers are kept
    Rates,       \* playback rates the operator may set
    Targets,     \* positions the operator may seek to
    Lookaheads,  \* the lookahead window, normal and under event-loop pressure
    TickPeriod,  \* SCHEDULER_TICK_MS
    EmitAhead,   \* EMIT_AHEAD_MS
    Lag,         \* bound: how late the event loop may run a timer
    PausePolicy  \* disconnectedPolicy = 'pause'

Events == DOMAIN Times
Duration == Times[Len(Times)]

ASSUME TimesAssumption ==
    /\ Times \in Seq(Nat) /\ Times # <<>>
    /\ \A e, f \in Events : e <= f => Times[e] <= Times[f]
    /\ Comp \in [Events -> Nat]

ASSUME ParametersAssumption ==
    /\ Grain \in Nat \ {0}
    /\ Rates \subseteq {r \in 1..Grain : Grain % r = 0} /\ 1 \in Rates
    /\ Targets \subseteq 0..Duration
    /\ TickPeriod \in Nat \ {0} /\ EmitAhead \in Nat /\ Lag \in Nat
    /\ Lookaheads \subseteq Nat
    /\ PausePolicy \in BOOLEAN

\* The window, which the code counts in song time, spans a late tick at any
\* rate.  (At 4x and under pressure the real one, 50 ms, does not.)
ASSUME WindowAssumption ==
    \A l \in Lookaheads, r \in Rates : l >= (TickPeriod + EmitAhead + Lag) * r

VARIABLE player \* the player and its timers, with the history named below

vars == <<player>>

-----------------------------------------------------------------------------
(* Helpers.                                                                *)

Floor0(x) == IF x < 0 THEN 0 ELSE x

\* findEventIndexAtTime(p): the first event at p or later.
IndexAt(p) == 1 + Cardinality({e \in Events : Times[e] < p})

\* The rewind of resume(): the first event later than p.
IndexAfter(p) == 1 + Cardinality({e \in Events : Times[e] <= p})

\* How long event e still has to wait, its compensation deducted.
Delay(s, e) ==
    Floor0((Grain \div s.rate) * Floor0(Times[e] - s.anchor) - Grain * Comp[e])

\* The events a pass takes from the list.
Window(s, look) ==
    {e \in Events : e >= s.cursor /\ Times[e] <= s.anchor + look + Max(Range(Comp))}
NearIsAll(s, look) == Window(s, look) \* mutant: no send waits for a timer

\* Those it sends at once.
Near(s, look) == {e \in Window(s, look) : Delay(s, e) <= Grain * EmitAhead}

Send(s, E) ==
    [s EXCEPT !.sent = [e \in Events |-> IF e \in E /\ @[e] < 2 THEN @[e] + 1 ELSE @[e]]]

Arm(s, E) == [s EXCEPT !.armed = @ \cup {[event |-> e, due |-> Delay(s, e)] : e \in E}]

StopNothing(s) == s \* mutant: the armed sends survive stopScheduler()

StopScheduler(s) == [s EXCEPT !.armed = {}]

-----------------------------------------------------------------------------
(* The methods, as functions of the player.  A pass may have to choose.    *)

Pause(s) ==
    [StopScheduler(s) EXCEPT !.paused = TRUE, !.position = Min({Duration, s.anchor})]

\* The interval and the armed timers go, the cursor moves to position p and
\* the history of what was sent begins again.
Relocate(s, p) ==
    [StopScheduler(s) EXCEPT
        !.position = p, !.cursor = IndexAt(p), !.anchor = p, !.tickIn = TickPeriod,
        !.sent = [e \in Events |-> 0], !.from = IndexAt(p),
        !.disturbed = FALSE, !.forgiven = {}, !.cut = {}, !.late = FALSE]

Stop(s) == [Relocate(s, 0) EXCEPT !.playing = FALSE, !.paused = FALSE]

\* start(), and the active seek() which ends in it.
StartAt(s, p) == [Relocate(s, p) EXCEPT !.playing = TRUE, !.paused = FALSE]

\* The part of a pass that comes before the end: send what is near, arm a
\* timer for the rest.  A failing send may pause the player in mid-pass, which
\* clears the timers armed so far and not those armed after it.
Dispatch(s, look) ==
    LET W    == Window(s, look)
        N    == Near(s, look)
        done == [Send(s, N) EXCEPT !.position = s.anchor, !.cursor = @ + Cardinality(W)]
    IN  {Arm(done, W \ N)}
        \cup {Arm([Pause(done) EXCEPT !.disturbed = TRUE], {e \in W \ N : e > k}) :
                 k \in IF PausePolicy THEN N ELSE {}}

\* The end of the file: stop, or start over when the file loops.
FileEnd(s, look) ==
    LET cut == IF s.disturbed \/ s.late THEN {} ELSE {a.event : a \in s.armed}
    IN  {[Stop(s) EXCEPT !.cut = cut]}
        \cup {[r EXCEPT !.cut = cut] : r \in Dispatch(StartAt(s, 0), look)}

EndsEarly(s) == s.anchor >= Duration \* mutant: `>=`, the audit's F-54

PastEnd(s) == s.anchor > Duration

\* tick().
Pass(s, look) == IF PastEnd(s) THEN FileEnd(s, look) ELSE Dispatch(s, look)

KeepCursor(s) == s.cursor \* mutant: the audit's F-57

ReplayAll(s) == Min({s.cursor, IndexAt(s.position)}) \* mutant: EMIT_AHEAD_MS forgotten

Rewound(s) == Min({s.cursor, IndexAfter(s.position + EmitAhead)})

Resume(s, look) ==
    Pass([s EXCEPT
             !.paused = FALSE, !.tickIn = TickPeriod, !.cursor = Rewound(s),
             !.forgiven = @ \cup {e \in Events :
                 /\ Times[e] <= s.position + EmitAhead
                 /\ s.disturbed \/ s.position - Lag * s.rate <= Times[e]}],
         look)

\* setPlaybackTempo: a running player is anchored anew on its last position,
\* a paused one is not.
SetTempo(s, r) ==
    [s EXCEPT !.rate = r, !.disturbed = TRUE,
              !.anchor = CASE s.playing /\ ~s.paused -> s.position
                           [] s.playing /\ s.paused  -> (@ * r) \div s.rate
                           [] OTHER                  -> @]

-----------------------------------------------------------------------------
Init ==
    player = [playing |-> FALSE, paused |-> FALSE, rate |-> 1, anchor |-> 0,
              position |-> 0, cursor |-> 1, tickIn |-> TickPeriod, armed |-> {},
              \* history: sends of each event since `from` was the cursor of a
              \* fresh start, the sends the end of the last file cancelled, and
              \* whether the tick at work runs after it was due
              sent |-> [e \in Events |-> 0], from |-> 1, cut |-> {},
              late |-> FALSE,
              \* history: events the rewind of a resume steps over; a tempo
              \* change or a pause in mid-pass since the start
              forgiven |-> {}, disturbed |-> FALSE]

Running == player.playing /\ ~player.paused

PlaybackStart ==
    /\ ~player.playing
    /\ \E l \in Lookaheads : player' \in Pass(StartAt(player, 0), l)

PlaybackPause == Running /\ player' = Pause(player)

PlaybackResume ==
    /\ player.playing /\ player.paused
    /\ \E l \in Lookaheads : player' \in Resume(player, l)

PlaybackStop == player.playing /\ player' = Stop(player)

PlaybackSeek ==
    \E p \in Targets :
        \/ Running /\ \E l \in Lookaheads : player' \in Pass(StartAt(player, p), l)
        \/ player.playing /\ player.paused /\ player' = Relocate(player, p)

PlaybackSetTempo ==
    \E r \in Rates \ {player.rate} : player' = SetTempo(player, r)

\* Node runs expired timers in the order of their expiry; the events of one
\* instant on one device were armed by one pass, in order.
Tick ==
    /\ Running /\ player.tickIn <= 0
    /\ \A a \in player.armed : a.due >= Grain * player.tickIn
    /\ \E l \in Lookaheads :
          player' \in Pass([player EXCEPT !.tickIn = TickPeriod,
                                         !.late = player.tickIn < 0], l)

TimerFires(a) ==
    /\ a.due <= 0
    /\ Running => a.due <= Grain * player.tickIn
    /\ \A b \in player.armed :
          \/ b.due > a.due
          \/ /\ b.due = a.due
             /\ Times[b.event] = Times[a.event] /\ Comp[b.event] = Comp[a.event]
                => b.event >= a.event
    /\ LET s == Send([player EXCEPT !.armed = @ \ {a}], {a.event})
       IN  \/ player' = s
           \/ PausePolicy /\ Running /\ player' = Pause(s)

\* One unit of time; no timer is run later than Lag.
Elapse ==
    /\ player.playing
    /\ Running => player.tickIn > -Lag
    /\ \A a \in player.armed : a.due - Grain >= -(Grain * Lag)
    /\ Running \/ player.armed # {}
    /\ player' = [player EXCEPT
          !.anchor = IF Running THEN @ + player.rate ELSE @,
          !.tickIn = IF Running THEN @ - 1 ELSE @,
          !.armed  = {[a EXCEPT !.due = @ - Grain] : a \in @}]

Next ==
    \/ PlaybackStart
    \/ PlaybackPause
    \/ PlaybackResume
    \/ PlaybackStop
    \/ PlaybackSeek
    \/ PlaybackSetTempo
    \/ Tick
    \/ \E a \in player.armed : TimerFires(a)
    \/ Elapse

Spec == Init /\ [][Next]_vars

-----------------------------------------------------------------------------
PlayerType ==
    [playing : BOOLEAN, paused : BOOLEAN, rate : Rates, anchor : Nat,
     position : 0..Duration, cursor : 1..(Len(Times) + 1), tickIn : (-Lag)..TickPeriod,
     armed : SUBSET [event : Events, due : Int],
     sent : [Events -> 0..2], from : 1..(Len(Times) + 1), cut : SUBSET Events,
     late : BOOLEAN, forgiven : SUBSET Events, disturbed : BOOLEAN]

\* A player is paused only while it plays, and no send is overdue by more than
\* the lateness of the event loop.
TypeOK ==
    /\ player \in PlayerType
    /\ player.paused => player.playing
    /\ \A a \in player.armed : a.due >= -(Grain * Lag)

\* The events a running player has taken from the list since its start.
Taken == player.from..(player.cursor - 1)
IsArmed(e) == \E a \in player.armed : a.event = e

\* Whatever pauses, resumes, seeks and tempo changes came before, an event the
\* cursor of a running player has passed was sent or waits for its timer; the
\* exceptions are those due within EMIT_AHEAD_MS of a pause or overdue at it by
\* the lateness of the event loop, or, after a tempo change, which leaves the
\* armed timers as they are, overdue by any amount.
NothingSkipped ==
    Running => \A e \in Taken :
                  player.sent[e] > 0 \/ IsArmed(e) \/ e \in player.forgiven

\* An end of file found by a punctual tick cancels no send, unless the tempo
\* changed meanwhile or a lost device paused the player in mid-pass.
NothingCutAtEnd == player.cut = {}

\* At notated speed a pause and a resume send no event of an uncompensated
\* device twice.
SentOnce ==
    player.rate = 1 /\ ~player.disturbed
    => \A e \in Events : Comp[e] = 0 => player.sent[e] <= 1

\* Each device receives its events in the order of the file: those of one
\* without compensation at any speed, those of the others at notated speed.
InOrder ==
    ~player.disturbed
    => \A e, f \in Events :
          /\ player.from <= e /\ Times[e] < Times[f]
          /\ Comp[e] = Comp[f] /\ (Comp[e] = 0 \/ player.rate = 1)
          /\ player.sent[f] > 0 /\ player.sent[e] = 0
          => e \in player.forgiven

\* An event leaves at most EMIT_AHEAD_MS before its compensated instant and
\* no later than its notated one, but for the lateness of the event loop.
OnTime ==
    [][\A e \in Events :
          /\ player'.sent[e] > player.sent[e] /\ ~player'.disturbed
          => LET ahead == Times[e] - player'.anchor
             IN  /\ ahead <= (EmitAhead + Comp[e]) * player'.rate
                 /\ ahead >= -(Lag * player'.rate)]_vars

-----------------------------------------------------------------------------
(* What the comments of the source say and the code does not do.           *)

\* "Resume from the position captured by pause": a tempo change during the
\* pause moves it.
ResumesWherePaused ==
    [][player.paused /\ Running' => player'.position = player.position]_vars

\* "compensated notes are never queued late regardless of the base lookahead",
\* src/src/midi/playback/PlaybackScheduler.js:611: the window counts the delay in
\* song time, and at a faster tempo the song leaves less of it.
NeverQueuedLate ==
    [][\A e \in Events :
          /\ player'.sent[e] > player.sent[e] /\ ~player.disturbed /\ Running
          /\ player'.anchor = player.anchor /\ player'.from = player.from
          /\ player.from < player.cursor /\ player.cursor <= e
          => Times[e] - player.anchor >= Comp[e] * player.rate]_vars

\* "replays the cancelled events without duplicating any": an armed event
\* within EMIT_AHEAD_MS of the pause is cancelled and never replayed.
ResumeLosesNothing ==
    Running => \A e \in Taken : player.sent[e] > 0 \/ IsArmed(e)
=============================================================================
