----------------------------- MODULE PlayerRouting -----------------------------
(***************************************************************************)
(* MidiPlayer.getOutputForChannel on one channel of the file, when it is   *)
(* split over instruments whose ranges overlap: which of them a note goes  *)
(* to is decided note by note, and its note-off has to find the same one.  *)
(* The decision is made when PlaybackScheduler schedules the event, ahead  *)
(* of sending it, and can be overtaken by a pause or by new routings.      *)
(*                                                                         *)
(* All notes are in every range of a split; a note that is in one only is  *)
(* routed as by a split of one segment.  The file is any sequence of note- *)
(* ons and their note-offs.                                                *)
(***************************************************************************)
EXTENDS Integers, Sequences, FiniteSets, SequencesExt, FiniteSetsExt

CONSTANTS
    Notes, Outputs,
    Default,    \* the output of a channel that has no routing
    Routings,   \* what the operator gives the channel: a strategy, the outputs
    Share,      \* polyphonyShare of the first output
    Cycle,      \* bound: the turns are counted modulo this
    MaxHeld,    \* bound: notes the file holds at once
    Lookahead,  \* bound: events scheduled and not sent
    MaxKept     \* bound: decisions kept for a pitch, or counted for an output,
                \* that a note-on may add to

Strategies == {"single", "first", "second", "round_robin", "alternate", "least_loaded", "overflow"}

ASSUME RoutingAssumption ==
    /\ IsFiniteSet(Notes) /\ IsFiniteSet(Outputs) /\ Default \in Outputs
    /\ Routings \subseteq [strategy : Strategies, outs : Seq(Outputs) \ {<<>>}]
    /\ \A r \in Routings : Cycle % Len(r.outs) = 0
    /\ Share \in Nat \ {0} /\ Cycle \in Nat \ {0} /\ MaxHeld \in Nat /\ Lookahead \in Nat
    /\ MaxKept \in Nat

VARIABLES
    routing,   \* the channel's entry of channelRouting
    split,     \* the maps of the strategies, see Fresh
    held,      \* the file: notes of each pitch on at the cursor
    queue,     \* pendingTimeouts: events with the output chosen for them
    again,     \* events that a pause cancelled, to be scheduled once more
    sounding,  \* the instruments
    playing,   \* FALSE while paused
    excuses    \* history: what came between a decision and its use

routingVars == <<routing, split, held, queue, again, sounding, playing, excuses>>

-----------------------------------------------------------------------------
\* _overlapCounters, _alternateCounters, _segmentNoteCounts, _overlapNoteAssign
Fresh == [turns |-> [n \in Notes |-> 0], alternate |-> 0,
          loads |-> [o \in Outputs |-> 0], assigned |-> [n \in Notes |-> <<>>]]

Unrouted == [strategy |-> "single", outs |-> <<Default>>]

Pairs == routing.strategy \notin {"single", "first"}  \* keeps what it decided
Counts == routing.strategy \in {"least_loaded", "overflow"}

OverflowLate(outs) == split.loads[outs[1]] > Share \* mutant: one note too many

\* The first output has no room.
Overflows(outs) == split.loads[outs[1]] >= Share

\* Where the note-on of a pitch goes.
Choice(n) ==
    LET outs == routing.outs
        least == Min({split.loads[outs[j]] : j \in DOMAIN outs})
    IN  CASE routing.strategy = "round_robin"  -> 1 + (split.turns[n] % Len(outs))
          [] routing.strategy = "alternate"    -> 1 + (split.alternate % Len(outs))
          [] routing.strategy = "second"       -> Len(outs)
          [] routing.strategy = "least_loaded" ->
                 Min({i \in DOMAIN outs : split.loads[outs[i]] = least})
          [] routing.strategy = "overflow"     ->
                 IF Overflows(outs) /\ Len(outs) > 1 THEN 2 ELSE 1
          [] OTHER -> 1

\* The maps after it.
Chosen(n) ==
    [turns     |-> IF routing.strategy = "round_robin"
                   THEN [split.turns EXCEPT ![n] = (@ + 1) % Cycle] ELSE split.turns,
     alternate |-> IF routing.strategy = "alternate"
                   THEN (split.alternate + 1) % Cycle ELSE split.alternate,
     loads     |-> IF Counts THEN [split.loads EXCEPT ![routing.outs[Choice(n)]] = @ + 1]
                             ELSE split.loads,
     assigned  |-> IF Pairs THEN [split.assigned EXCEPT ![n] = Append(@, Choice(n))]
                            ELSE split.assigned]

\* A note-off that finds no decision, or one of another split.
Fallback == IF routing.strategy = "second" THEN Len(routing.outs) ELSE 1

Tracked(n) == split.assigned[n] # <<>> /\ Head(split.assigned[n]) \in DOMAIN routing.outs

NoteOffByTurn(n) == \* mutant: the note-off takes a turn of its own
    IF Pairs THEN Choice(n) ELSE 1

\* Where the note-off of a pitch goes: _popSegmentAssignment.
NoteOffChoice(n) ==
    IF ~Pairs THEN 1 ELSE IF Tracked(n) THEN Head(split.assigned[n]) ELSE Fallback

KeepLoads(n) == \* mutant: the load of the instrument is not given back
    IF Pairs /\ split.assigned[n] # <<>>
    THEN [split EXCEPT !.assigned[n] = Tail(@)] ELSE split

\* The maps after it.
Released(n) ==
    LET popped == IF split.assigned[n] = <<>> THEN split
                  ELSE [split EXCEPT !.assigned[n] = Tail(@)]
    IN  IF ~Pairs THEN split
        ELSE IF Counts /\ Tracked(n)
        THEN [popped EXCEPT !.loads[routing.outs[NoteOffChoice(n)]] = IF @ > 0 THEN @ - 1 ELSE 0]
        ELSE popped

-----------------------------------------------------------------------------
RoutingInit ==
    /\ routing \in Routings
    /\ split = Fresh
    /\ held = [n \in Notes |-> 0]
    /\ queue = <<>> /\ again = <<>>
    /\ sounding = [o \in Outputs |-> {}]
    /\ playing = TRUE
    /\ excuses = {}

\* scheduleEvent of a note-on or a note-off.
Enqueue(on, n) ==
    /\ playing /\ Len(queue) < Lookahead
    /\ on => Len(split.assigned[n]) < MaxKept /\ \A o \in Outputs : split.loads[o] < MaxKept
    /\ queue' = Append(queue, [on |-> on, note |-> n,
                               out |-> routing.outs[IF on THEN Choice(n) ELSE NoteOffChoice(n)]])
    /\ split' = IF on THEN Chosen(n) ELSE Released(n)
    /\ UNCHANGED <<routing, sounding, playing, excuses>>

NoteOn(n) ==
    /\ again = <<>> /\ SumFunction(held) < MaxHeld
    /\ Enqueue(TRUE, n)
    /\ held' = [held EXCEPT ![n] = @ + 1]
    /\ UNCHANGED again

NoteOff(n) ==
    /\ again = <<>> /\ held[n] > 0
    /\ Enqueue(FALSE, n)
    /\ held' = [held EXCEPT ![n] = @ - 1]
    /\ UNCHANGED again

\* The cursor was rewound.
Reschedule ==
    /\ again # <<>>
    /\ Enqueue(Head(again).on, Head(again).note)
    /\ again' = Tail(again)
    /\ UNCHANGED held

\* A timer fires: sendEvent with the routing resolved before.
Send ==
    /\ queue # <<>>
    /\ LET e == Head(queue)
       IN  sounding' = [sounding EXCEPT ![e.out] = IF e.on THEN @ \cup {e.note} ELSE @ \ {e.note}]
    /\ queue' = Tail(queue)
    /\ UNCHANGED <<routing, split, held, again, playing, excuses>>

\* sendAllNotesOff and _panicChannel reach the outputs of the present routing.
AllNotesOff ==
    sounding' = [o \in Outputs |-> IF o \in Range(routing.outs) THEN {} ELSE sounding[o]]

Silent(s) == \A o \in Outputs : s[o] = {}

Excused(condition, what) == excuses' = excuses \cup IF condition THEN {what} ELSE {}

\* Bound: past an excuse that is none of RerouteStrandsNothing's, nothing more
\* comes between until the maps are reset.
Excusable == excuses \subseteq {"carried"}

\* Timers are cancelled; the maps stay.
Pause ==
    /\ playing /\ Excusable
    /\ playing' = FALSE
    /\ AllNotesOff
    /\ queue' = <<>>
    /\ again' = [i \in DOMAIN queue |-> [on |-> queue[i].on, note |-> queue[i].note]] \o again
    /\ Excused(queue # <<>> /\ Pairs, "rescheduled")
    /\ UNCHANGED <<routing, split, held>>

Resume ==
    /\ ~playing
    /\ playing' = TRUE
    /\ UNCHANGED <<routing, split, held, queue, again, sounding, excuses>>

\* seek, and stop followed by start: any notes may be on at the new cursor.
Seek(on) ==
    /\ split' = Fresh
    /\ held' = [n \in Notes |-> IF n \in on THEN 1 ELSE 0]
    /\ queue' = <<>> /\ again' = <<>>
    /\ AllNotesOff
    /\ excuses' = IF Silent(sounding') THEN {} ELSE {"rerouted"}
    /\ UNCHANGED <<routing, playing>>

\* The maps hold no decision on a note.
Undecided == /\ \A o \in Outputs : split.loads[o] = 0
             /\ \A n \in Notes : split.assigned[n] = <<>>

\* setChannelRouting and setChannelSplitRouting, with _panicChannel.
Reroute(r) ==
    /\ r # routing /\ Excusable
    /\ routing' = r
    /\ IF playing THEN AllNotesOff ELSE UNCHANGED sounding
    /\ excuses' = excuses \cup (IF queue # <<>> THEN {"rerouted"} ELSE {})
                          \cup (IF Undecided THEN {} ELSE {"carried"})
    /\ UNCHANGED <<split, held, queue, again, playing>>

\* clearChannelRouting by the command, which releases nothing.
ClearRouting ==
    /\ routing # Unrouted /\ Excusable
    /\ routing' = Unrouted
    /\ excuses' = excuses \cup {"rerouted", "carried"}
    /\ UNCHANGED <<split, held, queue, again, sounding, playing>>

RoutingNext ==
    \/ \E n \in Notes : NoteOn(n) \/ NoteOff(n)
    \/ Reschedule \/ Send
    \/ Pause \/ Resume
    \/ \E on \in SUBSET Notes : Seek(on)
    \/ \E r \in Routings : Reroute(r)
    \/ ClearRouting

RoutingSpec == RoutingInit /\ [][RoutingNext]_routingVars

-----------------------------------------------------------------------------
Events == [on : BOOLEAN, note : Notes]

(* Each variable has its type. *)
RoutingTypeOK ==
    /\ routing \in Routings \cup {Unrouted}
    /\ split \in [turns : [Notes -> 0 .. Cycle - 1], alternate : 0 .. Cycle - 1,
                  loads : [Outputs -> Nat], assigned : [Notes -> Seq(Nat \ {0})]]
    /\ held \in [Notes -> Nat]
    /\ queue \in Seq([on : BOOLEAN, note : Notes, out : Outputs])
    /\ again \in Seq(Events)
    /\ sounding \in [Outputs -> SUBSET Notes]
    /\ playing \in BOOLEAN
    /\ excuses \subseteq {"rescheduled", "rerouted", "carried"}

\* The file holds nothing and everything was sent.
Quiet == /\ playing /\ queue = <<>> /\ again = <<>>
         /\ \A n \in Notes : held[n] = 0

(* Every note-off finds the instrument of its note, whatever the strategy  *)
(* and the seeks, and what the strategies keep of notes that are over does *)
(* not weigh on those to come, unless an event was scheduled, or a note    *)
(* decided, before a pause or new routings came between                    *)
(* (_popSegmentAssignment).                                                *)
NothingLeftBehind ==
    Quiet /\ excuses = {} => Silent(sounding) /\ Undecided

\* The first instrument of a channel overflows to another one.
Overflowing(r) == r.strategy = "overflow" /\ Len(r.outs) > 1 /\ r.outs[1] # r.outs[2]

(* The instrument that overflows is never sent more than its share, though *)
(* it is counted when events are scheduled and plays when they are sent.   *)
ShareHolds ==
    Overflowing(routing) /\ excuses = {} => Cardinality(sounding[routing.outs[1]]) <= Share

(* The comment on setChannelSplitRouting: held notes are released by the   *)
(* old routing, "else in-flight notes strand".  Here nothing is in flight, *)
(* but a decision on a released note pairs with a note-off to come.        *)
RerouteStrandsNothing ==
    Quiet /\ excuses \subseteq {"carried"} => Silent(sounding)
=============================================================================
