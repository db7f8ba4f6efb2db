---------------------------- MODULE VoiceTracking ----------------------------
(***************************************************************************)
(* PlaybackScheduler between a file and one channel of one instrument: the *)
(* gate that drops or evicts note-ons to honour the instrument's re-strike *)
(* interval and polyphony, the bookkeeping that pairs the note-offs of the *)
(* file with it, and the note-offs held back for min_note_duration.        *)
(*                                                                         *)
(* The file is any sequence of paired note-ons and note-offs: `held` counts*)
(* those on and not yet off.  `sounding` is the instrument.  Instants are  *)
(* kept as ages, which stop counting once no limit can tell them apart.    *)
(***************************************************************************)
EXTENDS Integers, FiniteSets, FiniteSetsExt

CONSTANTS
    Notes,        \* pitches
    Polyphony,    \* capability `polyphony`
    MinInterval,  \* capability `minNoteInterval`
    MinDuration,  \* capability `minNoteDuration`
    EmitAhead,    \* EMIT_AHEAD_MS: a shorter deferral is none
    MaxHeld       \* bound: notes the file holds at once, and dropped note-ons
                  \* still to be paired, which a mute can leave behind

ASSUME VoiceAssumption ==
    /\ Notes \subseteq Nat \ {0} /\ IsFiniteSet(Notes)
    /\ Polyphony \in Nat \ {0}
    /\ MinInterval \in Nat /\ MinDuration \in Nat /\ EmitAhead \in Nat
    /\ MaxHeld \in Nat \ {0}

VARIABLES
    held,      \* the file: notes of each pitch that are on
    voices,    \* the scheduler's maps, see NoTracking
    releases,  \* the deferred note-offs: [note, in, current]
    sounding,  \* the instrument: pitches that sound
    struck,    \* the instrument: age of the last strike of each pitch
    muted,     \* the channel is in mutedChannels
    tampered   \* history: muted since the bookkeeping was last reset

vars == <<held, voices, releases, sounding, struck, muted, tampered>>

-----------------------------------------------------------------------------
\* An age at its limit is old enough, or that of something that never was.
Aged(ages, limit) == [k \in DOMAIN ages |-> Min({ages[k] + 1, limit})]

\* A monophonic instrument has one actuator for all pitches.
Keys == Notes \cup {0}
IntervalKey(n) == IF Polyphony = 1 THEN 0 ELSE n

\* _activeNotes, _droppedNoteOns, _lastNoteOnTime and _noteOnTimes.
NoTracking ==
    [active  |-> [n \in Notes |-> 0], dropped |-> [n \in Notes |-> 0],
     lastOn  |-> [k \in Keys |-> MinInterval], onTime |-> [n \in Notes |-> MinDuration]]

\* As many copies of each note as f says, and how many that is.
Copies(f) == UNION {{n} \X (1 .. f[n]) : n \in DOMAIN f}
Count(f) == Cardinality(Copies(f))

\* selectPolyphonyVictim: the median of the pitches, each as often as it sounds.
Rank(multi, n) == Count([m \in Notes |-> IF m <= n THEN multi[m] ELSE 0])
Victim(multi) == Min({n \in Notes : Rank(multi, n) > Count(multi) \div 2})

Drop(v, n) == [v EXCEPT !.dropped[n] = @ + 1]

Evicted(v, n) == \* the bookkeeping of a voice that makes room
    Drop([v EXCEPT !.active[n] = @ - 1], n)

Accept(v, n) ==
    [v EXCEPT !.active[n] = @ + 1, !.lastOn[IntervalKey(n)] = 0, !.onTime[n] = 0]

TooSoon(v, n) == v.lastOn[IntervalKey(n)] < MinInterval

NeverFull(v) == FALSE \* mutant: no polyphony limit

Full(v) == Count(v.active) >= Polyphony

\* Note-ons gated so far are paired with as many note-offs.
SwallowNone(v, n) == FALSE \* mutant: the note-off of a dropped note goes out

Swallows(v, n) == v.dropped[n] > 0

\* _noteOffDeferMs: 0 when the note was on for long enough, or not at all.
Deferral(v, n) == MinDuration - v.onTime[n]

\* The instrument and the deferrals after the note-offs of a set of pitches.
Deferred(v, N) == {n \in N : Deferral(v, n) > EmitAhead}
SoundingAfterOffs(v, N) == sounding \ (N \ Deferred(v, N))
ReleasesAfterOffs(v, N) ==
    releases \cup {[note |-> n, in |-> Deferral(v, n), current |-> TRUE] : n \in Deferred(v, N)}

KeepReleases(R, n) == R \* mutant: a deferral outlives a re-strike of its pitch

SupersedeAll(R, n) == \* mutant: one instance id for the whole channel
    {[r EXCEPT !.current = FALSE] : r \in R}

\* A strike takes the pitch's instance id from the deferrals still pending.
Supersede(R, n) == {[r EXCEPT !.current = @ /\ r.note # n] : r \in R}

-----------------------------------------------------------------------------
Init ==
    /\ held = [n \in Notes |-> 0]
    /\ voices = NoTracking
    /\ releases = {}
    /\ sounding = {}
    /\ struck = [n \in Notes |-> MinDuration]
    /\ muted = FALSE
    /\ tampered = FALSE

Room == Count(held) < MaxHeld /\ Count(voices.dropped) < MaxHeld

\* A note-on of the file reaches the instrument: admitted, after the median
\* voice has made room where the instrument is at its limit.
NoteOnPlays(n) ==
    /\ ~muted /\ Room /\ ~TooSoon(voices, n)
    /\ LET victim == Victim([voices.active EXCEPT ![n] = @ + 1])
           out    == IF Full(voices) THEN {victim} ELSE {}
           v      == IF Full(voices) THEN Evicted(voices, victim) ELSE voices
       IN  /\ Full(voices) => victim # n
           /\ voices' = Accept(v, n)
           /\ releases' = Supersede(ReleasesAfterOffs(voices, out), n)
           /\ sounding' = SoundingAfterOffs(voices, out) \cup {n}
    /\ struck' = [struck EXCEPT ![n] = 0]
    /\ held' = [held EXCEPT ![n] = @ + 1]
    /\ UNCHANGED <<muted, tampered>>

\* Gated: struck too soon after the last one, or itself the median voice.
NoteOnGated(n) ==
    /\ ~muted /\ Room
    /\ \/ TooSoon(voices, n)
       \/ Full(voices) /\ Victim([voices.active EXCEPT ![n] = @ + 1]) = n
    /\ voices' = Drop(voices, n)
    /\ held' = [held EXCEPT ![n] = @ + 1]
    /\ UNCHANGED <<releases, sounding, struck, muted, tampered>>

\* A note-off is swallowed for a note-on that was dropped or evicted, and
\* otherwise releases one voice of its pitch, now or when it has sounded enough.
NoteOff(n) ==
    /\ ~muted /\ held[n] > 0
    /\ IF Swallows(voices, n)
       THEN /\ voices' = [voices EXCEPT !.dropped[n] = @ - 1]
            /\ UNCHANGED <<releases, sounding>>
       ELSE /\ voices' = [voices EXCEPT !.active[n] = Max({0, @ - 1})]
            /\ releases' = ReleasesAfterOffs(voices, {n})
            /\ sounding' = SoundingAfterOffs(voices, {n})
    /\ held' = [held EXCEPT ![n] = @ - 1]
    /\ UNCHANGED <<struck, muted, tampered>>

\* sendEvent drops the events of a muted channel before any bookkeeping.
MutedEvent(n) ==
    /\ muted
    /\ \/ Room /\ held' = [held EXCEPT ![n] = @ + 1]
       \/ held[n] > 0 /\ held' = [held EXCEPT ![n] = @ - 1]
    /\ UNCHANGED <<voices, releases, sounding, struck, muted, tampered>>

\* The timer of a deferred note-off, void if its pitch was struck again.
ReleaseFires(r) ==
    /\ r.in = 0
    /\ releases' = releases \ {r}
    /\ sounding' = IF r.current THEN sounding \ {r.note} ELSE sounding
    /\ UNCHANGED <<held, voices, struck, muted, tampered>>

\* muteChannel: All Notes Off, and nothing else.
Mute ==
    /\ ~muted
    /\ muted' = TRUE
    /\ sounding' = {}
    /\ struck' = [n \in Notes |-> MinDuration]
    /\ tampered' = TRUE
    /\ UNCHANGED <<held, voices, releases>>

Unmute ==
    /\ muted
    /\ muted' = FALSE
    /\ UNCHANGED <<held, voices, releases, sounding, struck, tampered>>

\* pause(): the timers go, All Notes Off, resetNoteTracking.  The file is where
\* it was when resume() goes on.  A seek ends in the same state but may land
\* where other notes are held.
PauseOrSeek ==
    /\ releases' = {}
    /\ sounding' = {}
    /\ voices' = NoTracking
    /\ held' \in {held} \cup {f \in [Notes -> 0..1] : Count(f) <= MaxHeld}
    /\ tampered' = muted
    /\ struck' = [n \in Notes |-> MinDuration]
    /\ UNCHANGED muted

Elapse ==
    /\ \A r \in releases : r.in > 0
    /\ releases' = {[r EXCEPT !.in = @ - 1] : r \in releases}
    /\ voices' = [voices EXCEPT !.lastOn = Aged(@, MinInterval), !.onTime = Aged(@, MinDuration)]
    /\ struck' = Aged(struck, MinDuration)
    /\ UNCHANGED <<held, sounding, muted, tampered>>

Next ==
    \/ \E n \in Notes : \/ NoteOnPlays(n)
                        \/ NoteOnGated(n)
                        \/ NoteOff(n)
                        \/ MutedEvent(n)
    \/ \E r \in releases : ReleaseFires(r)
    \/ Mute
    \/ Unmute
    \/ PauseOrSeek
    \/ Elapse

Spec == Init /\ [][Next]_vars

-----------------------------------------------------------------------------
TypeOK ==
    /\ held \in [Notes -> 0..MaxHeld]
    /\ voices \in [active : [Notes -> Nat], dropped : [Notes -> Nat],
                   lastOn : [Keys -> 0..MinInterval], onTime : [Notes -> 0..MinDuration]]
    /\ \A n \in Notes : voices.active[n] <= Polyphony /\ voices.dropped[n] <= MaxHeld
    /\ releases \subseteq [note : Notes, in : 0..MinDuration, current : BOOLEAN]
    /\ sounding \subseteq Notes
    /\ struck \in [Notes -> 0..MinDuration]
    /\ muted \in BOOLEAN /\ tampered \in BOOLEAN

AtRest == releases = {} /\ \A n \in Notes : held[n] = 0

\* Nothing hangs: once the file has released every note and no deferred note-off
\* is pending, the instrument is silent, however notes were gated and evicted.
NoStuckNote == AtRest /\ ~tampered => sounding = {}

\* Every sounding pitch is one the scheduler knows of or is about to release,
\* and every voice it counts belongs to a note the file still holds.
SoundingIsAccounted ==
    ~tampered =>
        /\ \A n \in sounding :
              voices.active[n] > 0 \/ \E r \in releases : r.note = n /\ r.current
        /\ \A n \in Notes : voices.active[n] + voices.dropped[n] <= held[n]

\* More pitches than the instrument has actuators sound only while note-offs
\* are held back for min_note_duration.
PolyphonyHolds ==
    ~tampered =>
        /\ Count(voices.active) <= Polyphony
        /\ Cardinality(sounding) <=
              Polyphony + Cardinality({r \in releases : r.current})

\* The outer voices survive: with two voices or more, one that is evicted lies
\* between two that go on, so the melody and the bass are never sacrificed.
OuterVoicesStay ==
    \A n \in Notes :
        /\ voices'.active[n] < voices.active[n]
        /\ voices'.dropped[n] > voices.dropped[n]
        /\ Count(voices.active) >= 2
        => \E l, h \in Notes : /\ l <= n /\ n <= h
                               /\ voices'.active[l] > 0 /\ voices'.active[h] > 0

KeepsOuterVoices == [][OuterVoicesStay]_vars

\* A strike lasts: no note-off, eviction or deferred release ends a pitch sooner
\* than min_note_duration after its last strike, to within the emit-ahead window,
\* not even the only pitch that sounds.  A mute, a pause and a seek silence
\* everything, as they must.
StrikeLasts ==
    [][\/ \A n \in sounding \ sounding' : struck[n] >= MinDuration - EmitAhead
       \/ Mute
       \/ PauseOrSeek]_vars

-----------------------------------------------------------------------------
\* "prevents a later real noteOff from being wrongly swallowed", says
\* resetNoteTracking of a pause; a mute leaves the note-off of a dropped note
\* to be swallowed from a later one.
MuteLeavesNoStuckNote == AtRest => sounding = {}
=============================================================================
