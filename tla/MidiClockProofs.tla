---------------------------- MODULE MidiClockProofs ----------------------------
(***************************************************************************)
(* The ticks of MidiClockGenerator and MidiPlayer, for any slaves, delays, *)
(* positions and bounds: one chain of ticks while the clock runs, a clock  *)
(* that runs exactly for the player that started it, and slaves that stand *)
(* where it does when they have heard everything.                          *)
(*                                                                         *)
(* The first is not inductive alone: that a paused player resumes a clock  *)
(* rests on the clock having paused with it, and not stopped.  The slaves  *)
(* follow from where the messages still on their way lead them.            *)
(***************************************************************************)
EXTENDS MidiClock, SequenceTheorems, WellFoundedInduction, TLAPS

Clocks == [enabled : BOOLEAN, running : BOOLEAN, paused : BOOLEAN, armed : Nat]

\* The part of the state that the theorems are about.
ClockType ==
    /\ player \in {"stopped", "playing", "paused", "advancing"}
    /\ clock \in Clocks
    /\ toggled \in BOOLEAN

\* The clock of a paused player is paused with it, or was switched off.
PausesTogether ==
    /\ player = "stopped" => ~clock.running
    /\ clock.paused => clock.running /\ player \in {"paused", "advancing"}
    /\ player = "paused" /\ ~toggled => clock.running /\ clock.paused

\* A clock that runs, or that nobody switched off since a start, is enabled.
EnabledWhileRunning ==
    clock.running \/ ~toggled => clock.enabled

\* The number of tick timers of a sound clock.
Sound(c) == c.armed = IF c.running /\ ~c.paused THEN 1 ELSE 0

IInv == ClockType /\ TicksFollowPlayer /\ PausesTogether /\ EnabledWhileRunning

-----------------------------------------------------------------------------
LEMMA Quiet ==
  ASSUME NEW c \in Clocks,
         NEW d, d = [c EXCEPT !.running = FALSE, !.paused = FALSE, !.armed = 0]
  PROVE  /\ d \in Clocks
         /\ d.armed = 0 /\ ~d.running /\ ~d.paused
         /\ d.enabled = c.enabled
  BY DEF Clocks

\* What a stop makes of a clock.
LEMMA StopEffect ==
  ASSUME NEW c \in Clocks, Sound(c), c.paused => c.running,
         NEW d, d = ClockStopped(c)
  PROVE  /\ d \in Clocks
         /\ d.armed = 0 /\ ~d.running /\ ~d.paused
         /\ d.enabled = c.enabled
<1>1. CASE c.running
  <2>1. Disarmed(c) = 0
    BY DEF Sound, Disarmed
  <2>2. d = [c EXCEPT !.running = FALSE, !.paused = FALSE, !.armed = 0]
    BY <1>1, <2>1 DEF ClockStopped
  <2> QED
    BY <2>2, Quiet
<1>2. CASE ~c.running
  <2>1. d = c
    BY <1>2 DEF ClockStopped
  <2> QED
    BY <1>2, <2>1 DEF Sound
<1> QED
  BY <1>1, <1>2

\* What a start makes of a clock.
LEMMA StartEffect ==
  ASSUME NEW c \in Clocks, Sound(c), c.paused => c.running,
         NEW w, NEW position,
         StartPlayback(c, w, position)
  PROVE  \/ /\ c.enabled /\ toggled' = FALSE
            /\ clock' \in Clocks /\ clock'.enabled
            /\ clock'.running /\ ~clock'.paused /\ clock'.armed = 1
         \/ ~c.enabled /\ clock' = c /\ toggled' = toggled
<1>1. CASE c.enabled
  <2> DEFINE n == (IF c.running THEN Disarmed(c) ELSE c.armed) + 1
  <2>1. n = 1
    BY DEF Sound, Disarmed, Clocks
  <2>2. /\ clock' = [c EXCEPT !.running = TRUE, !.paused = FALSE, !.armed = n]
        /\ toggled' = FALSE
    BY <1>1 DEF StartPlayback, ClockStarted
  <2> HIDE DEF n
  <2> QED
    BY <1>1, <2>1, <2>2 DEF Clocks
<1>2. CASE ~c.enabled
  BY <1>2 DEF StartPlayback
<1> QED
  BY <1>1, <1>2

LEMMA InitIInv == Init => IInv
  BY DEF Init, IInv, ClockType, Clocks, Runs, TicksFollowPlayer, PausesTogether,
     EnabledWhileRunning

LEMMA StepIInv == IInv /\ [Next]_vars => IInv'
<1> SUFFICES ASSUME IInv, [Next]_vars PROVE IInv'
  OBVIOUS
<1> USE DEF IInv, ClockType, Sound, Runs, TicksFollowPlayer, PausesTogether,
            EnabledWhileRunning
<1>0. /\ clock.enabled \in BOOLEAN /\ clock.running \in BOOLEAN
      /\ clock.paused \in BOOLEAN /\ clock.armed \in Nat
  BY DEF Clocks
<1>1. CASE Play
  <2>1. \/ /\ clock.enabled /\ toggled' = FALSE
           /\ clock' \in Clocks /\ clock'.enabled
           /\ clock'.running /\ ~clock'.paused /\ clock'.armed = 1
        \/ ~clock.enabled /\ clock' = clock /\ toggled' = toggled
    BY <1>1, StartEffect DEF Play
  <2> QED
    BY <1>0, <1>1, <2>1 DEF Play
<1>2. CASE Advance
  BY <1>2 DEF Advance
<1>3. CASE Stop
  <2>1. /\ clock' \in Clocks
        /\ clock'.armed = 0 /\ ~clock'.running /\ ~clock'.paused
        /\ clock'.enabled = clock.enabled
    BY <1>3, StopEffect DEF Stop, StopPlayback
  <2> QED
    BY <1>0, <1>3, <2>1 DEF Stop
<1>4. CASE Pause
  <2>1. CASE Runs
    <3>1. Disarmed(clock) = 0
      BY <2>1 DEF Disarmed
    <3>2. clock' = [clock EXCEPT !.paused = TRUE, !.armed = 0]
      BY <1>4, <2>1, <3>1 DEF Pause
    <3>3. /\ clock' \in Clocks /\ clock'.paused /\ clock'.armed = 0
          /\ clock'.running = clock.running /\ clock'.enabled = clock.enabled
      BY <3>2 DEF Clocks
    <3> QED
      BY <1>0, <1>4, <2>1, <3>3 DEF Pause
  <2>2. CASE ~Runs
    BY <1>4, <2>2 DEF Pause
  <2> QED
    BY <2>1, <2>2
<1>5. CASE Resume
  <2>1. CASE clock.running /\ clock.paused
    <3>1. clock.armed + 1 = 1
      BY <2>1
    <3>2. clock' = [clock EXCEPT !.paused = FALSE, !.armed = 1]
      BY <1>5, <2>1, <3>1 DEF Resume
    <3>3. clock' \in Clocks
      BY <3>2 DEF Clocks
    <3>4. /\ ~clock'.paused /\ clock'.armed = 1
          /\ clock'.running = clock.running /\ clock'.enabled = clock.enabled
      BY <3>2 DEF Clocks
    <3> QED
      BY <1>0, <1>5, <2>1, <3>3, <3>4 DEF Resume
  <2>2. CASE ~(clock.running /\ clock.paused)
    BY <1>5, <2>2 DEF Resume
  <2> QED
    BY <2>1, <2>2
<1>6. ASSUME NEW position \in Positions, SeekPlaying(position) PROVE IInv'
  <2> DEFINE c == ClockStopped(clock)
  <2>1. c \in Clocks /\ c.armed = 0 /\ c.enabled = clock.enabled /\ ~c.running /\ ~c.paused
    BY StopEffect
  <2>2. StartPlayback(c, WireStopped(clock, wire), position)
    BY <1>6 DEF SeekPlaying
  <2>3. player' = player /\ player = "playing"
    BY <1>6 DEF SeekPlaying
  <2> HIDE DEF c
  <2>4. \/ /\ c.enabled /\ toggled' = FALSE
           /\ clock' \in Clocks /\ clock'.enabled
           /\ clock'.running /\ ~clock'.paused /\ clock'.armed = 1
        \/ ~c.enabled /\ clock' = c /\ toggled' = toggled
    BY <2>1, <2>2, StartEffect
  <2> QED
    BY <1>0, <2>1, <2>3, <2>4
<1>7. ASSUME NEW position \in Positions, SeekPaused(position) PROVE IInv'
  BY <1>7 DEF SeekPaused
<1>8. CASE Enable
  <2>1. /\ clock' \in Clocks /\ clock'.enabled /\ clock'.armed = clock.armed
        /\ clock'.running = clock.running /\ clock'.paused = clock.paused
    BY <1>8 DEF Enable, Clocks
  <2> QED
    BY <1>0, <1>8, <2>1 DEF Enable
<1>9. CASE Disable
  <2> DEFINE c == ClockStopped(clock)
  <2>1. c \in Clocks /\ c.armed = 0 /\ ~c.running /\ ~c.paused
    BY StopEffect
  <2>2. clock' = [c EXCEPT !.enabled = FALSE] /\ toggled' = TRUE /\ player' = player
    BY <1>9 DEF Disable
  <2> HIDE DEF c
  <2>3. /\ clock' \in Clocks /\ clock'.armed = 0 /\ ~clock'.running /\ ~clock'.paused
    BY <2>1, <2>2 DEF Clocks
  <2> QED
    BY <1>0, <2>2, <2>3
<1>10. ASSUME NEW held \in Buckets, Resettle(held) PROVE IInv'
  BY <1>10 DEF Resettle
<1>11. CASE Tick
  <2>1. clock' = clock
    BY <1>0, <1>11 DEF Tick
  <2> QED
    BY <1>11, <2>1 DEF Tick
<1>12. CASE Elapse
  BY <1>12 DEF Elapse
<1>13. ASSUME NEW d \in Slaves, Fire(d) PROVE IInv'
  BY <1>13 DEF Fire
<1>14. CASE UNCHANGED vars
  BY <1>14 DEF vars
<1> QED
  BY <1>1, <1>2, <1>3, <1>4, <1>5, <1>6, <1>7, <1>8, <1>9, <1>10, <1>11, <1>12, <1>13, <1>14
     DEF Next

LEMMA Inductive == Spec => []IInv
  BY InitIInv, StepIInv, PTL DEF Spec

(* Seeks, queue items, pauses and toggles in any order leave one chain of  *)
(* ticks to a clock that runs, and none to one that does not; it runs only *)
(* for a player that plays or changes files, and is never lost by one that *)
(* started it.                                                             *)
THEOREM TicksFollow == Spec => []TicksFollowPlayer
<1>1. IInv => TicksFollowPlayer
  BY DEF IInv, TicksFollowPlayer
<1> QED
  BY <1>1, Inductive, PTL
-----------------------------------------------------------------------------
\* What the slaves do.  A slave that nothing overtakes obeys its queue from the
\* front, so the state it is going to reach is that at the end of a path.

SlaveStates == [on : BOOLEAN, at : Nat]
Messages == [type : {"start", "continue", "stop", "position", "clock"}, at : Nat]
Timers == [message : Messages, delay : Nat, in : Nat]

Wires == [queue : [Slaves -> Seq(Timers)], slave : [Slaves -> SlaveStates],
          overtaken : SUBSET Slaves, cut : SUBSET Slaves]

\* The states that a slave goes through on the messages of a queue.
IsPath(p, s, q) ==
    /\ p \in [0 .. Len(q) -> SlaveStates]
    /\ p[0] = s
    /\ \A i \in 1 .. Len(q) : p[i] = Obey(p[i - 1], q[i].message)

\* On them the slave ends in a state.
Leads(s, q, e) == \E p : IsPath(p, s, q) /\ p[Len(q)] = e

\* While the clock stands nothing on its way sets a slave off, and what still
\* runs is about to be stopped, whichever message comes first.
Quieted(w, runs) ==
    ~runs => \A d \in Slaves :
        /\ \A i \in 1 .. Len(w.queue[d]) :
               w.queue[d][i].message.type \notin {"start", "continue"}
        /\ w.slave[d].on => \E i \in 1 .. Len(w.queue[d]) : w.queue[d][i].message.type = "stop"

\* A slave is led to where the clock is.
Steered(w, runs, at) ==
    \A d \in Slaves : d \notin w.overtaken =>
        \E e \in SlaveStates : /\ Leads(w.slave[d], w.queue[d], e)
                               /\ e.on = runs
                               /\ d \notin w.cut => e.at = at

Guided(w, runs, at) == w \in Wires /\ Quieted(w, runs) /\ Steered(w, runs, at)

\* A nonempty set of naturals has a least element.
LEMMA LeastNat ==
  ASSUME NEW T \in SUBSET Nat, T # {}
  PROVE  \E x \in T : \A y \in T : x <= y
<1> DEFINE Less == {ss \in Nat \X Nat : ss[1] < ss[2]}
<1>1. IsWellFoundedOn(Less, Nat)
  BY NatLessThanWellFounded DEF OpToRel
<1>2. PICK x \in T : \A y \in T : <<y, x>> \notin Less
  <2> HIDE DEF Less
  <2> QED
    BY <1>1, WFMin
<1>3. ASSUME NEW y \in T PROVE x <= y
  <2>1. x \in Nat /\ y \in Nat
    OBVIOUS
  <2>2. ~(y < x)
    BY <1>2, <2>1
  <2> QED
    BY <2>1, <2>2
<1> QED
  BY <1>3

LEMMA ObeyType ==
  ASSUME NEW s \in SlaveStates, NEW m \in Messages
  PROVE  Obey(s, m) \in SlaveStates
<1>1. CASE m.type = "start"
  BY <1>1 DEF Obey, SlaveStates
<1>2. CASE m.type = "continue"
  BY <1>2 DEF Obey, SlaveStates
<1>3. CASE m.type = "stop"
  BY <1>3 DEF Obey, SlaveStates
<1>4. CASE m.type = "position"
  BY <1>4 DEF Obey, SlaveStates, Messages
<1>5. CASE m.type = "clock"
  BY <1>5 DEF Obey, SlaveStates, Pulsed
<1> QED
  BY <1>1, <1>2, <1>3, <1>4, <1>5 DEF Messages

LEMMA LeadsNowhere ==
  ASSUME NEW s \in SlaveStates
  PROVE  /\ Leads(s, <<>>, s)
         /\ \A e : Leads(s, <<>>, e) => e = s
<1> DEFINE p == [i \in 0 .. 0 |-> s]
<1>1. IsPath(p, s, <<>>) /\ p[Len(<<>>)] = s
  BY DEF IsPath
<1> HIDE DEF p
<1> QED
  BY <1>1 DEF Leads, IsPath

\* One message more.
LEMMA LeadsOn ==
  ASSUME NEW s \in SlaveStates, NEW q \in Seq(Timers), NEW t \in Timers, NEW e,
         Leads(s, q, e)
  PROVE  e \in SlaveStates /\ Leads(s, Append(q, t), Obey(e, t.message))
<1> DEFINE r == Append(q, t)
           n == Len(q)
<1>1. PICK p : IsPath(p, s, q) /\ p[n] = e
  BY DEF Leads
<1>2. n \in Nat /\ r \in Seq(Timers) /\ Len(r) = n + 1 /\ r[n + 1] = t
      /\ \A i \in 1 .. n : r[i] = q[i]
  OBVIOUS
<1>3. e \in SlaveStates
  BY <1>1, <1>2 DEF IsPath
<1>4. t.message \in Messages
  BY DEF Timers
<1> DEFINE o == [i \in 0 .. n + 1 |-> IF i = n + 1 THEN Obey(e, t.message) ELSE p[i]]
<1> HIDE DEF r, n
<1>5. o \in [0 .. Len(r) -> SlaveStates]
  <2>1. ASSUME NEW i \in 0 .. n + 1, i # n + 1 PROVE p[i] \in SlaveStates
    BY <1>1, <1>2, <2>1 DEF IsPath, n
  <2> QED
    BY <1>2, <1>3, <1>4, <2>1, ObeyType
<1>6. o[0] = s
  BY <1>1, <1>2 DEF IsPath
<1>7. ASSUME NEW i \in 1 .. Len(r) PROVE o[i] = Obey(o[i - 1], r[i].message)
  <2>1. CASE i = n + 1
    <3>1. o[i] = Obey(e, t.message) /\ o[i - 1] = p[n] /\ r[i] = t
      BY <1>2, <2>1
    <3> QED
      BY <1>1, <3>1
  <2>2. CASE i # n + 1
    <3>1. i \in 1 .. n /\ o[i] = p[i] /\ o[i - 1] = p[i - 1] /\ r[i] = q[i]
      BY <1>2, <2>2
    <3> QED
      BY <1>1, <3>1 DEF IsPath, n
  <2> QED
    BY <2>1, <2>2
<1>8. IsPath(o, s, r) /\ o[Len(r)] = Obey(e, t.message)
  BY <1>2, <1>5, <1>6, <1>7 DEF IsPath
<1> QED
  BY <1>3, <1>8 DEF Leads, r

\* One message less: its slave has obeyed it.
LEMMA LeadsFrom ==
  ASSUME NEW s \in SlaveStates, NEW q \in Seq(Timers), q # <<>>, NEW e, Leads(s, q, e)
  PROVE  Leads(Obey(s, q[1].message), RemoveAt(q, 1), e)
<1> DEFINE r == RemoveAt(q, 1)
           n == Len(q)
<1>1. PICK p : IsPath(p, s, q) /\ p[n] = e
  BY DEF Leads
<1>2. n \in Nat /\ n > 0
  OBVIOUS
<1>3. r \in Seq(Timers) /\ Len(r) = n - 1 /\ \A i \in 1 .. n - 1 : r[i] = q[i + 1]
  <2>1. r = SubSeq(q, 1, 0) \o SubSeq(q, 2, n)
    BY DEF RemoveAt
  <2>2. SubSeq(q, 1, 0) = <<>>
    OBVIOUS
  <2>3. SubSeq(q, 2, n) \in Seq(Timers) /\ Len(SubSeq(q, 2, n)) = n - 1
        /\ \A i \in 1 .. n - 1 : SubSeq(q, 2, n)[i] = q[i + 1]
    <3>1. n \in Int /\ \A i \in 2 .. n : q[i] \in Timers
      BY <1>2, ElementOfSeq
    <3>2. \A i \in 1 .. n - 2 + 1 : SubSeq(q, 2, n)[i] = q[2 + i - 1]
      BY <3>1, SubSeqProperties
    <3>3. SubSeq(q, 2, n) \in Seq(Timers)
          /\ Len(SubSeq(q, 2, n)) = IF 2 <= n THEN n - 2 + 1 ELSE 0
      BY <3>1, SubSeqProperties
    <3>4. n - 2 + 1 = n - 1 /\ \A i \in 1 .. n - 1 : 2 + i - 1 = i + 1
      BY <1>2
    <3> HIDE DEF n
    <3> QED
      BY <1>2, <3>2, <3>3, <3>4
  <2> QED
    BY <2>1, <2>2, <2>3
<1> DEFINE o == [i \in 0 .. n - 1 |-> p[i + 1]]
<1> HIDE DEF r, n
<1>4. ASSUME NEW i \in 0 .. n - 1 PROVE p[i + 1] \in SlaveStates
  BY <1>1, <1>2 DEF IsPath, n
<1>5. o \in [0 .. Len(r) -> SlaveStates]
  BY <1>3, <1>4
<1>6. o[0] = Obey(s, q[1].message)
  BY <1>1, <1>2 DEF IsPath, n
<1>7. ASSUME NEW i \in 1 .. Len(r) PROVE o[i] = Obey(o[i - 1], r[i].message)
  <2>1. i + 1 \in 1 .. n /\ i \in 1 .. n - 1
    BY <1>2, <1>3
  <2>2. p[i + 1] = Obey(p[(i + 1) - 1], q[i + 1].message)
    BY <1>1, <2>1 DEF IsPath, n
  <2>3. o[i] = p[i + 1] /\ o[i - 1] = p[i] /\ (i + 1) - 1 = i
    BY <1>2, <2>1
  <2> QED
    BY <1>3, <2>1, <2>2, <2>3
<1>8. o[Len(r)] = e
  <2>1. Len(r) \in 0 .. n - 1 /\ Len(r) + 1 = n
    BY <1>2, <1>3
  <2> QED
    BY <1>1, <2>1
<1> HIDE DEF o
<1>9. IsPath(o, Obey(s, q[1].message), r)
  BY <1>5, <1>6, <1>7 DEF IsPath
<1> QED
  BY <1>8, <1>9 DEF Leads, r

\* The same messages, whenever they come.
LEMMA LeadsLater ==
  ASSUME NEW s, NEW q, NEW r, NEW e, Leads(s, q, e), Len(r) = Len(q),
         \A i \in 1 .. Len(q) : r[i].message = q[i].message
  PROVE  Leads(s, r, e)
<1>1. PICK p : IsPath(p, s, q) /\ p[Len(q)] = e
  BY DEF Leads
<1>2. IsPath(p, s, r) /\ p[Len(r)] = e
  BY <1>1 DEF IsPath
<1> QED
  BY <1>2 DEF Leads

\* Messages that do not move a slave leave it where it is.
LEMMA LeadsUnmoved ==
  ASSUME NEW s \in SlaveStates, NEW q \in Seq(Timers), NEW e, Leads(s, q, e),
         \A i \in 1 .. Len(q) : ~Moves(q[i].message)
  PROVE  e.at = s.at
<1> DEFINE n == Len(q)
<1>1. PICK p : IsPath(p, s, q) /\ p[n] = e
  BY DEF Leads
<1>2. n \in Nat
  OBVIOUS
<1>3. ASSUME NEW i \in 1 .. n PROVE p[i].at = p[i - 1].at
  <2>1. p[i] = Obey(p[i - 1], q[i].message) /\ p[i - 1] \in SlaveStates
    BY <1>1, <1>2 DEF IsPath
  <2>2. q[i] \in Timers
    OBVIOUS
  <2>3. q[i].message.type \in {"continue", "stop"}
    BY <2>2 DEF Timers, Messages, Moves, Locates
  <2> QED
    BY <2>1, <2>3 DEF Obey, SlaveStates
<1> HIDE DEF n
<1> DEFINE Strayed == {i \in 0 .. n : p[i].at # s.at}
<1>4. CASE Strayed = {}
  BY <1>1, <1>2, <1>4
<1>5. CASE Strayed # {}
  <2>1. PICK i \in Strayed : \A j \in Strayed : i <= j
    <3>1. Strayed \in SUBSET Nat
      BY <1>2
    <3> HIDE DEF Strayed
    <3> QED
      BY <1>5, <3>1, LeastNat
  <2>2. i # 0
    BY <1>1, <2>1 DEF IsPath
  <2>3. i - 1 \in 0 .. n /\ i \in 1 .. n
    BY <1>2, <2>1, <2>2
  <2>4. i - 1 \notin Strayed
    BY <2>1, <2>3
  <2> QED
    BY <1>3, <2>1, <2>3, <2>4
<1> QED
  BY <1>4, <1>5

-----------------------------------------------------------------------------
\* One message sent to a slave that has obeyed what came before.
LEMMA SentFacts ==
  ASSUME NEW w \in Wires, NEW held \in Buckets, NEW m \in Messages,
         NEW v, v = Sent(w, held, m)
  PROVE  /\ v \in Wires
         /\ \A d \in Slaves : held[d] = 0 =>
                v.queue[d] = w.queue[d] /\ v.slave[d] = Obey(w.slave[d], m)
         /\ \A d \in Slaves : held[d] # 0 =>
                /\ \E t \in Timers : t.message = m /\ v.queue[d] = Append(w.queue[d], t)
                /\ v.slave[d] = w.slave[d]
         /\ \A d \in Slaves : d \notin v.overtaken =>
                /\ held[d] = 0 => w.queue[d] = <<>>
                /\ d \notin w.overtaken \/ (Locates(m) /\ w.queue[d] = <<>>)
         /\ v.cut = IF Locates(m) THEN {} ELSE w.cut
<1> DEFINE timer(d) == [message |-> m, delay |-> held[d], in |-> held[d]]
<1>1. /\ w.queue \in [Slaves -> Seq(Timers)] /\ w.slave \in [Slaves -> SlaveStates]
      /\ w.overtaken \subseteq Slaves /\ w.cut \subseteq Slaves
  BY DEF Wires
<1>2. \A d \in Slaves : held[d] \in Nat /\ timer(d) \in Timers
  BY MidiClockAssumption DEF Buckets, Timers
<1>3. \A d \in Slaves : Obey(w.slave[d], m) \in SlaveStates
  BY <1>1, ObeyType
<1>4. \A d \in Slaves : Append(w.queue[d], timer(d)) \in Seq(Timers)
  BY <1>1, <1>2, AppendProperties
<1>5. /\ v.queue = [d \in Slaves |-> IF held[d] = 0 THEN w.queue[d]
                                                    ELSE Append(w.queue[d], timer(d))]
      /\ v.slave = [d \in Slaves |-> IF held[d] = 0 THEN Obey(w.slave[d], m) ELSE w.slave[d]]
      /\ v.overtaken = {d \in Slaves : held[d] = 0 /\ w.queue[d] # <<>>}
                           \cup IF Locates(m) THEN {d \in w.overtaken : w.queue[d] # <<>>}
                                              ELSE w.overtaken
      /\ v.cut = IF Locates(m) THEN {} ELSE w.cut
      /\ v = [queue |-> v.queue, slave |-> v.slave, overtaken |-> v.overtaken, cut |-> v.cut]
  BY DEF Sent
<1>6. v \in Wires
  <2>1. v.queue \in [Slaves -> Seq(Timers)] /\ v.slave \in [Slaves -> SlaveStates]
    BY <1>1, <1>3, <1>4, <1>5
  <2>2. v.overtaken \subseteq Slaves /\ v.cut \subseteq Slaves
    BY <1>1, <1>5
  <2> QED
    BY <1>5, <2>1, <2>2 DEF Wires
<1>7. \A d \in Slaves : timer(d).message = m
  OBVIOUS
<1>8. ASSUME NEW d \in Slaves, held[d] # 0
      PROVE  /\ \E t \in Timers : t.message = m /\ v.queue[d] = Append(w.queue[d], t)
             /\ v.slave[d] = w.slave[d]
  <2>1. v.queue[d] = Append(w.queue[d], timer(d)) /\ v.slave[d] = w.slave[d]
    BY <1>5, <1>8
  <2> QED
    BY <1>2, <1>7, <2>1
<1>9. ASSUME NEW d \in Slaves, held[d] = 0
      PROVE  v.queue[d] = w.queue[d] /\ v.slave[d] = Obey(w.slave[d], m)
  BY <1>5, <1>9
<1>10. ASSUME NEW d \in Slaves, d \notin v.overtaken
       PROVE  /\ held[d] = 0 => w.queue[d] = <<>>
              /\ d \notin w.overtaken \/ (Locates(m) /\ w.queue[d] = <<>>)
  BY <1>1, <1>5, <1>10
<1> QED
  BY <1>5, <1>6, <1>8, <1>9, <1>10

LEMMA SentLeads ==
  ASSUME NEW w \in Wires, NEW held \in Buckets, NEW m \in Messages,
         NEW v, v = Sent(w, held, m), NEW d \in Slaves, d \notin v.overtaken,
         NEW e, Leads(w.slave[d], w.queue[d], e)
  PROVE  e \in SlaveStates /\ Leads(v.slave[d], v.queue[d], Obey(e, m))
<1>1. w.queue[d] \in Seq(Timers) /\ w.slave[d] \in SlaveStates
  BY DEF Wires
<1>2. CASE held[d] = 0
  <2>1. w.queue[d] = <<>> /\ v.queue[d] = <<>> /\ v.slave[d] = Obey(w.slave[d], m)
    BY <1>2, SentFacts
  <2>2. e = w.slave[d]
    BY <1>1, <2>1, LeadsNowhere
  <2> QED
    BY <1>1, <2>1, <2>2, ObeyType, LeadsNowhere
<1>3. CASE held[d] # 0
  <2>1. PICK t \in Timers : t.message = m /\ v.queue[d] = Append(w.queue[d], t)
    BY <1>3, SentFacts
  <2>2. v.slave[d] = w.slave[d]
    BY <1>3, SentFacts
  <2> QED
    BY <1>1, <2>1, <2>2, LeadsOn
<1> QED
  BY <1>2, <1>3

LEMMA MessageType ==
  ASSUME NEW type \in {"start", "continue", "stop", "clock"}, NEW position \in Nat
  PROVE  /\ Message(type) \in Messages /\ Message(type).type = type
         /\ Position(position) \in Messages /\ Position(position).type = "position"
         /\ Position(position).at = position
  BY DEF Messages, Message, Position

\* Timers cancelled: what was not going to move a slave leaves it in place.
LEMMA CancelledFacts ==
  ASSUME NEW w \in Wires, NEW runs, NEW at, Steered(w, runs, at),
         NEW v, v = Cancelled(w)
  PROVE  /\ v \in Wires /\ v.overtaken = w.overtaken
         /\ \A d \in Slaves : v.queue[d] = <<>> /\ v.slave[d] = w.slave[d]
         /\ \A d \in Slaves : d \notin v.overtaken /\ d \notin v.cut => v.slave[d].at = at
<1>1. /\ w.queue \in [Slaves -> Seq(Timers)] /\ w.slave \in [Slaves -> SlaveStates]
      /\ w.overtaken \subseteq Slaves /\ w.cut \subseteq Slaves
  BY DEF Wires
<1>2. /\ v.queue = [d \in Slaves |-> <<>>] /\ v.slave = w.slave /\ v.overtaken = w.overtaken
      /\ v.cut = w.cut \cup {d \in Slaves :
                               \E i \in DOMAIN w.queue[d] : Moves(w.queue[d][i].message)}
      /\ v = [queue |-> v.queue, slave |-> v.slave, overtaken |-> v.overtaken, cut |-> v.cut]
  BY DEF Cancelled, Wires
<1>3. v \in Wires
  <2>1. v.queue \in [Slaves -> Seq(Timers)]
    BY <1>2, EmptySeq
  <2>2. v.cut \subseteq Slaves
    BY <1>1, <1>2
  <2> QED
    BY <1>1, <1>2, <2>1, <2>2 DEF Wires
<1>4. ASSUME NEW d \in Slaves, d \notin v.overtaken, d \notin v.cut
      PROVE  v.slave[d].at = at
  <2>1. d \notin w.overtaken /\ d \notin w.cut
    BY <1>2, <1>4
  <2>2. PICK e \in SlaveStates : Leads(w.slave[d], w.queue[d], e) /\ e.at = at
    BY <2>1 DEF Steered
  <2>3. w.queue[d] \in Seq(Timers) /\ w.slave[d] \in SlaveStates
    BY <1>1
  <2>4. \A i \in 1 .. Len(w.queue[d]) : ~Moves(w.queue[d][i].message)
    BY <1>2, <1>4, <2>3, LenProperties
  <2>5. e.at = w.slave[d].at
    BY <2>2, <2>3, <2>4, LeadsUnmoved
  <2> QED
    BY <1>2, <2>2, <2>5
<1> QED
  BY <1>2, <1>3, <1>4

\* A slave off at the end of an empty queue, or before a stop.
LEMMA HaltedGuided ==
  ASSUME NEW w \in Wires, NEW runs, NEW at, Steered(w, runs, at), NEW held \in Buckets
  PROVE  Guided(Halted(w, held, Message("stop")), FALSE, at)
<1> DEFINE c == Cancelled(w)
           m == Message("stop")
           v == Sent(c, held, m)
<1>1. m \in Messages /\ m.type = "stop" /\ ~Locates(m)
  BY MessageType DEF Locates
<1>2. /\ c \in Wires /\ \A d \in Slaves : c.queue[d] = <<>>
      /\ \A d \in Slaves : d \notin c.overtaken /\ d \notin c.cut => c.slave[d].at = at
  BY CancelledFacts
<1>3. \A d \in Slaves : c.slave[d] \in SlaveStates
  BY <1>2 DEF Wires
<1>4. \A s \in SlaveStates : Obey(s, m).on = FALSE /\ Obey(s, m).at = s.at
  BY <1>1 DEF Obey, SlaveStates
<1> HIDE DEF c, m
<1>5. v \in Wires /\ v.cut = c.cut
  BY <1>1, <1>2, SentFacts
<1>6. Steered(v, FALSE, at)
  <2> SUFFICES ASSUME NEW d \in Slaves, d \notin v.overtaken
               PROVE  \E e \in SlaveStates : /\ Leads(v.slave[d], v.queue[d], e)
                                             /\ e.on = FALSE
                                             /\ d \notin v.cut => e.at = at
    BY DEF Steered
  <2>1. d \notin c.overtaken
    BY <1>1, <1>2, SentFacts
  <2>2. Leads(c.slave[d], c.queue[d], c.slave[d])
    BY <1>2, <1>3, LeadsNowhere
  <2>3. Leads(v.slave[d], v.queue[d], Obey(c.slave[d], m))
    BY <1>1, <1>2, <2>2, SentLeads
  <2>4. Obey(c.slave[d], m) \in SlaveStates
    BY <1>1, <1>3, ObeyType
  <2> QED
    BY <1>2, <1>3, <1>4, <1>5, <2>1, <2>3, <2>4
<1>7. Quieted(v, FALSE)
  <2> SUFFICES ASSUME NEW d \in Slaves
               PROVE  /\ \A i \in 1 .. Len(v.queue[d]) :
                             v.queue[d][i].message.type \notin {"start", "continue"}
                      /\ v.slave[d].on => \E i \in 1 .. Len(v.queue[d]) :
                                             v.queue[d][i].message.type = "stop"
    BY DEF Quieted
  <2>1. CASE held[d] = 0
    <3>1. v.queue[d] = <<>> /\ v.slave[d] = Obey(c.slave[d], m)
      BY <1>1, <1>2, <2>1, SentFacts
    <3> QED
      BY <1>3, <1>4, <3>1
  <2>2. CASE held[d] # 0
    <3>1. PICK t \in Timers : t.message = m /\ v.queue[d] = Append(<<>>, t)
      BY <1>1, <1>2, <2>2, SentFacts
    <3>2. Len(v.queue[d]) = 1 /\ v.queue[d][1] = t
      BY <3>1
    <3> QED
      BY <1>1, <3>1, <3>2
  <2> QED
    BY <2>1, <2>2
<1> QED
  BY <1>5, <1>6, <1>7 DEF Guided, Halted, c, m

\* A message that makes one state of all those a steered slave may be led to.
LEMMA SentSteers ==
  ASSUME NEW w \in Wires, NEW runs, NEW at, NEW held \in Buckets, NEW m \in Messages,
         NEW goal, NEW place,
         Steered(w, runs, at),
         \A s \in SlaveStates : s.on = runs =>
             /\ Obey(s, m).on = goal
             /\ Locates(m) \/ s.at = at => Obey(s, m).at = place,
         Locates(m) => \A d \in Slaves : w.queue[d] = <<>> =>
             Obey(w.slave[d], m).on = goal /\ Obey(w.slave[d], m).at = place
  PROVE  Steered(Sent(w, held, m), goal, place)
<1> DEFINE v == Sent(w, held, m)
<1> SUFFICES ASSUME NEW d \in Slaves, d \notin v.overtaken
             PROVE  \E e \in SlaveStates : /\ Leads(v.slave[d], v.queue[d], e)
                                           /\ e.on = goal
                                           /\ d \notin v.cut => e.at = place
  BY DEF Steered
<1>1. v.cut = IF Locates(m) THEN {} ELSE w.cut
  BY SentFacts
<1>2. d \notin w.overtaken \/ (Locates(m) /\ w.queue[d] = <<>>)
  BY SentFacts
<1>3. \A e \in SlaveStates : Leads(w.slave[d], w.queue[d], e) =>
          Obey(e, m) \in SlaveStates /\ Leads(v.slave[d], v.queue[d], Obey(e, m))
  BY SentLeads, ObeyType
<1> HIDE DEF v
<1>4. CASE d \notin w.overtaken
  <2>1. PICK e \in SlaveStates : /\ Leads(w.slave[d], w.queue[d], e) /\ e.on = runs
                                 /\ d \notin w.cut => e.at = at
    BY <1>4 DEF Steered
  <2> QED
    BY <1>1, <1>3, <2>1
<1>5. CASE Locates(m) /\ w.queue[d] = <<>>
  <2>1. w.slave[d] \in SlaveStates
    BY DEF Wires
  <2>2. Leads(w.slave[d], w.queue[d], w.slave[d])
    BY <1>5, <2>1, LeadsNowhere
  <2> QED
    BY <1>3, <1>5, <2>1, <2>2
<1> QED
  BY <1>2, <1>4, <1>5

\* A start is obeyed in every state.
LEMMA StartedGuided ==
  ASSUME NEW w \in Wires, NEW held \in Buckets,
         NEW c, c = w \/ (c = Cancelled(w)),
         NEW runs, NEW at, Steered(w, runs, at)
  PROVE  Guided(Sent(c, held, Message("start")), TRUE, 0)
<1> DEFINE m == Message("start")
           v == Sent(c, held, m)
<1>1. m \in Messages /\ m.type = "start"
  BY MessageType
<1>2. Locates(m) /\ \A s \in SlaveStates : Obey(s, m).on = TRUE /\ Obey(s, m).at = 0
  BY <1>1 DEF Locates, Obey, SlaveStates
<1>3. c \in Wires
  BY CancelledFacts
<1>4. ASSUME NEW d \in Slaves, d \notin c.overtaken
      PROVE  \E e \in SlaveStates : Leads(c.slave[d], c.queue[d], e)
  <2>1. CASE c = w
    BY <1>4, <2>1 DEF Steered
  <2>2. CASE c = Cancelled(w)
    <3>1. c.queue[d] = <<>>
      BY <2>2, CancelledFacts
    <3>2. c.slave[d] \in SlaveStates
      BY <1>3 DEF Wires
    <3> QED
      BY <3>1, <3>2, LeadsNowhere
  <2> QED
    BY <2>1, <2>2
<1> HIDE DEF m
<1>5. v \in Wires /\ v.cut = {}
  BY <1>1, <1>2, <1>3, SentFacts
<1>6. ASSUME NEW d \in Slaves, d \notin v.overtaken
      PROVE  \E e \in SlaveStates : Leads(v.slave[d], v.queue[d], e) /\ e.on = TRUE /\ e.at = 0
  <2>1. \E e \in SlaveStates : Leads(c.slave[d], c.queue[d], e)
    <3>1. CASE d \notin c.overtaken
      BY <1>4, <3>1
    <3>2. CASE c.queue[d] = <<>>
      <4>1. c.slave[d] \in SlaveStates
        BY <1>3 DEF Wires
      <4> QED
        BY <3>2, <4>1, LeadsNowhere
    <3> QED
      BY <1>1, <1>3, <1>6, <3>1, <3>2, SentFacts
  <2>2. PICK e \in SlaveStates : Leads(c.slave[d], c.queue[d], e)
    BY <2>1
  <2>3. Leads(v.slave[d], v.queue[d], Obey(e, m)) /\ Obey(e, m) \in SlaveStates
    BY <1>1, <1>3, <1>6, <2>2, SentLeads, ObeyType
  <2> QED
    BY <1>2, <2>3
<1> QED
  BY <1>5, <1>6 DEF Guided, Steered, Quieted, m

\* A resumed slave goes on from where it is.
LEMMA ContinuedGuided ==
  ASSUME NEW w, NEW at, Guided(w, FALSE, at), NEW held \in Buckets
  PROVE  Guided(Sent(w, held, Message("continue")), TRUE, at)
<1> DEFINE m == Message("continue")
<1>1. m \in Messages /\ m.type = "continue" /\ ~Locates(m)
  BY MessageType DEF Locates
<1>2. \A s \in SlaveStates : Obey(s, m).on = TRUE /\ Obey(s, m).at = s.at
  BY <1>1 DEF Obey, SlaveStates
<1> HIDE DEF m
<1>3. Sent(w, held, m) \in Wires
  BY <1>1, SentFacts DEF Guided
<1>4. Steered(Sent(w, held, m), TRUE, at)
  BY <1>1, <1>2, SentSteers DEF Guided
<1> QED
  BY <1>3, <1>4 DEF Guided, Quieted, m

\* A tick moves the slaves of a running clock, which run.
LEMMA TickedGuided ==
  ASSUME NEW w, NEW at \in 0 .. MaxSong, at < MaxSong, Guided(w, TRUE, at),
         NEW held \in Buckets
  PROVE  Guided(Sent(w, held, Message("clock")), TRUE, at + 1)
<1> DEFINE m == Message("clock")
<1>1. m \in Messages /\ m.type = "clock" /\ ~Locates(m)
  BY MessageType DEF Locates
<1>2. \A s \in SlaveStates : s.on = TRUE =>
          Obey(s, m).on = TRUE /\ (s.at = at => Obey(s, m).at = at + 1)
  BY <1>1, MidiClockAssumption DEF Obey, SlaveStates, Pulsed
<1> HIDE DEF m
<1>3. Sent(w, held, m) \in Wires
  BY <1>1, SentFacts DEF Guided
<1>4. Steered(Sent(w, held, m), TRUE, at + 1)
  BY <1>1, <1>2, SentSteers DEF Guided
<1> QED
  BY <1>3, <1>4 DEF Guided, Quieted, m

\* A position takes effect while the clock stands: whoever hears it is stopped.
LEMMA SoughtGuided ==
  ASSUME NEW w, NEW at, Guided(w, FALSE, at), NEW held \in Buckets, NEW position \in Nat
  PROVE  Guided(Sent(w, held, Position(position)), FALSE, position)
<1> DEFINE m == Position(position)
           v == Sent(w, held, m)
<1>1. m \in Messages /\ m.type = "position" /\ m.at = position /\ Locates(m)
  BY MessageType DEF Locates
<1>2. \A s \in SlaveStates : Obey(s, m).on = s.on /\ (s.on = FALSE => Obey(s, m).at = position)
  BY <1>1 DEF Obey, SlaveStates
<1>3. w \in Wires /\ Quieted(w, FALSE) /\ Steered(w, FALSE, at)
  BY DEF Guided
<1> HIDE DEF m
<1>4. \A d \in Slaves : w.queue[d] \in Seq(Timers) /\ w.slave[d] \in SlaveStates
  BY <1>3 DEF Wires
<1>5. ASSUME NEW d \in Slaves, w.queue[d] = <<>> PROVE w.slave[d].on = FALSE
  <2>1. w.slave[d].on \in BOOLEAN
    BY <1>4 DEF SlaveStates
  <2> QED
    BY <1>3, <1>5, <2>1 DEF Quieted
<1>6. v \in Wires
  BY <1>1, <1>3, SentFacts
<1>7. Steered(v, FALSE, position)
  <2>1. \A s \in SlaveStates : s.on = FALSE =>
            Obey(s, m).on = FALSE /\ (Locates(m) \/ s.at = at => Obey(s, m).at = position)
    BY <1>2
  <2>2. Locates(m) => \A d \in Slaves : w.queue[d] = <<>> =>
            Obey(w.slave[d], m).on = FALSE /\ Obey(w.slave[d], m).at = position
    BY <1>2, <1>4, <1>5
  <2> QED
    BY <1>1, <1>3, <2>1, <2>2, SentSteers
<1>8. Quieted(v, FALSE)
  <2> SUFFICES ASSUME NEW d \in Slaves
               PROVE  /\ \A i \in 1 .. Len(v.queue[d]) :
                             v.queue[d][i].message.type \notin {"start", "continue"}
                      /\ v.slave[d].on => \E i \in 1 .. Len(v.queue[d]) :
                                             v.queue[d][i].message.type = "stop"
    BY DEF Quieted
  <2>1. CASE held[d] = 0
    <3>1. v.queue[d] = w.queue[d] /\ v.slave[d] = Obey(w.slave[d], m)
      BY <1>1, <1>3, <2>1, SentFacts
    <3> QED
      BY <1>2, <1>3, <1>4, <3>1 DEF Quieted
  <2>2. CASE held[d] # 0
    <3>1. PICK t \in Timers : t.message = m /\ v.queue[d] = Append(w.queue[d], t)
      BY <1>1, <1>3, <2>2, SentFacts
    <3>2. v.slave[d] = w.slave[d]
      BY <1>1, <1>3, <2>2, SentFacts
    <3>3. /\ Len(v.queue[d]) = Len(w.queue[d]) + 1 /\ Len(w.queue[d]) \in Nat
          /\ \A i \in 1 .. Len(w.queue[d]) : v.queue[d][i] = w.queue[d][i]
          /\ v.queue[d][Len(w.queue[d]) + 1] = t
      BY <1>4, <3>1, AppendProperties, LenProperties
    <3> QED
      BY <1>1, <1>3, <3>1, <3>2, <3>3 DEF Quieted
  <2> QED
    BY <2>1, <2>2
<1> QED
  BY <1>6, <1>7, <1>8 DEF Guided, m

-----------------------------------------------------------------------------
\* Time brings the timers nearer and leaves the messages what they are.
LEMMA ElapseGuided ==
  ASSUME NEW runs, NEW at, Guided(wire, runs, at), Elapse
  PROVE  Guided(wire', runs, at)
<1> DEFINE q(d) == [i \in DOMAIN wire.queue[d] |-> Sooner(wire.queue[d][i])]
<1>1. /\ wire.queue \in [Slaves -> Seq(Timers)] /\ wire.slave \in [Slaves -> SlaveStates]
      /\ wire.overtaken \subseteq Slaves /\ wire.cut \subseteq Slaves
  BY DEF Guided, Wires
<1>2. /\ wire'.queue = [d \in Slaves |-> q(d)] /\ wire'.slave = wire.slave
      /\ wire'.overtaken = wire.overtaken /\ wire'.cut = wire.cut
      /\ wire' = [queue |-> wire'.queue, slave |-> wire'.slave,
                  overtaken |-> wire'.overtaken, cut |-> wire'.cut]
  BY DEF Elapse, Guided, Wires
<1>3. ASSUME NEW d \in Slaves
      PROVE  /\ q(d) \in Seq(Timers) /\ Len(q(d)) = Len(wire.queue[d])
             /\ \A i \in 1 .. Len(wire.queue[d]) : q(d)[i].message = wire.queue[d][i].message
  <2>1. DOMAIN wire.queue[d] = 1 .. Len(wire.queue[d]) /\ Len(wire.queue[d]) \in Nat
    BY <1>1, LenProperties
  <2>2. ASSUME NEW i \in 1 .. Len(wire.queue[d])
        PROVE  /\ Sooner(wire.queue[d][i]) \in Timers
               /\ Sooner(wire.queue[d][i]).message = wire.queue[d][i].message
    <3>1. wire.queue[d][i] \in Timers
      BY <1>1, ElementOfSeq
    <3>2. wire.queue[d][i].in > 0
      BY <2>1 DEF Elapse
    <3> QED
      BY <3>1, <3>2 DEF Timers, Sooner
  <2>3. q(d) \in [1 .. Len(wire.queue[d]) -> Timers]
    BY <2>1, <2>2
  <2>4. q(d) \in Seq(Timers) /\ Len(q(d)) = Len(wire.queue[d])
    BY <2>1, <2>3
  <2> QED
    BY <2>1, <2>2, <2>4
<1> HIDE DEF q
<1>4. wire' \in Wires
  BY <1>1, <1>2, <1>3 DEF Wires
<1>5. Quieted(wire', runs)
  BY <1>2, <1>3 DEF Guided, Quieted
<1>6. \A d \in Slaves, e \in SlaveStates :
          Leads(wire.slave[d], wire.queue[d], e) => Leads(wire'.slave[d], wire'.queue[d], e)
  BY <1>2, <1>3, LeadsLater
<1> QED
  BY <1>2, <1>4, <1>5, <1>6 DEF Guided, Steered

\* The messages that are left when one of them arrives.
LEMMA RestOfQueue ==
  ASSUME NEW q \in Seq(Timers), NEW i \in 1 .. Len(q), NEW r, r = RemoveAt(q, i)
  PROVE  /\ r \in Seq(Timers)
         /\ Len(r) = Len(q) - 1
         /\ \A j \in 1 .. Len(r) : r[j] = IF j < i THEN q[j] ELSE q[j + 1]
<1> DEFINE n == Len(q)
           a == SubSeq(q, 1, i - 1)
           b == SubSeq(q, i + 1, n)
<1>1. n \in Nat /\ i \in Nat /\ i >= 1 /\ i <= n /\ \A j \in 1 .. n : q[j] \in Timers
  BY LenProperties, ElementOfSeq
<1>2. /\ a \in Seq(Timers) /\ Len(a) = i - 1
      /\ \A j \in 1 .. i - 1 : a[j] = q[j]
  <2>1. 1 \in Int /\ i - 1 \in Int /\ \A j \in 1 .. i - 1 : q[j] \in Timers
    BY <1>1
  <2>2. /\ a \in Seq(Timers) /\ Len(a) = IF 1 <= i - 1 THEN i - 1 - 1 + 1 ELSE 0
        /\ \A j \in 1 .. i - 1 - 1 + 1 : a[j] = q[1 + j - 1]
    BY <2>1, SubSeqProperties
  <2> HIDE DEF a
  <2> QED
    BY <1>1, <2>2
<1>3. /\ b \in Seq(Timers) /\ Len(b) = n - i
      /\ \A j \in 1 .. n - i : b[j] = q[i + j]
  <2>1. i + 1 \in Int /\ n \in Int /\ \A j \in i + 1 .. n : q[j] \in Timers
    BY <1>1
  <2>2. /\ b \in Seq(Timers) /\ Len(b) = IF i + 1 <= n THEN n - (i + 1) + 1 ELSE 0
        /\ \A j \in 1 .. n - (i + 1) + 1 : b[j] = q[(i + 1) + j - 1]
    BY <2>1, SubSeqProperties
  <2> HIDE DEF b
  <2> QED
    BY <1>1, <2>2
<1>4. r = a \o b
  BY DEF RemoveAt
<1> HIDE DEF a, b, n
<1>5. /\ r \in Seq(Timers) /\ Len(r) = Len(a) + Len(b)
      /\ \A j \in 1 .. Len(a) + Len(b) : r[j] = IF j <= Len(a) THEN a[j] ELSE b[j - Len(a)]
  <2>1. a \o b \in Seq(Timers)
    BY <1>2, <1>3, ConcatProperties
  <2>2. Len(a \o b) = Len(a) + Len(b)
    BY <1>2, <1>3, ConcatProperties
  <2>3. \A j \in 1 .. Len(a) + Len(b) : (a \o b)[j] = IF j <= Len(a) THEN a[j] ELSE b[j - Len(a)]
    BY <1>2, <1>3, ConcatProperties
  <2> QED
    BY <1>4, <2>1, <2>2, <2>3
<1>6. Len(r) = n - 1
  BY <1>1, <1>2, <1>3, <1>5
<1>7. ASSUME NEW j \in 1 .. n - 1 PROVE r[j] = IF j < i THEN q[j] ELSE q[j + 1]
  <2>1. CASE j < i
    BY <1>1, <1>2, <1>3, <1>5, <2>1
  <2>2. CASE ~(j < i)
    <3>1. j - Len(a) \in 1 .. n - i /\ i + (j - Len(a)) = j + 1 /\ ~(j <= Len(a))
      BY <1>1, <1>2, <2>2
    <3>2. r[j] = b[j - Len(a)]
      BY <1>1, <1>2, <1>3, <1>5, <3>1
    <3> QED
      BY <1>3, <2>2, <3>1, <3>2
  <2> QED
    BY <2>1, <2>2
<1> QED
  BY <1>5, <1>6, <1>7 DEF n

\* A message that comes in turn takes its slave along the path; one that comes
\* before its turn makes it an overtaken one.
LEMMA FireGuided ==
  ASSUME NEW runs, NEW at, Guided(wire, runs, at), NEW d \in Slaves, Fire(d)
  PROVE  Guided(wire', runs, at)
<1> DEFINE q == wire.queue[d]
<1>1. /\ wire.queue \in [Slaves -> Seq(Timers)] /\ wire.slave \in [Slaves -> SlaveStates]
      /\ wire.overtaken \subseteq Slaves /\ wire.cut \subseteq Slaves
  BY DEF Guided, Wires
<1>2. q \in Seq(Timers) /\ wire.slave[d] \in SlaveStates
  BY <1>1
<1>3. DOMAIN q = 1 .. Len(q) /\ Len(q) \in Nat
  BY <1>2, LenProperties
<1>4. PICK i \in 1 .. Len(q) :
        wire' = [wire EXCEPT !.queue[d] = RemoveAt(@, i),
                             !.slave[d] = Obey(@, wire.queue[d][i].message),
                             !.overtaken = IF i > 1 THEN @ \cup {d} ELSE @]
  BY <1>3 DEF Fire
<1> DEFINE m == q[i].message
           r == RemoveAt(q, i)
           s == Obey(wire.slave[d], m)
<1>5. /\ wire'.queue = [wire.queue EXCEPT ![d] = r]
      /\ wire'.slave = [wire.slave EXCEPT ![d] = s]
      /\ wire'.overtaken = IF i > 1 THEN wire.overtaken \cup {d} ELSE wire.overtaken
      /\ wire'.cut = wire.cut
  BY <1>4 DEF Guided, Wires
<1>6. wire' = [queue |-> wire'.queue, slave |-> wire'.slave,
               overtaken |-> wire'.overtaken, cut |-> wire'.cut]
  BY <1>4 DEF Guided, Wires
<1>7. q[i] \in Timers /\ m \in Messages
  <2> HIDE DEF q
  <2>1. q[i] \in Timers
    BY <1>2, ElementOfSeq
  <2> QED
    BY <2>1 DEF Timers
<1>8. s \in SlaveStates
  BY <1>2, <1>7, ObeyType
<1>9. /\ r \in Seq(Timers) /\ Len(r) = Len(q) - 1
      /\ \A j \in 1 .. Len(r) : r[j] = IF j < i THEN q[j] ELSE q[j + 1]
  BY <1>2, RestOfQueue
<1>10. /\ wire'.queue[d] = r /\ wire'.slave[d] = s
       /\ \A f \in Slaves : f # d => wire'.queue[f] = wire.queue[f]
                                     /\ wire'.slave[f] = wire.slave[f]
  BY <1>1, <1>5
<1>11. wire' \in Wires
  <2> HIDE DEF r, s
  <2>1. wire'.queue \in [Slaves -> Seq(Timers)]
    BY <1>1, <1>5, <1>9
  <2>2. wire'.slave \in [Slaves -> SlaveStates]
    BY <1>1, <1>5, <1>8
  <2>3. wire'.overtaken \in SUBSET Slaves /\ wire'.cut \in SUBSET Slaves
    BY <1>1, <1>5
  <2> QED
    BY <1>6, <2>1, <2>2, <2>3 DEF Wires
<1>12. ASSUME i = 1, NEW e, Leads(wire.slave[d], q, e) PROVE Leads(s, r, e)
  <2>1. q # <<>>
    BY <1>3, <1>4
  <2>2. Leads(Obey(wire.slave[d], q[1].message), RemoveAt(q, 1), e)
    BY <1>2, <1>12, <2>1, LeadsFrom
  <2> QED
    BY <1>12, <2>2
<1> HIDE DEF q, m, r, s
<1>13. Quieted(wire', runs)
  <2> SUFFICES ASSUME ~runs, NEW f \in Slaves
               PROVE  /\ \A j \in 1 .. Len(wire'.queue[f]) :
                             wire'.queue[f][j].message.type \notin {"start", "continue"}
                      /\ wire'.slave[f].on => \E j \in 1 .. Len(wire'.queue[f]) :
                                                 wire'.queue[f][j].message.type = "stop"
    BY DEF Quieted
  <2>1. /\ \A j \in 1 .. Len(wire.queue[f]) :
               wire.queue[f][j].message.type \notin {"start", "continue"}
        /\ wire.slave[f].on => \E j \in 1 .. Len(wire.queue[f]) :
                                  wire.queue[f][j].message.type = "stop"
    BY DEF Guided, Quieted
  <2>2. CASE f # d
    BY <1>10, <2>1, <2>2
  <2>3. CASE f = d
    <3>1. \A j \in 1 .. Len(q) : q[j].message.type \notin {"start", "continue"}
      BY <2>1, <2>3 DEF q
    <3>2. wire.slave[d].on => \E j \in 1 .. Len(q) : q[j].message.type = "stop"
      BY <2>1, <2>3 DEF q
    <3>3. ASSUME NEW j \in 1 .. Len(r) PROVE r[j].message.type \notin {"start", "continue"}
      <4>1. j \in 1 .. Len(q) /\ j + 1 \in 1 .. Len(q)
        BY <1>3, <1>9
      <4> QED
        BY <1>9, <3>1, <4>1
    <3>4. m.type \in {"stop", "position", "clock"}
      BY <1>7, <3>1 DEF Messages, m
    <3>5. CASE m.type = "stop"
      <4>1. s.on = FALSE
        BY <1>2, <3>5 DEF s, Obey, SlaveStates
      <4> QED
        BY <1>10, <2>3, <3>3, <4>1
    <3>6. CASE m.type # "stop"
      <4>1. s.on = wire.slave[d].on
        BY <1>2, <3>4, <3>6 DEF s, Obey, SlaveStates
      <4>2. ASSUME NEW j \in 1 .. Len(q), q[j].message.type = "stop"
            PROVE  \E k \in 1 .. Len(r) : r[k].message.type = "stop"
        <5>1. j # i
          BY <3>6, <4>2 DEF m
        <5>2. CASE j < i
          <6>1. j \in 1 .. Len(r) /\ r[j] = q[j]
            BY <1>3, <1>9, <5>2
          <6> QED
            BY <4>2, <6>1
        <5>3. CASE j > i
          <6>1. j - 1 \in 1 .. Len(r) /\ ~(j - 1 < i) /\ (j - 1) + 1 = j
            BY <1>3, <1>9, <5>3
          <6>2. r[j - 1] = q[j]
            BY <1>9, <6>1
          <6> QED
            BY <4>2, <6>1, <6>2
        <5> QED
          BY <1>3, <5>1, <5>2, <5>3
      <4> QED
        BY <1>10, <2>3, <3>2, <3>3, <4>1, <4>2
    <3> QED
      BY <3>5, <3>6
  <2> QED
    BY <2>2, <2>3
<1>14. Steered(wire', runs, at)
  <2> SUFFICES ASSUME NEW f \in Slaves, f \notin wire'.overtaken
               PROVE  \E e \in SlaveStates : /\ Leads(wire'.slave[f], wire'.queue[f], e)
                                             /\ e.on = runs
                                             /\ f \notin wire'.cut => e.at = at
    BY DEF Steered
  <2>1. f \notin wire.overtaken /\ (f = d => ~(i > 1))
    BY <1>5
  <2>2. PICK e \in SlaveStates : /\ Leads(wire.slave[f], wire.queue[f], e)
                                 /\ e.on = runs
                                 /\ f \notin wire.cut => e.at = at
    BY <2>1 DEF Guided, Steered
  <2>3. CASE f # d
    BY <1>5, <1>10, <2>2, <2>3
  <2>4. CASE f = d
    <3>1. i = 1
      BY <1>3, <2>1, <2>4
    <3>2. Leads(s, r, e)
      BY <1>12, <2>2, <2>4, <3>1 DEF q
    <3> QED
      BY <1>5, <1>10, <2>2, <2>4, <3>2
  <2> QED
    BY <2>3, <2>4
<1> QED
  BY <1>11, <1>13, <1>14 DEF Guided

\* A start of the clock, on top of the stop that a seek makes or of nothing.
LEMMA StartPlaybackGuided ==
  ASSUME NEW c \in Clocks, NEW w, NEW at, NEW position \in 0 .. MaxSong,
         Guided(w, c.running /\ ~c.paused, at),
         position > 0 => ~c.running,
         delay \in Buckets, song = at, song \in 0 .. MaxSong,
         StartPlayback(c, w, position)
  PROVE  Guided(wire', Runs', song') /\ delay' \in Buckets /\ song' \in 0 .. MaxSong
<1>1. CASE ~c.enabled
  BY <1>1 DEF StartPlayback, Runs
<1>2. CASE c.enabled
  <2> DEFINE u == IF c.running THEN Cancelled(w) ELSE w
  <2>1. PICK held \in Buckets :
          /\ delay' = held /\ clock' = ClockStarted(c)
          /\ wire' = Located(u, held, position) /\ song' = position
    BY <1>2 DEF StartPlayback
  <2>2. Runs' = TRUE
    BY <2>1 DEF Runs, ClockStarted, Clocks
  <2>3. w \in Wires /\ Steered(w, c.running /\ ~c.paused, at)
    BY DEF Guided
  <2>4. Guided(wire', TRUE, position)
    <3>1. CASE position > 0
      <4>1. c.running = FALSE
        BY <3>1 DEF Clocks
      <4>2. u = w /\ Guided(w, FALSE, at)
        BY <4>1
      <4>3. Guided(Sent(w, held, Position(position)), FALSE, position)
        <5>1. position \in Nat
          BY MidiClockAssumption
        <5> QED
          BY <4>2, <5>1, SoughtGuided
      <4>4. wire' = Sent(Sent(w, held, Position(position)), held, Message("continue"))
        BY <2>1, <3>1, <4>2 DEF Located
      <4> QED
        BY <4>3, <4>4, ContinuedGuided
    <3>2. CASE ~(position > 0)
      <4>1. position = 0
        BY <3>2, MidiClockAssumption
      <4>2. wire' = Sent(u, held, Message("start"))
        BY <2>1, <3>2 DEF Located
      <4> HIDE DEF u
      <4>3. u = w \/ u = Cancelled(w)
        BY DEF u
      <4>4. Guided(Sent(u, held, Message("start")), TRUE, 0)
        BY <2>3, <4>3, StartedGuided
      <4> QED
        BY <4>1, <4>2, <4>4
    <3> QED
      BY <3>1, <3>2
  <2> HIDE DEF u
  <2> QED
    BY <2>1, <2>2, <2>4
<1> QED
  BY <1>1, <1>2

\* What a stop sends, if the clock runs at all.
LEMMA StopGuided ==
  ASSUME IInv, Guided(wire, Runs, song), delay \in Buckets
  PROVE  Guided(WireStopped(clock, wire), FALSE, song)
<1>1. CASE clock.running
  <2>1. wire \in Wires /\ Steered(wire, Runs, song)
    BY DEF Guided
  <2> QED
    BY <1>1, <2>1, HaltedGuided DEF WireStopped
<1>2. CASE ~clock.running
  <2>1. Runs = FALSE
    BY <1>2 DEF Runs
  <2> QED
    BY <1>2, <2>1 DEF WireStopped
<1> QED
  BY <1>1, <1>2

\* The slaves follow the clock, and what is on its way to them keeps them at it.
WInv == Guided(wire, Runs, song) /\ delay \in Buckets /\ song \in 0 .. MaxSong

LEMMA InitWInv == Init => WInv
<1> SUFFICES ASSUME Init PROVE WInv
  OBVIOUS
<1>1. Runs = FALSE /\ song = 0 /\ delay \in Buckets
  BY DEF Init, Runs
<1>2. wire \in Wires
  BY DEF Init, Wires, SlaveStates
<1>3. \A d \in Slaves : wire.queue[d] = <<>> /\ wire.slave[d] = [on |-> FALSE, at |-> 0]
  BY DEF Init
<1>4. Quieted(wire, FALSE)
  BY <1>3 DEF Quieted
<1>5. Steered(wire, FALSE, 0)
  <2>1. [on |-> FALSE, at |-> 0] \in SlaveStates
    BY DEF SlaveStates
  <2> QED
    BY <1>3, <2>1, LeadsNowhere DEF Steered
<1>6. 0 \in 0 .. MaxSong
  BY MidiClockAssumption
<1> QED
  BY <1>1, <1>2, <1>4, <1>5, <1>6 DEF WInv, Guided

LEMMA StepWInv == IInv /\ WInv /\ [Next]_vars => WInv'
<1> SUFFICES ASSUME IInv, WInv, [Next]_vars PROVE WInv'
  OBVIOUS
<1>0. /\ Guided(wire, Runs, song) /\ delay \in Buckets /\ song \in 0 .. MaxSong
      /\ clock \in Clocks /\ Runs \in BOOLEAN
      /\ wire \in Wires /\ Steered(wire, Runs, song)
  BY DEF WInv, IInv, ClockType, Clocks, Runs, Guided
<1>1. CASE Play
  <2>1. StartPlayback(clock, wire, 0)
    BY <1>1 DEF Play
  <2>2. 0 \in 0 .. MaxSong /\ ~(0 > 0)
    BY MidiClockAssumption
  <2> QED
    BY <1>0, <2>1, <2>2, StartPlaybackGuided DEF WInv, Runs
<1>2. CASE Advance
  BY <1>0, <1>2 DEF Advance, WInv, Runs
<1>3. CASE Stop
  <2>1. /\ clock' = ClockStopped(clock) /\ wire' = WireStopped(clock, wire)
        /\ delay' = delay /\ song' = song
    BY <1>3 DEF Stop, StopPlayback
  <2>2. Runs' = FALSE
    BY <1>0, <2>1 DEF Runs, ClockStopped, Clocks
  <2> QED
    BY <1>0, <2>1, <2>2, StopGuided DEF WInv
<1>4. CASE Pause
  <2>1. CASE Runs
    <3>1. /\ clock' = [clock EXCEPT !.paused = TRUE, !.armed = Disarmed(clock)]
          /\ wire' = Halted(wire, delay, Message("stop"))
          /\ delay' = delay /\ song' = song
      BY <1>4, <2>1 DEF Pause
    <3>2. Runs' = FALSE
      BY <1>0, <3>1 DEF Runs, Clocks
    <3> QED
      BY <1>0, <3>1, <3>2, HaltedGuided DEF WInv
  <2>2. CASE ~Runs
    <3>1. UNCHANGED <<clock, wire, delay, song>>
      BY <1>4, <2>2 DEF Pause
    <3> QED
      BY <1>0, <3>1 DEF WInv, Runs
  <2> QED
    BY <2>1, <2>2
<1>5. CASE Resume
  <2>1. CASE clock.running /\ clock.paused
    <3>1. /\ clock' = [clock EXCEPT !.paused = FALSE, !.armed = @ + 1]
          /\ wire' = Sent(wire, delay, Message("continue"))
          /\ delay' = delay /\ song' = song
      BY <1>5, <2>1 DEF Resume
    <3>2. Runs' = TRUE
      BY <1>0, <2>1, <3>1 DEF Runs, Clocks
    <3>3. Guided(wire, FALSE, song)
      BY <1>0, <2>1 DEF Runs
    <3> QED
      BY <1>0, <3>1, <3>2, <3>3, ContinuedGuided DEF WInv
  <2>2. CASE ~(clock.running /\ clock.paused)
    <3>1. UNCHANGED <<clock, wire, delay, song>>
      BY <1>5, <2>2 DEF Resume
    <3> QED
      BY <1>0, <3>1 DEF WInv, Runs
  <2> QED
    BY <2>1, <2>2
<1>6. ASSUME NEW position \in Positions, SeekPlaying(position) PROVE WInv'
  <2> DEFINE c == ClockStopped(clock)
             w == WireStopped(clock, wire)
  <2>1. c \in Clocks /\ c.running = FALSE
    <3>1. Sound(clock) /\ (clock.paused => clock.running)
      BY DEF IInv, TicksFollowPlayer, Runs, Sound, PausesTogether
    <3>2. c \in Clocks /\ ~c.running
      BY <1>0, <3>1, StopEffect
    <3> HIDE DEF c
    <3> QED
      BY <3>2 DEF Clocks
  <2>2. StartPlayback(c, w, position)
    BY <1>6 DEF SeekPlaying
  <2>3. Guided(w, FALSE, song)
    BY <1>0, StopGuided
  <2> HIDE DEF c, w
  <2>4. position \in 0 .. MaxSong
    BY MidiClockAssumption
  <2>5. (c.running /\ ~c.paused) = FALSE
    BY <2>1
  <2>6. Guided(w, c.running /\ ~c.paused, song)
    BY <2>3, <2>5
  <2> QED
    BY <1>0, <2>1, <2>2, <2>4, <2>6, StartPlaybackGuided DEF WInv, Runs
<1>7. ASSUME NEW position \in Positions, SeekPaused(position) PROVE WInv'
  <2>1. /\ wire' = Sent(wire, delay, Position(position)) /\ song' = position
        /\ clock' = clock /\ delay' = delay /\ player = "paused"
    BY <1>7 DEF SeekPaused
  <2>2. Runs = FALSE
    BY <1>0, <2>1 DEF IInv, TicksFollowPlayer
  <2>3. position \in 0 .. MaxSong /\ position \in Nat
    BY MidiClockAssumption
  <2>4. Guided(wire', FALSE, position)
    BY <1>0, <2>1, <2>2, <2>3, SoughtGuided
  <2>5. Runs' = FALSE
    BY <2>1, <2>2 DEF Runs
  <2> QED
    BY <1>0, <2>1, <2>3, <2>4, <2>5 DEF WInv
<1>8. CASE Enable
  <2>1. Runs' = Runs /\ UNCHANGED <<delay, wire, song>>
    BY <1>0, <1>8 DEF Enable, Runs, Clocks
  <2> QED
    BY <1>0, <2>1 DEF WInv
<1>9. CASE Disable
  <2>1. /\ clock' = [ClockStopped(clock) EXCEPT !.enabled = FALSE]
        /\ wire' = WireStopped(clock, wire) /\ delay' = delay /\ song' = song
    BY <1>9 DEF Disable
  <2>2. Runs' = FALSE
    BY <1>0, <2>1 DEF Runs, ClockStopped, Clocks
  <2> QED
    BY <1>0, <2>1, <2>2, StopGuided DEF WInv
<1>10. ASSUME NEW held \in Buckets, Resettle(held) PROVE WInv'
  BY <1>0, <1>10 DEF Resettle, WInv, Runs
<1>11. CASE Tick
  <2>1. CASE Runs
    <3>1. /\ song < MaxSong /\ wire' = Sent(wire, delay, Message("clock"))
          /\ song' = song + 1 /\ clock' = clock /\ delay' = delay
      BY <1>11, <2>1 DEF Tick
    <3>2. Guided(wire, TRUE, song)
      BY <1>0, <2>1
    <3>3. Guided(wire', TRUE, song + 1)
      BY <1>0, <3>1, <3>2, TickedGuided
    <3>4. Runs' = TRUE /\ song + 1 \in 0 .. MaxSong
      BY <1>0, <2>1, <3>1, MidiClockAssumption DEF Runs
    <3> QED
      BY <1>0, <3>1, <3>3, <3>4 DEF WInv
  <2>2. CASE ~Runs
    <3>1. /\ clock' = [clock EXCEPT !.armed = clock.armed - 1]
          /\ UNCHANGED <<wire, song, delay>>
      BY <1>11, <2>2 DEF Tick
    <3>2. Runs' = Runs
      BY <1>0, <3>1 DEF Runs, Clocks
    <3> QED
      BY <1>0, <3>1, <3>2 DEF WInv
  <2> QED
    BY <2>1, <2>2
<1>12. CASE Elapse
  <2>1. Guided(wire', Runs, song)
    BY <1>0, <1>12, ElapseGuided
  <2> QED
    BY <1>0, <1>12, <2>1 DEF Elapse, WInv, Runs
<1>13. ASSUME NEW d \in Slaves, Fire(d) PROVE WInv'
  <2>1. Guided(wire', Runs, song)
    BY <1>0, <1>13, FireGuided
  <2> QED
    BY <1>0, <1>13, <2>1 DEF Fire, WInv, Runs
<1>14. CASE UNCHANGED vars
  BY <1>0, <1>14 DEF vars, WInv, Runs
<1> QED
  BY <1>1, <1>2, <1>3, <1>4, <1>5, <1>6, <1>7, <1>8, <1>9, <1>10, <1>11, <1>12, <1>13, <1>14
     DEF Next

LEMMA SlavesGuided == Spec => []WInv
  BY InitWInv, StepWInv, Inductive, PTL DEF Spec

\* A slave that nothing is on its way to has ended its path.
LEMMA ReachedEnd ==
  ASSUME WInv, NEW d \in Slaves, Reached(d)
  PROVE  wire.slave[d].on = Runs /\ (d \notin wire.cut => wire.slave[d].at = song)
<1>1. wire.slave[d] \in SlaveStates
  BY DEF WInv, Guided, Wires
<1>2. PICK e \in SlaveStates : /\ Leads(wire.slave[d], <<>>, e) /\ e.on = Runs
                               /\ d \notin wire.cut => e.at = song
  BY DEF WInv, Guided, Steered, Reached
<1> QED
  BY <1>1, <1>2, LeadsNowhere

(* Whatever starts, pauses, seeks and toggles the operator makes, and      *)
(* whichever of their messages are still on their way, a slave that has    *)
(* received everything in turn runs exactly when the clock does: no timer  *)
(* of _dispatchToBuckets outlives the stop that should have cancelled it.  *)
THEOREM SlavesRun == Spec => []SlavesRunWithTheClock
<1>1. WInv => SlavesRunWithTheClock
  BY ReachedEnd DEF SlavesRunWithTheClock
<1> QED
  BY <1>1, SlavesGuided, PTL

(* And it has counted as many ticks as the clock since the last locate,    *)
(* unless _stopClockTimer cancelled one of them, or the locate, on its way.*)
THEOREM SlavesShare == Spec => []SlavesShareThePosition
<1>1. WInv => SlavesShareThePosition
  BY ReachedEnd DEF SlavesShareThePosition
<1> QED
  BY <1>1, SlavesGuided, PTL
=============================================================================
