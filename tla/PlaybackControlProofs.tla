------------------------ MODULE PlaybackControlProofs ------------------------
(***************************************************************************)
(* Proofs about PlaybackControl, for every set of files and of playlists.  *)
(*                                                                         *)
(* The methods of MidiPlayer are functions of the player, so the argument  *)
(* is one lemma per method: from a sound player it leaves a sound player.  *)
(* The theorems at the end join them, one step per action.                 *)
(***************************************************************************)
EXTENDS PlaybackControl, FiniteSetTheorems, SequenceTheorems, TLAPS

-----------------------------------------------------------------------------
(* The inductive invariant, in named parts.                                *)

Typed(s) == s \in PlayerType /\ s.queueIndex <= Len(s.queue)

\* The flags, the interval, the snapshot and the state machine agree.
FlagsAgree(s) ==
    /\ s.paused => s.playing
    /\ s.scheduling <=> s.playing /\ ~s.paused
    /\ s.playing => s.snapshot
    /\ s.playing => s.fsm = (IF s.paused THEN "paused" ELSE "playing")

\* A disabled clock is idle, and a player that never had a device idles too.
ClockIsEnabled(s) == s.clock # "idle" => s.clockEnabled
ClockAgrees(s) ==
    /\ s.clock # "idle" => s.playing \/ s.advancing
    /\ s.playing => s.clock # (IF s.paused THEN "running" ELSE "paused")
NeverStarted(s) ==
    ~s.outputDevice => ~s.playing /\ s.clock = "idle" /\ s.status = <<FALSE, FALSE>>

\* Current advances, without counting them.
IsCurrent(call) == call.kind = "advance" /\ call.current
NoneCurrent(s) == \A i \in DOMAIN s.calls : ~IsCurrent(s.calls[i])
AdvanceIsUnique(s) ==
    /\ \A i, j \in DOMAIN s.calls :
          IsCurrent(s.calls[i]) /\ IsCurrent(s.calls[j]) => i = j
    /\ \A i \in DOMAIN s.calls : IsCurrent(s.calls[i]) => s.advancing

Told(s) == s.status = Status(s) \/ (s.advancing /\ ~s.playing)

\* What every method preserves, even one called before the status is out.
Sound(s) ==
    /\ Typed(s)
    /\ FlagsAgree(s)
    /\ ClockIsEnabled(s)
    /\ ClockAgrees(s)
    /\ NeverStarted(s)
    /\ AdvanceIsUnique(s)

Orders == {"no", "stopped", "leaking"}

Inv == Sound(player) /\ Told(player) /\ draining \in BOOLEAN /\ halted \in Orders

\* What a stop leaves behind: nothing that could start a file by itself.
Dead(s) ==
    /\ ~s.playing /\ ~s.gapTimer /\ ~s.advancing
    /\ ~Leaks(s)
    /\ NoneCurrent(s)
    /\ \A i \in DOMAIN s.calls : s.calls[i].kind # "start"

HaltedIsDead == halted = "stopped" => Dead(player)

\* A player silenced with its clock running or its status untold is in the
\* hands of an advance, or stranded by one.
Half(s)  == ~s.playing /\ (s.clock # "idle" \/ s.status # Status(s))
Whole(s) == Half(s) => AdvanceUnderWay(s) \/ s.stranded

-----------------------------------------------------------------------------
(* The helpers.                                                            *)

LEMMA Transitions ==
    /\ \A a, b \in Lifecycle : TryTransition(a, b) \in Lifecycle
    /\ \A a \in Lifecycle : TryTransition(a, "playing") = "playing"
    /\ TryTransition("playing", "paused") = "paused"
    /\ TryTransition(TryTransition("paused", "seeking"), "paused") = "paused"
BY DEF TryTransition, ValidTransitions, Lifecycle

\* The fields the invariant speaks of, but for the types of the others.
SameTransport(s, t) ==
    /\ t.playing = s.playing /\ t.paused = s.paused /\ t.scheduling = s.scheduling
    /\ t.snapshot = s.snapshot /\ t.fsm = s.fsm /\ t.outputDevice = s.outputDevice
    /\ t.clock = s.clock /\ t.clockEnabled = s.clockEnabled
    /\ t.status = s.status /\ t.advancing = s.advancing /\ t.calls = s.calls

LEMMA SameTransportSound ==
    ASSUME NEW s, Sound(s), NEW t, Typed(t), SameTransport(s, t)
    PROVE  Sound(t) /\ (Told(s) => Told(t))
BY DEF Sound, FlagsAgree, ClockIsEnabled, ClockAgrees, NeverStarted, AdvanceIsUnique,
       SameTransport, Told, Status

\* The clock and the flags of a playing file are parts of the player.
LEMMA ClockTyped ==
    ASSUME NEW s \in PlayerType
    PROVE  /\ StopPlaybackClock(s) \in PlayerType
           /\ PausePlaybackClock(s) \in PlayerType
           /\ ResumePlaybackClock(s) \in PlayerType
           /\ StartPlaybackClock(s) \in PlayerType
           /\ Silence(s) \in PlayerType
<1>1. StopPlaybackClock(s) \in PlayerType
  BY DEF PlayerType, StopPlaybackClock
<1>2. PausePlaybackClock(s) \in PlayerType
  BY DEF PlayerType, PausePlaybackClock
<1>3. ResumePlaybackClock(s) \in PlayerType
  BY DEF PlayerType, ResumePlaybackClock
<1>4. StartPlaybackClock(s) \in PlayerType
  BY DEF PlayerType, StartPlaybackClock
<1>5. Silence(s) \in PlayerType
  BY DEF PlayerType, Silence
<1>. QED
  BY <1>1, <1>2, <1>3, <1>4, <1>5

LEMMA PauseSound ==
    ASSUME NEW s, Sound(s), s.playing, ~s.paused
    PROVE  Sound(Pause(s)) /\ Told(Pause(s)) /\ Pause(s).playing
<1> USE DEF Pause, BroadcastStatus, PausePlaybackClock, Status
<1>1. TryTransition(s.fsm, "paused") = "paused"
  BY Transitions DEF Sound, FlagsAgree
<1>2. Typed(Pause(s))
  BY <1>1, ZenonT(40) DEF Sound, Typed, PlayerType, Lifecycle
<1>3. FlagsAgree(Pause(s))
  BY <1>1 DEF Sound, Typed, PlayerType, FlagsAgree
<1>4. ClockIsEnabled(Pause(s)) /\ ClockAgrees(Pause(s)) /\ NeverStarted(Pause(s))
  BY DEF Sound, Typed, PlayerType, ClockIsEnabled, ClockAgrees, NeverStarted
<1>5. AdvanceIsUnique(Pause(s)) /\ Told(Pause(s)) /\ Pause(s).playing
  BY ZenonT(40) DEF Sound, Typed, PlayerType, AdvanceIsUnique, Told
<1>. QED
  BY <1>2, <1>3, <1>4, <1>5 DEF Sound

LEMMA SuspendTyped ==
    ASSUME NEW s, Typed(s), NEW call \in Calls
    PROVE  /\ Typed([s EXCEPT !.calls = Append(@, call)])
           /\ [s EXCEPT !.calls = Append(@, call)].calls = Append(s.calls, call)
BY AppendProperties DEF Typed, PlayerType

LEMMA BumpTokenTyped ==
    ASSUME NEW s, Typed(s)
    PROVE  Typed(BumpToken(s)) /\ NoneCurrent(BumpToken(s))
<1>. DEFINE bumped == [i \in DOMAIN s.calls |-> [s.calls[i] EXCEPT !.current = FALSE]]
<1>1. s.calls \in Seq(Calls)
  BY DEF Typed, PlayerType
<1>2. /\ Len(s.calls) \in Nat
      /\ DOMAIN s.calls = 1..Len(s.calls)
      /\ \A i \in DOMAIN s.calls : s.calls[i] \in Calls
  BY <1>1
<1>3. \A i \in DOMAIN s.calls : bumped[i] \in Calls /\ ~bumped[i].current
  BY <1>2 DEF Calls
<1>4. bumped \in [1..Len(s.calls) -> Calls]
  BY <1>2, <1>3
<1>5. bumped \in Seq(Calls)
  BY <1>2, <1>4, SeqDef
<1>6. BumpToken(s).calls = bumped
  BY DEF BumpToken, Typed, PlayerType
<1>7. NoneCurrent(BumpToken(s))
  BY <1>3, <1>6 DEF NoneCurrent, IsCurrent
<1>8. BumpToken(s) = [s EXCEPT !.calls = bumped]
  BY DEF BumpToken
<1>. HIDE DEF bumped
<1>. QED
  BY <1>5, <1>7, <1>8, ZenonT(40) DEF Typed, PlayerType

\* BumpToken changes nothing but the suspended handlers.
LEMMA BumpTokenFrame ==
    ASSUME NEW s, Typed(s)
    PROVE  /\ BumpToken(s) = [s EXCEPT !.calls = BumpToken(s).calls]
           /\ BumpToken(s).calls \in Seq(Calls)
           /\ Len(BumpToken(s).calls) = Len(s.calls)
           /\ DOMAIN BumpToken(s).calls = DOMAIN s.calls
           /\ \A i \in DOMAIN s.calls : BumpToken(s).calls[i].kind = s.calls[i].kind
<1>1. BumpToken(s) = [s EXCEPT !.calls = BumpToken(s).calls]
  BY DEF BumpToken, Typed, PlayerType
<1>2. s.calls \in Seq(Calls) /\ BumpToken(s).calls \in Seq(Calls)
  BY BumpTokenTyped DEF Typed, PlayerType
<1>3. DOMAIN BumpToken(s).calls = DOMAIN s.calls
  BY DEF BumpToken, Typed, PlayerType
<1>4. Len(BumpToken(s).calls) = Len(s.calls)
  BY <1>2, <1>3, LenProperties
<1>5. \A i \in DOMAIN s.calls : s.calls[i] \in Calls
  BY <1>2
<1>6. \A i \in DOMAIN s.calls : BumpToken(s).calls[i] = [s.calls[i] EXCEPT !.current = FALSE]
  BY DEF BumpToken, Typed, PlayerType
<1>7. \A i \in DOMAIN s.calls : BumpToken(s).calls[i].kind = s.calls[i].kind
  BY <1>5, <1>6 DEF Calls
<1>. QED
  BY <1>1, <1>2, <1>3, <1>4, <1>7

LEMMA BroadcastSound ==
    ASSUME NEW s, Sound(s)
    PROVE  Sound(BroadcastStatus(s)) /\ Told(BroadcastStatus(s))
<1> USE DEF BroadcastStatus, Status
<1>1. Typed(BroadcastStatus(s))
  BY DEF Sound, Typed, PlayerType
<1>2. FlagsAgree(BroadcastStatus(s)) /\ Told(BroadcastStatus(s))
  BY DEF Sound, Typed, PlayerType, FlagsAgree, Told
<1>3. ClockIsEnabled(BroadcastStatus(s)) /\ ClockAgrees(BroadcastStatus(s))
  BY DEF Sound, Typed, PlayerType, ClockIsEnabled, ClockAgrees
<1>4. NeverStarted(BroadcastStatus(s))
  BY DEF Sound, Typed, PlayerType, FlagsAgree, NeverStarted
<1>5. AdvanceIsUnique(BroadcastStatus(s))
  BY DEF Sound, Typed, PlayerType, AdvanceIsUnique
<1>. QED
  BY <1>1, <1>2, <1>3, <1>4, <1>5 DEF Sound

-----------------------------------------------------------------------------
(* The methods.                                                            *)

LEMMA StopSound ==
    ASSUME NEW s, Sound(s), Told(s) \/ s.playing
    PROVE  /\ Sound(Stop(s)) /\ Told(Stop(s))
           /\ ~Stop(s).playing /\ ~Stop(s).gapTimer /\ ~Stop(s).advancing
           /\ NoneCurrent(Stop(s))
           /\ Stop(s).lostGaps = s.lostGaps /\ Stop(s).queue = s.queue
           /\ DOMAIN Stop(s).calls = DOMAIN s.calls
           /\ \A i \in DOMAIN s.calls : Stop(s).calls[i].kind = s.calls[i].kind
<1>. DEFINE c == BumpToken(s).calls
            t == [[s EXCEPT !.calls = c] EXCEPT !.gapTimer = FALSE, !.advancing = FALSE,
                                                !.stranded = FALSE]
            u == BroadcastStatus(ReleaseSnapshot(StopPlaybackClock(
                     [Silence(t) EXCEPT !.fsm = TryTransition(@, "stopped")])))
            result == IF s.playing \/ s.advancing THEN u ELSE t
<1>1. Typed(s) /\ NoneCurrent(BumpToken(s))
  BY BumpTokenTyped DEF Sound
<1>2. Stop(s) = result
  BY <1>1, BumpTokenFrame DEF Stop
<1>3. c \in Seq(Calls) /\ DOMAIN c = DOMAIN s.calls
      /\ \A i \in DOMAIN s.calls : c[i].kind = s.calls[i].kind
  BY <1>1, BumpTokenFrame
<1>4. \A i \in DOMAIN c : ~IsCurrent(c[i])
  BY <1>1 DEF NoneCurrent
<1>5. TryTransition(s.fsm, "stopped") \in Lifecycle
  BY <1>1, Transitions DEF Typed, PlayerType, Lifecycle
<1>. HIDE DEF c
<1>6. /\ result.calls = c
      /\ ~result.playing /\ ~result.gapTimer /\ ~result.advancing
      /\ result.lostGaps = s.lostGaps /\ result.queue = s.queue
  BY <1>1 DEF Typed, PlayerType, Silence, StopPlaybackClock, ReleaseSnapshot, BroadcastStatus
<1>7. Typed(result)
  <2>1. t \in PlayerType
    BY <1>1, <1>3 DEF Typed, PlayerType
  <2>. DEFINE v == ReleaseSnapshot(StopPlaybackClock(
                     [Silence(t) EXCEPT !.fsm = TryTransition(@, "stopped")]))
  <2>2. t.fsm = s.fsm
    BY <1>1 DEF Typed, PlayerType
  <2>. HIDE DEF t
  <2>3. v \in PlayerType
    BY <1>5, <2>1, <2>2, ZenonT(40) DEF PlayerType, Silence, StopPlaybackClock, ReleaseSnapshot
  <2>. HIDE DEF v
  <2>4. u \in PlayerType
    BY <2>3 DEF PlayerType, BroadcastStatus, Status, v
  <2>5. result.queue = s.queue /\ result.queueIndex = s.queueIndex
    BY <1>1 DEF Typed, PlayerType, Silence, StopPlaybackClock, ReleaseSnapshot,
                BroadcastStatus, t
  <2>. QED
    BY <1>1, <2>1, <2>4, <2>5 DEF Typed
<1>8. FlagsAgree(result)
  BY <1>1 DEF Sound, FlagsAgree, Typed, PlayerType, Silence, StopPlaybackClock,
              ReleaseSnapshot, BroadcastStatus
<1>9. ClockIsEnabled(result) /\ ClockAgrees(result)
  BY <1>1 DEF Sound, ClockIsEnabled, ClockAgrees, Typed, PlayerType, Silence,
              StopPlaybackClock, ReleaseSnapshot, BroadcastStatus
<1>10. NeverStarted(result) /\ Told(result)
  BY <1>1 DEF Sound, NeverStarted, Told, Status, FlagsAgree, Typed, PlayerType, Silence,
              StopPlaybackClock, ReleaseSnapshot, BroadcastStatus
<1>. HIDE DEF result
<1>11. AdvanceIsUnique(result) /\ NoneCurrent(result)
  BY <1>4, <1>6 DEF AdvanceIsUnique, NoneCurrent
<1>. QED
  BY <1>2, <1>3, <1>6, <1>7, <1>8, <1>9, <1>10, <1>11 DEF Sound

LEMMA StartCoreSound ==
    ASSUME NEW s, Typed(s), ClockIsEnabled(s), AdvanceIsUnique(s)
    PROVE  Sound(StartCore(s)) /\ StartCore(s).playing /\ ~StartCore(s).paused
<1> USE DEF StartCore, StartPlaybackClock
<1>1. TryTransition(s.fsm, "playing") = "playing"
  BY Transitions DEF Typed, PlayerType
<1>2. Typed(StartCore(s)) /\ StartCore(s).playing /\ ~StartCore(s).paused
  <2>1. StartCore(s) \in PlayerType
    <3>. DEFINE t == [s EXCEPT !.fsm = TryTransition(@, "playing"),
                  !.playing = TRUE, !.paused = FALSE, !.scheduling = TRUE,
                  !.outputDevice = TRUE, !.snapshot = TRUE, !.deferred = FALSE,
                  !.stranded = FALSE]
    <3>1. "playing" \in Lifecycle
      BY DEF Lifecycle
    <3>2. t \in PlayerType
      BY <1>1, <3>1, ZenonT(40) DEF Typed, PlayerType
    <3>. HIDE DEF t
    <3>3. [t EXCEPT !.clock = IF t.clockEnabled THEN "running" ELSE t.clock] \in PlayerType
      BY <3>2 DEF PlayerType
    <3>. QED
      BY <3>3 DEF t
  <2>2. /\ StartCore(s).queue = s.queue /\ StartCore(s).queueIndex = s.queueIndex
        /\ StartCore(s).playing /\ ~StartCore(s).paused
    BY DEF Typed, PlayerType
  <2>. QED
    BY <2>1, <2>2 DEF Typed
<1>3. FlagsAgree(StartCore(s))
  BY <1>1 DEF Typed, PlayerType, FlagsAgree
<1>4. ClockIsEnabled(StartCore(s)) /\ ClockAgrees(StartCore(s)) /\ NeverStarted(StartCore(s))
  BY DEF Typed, PlayerType, ClockIsEnabled, ClockAgrees, NeverStarted
<1>5. AdvanceIsUnique(StartCore(s))
  BY DEF Typed, PlayerType, AdvanceIsUnique
<1>. QED
  BY <1>2, <1>3, <1>4, <1>5 DEF Sound

LEMMA DispatchSound ==
    ASSUME NEW s, Sound(s), s.playing, ~s.paused, NEW r \in Dispatch(s)
    PROVE  Sound(r) /\ (Told(s) => Told(r))
BY PauseSound DEF Dispatch

LEMMA SeekTeardownSound ==
    ASSUME NEW s, Sound(s)
    PROVE  /\ Typed(SeekTeardown(s)) /\ ClockIsEnabled(SeekTeardown(s))
           /\ AdvanceIsUnique(SeekTeardown(s))
           /\ ~SeekTeardown(s).playing
<1> USE DEF SeekTeardown, Silence, StopPlaybackClock
<1>1. TryTransition(s.fsm, "seeking") \in Lifecycle
  BY Transitions DEF Sound, Typed, PlayerType, Lifecycle
<1>2. Typed(SeekTeardown(s)) /\ ~SeekTeardown(s).playing
  BY <1>1 DEF Sound, Typed, PlayerType
<1>. QED
  BY <1>2 DEF Sound, Typed, PlayerType, ClockIsEnabled, AdvanceIsUnique

\* An advance that is claimed becomes the only current one.
LEMMA PlayQueueItemSound ==
    ASSUME NEW s, Sound(s), NEW i \in DOMAIN s.queue, NEW origin \in Origins,
           NEW r \in PlayQueueItem(s, i, origin)
    PROVE  /\ Sound(r) /\ Told(r) /\ ~r.playing /\ Len(r.calls) = Len(s.calls) + 1
           /\ \E k \in DOMAIN r.calls : IsCurrent(r.calls[k])
<1>. DEFINE c == BumpToken(s).calls
            claimed == [[s EXCEPT !.calls = c] EXCEPT !.advancing = TRUE, !.gapTimer = FALSE,
                                                      !.stranded = FALSE]
            ready == [(IF s.playing THEN Silence(claimed) ELSE claimed) EXCEPT !.queueIndex = i]
            item == s.queue[i]
<1>1. Typed(s) /\ s \in PlayerType
  BY DEF Sound, Typed
<1>2. BumpToken(s) = [s EXCEPT !.calls = c]
  BY <1>1, BumpTokenFrame
<1>3. PICK ok \in BOOLEAN :
          r = Suspend(LoadFile(ready, item, ok), "advance", item, ok, TRUE, origin)
  BY <1>2 DEF PlayQueueItem
<1>4. c \in Seq(Calls) /\ Len(c) = Len(s.calls) /\ \A k \in DOMAIN c : ~IsCurrent(c[k])
  BY <1>1, BumpTokenFrame, BumpTokenTyped DEF NoneCurrent
<1>5. s.queue \in Seq(Files) /\ i \in 1..Len(s.queue) /\ i \in Nat /\ i <= Len(s.queue)
      /\ item \in Files /\ Len(s.queue) \in Nat
  <2>1. s.queue \in Seq(Files)
    BY <1>1 DEF PlayerType
  <2>. QED
    BY <2>1
<1>. DEFINE t == LoadFile(ready, item, ok)
<1>. HIDE DEF c, item
<1>6. t \in PlayerType
  <2>1. claimed \in PlayerType
    BY <1>1, <1>4 DEF PlayerType
  <2>. HIDE DEF claimed
  <2>. DEFINE quiet == IF s.playing THEN Silence(claimed) ELSE claimed
  <2>2. quiet \in PlayerType
    <3>1. Silence(claimed) \in PlayerType
      BY <2>1, ZenonT(40) DEF PlayerType, Silence
    <3>. QED
      BY <2>1, <3>1
  <2>3. ready = [quiet EXCEPT !.queueIndex = i]
    OBVIOUS
  <2>. HIDE DEF quiet
  <2>4. ready \in PlayerType
    BY <2>2, <2>3, <1>5, ZenonT(40) DEF PlayerType
  <2>. HIDE DEF ready
  <2>5. [ready EXCEPT !.loaded = item] \in PlayerType
    BY <2>4, <1>5, ZenonT(40) DEF PlayerType
  <2>. QED
    BY <2>4, <2>5, Zenon DEF LoadFile
<1>7. /\ t.calls = c /\ t.queue = s.queue /\ t.queueIndex = i
      /\ ~t.playing /\ ~t.paused /\ ~t.scheduling /\ t.advancing
      /\ t.clock = s.clock /\ t.clockEnabled = s.clockEnabled
      /\ t.outputDevice = s.outputDevice /\ t.status = s.status
  BY <1>1 DEF PlayerType, Sound, FlagsAgree, LoadFile, Silence
<1>. DEFINE call == [kind |-> "advance", file |-> item, ok |-> ok, current |-> TRUE,
                     origin |-> origin]
<1>8. r = [t EXCEPT !.calls = Append(@, call)]
  BY <1>3 DEF item, Suspend
<1>. HIDE DEF t
<1>9. Typed(t)
  BY <1>5, <1>6, <1>7 DEF Typed
<1>10. call \in Calls
  BY <1>5 DEF Calls
<1>11. Typed(r) /\ r.calls = Append(c, call)
  <2>1. Typed(r) /\ r.calls = Append(t.calls, call)
    BY <1>8, <1>9, <1>10, SuspendTyped
  <2>. QED
    BY <2>1, <1>7
<1>12. /\ ~r.playing /\ ~r.paused /\ ~r.scheduling /\ r.advancing
       /\ r.clock = s.clock /\ r.clockEnabled = s.clockEnabled
       /\ r.outputDevice = s.outputDevice /\ r.status = s.status
  BY <1>6, <1>7, <1>8 DEF PlayerType
<1>. HIDE DEF call
<1>13. /\ Len(Append(c, call)) = Len(c) + 1 /\ Len(c) \in Nat
       /\ DOMAIN Append(c, call) = 1..(Len(c) + 1)
       /\ \A k \in 1..Len(c) : Append(c, call)[k] = c[k]
       /\ DOMAIN c = 1..Len(c)
  BY <1>4, <1>10, AppendProperties, LenProperties
<1>14. AdvanceIsUnique(r)
  BY <1>4, <1>11, <1>12, <1>13 DEF AdvanceIsUnique
<1>15. FlagsAgree(r) /\ ClockIsEnabled(r) /\ ClockAgrees(r) /\ NeverStarted(r) /\ Told(r)
  BY <1>12 DEF Sound, FlagsAgree, ClockIsEnabled, ClockAgrees, NeverStarted, Told
<1>16. \E k \in DOMAIN r.calls : IsCurrent(r.calls[k])
  <2>1. Len(c) + 1 \in DOMAIN r.calls /\ r.calls[Len(c) + 1] = call
    BY <1>4, <1>10, <1>11, <1>13, AppendProperties
  <2>2. IsCurrent(call)
    BY DEF IsCurrent, call
  <2>. QED
    BY <2>1, <2>2
<1>. QED
  BY <1>4, <1>11, <1>12, <1>13, <1>14, <1>15, <1>16 DEF Sound

LEMMA ShufflingsTyped ==
    ASSUME NEW q \in Seq(Files), NEW p \in Shufflings(q)
    PROVE  p \in Seq(Files) /\ Len(p) = Len(q)
<1>1. Len(q) \in Nat /\ DOMAIN q = 1..Len(q) /\ \A i \in DOMAIN q : q[i] \in Files
  OBVIOUS
<1>2. PICK f \in [DOMAIN q -> DOMAIN q] : p = [i \in 1..Len(q) |-> q[f[i]]]
  BY DEF Shufflings
<1>3. p \in [1..Len(q) -> Files]
  BY <1>1, <1>2
<1>4. p \in Seq(Files)
  BY <1>1, <1>3, SeqDef
<1>. QED
  BY <1>1, <1>3, <1>4

LEMMA NewQueueSound ==
    ASSUME NEW s, Sound(s), NEW q \in Seq(Files), Len(q) = Len(s.queue)
    PROVE  LET t == [s EXCEPT !.queue = q] IN Sound(t) /\ t.queue = q
<1>. DEFINE t == [s EXCEPT !.queue = q]
<1>1. Typed(t) /\ t.queue = q
  BY DEF Sound, Typed, PlayerType
<1>. QED
  BY <1>1 DEF Sound, Typed, PlayerType, FlagsAgree, ClockIsEnabled, ClockAgrees,
              NeverStarted, AdvanceIsUnique

\* nextInQueue does nothing, claims an advance to an item, or stops.
LEMMA NextInQueueCases ==
    ASSUME NEW s, Sound(s), NEW origin \in Origins, NEW r \in NextInQueue(s, origin)
    PROVE  \/ s.queue = <<>> /\ r = s
           \/ \E t, i : /\ Sound(t) /\ t.calls = s.calls /\ i \in DOMAIN t.queue
                        /\ r \in PlayQueueItem(t, i, origin)
           \/ r = Stop(s)
<1>1. /\ s.queue \in Seq(Files) /\ s.queueIndex \in Nat
      /\ Len(s.queue) \in Nat /\ DOMAIN s.queue = 1..Len(s.queue)
      /\ s.queue # <<>> => Len(s.queue) >= 1
  <2>1. s.queue \in Seq(Files) /\ s.queueIndex \in Nat
    BY DEF Sound, Typed, PlayerType
  <2>. QED
    BY <2>1
<1>2. CASE s.queue = <<>>
  BY <1>1, <1>2 DEF NextInQueue
<1>3. CASE s.queue # <<>> /\ s.queueIndex + 1 <= Len(s.queue)
  <2>1. r \in PlayQueueItem(s, s.queueIndex + 1, origin)
    BY <1>1, <1>3 DEF NextInQueue
  <2>2. s.queueIndex + 1 \in DOMAIN s.queue
    BY <1>1, <1>3
  <2>. QED
    BY <2>1, <2>2
<1>4. CASE s.queue # <<>> /\ s.queueIndex + 1 > Len(s.queue) /\ s.queueLoop
  <2>. DEFINE order == IF s.queueShuffle /\ Len(s.queue) > 1
                       THEN Shufflings(s.queue) ELSE {s.queue}
  <2>. HIDE DEF order
  <2>0. NextInQueue(s, origin) =
          UNION {PlayQueueItem([s EXCEPT !.queue = q], 1, origin) : q \in order}
    <3>1. s.queueIndex + 1 > Len(s.queue) /\ ~(s.queueIndex + 1 <= Len(s.queue))
      BY <1>1, <1>4
    <3>. QED
      BY <1>4, <3>1, Zenon DEF NextInQueue, order
  <2>1. PICK q \in order : r \in PlayQueueItem([s EXCEPT !.queue = q], 1, origin)
    BY <2>0
  <2>2. q \in Seq(Files) /\ Len(q) = Len(s.queue)
    BY <1>1, ShufflingsTyped DEF order
  <2>. DEFINE t == [s EXCEPT !.queue = q]
  <2>3. Sound(t) /\ t.queue = q /\ t.calls = s.calls
    BY <2>2, NewQueueSound, ZenonT(40) DEF Sound, Typed, PlayerType
  <2>4. 1 \in DOMAIN t.queue
    BY <1>1, <1>4, <2>2, <2>3
  <2>. HIDE DEF t
  <2>5. r \in PlayQueueItem(t, 1, origin)
    BY <2>1 DEF t
  <2>. QED
    BY <2>3, <2>4, <2>5
<1>5. CASE s.queue # <<>> /\ s.queueIndex + 1 > Len(s.queue) /\ ~s.queueLoop
  BY <1>1, <1>5 DEF NextInQueue
<1>. QED
  BY <1>1, <1>2, <1>3, <1>4, <1>5

LEMMA NextInQueueSound ==
    ASSUME NEW s, Sound(s), Told(s) \/ s.playing, NEW origin \in Origins,
           NEW r \in NextInQueue(s, origin)
    PROVE  /\ Sound(r)
           /\ Told(r) \/ (s.queue = <<>> /\ r = s)
           /\ Len(r.calls) >= Len(s.calls)
<1>1. s.calls \in Seq(Calls) /\ Len(s.calls) \in Nat
  <2>1. s.calls \in Seq(Calls)
    BY DEF Sound, Typed, PlayerType
  <2>. QED
    BY <2>1
<1>2. CASE s.queue = <<>> /\ r = s
  BY <1>1, <1>2
<1>3. CASE \E t, i : /\ Sound(t) /\ t.calls = s.calls /\ i \in DOMAIN t.queue
                     /\ r \in PlayQueueItem(t, i, origin)
  <2>1. Sound(r) /\ Told(r) /\ Len(r.calls) = Len(s.calls) + 1
    BY <1>3, PlayQueueItemSound
  <2>. QED
    BY <1>1, <2>1
<1>4. CASE r = Stop(s)
  <2>1. DOMAIN r.calls = DOMAIN s.calls /\ Sound(r) /\ Told(r)
    BY <1>4, StopSound
  <2>2. Len(r.calls) = Len(s.calls)
    BY <1>1, <2>1, LenProperties DEF Sound, Typed, PlayerType
  <2>. QED
    BY <1>1, <2>1, <2>2
<1>. QED
  BY <1>2, <1>3, <1>4, NextInQueueCases

LEMMA PreviousInQueueSound ==
    ASSUME NEW s, Sound(s), NEW origin \in Origins, s.queue # <<>>,
           NEW r \in PreviousInQueue(s, origin)
    PROVE  /\ Sound(r) /\ Told(r)
           /\ \E i \in DOMAIN s.queue : r \in PlayQueueItem(s, i, origin)
<1>1. /\ s.queueIndex \in Nat /\ s.queueIndex <= Len(s.queue)
      /\ Len(s.queue) \in Nat /\ DOMAIN s.queue = 1..Len(s.queue) /\ Len(s.queue) >= 1
  <2>1. s.queue \in Seq(Files) /\ s.queueIndex \in Nat /\ s.queueIndex <= Len(s.queue)
    BY DEF Sound, Typed, PlayerType
  <2>. QED
    BY <2>1
<1>2. \E i \in DOMAIN s.queue : r \in PlayQueueItem(s, i, origin)
  BY <1>1 DEF PreviousInQueue
<1>. QED
  BY <1>2, PlayQueueItemSound

\* A handler that waits for anything but a claimed advance.
LEMMA SuspendSound ==
    ASSUME NEW s, Sound(s), NEW call \in Calls, ~IsCurrent(call)
    PROVE  LET r == [s EXCEPT !.calls = Append(@, call)]
           IN  Sound(r) /\ (Told(s) => Told(r)) /\ r.calls = Append(s.calls, call)
<1>. DEFINE r == [s EXCEPT !.calls = Append(@, call)]
<1>1. Typed(r) /\ r.calls = Append(s.calls, call) /\ s.calls \in Seq(Calls)
  BY SuspendTyped DEF Sound, Typed, PlayerType
<1>2. /\ Len(s.calls) \in Nat /\ DOMAIN s.calls = 1..Len(s.calls)
      /\ DOMAIN r.calls = 1..(Len(s.calls) + 1)
      /\ \A k \in 1..Len(s.calls) : r.calls[k] = s.calls[k]
      /\ r.calls[Len(s.calls) + 1] = call
  BY <1>1, AppendProperties, LenProperties
<1>3. r.advancing = s.advancing
  BY DEF Sound, Typed, PlayerType
<1>4. AdvanceIsUnique(r)
  <2>1. \A k \in DOMAIN r.calls :
           IsCurrent(r.calls[k]) => k \in DOMAIN s.calls /\ r.calls[k] = s.calls[k]
    BY <1>2
  <2>. HIDE DEF r
  <2>. QED
    BY <1>3, <2>1 DEF Sound, AdvanceIsUnique
<1>5. FlagsAgree(r) /\ ClockIsEnabled(r) /\ ClockAgrees(r) /\ NeverStarted(r)
  BY DEF Sound, Typed, PlayerType, FlagsAgree, ClockIsEnabled, ClockAgrees, NeverStarted
<1>6. Told(s) => Told(r)
  BY DEF Sound, Typed, PlayerType, Told, Status
<1>. QED
  BY <1>1, <1>4, <1>5, <1>6 DEF Sound

LEMMA SettleSound ==
    ASSUME NEW s, Sound(s), NEW ok \in BOOLEAN
    PROVE  Sound(Settle(s, ok)) /\ (Told(s) => Told(Settle(s, ok)))
<1>. DEFINE call == [kind |-> "settle", file |-> s.loaded, ok |-> ok, current |-> FALSE,
                     origin |-> "fileEnd"]
<1>1. call \in Calls /\ ~IsCurrent(call)
  BY DEF Sound, Typed, PlayerType, Calls, Origins, IsCurrent
<1>2. Settle(s, ok) = [s EXCEPT !.calls = Append(@, call)]
  BY DEF Settle, Suspend
<1>. HIDE DEF call
<1>. QED
  BY <1>1, <1>2, SuspendSound

\* A second gap timer is only counted.
LEMMA StartGapDelayTyped ==
    ASSUME NEW s, Typed(s)
    PROVE  /\ Typed(StartGapDelay(s)) /\ SameTransport(s, StartGapDelay(s))
           /\ StartGapDelay(s).stranded = s.stranded
<1>. DEFINE n == IF s.gapTimer THEN s.lostGaps + 1 ELSE s.lostGaps
<1>1. n \in Nat /\ s \in PlayerType /\ s.queueIndex <= Len(s.queue)
  BY DEF Typed, PlayerType
<1>2. StartGapDelay(s) = [s EXCEPT !.lostGaps = n, !.gapTimer = TRUE]
  BY <1>1 DEF StartGapDelay, PlayerType
<1>. HIDE DEF n
<1>3. [s EXCEPT !.lostGaps = n, !.gapTimer = TRUE] \in PlayerType
  BY <1>1, ZenonT(40) DEF PlayerType
<1>. QED
  BY <1>1, <1>2, <1>3 DEF Typed, PlayerType, SameTransport

\* An end of file tells the clients what it did, unless it is ignored.
LEMMA HandleFileEndSound ==
    ASSUME NEW s, Sound(s), s.playing, NEW r \in HandleFileEnd(s)
    PROVE  Sound(r) /\ (Told(s) => Told(r))
<1>1. CASE IgnoresFileEnd(s)
  BY <1>1 DEF HandleFileEnd
<1>2. CASE ~IgnoresFileEnd(s) /\ s.loop
  <2>1. PICK d \in Dispatch(StartCore(SeekTeardown(s))) : r = BroadcastStatus(d)
    BY <1>2 DEF HandleFileEnd
  <2>2. Sound(d)
    BY SeekTeardownSound, StartCoreSound, DispatchSound
  <2>. QED
    BY <2>1, <2>2, BroadcastSound
<1>3. CASE ~IgnoresFileEnd(s) /\ ~s.loop /\ s.queue # <<>> /\ s.queueGap
  <2>. DEFINE t == StopPlaybackClock(Silence(s))
  <2>1. r = StartGapDelay(BroadcastStatus(t))
    BY <1>3, Zenon DEF HandleFileEnd
  <2>2. Sound(t)
    <3>1. Typed(t)
      <4>1. s \in PlayerType /\ Silence(s) \in PlayerType
        BY ClockTyped DEF Sound, Typed
      <4>2. t \in PlayerType
        BY <4>1, ClockTyped
      <4>3. t.queue = s.queue /\ t.queueIndex = s.queueIndex
        BY <4>1 DEF PlayerType, Silence, StopPlaybackClock
      <4>. QED
        BY <4>2, <4>3 DEF Sound, Typed
    <3>2. FlagsAgree(t) /\ ClockIsEnabled(t) /\ ClockAgrees(t) /\ NeverStarted(t)
      BY DEF Sound, Typed, PlayerType, FlagsAgree, ClockIsEnabled, ClockAgrees,
             NeverStarted, Silence, StopPlaybackClock
    <3>3. AdvanceIsUnique(t)
      BY DEF Sound, Typed, PlayerType, AdvanceIsUnique, Silence, StopPlaybackClock
    <3>. QED
      BY <3>1, <3>2, <3>3 DEF Sound
  <2>. HIDE DEF t
  <2>3. Sound(BroadcastStatus(t)) /\ Told(BroadcastStatus(t))
    BY <2>2, BroadcastSound
  <2>. DEFINE b == BroadcastStatus(t)
  <2>. HIDE DEF b
  <2>4. Typed(r) /\ SameTransport(b, r)
    BY <2>1, <2>3, StartGapDelayTyped DEF Sound, b
  <2>. QED
    BY <2>3, <2>4, SameTransportSound DEF b
<1>4. CASE ~IgnoresFileEnd(s) /\ ~s.loop /\ s.queue # <<>> /\ ~s.queueGap
  <2>. DEFINE t == [s EXCEPT !.fileEndPending = TRUE]
  <2>1. Sound(t) /\ t.playing /\ t.queue = s.queue
    <3>1. Typed(t) /\ SameTransport(s, t) /\ t.queue = s.queue
      BY DEF Sound, Typed, PlayerType, SameTransport
    <3>. QED
      BY <3>1, SameTransportSound DEF SameTransport
  <2>2. PICK n \in NextInQueue(t, "fileEnd") :
           r = IF Len(n.calls) > Len(s.calls) THEN n ELSE Settle(n, TRUE)
    BY <1>4, Zenon DEF HandleFileEnd
  <2>. HIDE DEF t
  <2>3. Sound(n) /\ Told(n)
    BY <1>4, <2>1, NextInQueueSound DEF Origins
  <2>. QED
    BY <2>2, <2>3, SettleSound
<1>5. CASE ~IgnoresFileEnd(s) /\ ~s.loop /\ s.queue = <<>>
  <2>1. r = Stop(s)
    BY <1>5 DEF HandleFileEnd
  <2>. QED
    BY <2>1, StopSound
<1>. QED
  BY <1>1, <1>2, <1>3, <1>4, <1>5

LEMMA FirstPassSound ==
    ASSUME NEW s, Sound(s), s.playing, ~s.paused, NEW pastEnd,
           NEW r \in FirstPass(s, pastEnd)
    PROVE  Sound(r) /\ Told(r)
<1>1. PICK d \in IF pastEnd THEN HandleFileEnd(s) ELSE Dispatch(s) : r = BroadcastStatus(d)
  BY DEF FirstPass
<1>2. Sound(d)
  BY HandleFileEndSound, DispatchSound
<1>. QED
  BY <1>1, <1>2, BroadcastSound

LEMMA StartSound ==
    ASSUME NEW s, Typed(s), ClockIsEnabled(s), AdvanceIsUnique(s), ~s.playing,
           NEW pastEnd, NEW r \in Start(s, pastEnd)
    PROVE  Sound(r) /\ Told(r)
BY StartCoreSound, FirstPassSound DEF Start

\* resume() up to its first pass.
LEMMA ResumedSound ==
    ASSUME NEW s, Sound(s), s.playing, s.paused,
           NEW t, t = ResumePlaybackClock(
                          [s EXCEPT !.fsm = TryTransition(@, "playing"),
                                    !.paused = FALSE, !.scheduling = TRUE])
    PROVE  Sound(t) /\ t.playing /\ ~t.paused
<1>1. TryTransition(s.fsm, "playing") = "playing" /\ "playing" \in Lifecycle
  BY Transitions DEF Sound, Typed, PlayerType, Lifecycle
<1>2. t.playing /\ ~t.paused
  BY DEF Sound, Typed, PlayerType, ResumePlaybackClock
<1>3. Sound(t)
  <2>1. Typed(t)
    <3>. DEFINE u == [s EXCEPT !.fsm = TryTransition(@, "playing"),
                               !.paused = FALSE, !.scheduling = TRUE]
    <3>1. u \in PlayerType
      BY <1>1, ZenonT(40) DEF Sound, Typed, PlayerType
    <3>3. u.queue = s.queue /\ u.queueIndex = s.queueIndex
      BY DEF Sound, Typed, PlayerType
    <3>. HIDE DEF u
    <3>2. /\ ResumePlaybackClock(u) \in PlayerType
          /\ ResumePlaybackClock(u).queue = u.queue
          /\ ResumePlaybackClock(u).queueIndex = u.queueIndex
      BY <3>1, ClockTyped, SMTT(20) DEF PlayerType, ResumePlaybackClock
    <3>. QED
      BY <3>1, <3>2, <3>3 DEF Sound, Typed, u
  <2>2. FlagsAgree(t) /\ NeverStarted(t)
    BY <1>1 DEF Sound, Typed, PlayerType, FlagsAgree, NeverStarted, ResumePlaybackClock
  <2>3. ClockIsEnabled(t) /\ ClockAgrees(t)
    BY DEF Sound, Typed, PlayerType, ClockIsEnabled, ClockAgrees, ResumePlaybackClock
  <2>4. AdvanceIsUnique(t)
    BY DEF Sound, Typed, PlayerType, AdvanceIsUnique, ResumePlaybackClock
  <2>. QED
    BY <2>1, <2>2, <2>3, <2>4 DEF Sound
<1>. QED
  BY <1>2, <1>3

LEMMA ResumeSound ==
    ASSUME NEW s, Sound(s), s.playing, s.paused, NEW pastEnd, NEW r \in Resume(s, pastEnd)
    PROVE  Sound(r) /\ Told(r)
BY ResumedSound, FirstPassSound DEF Resume

LEMMA SeekSound ==
    ASSUME NEW s, Sound(s), Told(s), NEW toEnd, NEW r \in Seek(s, toEnd)
    PROVE  Sound(r) /\ Told(r)
<1>1. CASE s.playing /\ ~s.paused
  <2>1. r \in Start(SeekTeardown(s), toEnd \/ s.loaded \in Empty)
    BY <1>1 DEF Seek
  <2>. QED
    BY <2>1, SeekTeardownSound, StartSound
<1>2. CASE s.playing /\ s.paused
  <2>. DEFINE t == [s EXCEPT !.fsm = TryTransition(TryTransition(@, "seeking"), "paused")]
  <2>1. TryTransition(TryTransition(s.fsm, "seeking"), "paused") = s.fsm
    BY <1>2, Transitions DEF Sound, FlagsAgree
  <2>2. t = s
    BY <2>1 DEF Sound, Typed, PlayerType
  <2>3. r = BroadcastStatus(t)
    BY <1>2 DEF Seek
  <2>. QED
    BY <2>2, <2>3, BroadcastSound
<1>3. CASE ~s.playing
  <2>1. r = [s EXCEPT !.fsm = TryTransition(@, "seeking")]
    BY <1>3, Zenon DEF Seek
  <2>2. TryTransition(s.fsm, "seeking") \in Lifecycle
    BY Transitions DEF Sound, Typed, PlayerType, Lifecycle
  <2>. QED
    BY <1>3, <2>1, <2>2 DEF Sound, Typed, PlayerType, FlagsAgree, ClockIsEnabled,
                            ClockAgrees, NeverStarted, AdvanceIsUnique, Told, Status
<1>. QED
  BY <1>1, <1>2, <1>3

LEMMA SetQueueSound ==
    ASSUME NEW s, Sound(s), NEW l \in Playlists, NEW q \in Seq(Files)
    PROVE  Sound(SetQueue(s, q, l)) /\ SetQueue(s, q, l).queue = q
<1>1. SetQueue(s, q, l) \in PlayerType
  BY PlaylistsAssumption DEF Sound, Typed, PlayerType, SetQueue
<1>2. SetQueue(s, q, l).queue = q /\ SetQueue(s, q, l).queueIndex = 0
  BY DEF Sound, Typed, PlayerType, SetQueue
<1>3. SameTransport(s, SetQueue(s, q, l))
  BY DEF Sound, Typed, PlayerType, SetQueue, SameTransport
<1>4. Typed(SetQueue(s, q, l))
  BY <1>1, <1>2, LenProperties DEF Typed
<1>. QED
  BY <1>2, <1>3, <1>4, SameTransportSound

LEMMA ClearQueueSound ==
    ASSUME NEW s, Sound(s), Told(s)
    PROVE  Sound(ClearQueue(s)) /\ Told(ClearQueue(s))
<1>1. ClearQueue(s) \in PlayerType
  BY EmptySeq, ZenonT(40) DEF Sound, Typed, PlayerType, ClearQueue
<1>2. ClearQueue(s).queue = <<>> /\ ClearQueue(s).queueIndex = 0
  BY DEF Sound, Typed, PlayerType, ClearQueue
<1>3. SameTransport(s, ClearQueue(s))
  BY DEF Sound, Typed, PlayerType, ClearQueue, SameTransport
<1>4. Typed(ClearQueue(s))
  BY <1>1, <1>2, EmptySeq DEF Typed
<1>. QED
  BY <1>3, <1>4, SameTransportSound

\* Fields of the player that no part of the invariant but its type mentions.
LEMMA FieldSound ==
    ASSUME NEW s, Sound(s), Told(s), NEW b \in BOOLEAN
    PROVE  /\ Sound([s EXCEPT !.loop = b]) /\ Told([s EXCEPT !.loop = b])
           /\ Sound([s EXCEPT !.deferred = b]) /\ Told([s EXCEPT !.deferred = b])
           /\ Sound([s EXCEPT !.gapTimer = b]) /\ Told([s EXCEPT !.gapTimer = b])
           /\ Sound([s EXCEPT !.fileEndPending = b]) /\ Told([s EXCEPT !.fileEndPending = b])
<1>1. s \in PlayerType /\ s.queueIndex <= Len(s.queue)
  BY DEF Sound, Typed
<1>2. /\ Typed([s EXCEPT !.loop = b]) /\ SameTransport(s, [s EXCEPT !.loop = b])
      /\ Typed([s EXCEPT !.deferred = b]) /\ SameTransport(s, [s EXCEPT !.deferred = b])
  BY <1>1 DEF Typed, PlayerType, SameTransport
<1>3. /\ Typed([s EXCEPT !.gapTimer = b]) /\ SameTransport(s, [s EXCEPT !.gapTimer = b])
      /\ Typed([s EXCEPT !.fileEndPending = b])
      /\ SameTransport(s, [s EXCEPT !.fileEndPending = b])
  BY <1>1, ZenonT(40) DEF Typed, PlayerType, SameTransport
<1>. QED
  BY <1>2, <1>3, SameTransportSound

LEMMA LostGapSound ==
    ASSUME NEW s, Sound(s), Told(s), s.lostGaps > 0,
           NEW t, t = [s EXCEPT !.lostGaps = @ - 1, !.gapTimer = FALSE]
    PROVE  Sound(t) /\ Told(t)
<1>1. s.lostGaps - 1 \in Nat /\ t = [s EXCEPT !.lostGaps = s.lostGaps - 1, !.gapTimer = FALSE]
  BY DEF Sound, Typed, PlayerType
<1>2. Typed(t) /\ SameTransport(s, t)
  BY <1>1 DEF Sound, Typed, PlayerType, SameTransport
<1>. QED
  BY <1>2, SameTransportSound

LEMMA LoadedSound ==
    ASSUME NEW s, Sound(s), Told(s), NEW f \in Files
    PROVE  Sound([s EXCEPT !.loaded = f]) /\ Told([s EXCEPT !.loaded = f])
<1>1. Typed([s EXCEPT !.loaded = f]) /\ SameTransport(s, [s EXCEPT !.loaded = f])
  BY DEF Sound, Typed, PlayerType, SameTransport
<1>. QED
  BY <1>1, SameTransportSound

LEMMA SetClockEnabledSound ==
    ASSUME NEW s, Sound(s), Told(s),
           NEW t, t = IF s.clockEnabled
                      THEN StopPlaybackClock([s EXCEPT !.clockEnabled = FALSE])
                      ELSE [s EXCEPT !.clockEnabled = TRUE]
    PROVE  Sound(t) /\ Told(t)
<1>1. Typed(t)
  <2>. DEFINE u(b) == [s EXCEPT !.clockEnabled = b]
  <2>1. \A b \in BOOLEAN : u(b) \in PlayerType
    BY DEF Sound, Typed, PlayerType
  <2>2. t \in PlayerType
    BY <2>1, ClockTyped
  <2>. QED
    BY <2>2 DEF Sound, Typed, PlayerType, StopPlaybackClock
<1>2. FlagsAgree(t) /\ NeverStarted(t) /\ Told(t)
  BY DEF Sound, Typed, PlayerType, FlagsAgree, NeverStarted, Told, Status, StopPlaybackClock
<1>3. ClockIsEnabled(t) /\ ClockAgrees(t)
  BY DEF Sound, Typed, PlayerType, ClockIsEnabled, ClockAgrees, StopPlaybackClock
<1>4. AdvanceIsUnique(t)
  BY DEF Sound, Typed, PlayerType, AdvanceIsUnique, StopPlaybackClock
<1>. QED
  BY <1>1, <1>2, <1>3, <1>4 DEF Sound

-----------------------------------------------------------------------------
(* The continuations.                                                      *)

\* The head of the queue is taken out: no other advance is current if it was.
LEMMA TailSound ==
    ASSUME NEW s, Sound(s), Told(s), s.calls # <<>>,
           NEW t, t = [s EXCEPT !.calls = Tail(@)]
    PROVE  /\ Sound(t) /\ Told(t)
           /\ Head(s.calls) \in Calls
           /\ IsCurrent(Head(s.calls)) => NoneCurrent(t)
           /\ \A k \in DOMAIN t.calls : k + 1 \in DOMAIN s.calls /\ t.calls[k] = s.calls[k + 1]
           /\ Head(s.calls) = s.calls[1] /\ 1 \in DOMAIN s.calls
<1>1. s.calls \in Seq(Calls) /\ s \in PlayerType /\ s.queueIndex <= Len(s.queue)
  BY DEF Sound, Typed, PlayerType
<1>2. /\ Head(s.calls) \in Calls /\ Tail(s.calls) \in Seq(Calls)
      /\ Len(s.calls) \in Nat /\ Len(s.calls) >= 1
      /\ DOMAIN s.calls = 1..Len(s.calls)
      /\ Len(Tail(s.calls)) = Len(s.calls) - 1
      /\ DOMAIN Tail(s.calls) = 1..(Len(s.calls) - 1)
      /\ \A k \in 1..(Len(s.calls) - 1) : Tail(s.calls)[k] = s.calls[k + 1]
      /\ Head(s.calls) = s.calls[1]
  BY <1>1, HeadTailProperties, LenProperties
<1>3. t.calls = Tail(s.calls)
  BY <1>1 DEF PlayerType
<1>4. \A k \in DOMAIN t.calls : k + 1 \in DOMAIN s.calls /\ t.calls[k] = s.calls[k + 1]
  BY <1>2, <1>3
<1>5. Typed(t) /\ t.advancing = s.advancing
  BY <1>1, <1>2 DEF Typed, PlayerType
<1>6. AdvanceIsUnique(t)
  <2>1. \A i, j \in DOMAIN t.calls : i \in Nat /\ j \in Nat /\ (i + 1 = j + 1 => i = j)
    BY <1>2, <1>3
  <2>. QED
    BY <1>4, <1>5, <2>1 DEF Sound, AdvanceIsUnique
<1>7. IsCurrent(Head(s.calls)) => NoneCurrent(t)
  <2>1. \A k \in DOMAIN t.calls : k + 1 # 1 /\ 1 \in DOMAIN s.calls
    BY <1>2, <1>3
  <2>. QED
    BY <1>2, <1>4, <2>1 DEF Sound, AdvanceIsUnique, NoneCurrent
<1>8. FlagsAgree(t) /\ ClockIsEnabled(t) /\ ClockAgrees(t) /\ NeverStarted(t) /\ Told(t)
  BY <1>1 DEF Sound, PlayerType, FlagsAgree, ClockIsEnabled, ClockAgrees, NeverStarted,
              Told, Status
<1>. QED
  BY <1>2, <1>4, <1>5, <1>6, <1>7, <1>8 DEF Sound

LEMMA FileEndSettlesSound ==
    ASSUME NEW s, Sound(s), Told(s), NEW call
    PROVE  Sound(FileEndSettles(s, call)) /\ Told(FileEndSettles(s, call))
<1>. DEFINE t == IF call.ok THEN s ELSE Stop(s)
<1>1. Sound(t) /\ Told(t)
  BY StopSound
<1>2. FileEndSettles(s, call) = [t EXCEPT !.fileEndPending = FALSE]
  BY DEF FileEndSettles
<1>. HIDE DEF t
<1>3. /\ Typed([t EXCEPT !.fileEndPending = FALSE])
      /\ SameTransport(t, [t EXCEPT !.fileEndPending = FALSE])
  BY <1>1, ZenonT(40) DEF Sound, Typed, PlayerType, SameTransport
<1>. QED
  BY <1>1, <1>2, <1>3, SameTransportSound

LEMMA RejectedSound ==
    ASSUME NEW s, Sound(s), Told(s), NEW call \in Calls
    PROVE  Sound(Rejected(s, call)) /\ Told(Rejected(s, call))
<1>1. call.origin \in Origins /\ call.current \in BOOLEAN
  BY DEF Calls
<1>2. CASE call.origin = "command"
  <2>. DEFINE b == s.stranded \/ call.current
              t == [s EXCEPT !.stranded = b]
  <2>1. Rejected(s, call) = t
    BY <1>2 DEF Rejected
  <2>2. b \in BOOLEAN
    OBVIOUS
  <2>. HIDE DEF b
  <2>3. Typed(t) /\ SameTransport(s, t)
    BY <2>2 DEF Sound, Typed, PlayerType, SameTransport
  <2>. QED
    BY <2>1, <2>3, SameTransportSound
<1>. QED
  BY <1>1, <1>2, StopSound, SettleSound DEF Rejected, Origins

LEMMA SettledSound ==
    ASSUME NEW s, Sound(s), Told(s), NEW call
    PROVE  Sound(Settled(s, call)) /\ Told(Settled(s, call))
BY SettleSound DEF Settled

\* The current advance hands over to start(): no advance is under way any more.
LEMMA AdvanceEndsSound ==
    ASSUME NEW s, Sound(s), Told(s), NoneCurrent(s),
           NEW t, t = [s EXCEPT !.advancing = FALSE]
    PROVE  /\ Typed(t) /\ ClockIsEnabled(t) /\ AdvanceIsUnique(t)
           /\ t.playing \/ ~t.outputDevice => Sound(t) /\ Told(t)
<1>1. /\ t.calls = s.calls /\ ~t.advancing /\ t.playing = s.playing
      /\ t.paused = s.paused /\ t.clock = s.clock /\ t.status = s.status
      /\ t.outputDevice = s.outputDevice
      /\ s.playing \in BOOLEAN /\ s.paused \in BOOLEAN
  BY DEF Sound, Typed, PlayerType
<1>2. Typed(t) /\ ClockIsEnabled(t)
  BY DEF Sound, Typed, PlayerType, ClockIsEnabled
<1>3. AdvanceIsUnique(t)
  BY <1>1 DEF AdvanceIsUnique, NoneCurrent
<1>4. FlagsAgree(t) /\ NeverStarted(t)
  BY DEF Sound, Typed, PlayerType, FlagsAgree, NeverStarted
<1>5. t.playing \/ ~t.outputDevice => ClockAgrees(t)
  BY <1>1, <1>4 DEF Sound, ClockAgrees, NeverStarted
<1>6. t.playing => Told(t)
  BY <1>1 DEF Told, Status
<1>7. ~t.outputDevice => Told(t)
  <2>1. ~t.outputDevice => t.playing = FALSE /\ t.paused = FALSE
    BY <1>1, <1>4 DEF NeverStarted, FlagsAgree
  <2>. QED
    BY <2>1, <1>4 DEF NeverStarted, Told, Status
<1>. QED
  BY <1>2, <1>3, <1>4, <1>5, <1>6, <1>7 DEF Sound

LEMMA AdvanceContinuesSound ==
    ASSUME NEW s, Sound(s), Told(s), NEW call \in Calls, call.kind = "advance",
           IsCurrent(call) => NoneCurrent(s), NEW r \in AdvanceContinues(s, call)
    PROVE  Sound(r) /\ Told(r)
<1>1. CASE ~call.ok
  BY <1>1, RejectedSound DEF AdvanceContinues
<1>2. CASE call.ok /\ ~call.current
  BY <1>2, SettledSound DEF AdvanceContinues
<1>3. CASE call.ok /\ call.current
  <2>. DEFINE t == [s EXCEPT !.advancing = FALSE]
  <2>1. \/ \E d \in Start(t, t.loaded \in Empty) : r = Settled(d, call)
        \/ ~t.outputDevice /\ r = Rejected(t, call)
    BY <1>3 DEF AdvanceContinues
  <2>2. /\ Typed(t) /\ ClockIsEnabled(t) /\ AdvanceIsUnique(t)
        /\ t.playing \/ ~t.outputDevice => Sound(t) /\ Told(t)
    BY <1>3, AdvanceEndsSound DEF IsCurrent
  <2>. HIDE DEF t
  <2>3. ASSUME NEW d \in Start(t, t.loaded \in Empty)
        PROVE  Sound(d) /\ Told(d)
    <3>1. CASE t.playing
      BY <2>2, <3>1 DEF Start
    <3>2. CASE ~t.playing
      BY <2>2, <3>2, StartSound
    <3>. QED
      BY <3>1, <3>2
  <2>. QED
    BY <2>1, <2>2, <2>3, SettledSound, RejectedSound
<1>. QED
  BY <1>1, <1>2, <1>3 DEF Calls

LEMMA StartContinuesSound ==
    ASSUME NEW s, Sound(s), Told(s), NEW r \in StartContinues(s)
    PROVE  Sound(r) /\ Told(r)
<1>1. CASE r = s
  BY <1>1
<1>2. CASE r \in Start(s, s.loaded \in Empty)
  <2>1. CASE s.playing
    BY <1>2, <2>1 DEF Start
  <2>2. CASE ~s.playing
    BY <1>2, <2>2, StartSound DEF Sound
  <2>. QED
    BY <2>1, <2>2
<1>. QED
  BY <1>1, <1>2 DEF StartContinues

-----------------------------------------------------------------------------
(* The invariant holds at the start and every action preserves it.         *)

LEMMA InitInv == Init => Inv
<1>. SUFFICES ASSUME Init PROVE Inv
  OBVIOUS
<1>1. Typed(player)
  <2>1. <<>> \in Seq(Files) /\ <<>> \in Seq(Calls) /\ Len(<<>>) = 0
    BY EmptySeq
  <2>2. "stopped" \in Lifecycle /\ NoFile \in Files \cup {NoFile}
    BY DEF Lifecycle
  <2>3. <<FALSE, FALSE>> \in BOOLEAN \X BOOLEAN
    OBVIOUS
  <2>4. player \in PlayerType
    BY <2>1, <2>2, <2>3 DEF Init, PlayerType
  <2>5. player.queue = <<>> /\ player.queueIndex = 0
    BY DEF Init
  <2>. QED
    BY <2>1, <2>4, <2>5 DEF Typed
<1>2. FlagsAgree(player) /\ ClockIsEnabled(player) /\ ClockAgrees(player)
  BY DEF Init, FlagsAgree, ClockIsEnabled, ClockAgrees
<1>3. NeverStarted(player) /\ Told(player)
  BY DEF Init, NeverStarted, Told, Status
<1>4. DOMAIN player.calls = {}
  BY DEF Init
<1>5. AdvanceIsUnique(player)
  BY <1>4 DEF AdvanceIsUnique
<1>. QED
  BY <1>1, <1>2, <1>3, <1>5 DEF Init, Inv, Sound, Orders

LEMMA ContinueInv ==
    ASSUME Sound(player), Told(player), Continue
    PROVE  Sound(player') /\ Told(player')
<1>. DEFINE call == Head(player.calls)
            s == [player EXCEPT !.calls = Tail(@)]
<1>1. player.calls # <<>>
  BY DEF Continue
<1>2. /\ Sound(s) /\ Told(s) /\ call \in Calls
      /\ IsCurrent(call) => NoneCurrent(s)
  BY <1>1, TailSound
<1>3. \/ call.kind = "advance" /\ player' \in AdvanceContinues(s, call)
      \/ call.kind = "start" /\ player' \in StartContinues(s)
      \/ call.kind = "settle" /\ player' \in {FileEndSettles(s, call)}
  <2>1. call.kind \in {"advance", "start", "settle"}
    BY <1>2 DEF Calls
  <2>2. player' \in CASE call.kind = "advance" -> AdvanceContinues(s, call)
                       [] call.kind = "start"   -> StartContinues(s)
                       [] call.kind = "settle"  -> {FileEndSettles(s, call)}
    BY DEF Continue
  <2>. HIDE DEF call, s
  <2>. QED
    BY <2>1, <2>2
<1>. HIDE DEF call, s
<1>. QED
  BY <1>2, <1>3, AdvanceContinuesSound, StartContinuesSound, FileEndSettlesSound

LEMMA NextInv == Inv /\ [Next]_vars => Inv'
<1>. SUFFICES ASSUME Sound(player), Told(player), draining \in BOOLEAN, halted \in Orders,
                     [Next]_vars
              PROVE  /\ Sound(player') /\ Told(player')
                     /\ draining' \in BOOLEAN /\ halted' \in Orders
  BY DEF Inv, Sound, Told, Typed, FlagsAgree, ClockIsEnabled, ClockAgrees, NeverStarted,
         AdvanceIsUnique, Status
<1>0. draining' \in BOOLEAN /\ halted' \in Orders
  BY DEF Next, vars, Command, Timer, PlaybackStart, PlaybackStop, PlaybackPause,
         PlaybackResume, PlaybackSeek, PlaybackSetLoop, PlaylistStart, PlaylistNext,
         PlaylistPrevious, PlaylistStop, InstrumentSettingsChanged, SetClockEnabled,
         FileEnds, DevicePauses, GapFires, LostGapFires, Continue, Halts, Orders
<1>. SUFFICES Sound(player') /\ Told(player')
  BY <1>0
<1>1. ASSUME NEW f \in Files, PlaybackStart(f)
      PROVE  Sound(player') /\ Told(player')
  <2>. DEFINE call == [kind |-> "start", file |-> f, ok |-> TRUE, current |-> FALSE,
                       origin |-> "command"]
              t == [player EXCEPT !.loaded = f]
  <2>1. player' = [t EXCEPT !.calls = Append(@, call)]
    BY <1>1 DEF PlaybackStart, Suspend, LoadFile
  <2>2. Sound(t) /\ Told(t)
    BY LoadedSound
  <2>3. call \in Calls /\ ~IsCurrent(call)
    BY DEF Calls, Origins, IsCurrent
  <2>. HIDE DEF t, call
  <2>. QED
    BY <2>1, <2>2, <2>3, SuspendSound
<1>2. CASE PlaybackStop
  BY <1>2, StopSound DEF PlaybackStop, Halts
<1>3. CASE PlaylistStop
  BY <1>3, StopSound, ClearQueueSound DEF PlaylistStop, Halts
<1>4. CASE PlaybackPause
  BY <1>4, PauseSound DEF PlaybackPause
<1>5. CASE PlaybackResume
  BY <1>5, ResumeSound DEF PlaybackResume
<1>6. CASE PlaybackSeek
  BY <1>6, SeekSound DEF PlaybackSeek
<1>7. CASE PlaybackSetLoop
  <2>1. PICK b \in BOOLEAN : b = ~player.loop
    OBVIOUS
  <2>2. player' = [player EXCEPT !.loop = b]
    BY <1>7, <2>1 DEF PlaybackSetLoop
  <2>. QED
    BY <2>2, FieldSound
<1>8. ASSUME NEW l \in Playlists, PlaylistStart(l)
      PROVE  Sound(player') /\ Told(player')
  <2>1. PICK q \in (IF l.shuffle /\ Len(l.files) > 1 THEN Shufflings(l.files) ELSE {l.files}),
             i \in DOMAIN l.files : player' \in PlayQueueItem(SetQueue(player, q, l), i, "command")
    BY <1>8 DEF PlaylistStart
  <2>2. l.files \in Seq(Files)
    BY PlaylistsAssumption
  <2>3. q \in Seq(Files) /\ Len(q) = Len(l.files)
    BY <2>1, <2>2, ShufflingsTyped
  <2>4. i \in DOMAIN q
    BY <2>1, <2>2, <2>3, LenProperties
  <2>5. Sound(SetQueue(player, q, l)) /\ SetQueue(player, q, l).queue = q
    BY <2>3, SetQueueSound
  <2>. QED
    BY <2>1, <2>4, <2>5, PlayQueueItemSound DEF Origins
<1>9. CASE PlaylistNext
  <2>1. player' \in NextInQueue(player, "command") /\ player.queue # <<>>
    BY <1>9 DEF PlaylistNext, QueueIsActive
  <2>. QED
    BY <2>1, NextInQueueSound DEF Origins
<1>10. CASE PlaylistPrevious
  <2>1. player' \in PreviousInQueue(player, "command") /\ player.queue # <<>>
    BY <1>10 DEF PlaylistPrevious, QueueIsActive
  <2>. QED
    BY <2>1, PreviousInQueueSound DEF Origins
<1>11. CASE InstrumentSettingsChanged
  BY <1>11, FieldSound DEF InstrumentSettingsChanged
<1>12. CASE SetClockEnabled
  BY <1>12, SetClockEnabledSound DEF SetClockEnabled
<1>13. CASE FileEnds
  BY <1>13, HandleFileEndSound DEF FileEnds, Sound, FlagsAgree
<1>14. CASE DevicePauses
  BY <1>14, PauseSound DEF DevicePauses, Sound, FlagsAgree
<1>15. CASE GapFires
  <2>. DEFINE t == [player EXCEPT !.gapTimer = FALSE]
  <2>1. player' \in NextInQueue(t, "gap")
    BY <1>15 DEF GapFires
  <2>2. Sound(t) /\ Told(t)
    BY FieldSound
  <2>. HIDE DEF t
  <2>. QED
    BY <2>1, <2>2, NextInQueueSound DEF Origins
<1>16. CASE LostGapFires
  <2>. DEFINE t == [player EXCEPT !.lostGaps = @ - 1, !.gapTimer = FALSE]
  <2>1. player' \in NextInQueue(t, "gap") /\ player.lostGaps > 0
    BY <1>16 DEF LostGapFires
  <2>2. Sound(t) /\ Told(t)
    BY <2>1, LostGapSound
  <2>. HIDE DEF t
  <2>. QED
    BY <2>1, <2>2, NextInQueueSound DEF Origins
<1>17. CASE Continue
  BY <1>17, ContinueInv
<1>18. CASE UNCHANGED vars
  BY <1>18 DEF vars, Sound, Told, Typed, FlagsAgree, ClockIsEnabled, ClockAgrees,
               NeverStarted, AdvanceIsUnique, Status
<1>. QED
  BY <1>1, <1>2, <1>3, <1>4, <1>5, <1>6, <1>7, <1>8, <1>9, <1>10, <1>11, <1>12, <1>13,
     <1>14, <1>15, <1>16, <1>17, <1>18 DEF Next

LEMMA Invariance == Spec => []Inv
  BY InitInv, NextInv, PTL DEF Spec

-----------------------------------------------------------------------------
(* A stop is final.                                                        *)

LEMMA StopIsDead ==
    ASSUME NEW s, Sound(s), Told(s), ~Leaks(s),
           \A k \in DOMAIN s.calls : s.calls[k].kind # "start"
    PROVE  Dead(Stop(s))
BY StopSound DEF Dead, Leaks

\* Whoever waits for the outcome of an end of file starts nothing.
LEMMA SettleDead ==
    ASSUME NEW s, Sound(s), Dead(s), NEW ok \in BOOLEAN
    PROVE  Dead(Settle(s, ok))
<1>. DEFINE call == [kind |-> "settle", file |-> s.loaded, ok |-> ok, current |-> FALSE,
                     origin |-> "fileEnd"]
            r == [s EXCEPT !.calls = Append(@, call)]
<1>1. call \in Calls /\ ~IsCurrent(call) /\ call.kind # "start"
  BY DEF Sound, Typed, PlayerType, Calls, Origins, IsCurrent
<1>2. Settle(s, ok) = r
  BY DEF Settle, Suspend
<1>3. s.calls \in Seq(Calls) /\ r.calls = Append(s.calls, call)
  BY DEF Sound, Typed, PlayerType
<1>4. ~r.playing /\ ~r.gapTimer /\ ~r.advancing /\ ~Leaks(r)
  BY DEF Sound, Typed, PlayerType, Dead, Leaks
<1>. HIDE DEF call
<1>5. \A k \in DOMAIN r.calls :
         r.calls[k] = call \/ (k \in DOMAIN s.calls /\ r.calls[k] = s.calls[k])
  BY <1>1, <1>3, AppendProperties, LenProperties
<1>. HIDE DEF r
<1>. QED
  BY <1>1, <1>2, <1>4, <1>5 DEF Dead, NoneCurrent

LEMMA ContinueDead ==
    ASSUME Sound(player), Told(player), Dead(player), Continue
    PROVE  Dead(player')
<1>. DEFINE call == Head(player.calls)
            s == [player EXCEPT !.calls = Tail(@)]
<1>1. player.calls # <<>>
  BY DEF Continue
<1>2. /\ Sound(s) /\ Told(s) /\ call \in Calls /\ ~IsCurrent(call) /\ call.kind # "start"
      /\ \A k \in DOMAIN s.calls :
            k + 1 \in DOMAIN player.calls /\ s.calls[k] = player.calls[k + 1]
  <2>1. s = [player EXCEPT !.calls = Tail(@)] /\ call = Head(player.calls)
    OBVIOUS
  <2>. HIDE DEF call, s
  <2>2. Sound(s) /\ Told(s) /\ call \in Calls
    BY <1>1, <2>1, TailSound
  <2>3. call = player.calls[1] /\ 1 \in DOMAIN player.calls
    BY <1>1, <2>1, TailSound
  <2>4. \A k \in DOMAIN s.calls :
           k + 1 \in DOMAIN player.calls /\ s.calls[k] = player.calls[k + 1]
    BY <1>1, <2>1, TailSound
  <2>. QED
    BY <2>2, <2>3, <2>4 DEF Dead, NoneCurrent
<1>3. Dead(s)
  <2>1. ~s.playing /\ ~s.gapTimer /\ ~s.advancing /\ ~Leaks(s)
    BY DEF Dead, Leaks, Sound, Typed, PlayerType
  <2>. HIDE DEF s
  <2>. QED
    BY <1>2, <2>1 DEF Dead, NoneCurrent
<1>4. Dead(Stop(s)) /\ \A ok \in BOOLEAN : Dead(Settle(s, ok))
  <2>. HIDE DEF s
  <2>. QED
    BY <1>2, <1>3, StopIsDead, SettleDead DEF Dead
<1>5. \/ call.kind = "advance" /\ player' \in AdvanceContinues(s, call)
      \/ call.kind = "settle" /\ player' = FileEndSettles(s, call)
  <2>1. call.kind \in {"advance", "settle"}
    BY <1>2 DEF Calls
  <2>2. player' \in CASE call.kind = "advance" -> AdvanceContinues(s, call)
                       [] call.kind = "start"   -> StartContinues(s)
                       [] call.kind = "settle"  -> {FileEndSettles(s, call)}
    BY DEF Continue
  <2>. HIDE DEF call, s
  <2>. QED
    BY <2>1, <2>2
<1>. HIDE DEF call, s
<1>6. CASE call.kind = "advance" /\ player' \in AdvanceContinues(s, call)
  <2>1. ~call.current /\ call.origin \in Origins /\ call.ok \in BOOLEAN
    BY <1>2, <1>6 DEF IsCurrent, Calls
  <2>2. player' = IF call.ok THEN Settled(s, call) ELSE Rejected(s, call)
    BY <1>6, <2>1 DEF AdvanceContinues
  <2>3. [s EXCEPT !.stranded = @ \/ call.current] = s
    BY <1>2, <2>1 DEF Sound, Typed, PlayerType
  <2>. QED
    BY <1>3, <1>4, <2>1, <2>2, <2>3 DEF Settled, Rejected, Origins
<1>7. CASE call.kind = "settle" /\ player' = FileEndSettles(s, call)
  <2>. DEFINE t == IF call.ok THEN s ELSE Stop(s)
  <2>1. Dead(t) /\ Sound(t)
    BY <1>2, <1>3, <1>4, StopSound
  <2>2. player' = [t EXCEPT !.fileEndPending = FALSE]
    BY <1>7 DEF FileEndSettles
  <2>. HIDE DEF t
  <2>. QED
    BY <2>1, <2>2 DEF Dead, Leaks, NoneCurrent, Sound, Typed, PlayerType
<1>. QED
  BY <1>5, <1>6, <1>7

LEMMA NextDead == Inv /\ HaltedIsDead /\ [Next]_vars => HaltedIsDead'
<1>. SUFFICES ASSUME Sound(player), Told(player), HaltedIsDead, [Next]_vars,
                     halted' = "stopped"
              PROVE  Dead(player')
  BY DEF Inv, HaltedIsDead, Dead, Leaks, NoneCurrent
<1>. USE DEF HaltedIsDead
<1>1. ASSUME NEW f \in Files, PlaybackStart(f)
      PROVE  Dead(player')
  BY <1>1 DEF PlaybackStart
<1>2. CASE PlaybackStop
  <2>1. ~StartIsPending(player) /\ ~Leaks(Stop(player)) /\ player' = Stop(player)
    BY <1>2 DEF PlaybackStop, Halts
  <2>2. ~Leaks(player)
    BY <2>1, StopSound DEF Leaks
  <2>. QED
    BY <2>1, <2>2, StopIsDead DEF StartIsPending
<1>3. CASE PlaylistStop
  <2>. DEFINE t == Stop(player)
  <2>1. ~StartIsPending(player) /\ player' = ClearQueue(t)
    BY <1>3 DEF PlaylistStop, Halts
  <2>2. /\ Sound(t) /\ ~t.playing /\ ~t.gapTimer /\ ~t.advancing /\ NoneCurrent(t)
        /\ \A k \in DOMAIN t.calls : t.calls[k].kind # "start"
    BY <2>1, StopSound DEF StartIsPending
  <2>. HIDE DEF t
  <2>3. /\ player'.queue = <<>> /\ player'.calls = t.calls
        /\ ~player'.playing /\ ~player'.gapTimer /\ ~player'.advancing
    BY <2>1, <2>2 DEF ClearQueue, Sound, Typed, PlayerType
  <2>. QED
    BY <2>2, <2>3 DEF Dead, NoneCurrent, Leaks
<1>4. CASE PlaybackPause
  BY <1>4 DEF PlaybackPause, Dead
<1>5. CASE PlaybackResume
  BY <1>5 DEF PlaybackResume, Dead
<1>6. CASE PlaybackSeek
  <2>1. PICK toEnd \in BOOLEAN : player' \in Seek(player, toEnd)
    BY <1>6 DEF PlaybackSeek
  <2>2. Dead(player)
    BY <1>6 DEF PlaybackSeek
  <2>3. player' = [player EXCEPT !.fsm = TryTransition(@, "seeking")]
    BY <2>1, <2>2 DEF Seek, Dead
  <2>. QED
    BY <2>2, <2>3 DEF Dead, Leaks, NoneCurrent, Sound, Typed, PlayerType
<1>7. CASE PlaybackSetLoop
  BY <1>7 DEF PlaybackSetLoop, Dead, Leaks, NoneCurrent, Sound, Typed, PlayerType
<1>8. ASSUME NEW l \in Playlists, PlaylistStart(l)
      PROVE  Dead(player')
  BY <1>8 DEF PlaylistStart
<1>9. CASE PlaylistNext
  BY <1>9 DEF PlaylistNext
<1>10. CASE PlaylistPrevious
  BY <1>10 DEF PlaylistPrevious
<1>11. CASE InstrumentSettingsChanged
  BY <1>11 DEF InstrumentSettingsChanged, Dead, Leaks, NoneCurrent, Sound, Typed, PlayerType
<1>12. CASE SetClockEnabled
  BY <1>12 DEF SetClockEnabled, StopPlaybackClock, Dead, Leaks, NoneCurrent, Sound,
               Typed, PlayerType
<1>13. CASE FileEnds
  BY <1>13 DEF FileEnds, Timer, Dead, Sound, FlagsAgree
<1>14. CASE DevicePauses
  BY <1>14 DEF DevicePauses, Timer, Dead, Sound, FlagsAgree
<1>15. CASE GapFires
  BY <1>15 DEF GapFires, Timer, Dead
<1>16. CASE LostGapFires
  <2>. DEFINE t == [player EXCEPT !.lostGaps = @ - 1, !.gapTimer = FALSE]
  <2>1. Dead(player) /\ player.queue = <<>> /\ player' \in NextInQueue(t, "gap")
    BY <1>16 DEF LostGapFires, Timer, Dead, Leaks
  <2>2. t.queue = <<>> /\ t.calls = player.calls
        /\ ~t.playing /\ ~t.gapTimer /\ ~t.advancing
    BY <2>1 DEF Dead, Sound, Typed, PlayerType
  <2>. HIDE DEF t
  <2>3. player' = t
    BY <2>1, <2>2 DEF NextInQueue
  <2>. QED
    BY <2>1, <2>2, <2>3 DEF Dead, Leaks, NoneCurrent
<1>17. CASE Continue
  BY <1>17, ContinueDead DEF Continue
<1>18. CASE UNCHANGED vars
  BY <1>18 DEF vars, Dead, Leaks, NoneCurrent
<1>. QED
  BY <1>1, <1>2, <1>3, <1>4, <1>5, <1>6, <1>7, <1>8, <1>9, <1>10, <1>11, <1>12, <1>13,
     <1>14, <1>15, <1>16, <1>17, <1>18 DEF Next

-----------------------------------------------------------------------------
(* An advance plays its file.                                              *)

\* The advance at i loaded what the queue points at, and still has it unless a
\* playback_start came after it.
Announced(s, i) ==
    /\ s.queueIndex \in DOMAIN s.queue
    /\ s.calls[i].file = s.queue[s.queueIndex]
    /\ s.calls[i].ok => \/ s.loaded = s.calls[i].file
                        \/ \E j \in DOMAIN s.calls : j > i /\ s.calls[j].kind = "start"

Faithful(s) == \A i \in DOMAIN s.calls : IsCurrent(s.calls[i]) => Announced(s, i)

\* The fields it speaks of.
SameFile(s, t) ==
    /\ t.calls = s.calls /\ t.queue = s.queue
    /\ t.queueIndex = s.queueIndex /\ t.loaded = s.loaded

LEMMA FaithfulFrame ==
    ASSUME NEW s, NEW t, Faithful(s) \/ NoneCurrent(s), SameFile(s, t)
    PROVE  Faithful(t) /\ (NoneCurrent(s) => NoneCurrent(t))
BY DEF Faithful, Announced, NoneCurrent, SameFile

\* The methods that are not about the queue.
LEMMA KeepFile ==
    ASSUME NEW s \in PlayerType
    PROVE  /\ SameFile(s, Pause(s))
           /\ SameFile(s, BroadcastStatus(s))
           /\ SameFile(s, StartCore(s))
           /\ SameFile(s, SeekTeardown(s))
           /\ SameFile(s, StopPlaybackClock(Silence(s)))
           /\ SameFile(s, StopPlaybackClock(s))
<1>1. SameFile(s, Pause(s)) /\ SameFile(s, BroadcastStatus(s))
  BY DEF PlayerType, SameFile, Pause, BroadcastStatus, PausePlaybackClock
<1>2. SameFile(s, StartCore(s))
  BY DEF PlayerType, SameFile, StartCore, StartPlaybackClock
<1>3. SameFile(s, SeekTeardown(s)) /\ SameFile(s, StopPlaybackClock(Silence(s)))
      /\ SameFile(s, StopPlaybackClock(s))
  BY DEF PlayerType, SameFile, SeekTeardown, Silence, StopPlaybackClock
<1>. QED
  BY <1>1, <1>2, <1>3

LEMMA DispatchFaithful ==
    ASSUME NEW s \in PlayerType, Faithful(s), NEW r \in Dispatch(s)
    PROVE  Faithful(r)
BY KeepFile, FaithfulFrame DEF Dispatch

LEMMA StopFaithful ==
    ASSUME NEW s, Sound(s), Told(s) \/ s.playing
    PROVE  Faithful(Stop(s))
BY StopSound DEF Faithful, NoneCurrent

\* A handler that waits for anything but a claimed advance: it moves no queue,
\* and if it loaded a file it is a playback_start.
LEMMA SuspendFaithful ==
    ASSUME NEW s, s.calls \in Seq(Calls), Faithful(s), NEW call \in Calls, ~IsCurrent(call),
           NEW r, r.calls = Append(s.calls, call),
           r.queue = s.queue, r.queueIndex = s.queueIndex,
           r.loaded = s.loaded \/ call.kind = "start"
    PROVE  Faithful(r)
<1>1. /\ Len(s.calls) \in Nat /\ DOMAIN s.calls = 1..Len(s.calls)
      /\ DOMAIN r.calls = 1..(Len(s.calls) + 1)
      /\ \A k \in 1..Len(s.calls) : r.calls[k] = s.calls[k]
      /\ r.calls[Len(s.calls) + 1] = call
  BY AppendProperties, LenProperties
<1>2. SUFFICES ASSUME NEW i \in DOMAIN r.calls, IsCurrent(r.calls[i])
               PROVE  Announced(r, i)
  BY DEF Faithful
<1>3. i \in DOMAIN s.calls /\ r.calls[i] = s.calls[i]
  BY <1>1, <1>2
<1>4. Announced(s, i)
  BY <1>2, <1>3 DEF Faithful
<1>5. r.calls[i].ok => \/ r.loaded = r.calls[i].file
                       \/ \E j \in DOMAIN r.calls : j > i /\ r.calls[j].kind = "start"
  <2>1. CASE call.kind = "start"
    <3>1. Len(s.calls) + 1 \in DOMAIN r.calls /\ Len(s.calls) + 1 > i
      BY <1>1, <1>3
    <3>. QED
      BY <1>1, <2>1, <3>1
  <2>2. CASE r.loaded = s.loaded
    <3>1. ASSUME NEW j \in DOMAIN s.calls, s.calls[j].kind = "start"
          PROVE  j \in DOMAIN r.calls /\ r.calls[j].kind = "start"
      BY <1>1, <3>1
    <3>. QED
      BY <1>3, <1>4, <2>2, <3>1 DEF Announced
  <2>. QED
    BY <2>1, <2>2
<1>. QED
  BY <1>3, <1>4, <1>5 DEF Announced

LEMMA SettleFaithful ==
    ASSUME NEW s, Sound(s), Faithful(s), NEW ok \in BOOLEAN
    PROVE  Faithful(Settle(s, ok))
<1>. DEFINE call == [kind |-> "settle", file |-> s.loaded, ok |-> ok, current |-> FALSE,
                     origin |-> "fileEnd"]
            r == [s EXCEPT !.calls = Append(@, call)]
<1>1. call \in Calls /\ ~IsCurrent(call)
  BY DEF Sound, Typed, PlayerType, Calls, Origins, IsCurrent
<1>2. Settle(s, ok) = r
  BY DEF Settle, Suspend
<1>3. s.calls \in Seq(Calls)
  BY DEF Sound, Typed, PlayerType
<1>. HIDE DEF call
<1>4. /\ r.calls = Append(s.calls, call) /\ r.queue = s.queue
      /\ r.queueIndex = s.queueIndex /\ r.loaded = s.loaded
  BY DEF Sound, Typed, PlayerType
<1>. HIDE DEF r
<1>. QED
  BY <1>1, <1>2, <1>3, <1>4, SuspendFaithful

\* A claimed advance is the last handler, and the only current one.
LEMMA PlayQueueItemFaithful ==
    ASSUME NEW s, Sound(s), NEW i \in DOMAIN s.queue, NEW origin \in Origins,
           NEW r \in PlayQueueItem(s, i, origin)
    PROVE  Faithful(r)
<1>. DEFINE c == BumpToken(s).calls
            claimed == [[s EXCEPT !.calls = c] EXCEPT !.advancing = TRUE, !.gapTimer = FALSE,
                                                      !.stranded = FALSE]
            ready == [(IF s.playing THEN Silence(claimed) ELSE claimed) EXCEPT !.queueIndex = i]
            item == s.queue[i]
<1>1. Typed(s) /\ s \in PlayerType
  BY DEF Sound, Typed
<1>2. BumpToken(s) = [s EXCEPT !.calls = c]
  BY <1>1, BumpTokenFrame
<1>3. PICK ok \in BOOLEAN :
          r = Suspend(LoadFile(ready, item, ok), "advance", item, ok, TRUE, origin)
  BY <1>2 DEF PlayQueueItem
<1>4. c \in Seq(Calls) /\ \A k \in DOMAIN c : ~IsCurrent(c[k])
  BY <1>1, BumpTokenFrame, BumpTokenTyped DEF NoneCurrent
<1>. DEFINE call == [kind |-> "advance", file |-> item, ok |-> ok, current |-> TRUE,
                     origin |-> origin]
<1>. HIDE DEF c, item
<1>5. /\ r.calls = Append(c, call) /\ r.queue = s.queue /\ r.queueIndex = i
      /\ ok => r.loaded = item
  BY <1>1, <1>3 DEF PlayerType, LoadFile, Silence, Suspend
<1>6. item \in Files
  BY <1>1 DEF item, PlayerType
<1>7. call \in Calls /\ call.file = item /\ call.ok = ok
  BY <1>6 DEF Calls
<1>. HIDE DEF call
<1>8. \A k \in DOMAIN r.calls :
         r.calls[k] = call \/ (k \in DOMAIN c /\ r.calls[k] = c[k])
  BY <1>4, <1>5, <1>7, AppendProperties, LenProperties
<1>9. \A k \in DOMAIN r.calls : IsCurrent(r.calls[k]) => r.calls[k] = call
  BY <1>4, <1>8
<1>10. r.queue[r.queueIndex] = item /\ r.queueIndex \in DOMAIN r.queue
  BY <1>5 DEF item
<1>. QED
  BY <1>5, <1>7, <1>9, <1>10 DEF Faithful, Announced

LEMMA NextInQueueFaithful ==
    ASSUME NEW s, Sound(s), Told(s) \/ s.playing, Faithful(s), NEW origin \in Origins,
           NEW r \in NextInQueue(s, origin)
    PROVE  Faithful(r)
BY NextInQueueCases, PlayQueueItemFaithful, StopFaithful

LEMMA HandleFileEndFaithful ==
    ASSUME NEW s, Sound(s), s.playing, Faithful(s), NEW r \in HandleFileEnd(s)
    PROVE  Faithful(r)
<1>0. s \in PlayerType
  BY DEF Sound, Typed
<1>1. CASE IgnoresFileEnd(s)
  BY <1>1 DEF HandleFileEnd
<1>2. CASE ~IgnoresFileEnd(s) /\ s.loop
  <2>1. PICK d \in Dispatch(StartCore(SeekTeardown(s))) : r = BroadcastStatus(d)
    BY <1>2 DEF HandleFileEnd
  <2>2. SeekTeardown(s) \in PlayerType /\ Faithful(SeekTeardown(s))
    BY <1>0, SeekTeardownSound, KeepFile, FaithfulFrame DEF Typed
  <2>3. /\ Sound(StartCore(SeekTeardown(s)))
        /\ StartCore(SeekTeardown(s)) \in PlayerType /\ Faithful(StartCore(SeekTeardown(s)))
    BY <2>2, SeekTeardownSound, StartCoreSound, KeepFile, FaithfulFrame DEF Sound, Typed
  <2>4. Faithful(d) /\ d \in PlayerType
    BY <2>1, <2>3, DispatchFaithful, SeekTeardownSound, StartCoreSound, DispatchSound
    DEF Sound, Typed
  <2>. QED
    BY <2>1, <2>4, KeepFile, FaithfulFrame
<1>3. CASE ~IgnoresFileEnd(s) /\ ~s.loop /\ s.queue # <<>> /\ s.queueGap
  <2>. DEFINE t == StopPlaybackClock(Silence(s))
  <2>1. r = StartGapDelay(BroadcastStatus(t))
    BY <1>3, Zenon DEF HandleFileEnd
  <2>2. t \in PlayerType /\ Faithful(t)
    BY <1>0, ClockTyped, KeepFile, FaithfulFrame
  <2>. HIDE DEF t
  <2>3. SameFile(t, r)
    BY <2>1, <2>2 DEF PlayerType, BroadcastStatus, StartGapDelay, SameFile
  <2>. QED
    BY <2>2, <2>3, FaithfulFrame
<1>4. CASE ~IgnoresFileEnd(s) /\ ~s.loop /\ s.queue # <<>> /\ ~s.queueGap
  <2>. DEFINE t == [s EXCEPT !.fileEndPending = TRUE]
  <2>1. Sound(t) /\ t.playing /\ Faithful(t)
    <3>1. Typed(t) /\ SameTransport(s, t) /\ SameFile(s, t)
      BY DEF Sound, Typed, PlayerType, SameTransport, SameFile
    <3>. QED
      BY <3>1, SameTransportSound, FaithfulFrame DEF SameTransport
  <2>2. PICK n \in NextInQueue(t, "fileEnd") :
           r = IF Len(n.calls) > Len(s.calls) THEN n ELSE Settle(n, TRUE)
    BY <1>4, Zenon DEF HandleFileEnd
  <2>. HIDE DEF t
  <2>3. Sound(n) /\ Faithful(n)
    BY <2>1, NextInQueueSound, NextInQueueFaithful DEF Origins
  <2>. QED
    BY <2>2, <2>3, SettleFaithful
<1>5. CASE ~IgnoresFileEnd(s) /\ ~s.loop /\ s.queue = <<>>
  <2>1. r = Stop(s)
    BY <1>5 DEF HandleFileEnd
  <2>. QED
    BY <2>1, StopFaithful
<1>. QED
  BY <1>1, <1>2, <1>3, <1>4, <1>5

LEMMA FirstPassFaithful ==
    ASSUME NEW s, Sound(s), s.playing, ~s.paused, Faithful(s), NEW pastEnd,
           NEW r \in FirstPass(s, pastEnd)
    PROVE  Faithful(r)
<1>1. PICK d \in IF pastEnd THEN HandleFileEnd(s) ELSE Dispatch(s) : r = BroadcastStatus(d)
  BY DEF FirstPass
<1>2. d \in PlayerType /\ Faithful(d)
  BY HandleFileEndSound, DispatchSound, HandleFileEndFaithful, DispatchFaithful
  DEF Sound, Typed
<1>. QED
  BY <1>1, <1>2, KeepFile, FaithfulFrame

LEMMA StartFaithful ==
    ASSUME NEW s, Typed(s), ClockIsEnabled(s), AdvanceIsUnique(s), Faithful(s),
           NEW pastEnd, NEW r \in Start(s, pastEnd)
    PROVE  Faithful(r)
<1>1. CASE s.playing
  BY <1>1 DEF Start
<1>2. CASE ~s.playing
  <2>1. Sound(StartCore(s)) /\ StartCore(s).playing /\ ~StartCore(s).paused
    BY StartCoreSound
  <2>2. Faithful(StartCore(s))
    BY KeepFile, FaithfulFrame DEF Typed
  <2>. QED
    BY <1>2, <2>1, <2>2, FirstPassFaithful DEF Start
<1>. QED
  BY <1>1, <1>2

LEMMA SeekFaithful ==
    ASSUME NEW s, Sound(s), Faithful(s), NEW toEnd, NEW r \in Seek(s, toEnd)
    PROVE  Faithful(r)
<1>0. s \in PlayerType
  BY DEF Sound, Typed
<1>1. CASE s.playing /\ ~s.paused
  <2>1. r \in Start(SeekTeardown(s), toEnd \/ s.loaded \in Empty)
    BY <1>1 DEF Seek
  <2>2. Faithful(SeekTeardown(s))
    BY <1>0, KeepFile, FaithfulFrame
  <2>. QED
    BY <2>1, <2>2, SeekTeardownSound, StartFaithful
<1>2. CASE s.playing /\ s.paused
  <2>. DEFINE t == [s EXCEPT !.fsm = TryTransition(TryTransition(@, "seeking"), "paused")]
  <2>1. SameFile(s, BroadcastStatus(t)) /\ r = BroadcastStatus(t)
    BY <1>0, <1>2 DEF Seek, SameFile, BroadcastStatus, PlayerType
  <2>. QED
    BY <2>1, FaithfulFrame
<1>3. CASE ~s.playing
  <2>1. r = [s EXCEPT !.fsm = TryTransition(@, "seeking")]
    BY <1>3, Zenon DEF Seek
  <2>2. SameFile(s, r)
    BY <1>0, <2>1 DEF SameFile, PlayerType
  <2>. QED
    BY <2>2, FaithfulFrame
<1>. QED
  BY <1>1, <1>2, <1>3

LEMMA ResumeFaithful ==
    ASSUME NEW s, Sound(s), s.playing, s.paused, Faithful(s), NEW pastEnd,
           NEW r \in Resume(s, pastEnd)
    PROVE  Faithful(r)
<1>. DEFINE t == ResumePlaybackClock(
                     [s EXCEPT !.fsm = TryTransition(@, "playing"),
                               !.paused = FALSE, !.scheduling = TRUE])
<1>1. SameFile(s, t)
  BY DEF Sound, Typed, PlayerType, SameFile, ResumePlaybackClock
<1>2. Sound(t) /\ t.playing /\ ~t.paused /\ r \in FirstPass(t, pastEnd)
  BY ResumedSound DEF Resume
<1>. HIDE DEF t
<1>. QED
  BY <1>1, <1>2, FaithfulFrame, FirstPassFaithful

-----------------------------------------------------------------------------
\* The head of the queue is taken out: what the others loaded is as before, but
\* for a playback_start at the head, which was after no other.
LEMMA TailFaithful ==
    ASSUME NEW s, Sound(s), Told(s), Faithful(s), s.calls # <<>>,
           NEW t, t = [s EXCEPT !.calls = Tail(@)]
    PROVE  Faithful(t)
<1>1. /\ s.calls \in Seq(Calls) /\ t.queue = s.queue
      /\ t.queueIndex = s.queueIndex /\ t.loaded = s.loaded /\ t.calls = Tail(s.calls)
  BY DEF Sound, Typed, PlayerType
<1>2. /\ Len(s.calls) \in Nat /\ Len(s.calls) >= 1
      /\ DOMAIN s.calls = 1..Len(s.calls)
      /\ DOMAIN t.calls = 1..(Len(s.calls) - 1)
      /\ \A k \in 1..(Len(s.calls) - 1) : t.calls[k] = s.calls[k + 1]
  BY <1>1, HeadTailProperties, LenProperties
<1>3. SUFFICES ASSUME NEW i \in DOMAIN t.calls, IsCurrent(t.calls[i])
               PROVE  Announced(t, i)
  BY DEF Faithful
<1>4. i + 1 \in DOMAIN s.calls /\ t.calls[i] = s.calls[i + 1]
  BY <1>2
<1>5. Announced(s, i + 1)
  BY <1>3, <1>4 DEF Faithful
<1>6. ASSUME NEW j \in DOMAIN s.calls, j > i + 1, s.calls[j].kind = "start"
      PROVE  j - 1 \in DOMAIN t.calls /\ j - 1 > i /\ t.calls[j - 1].kind = "start"
  <2>1. j \in Nat /\ i \in Nat /\ j - 1 \in 1..(Len(s.calls) - 1) /\ j - 1 > i
        /\ (j - 1) + 1 = j
    BY <1>2, <1>6
  <2>2. t.calls[j - 1] = s.calls[(j - 1) + 1]
    BY <1>2, <2>1
  <2>. QED
    BY <1>2, <1>6, <2>1, <2>2
<1>. QED
  BY <1>1, <1>4, <1>5, <1>6 DEF Announced

LEMMA ContinueFaithful ==
    ASSUME Sound(player), Told(player), Faithful(player), Continue
    PROVE  Faithful(player')
<1>. DEFINE call == Head(player.calls)
            s == [player EXCEPT !.calls = Tail(@)]
<1>1. player.calls # <<>>
  BY DEF Continue
<1>2. /\ Sound(s) /\ Told(s) /\ Faithful(s) /\ call \in Calls
      /\ IsCurrent(call) => NoneCurrent(s)
  BY <1>1, TailSound, TailFaithful
<1>3. \/ call.kind = "advance" /\ player' \in AdvanceContinues(s, call)
      \/ call.kind = "start" /\ player' \in StartContinues(s)
      \/ call.kind = "settle" /\ player' = FileEndSettles(s, call)
  <2>1. call.kind \in {"advance", "start", "settle"}
    BY <1>2 DEF Calls
  <2>2. player' \in CASE call.kind = "advance" -> AdvanceContinues(s, call)
                       [] call.kind = "start"   -> StartContinues(s)
                       [] call.kind = "settle"  -> {FileEndSettles(s, call)}
    BY DEF Continue
  <2>. HIDE DEF call, s
  <2>. QED
    BY <2>1, <2>2
<1>. HIDE DEF call, s
<1>4. ASSUME NEW q, Sound(q), Told(q), Faithful(q)
      PROVE  Faithful(Settled(q, call)) /\ Faithful(Rejected(q, call))
  <2>1. call.origin \in Origins
    BY <1>2 DEF Calls
  <2>2. SameFile(q, [q EXCEPT !.stranded = @ \/ call.current])
    BY <1>4 DEF Sound, Typed, PlayerType, SameFile
  <2>3. Faithful([q EXCEPT !.stranded = @ \/ call.current])
    BY <1>4, <2>2, FaithfulFrame
  <2>. QED
    BY <1>4, <2>1, <2>3, SettleFaithful, StopFaithful DEF Settled, Rejected, Origins
<1>5. CASE call.kind = "advance" /\ player' \in AdvanceContinues(s, call)
  <2>1. CASE ~call.ok
    BY <1>2, <1>4, <1>5, <2>1 DEF AdvanceContinues
  <2>2. CASE call.ok /\ ~call.current
    BY <1>2, <1>4, <1>5, <2>2 DEF AdvanceContinues
  <2>3. CASE call.ok /\ call.current
    <3>. DEFINE t == [s EXCEPT !.advancing = FALSE]
    <3>1. \/ \E d \in Start(t, t.loaded \in Empty) : player' = Settled(d, call)
          \/ ~t.outputDevice /\ player' = Rejected(t, call)
      BY <1>5, <2>3 DEF AdvanceContinues
    <3>2. NoneCurrent(s)
      BY <1>2, <1>5, <2>3 DEF IsCurrent
    <3>3. SameFile(s, t)
      BY <1>2 DEF Sound, Typed, PlayerType, SameFile
    <3>4. Faithful(t) /\ NoneCurrent(t)
      BY <3>2, <3>3, FaithfulFrame
    <3>5. /\ Typed(t) /\ ClockIsEnabled(t) /\ AdvanceIsUnique(t)
          /\ t.playing \/ ~t.outputDevice => Sound(t) /\ Told(t)
      BY <1>2, <3>2, AdvanceEndsSound
    <3>. HIDE DEF t
    <3>6. ASSUME NEW d \in Start(t, t.loaded \in Empty)
          PROVE  Sound(d) /\ Told(d) /\ Faithful(d)
      <4>1. CASE t.playing
        BY <3>4, <3>5, <4>1 DEF Start
      <4>2. CASE ~t.playing
        BY <3>4, <3>5, <4>2, StartSound, StartFaithful
      <4>. QED
        BY <4>1, <4>2
    <3>. QED
      BY <1>4, <3>1, <3>4, <3>5, <3>6
  <2>. QED
    BY <1>2, <2>1, <2>2, <2>3 DEF Calls
<1>6. CASE call.kind = "start" /\ player' \in StartContinues(s)
  BY <1>2, <1>6, StartFaithful DEF StartContinues, Sound
<1>7. CASE call.kind = "settle" /\ player' = FileEndSettles(s, call)
  <2>. DEFINE t == IF call.ok THEN s ELSE Stop(s)
  <2>1. Faithful(t) /\ Sound(t)
    BY <1>2, StopFaithful, StopSound
  <2>2. player' = [t EXCEPT !.fileEndPending = FALSE]
    BY <1>7 DEF FileEndSettles
  <2>. HIDE DEF t
  <2>3. SameFile(t, player')
    BY <2>1, <2>2 DEF Sound, Typed, PlayerType, SameFile
  <2>. QED
    BY <2>1, <2>3, FaithfulFrame
<1>. QED
  BY <1>3, <1>5, <1>6, <1>7

LEMMA NextFaithful == Inv /\ Faithful(player) /\ [Next]_vars => Faithful(player)'
<1>. SUFFICES ASSUME Sound(player), Told(player), Faithful(player), [Next]_vars
              PROVE  Faithful(player')
  BY DEF Inv, Faithful, Announced, IsCurrent
<1>0. player \in PlayerType
  BY DEF Sound, Typed
<1>1. ASSUME NEW f \in Files, PlaybackStart(f)
      PROVE  Faithful(player')
  <2>. DEFINE call == [kind |-> "start", file |-> f, ok |-> TRUE, current |-> FALSE,
                       origin |-> "command"]
  <2>1. player' = [[player EXCEPT !.loaded = f] EXCEPT !.calls = Append(@, call)]
    BY <1>1 DEF PlaybackStart, Suspend, LoadFile
  <2>2. call \in Calls /\ ~IsCurrent(call) /\ call.kind = "start"
    BY DEF Calls, Origins, IsCurrent
  <2>. HIDE DEF call
  <2>3. /\ player'.calls = Append(player.calls, call) /\ player.calls \in Seq(Calls)
        /\ player'.queue = player.queue /\ player'.queueIndex = player.queueIndex
    BY <1>0, <2>1 DEF PlayerType
  <2>. QED
    BY <2>2, <2>3, SuspendFaithful
<1>2. CASE PlaybackStop
  BY <1>2, StopFaithful DEF PlaybackStop, Halts
<1>3. CASE PlaylistStop
  <2>. DEFINE t == Stop(player)
  <2>1. NoneCurrent(t) /\ t \in PlayerType /\ player' = ClearQueue(t)
    BY <1>3, StopSound DEF PlaylistStop, Halts, Sound, Typed
  <2>. HIDE DEF t
  <2>2. player'.calls = t.calls
    BY <2>1 DEF PlayerType, ClearQueue
  <2>. QED
    BY <2>1, <2>2 DEF Faithful, NoneCurrent
<1>4. CASE PlaybackPause
  BY <1>0, <1>4, KeepFile, FaithfulFrame DEF PlaybackPause
<1>5. CASE PlaybackResume
  BY <1>5, ResumeFaithful DEF PlaybackResume
<1>6. CASE PlaybackSeek
  BY <1>6, SeekFaithful DEF PlaybackSeek
<1>7. CASE PlaybackSetLoop
  <2>1. SameFile(player, player')
    BY <1>0, <1>7 DEF PlaybackSetLoop, PlayerType, SameFile
  <2>. QED
    BY <2>1, FaithfulFrame
<1>8. ASSUME NEW l \in Playlists, PlaylistStart(l)
      PROVE  Faithful(player')
  <2>1. PICK q \in (IF l.shuffle /\ Len(l.files) > 1 THEN Shufflings(l.files) ELSE {l.files}),
             i \in DOMAIN l.files : player' \in PlayQueueItem(SetQueue(player, q, l), i, "command")
    BY <1>8 DEF PlaylistStart
  <2>2. l.files \in Seq(Files)
    BY PlaylistsAssumption
  <2>3. q \in Seq(Files) /\ Len(q) = Len(l.files)
    BY <2>1, <2>2, ShufflingsTyped
  <2>4. i \in DOMAIN q
    BY <2>1, <2>2, <2>3, LenProperties
  <2>5. Sound(SetQueue(player, q, l)) /\ SetQueue(player, q, l).queue = q
    BY <2>3, SetQueueSound
  <2>. QED
    BY <2>1, <2>4, <2>5, PlayQueueItemFaithful DEF Origins
<1>9. CASE PlaylistNext
  BY <1>9, NextInQueueFaithful DEF PlaylistNext, Origins
<1>10. CASE PlaylistPrevious
  <2>1. player' \in PreviousInQueue(player, "command") /\ player.queue # <<>>
    BY <1>10 DEF PlaylistPrevious, QueueIsActive
  <2>. QED
    BY <2>1, PreviousInQueueSound, PlayQueueItemFaithful DEF Origins
<1>11. CASE InstrumentSettingsChanged
  <2>1. SameFile(player, player')
    BY <1>0, <1>11 DEF InstrumentSettingsChanged, PlayerType, SameFile
  <2>. QED
    BY <2>1, FaithfulFrame
<1>12. CASE SetClockEnabled
  <2>1. SameFile(player, player')
    BY <1>0, <1>12 DEF SetClockEnabled, StopPlaybackClock, PlayerType, SameFile
  <2>. QED
    BY <2>1, FaithfulFrame
<1>13. CASE FileEnds
  BY <1>13, HandleFileEndFaithful DEF FileEnds, Sound, FlagsAgree
<1>14. CASE DevicePauses
  BY <1>0, <1>14, KeepFile, FaithfulFrame DEF DevicePauses
<1>15. CASE GapFires
  <2>. DEFINE t == [player EXCEPT !.gapTimer = FALSE]
  <2>1. player' \in NextInQueue(t, "gap")
    BY <1>15 DEF GapFires
  <2>2. Sound(t) /\ Told(t)
    BY FieldSound
  <2>3. SameFile(player, t)
    BY <1>0 DEF PlayerType, SameFile
  <2>. HIDE DEF t
  <2>4. Faithful(t)
    BY <2>3, FaithfulFrame
  <2>. QED
    BY <2>1, <2>2, <2>4, NextInQueueFaithful DEF Origins
<1>16. CASE LostGapFires
  <2>. DEFINE t == [player EXCEPT !.lostGaps = @ - 1, !.gapTimer = FALSE]
  <2>1. player' \in NextInQueue(t, "gap") /\ player.lostGaps > 0
    BY <1>16 DEF LostGapFires
  <2>2. Sound(t) /\ Told(t)
    BY <2>1, LostGapSound
  <2>3. SameFile(player, t)
    BY <1>0 DEF PlayerType, SameFile
  <2>. HIDE DEF t
  <2>4. Faithful(t)
    BY <2>3, FaithfulFrame
  <2>. QED
    BY <2>1, <2>2, <2>4, NextInQueueFaithful DEF Origins
<1>17. CASE Continue
  BY <1>17, ContinueFaithful
<1>18. CASE UNCHANGED vars
  BY <1>18 DEF vars
<1>. QED
  BY <1>1, <1>2, <1>3, <1>4, <1>5, <1>6, <1>7, <1>8, <1>9, <1>10, <1>11, <1>12, <1>13,
     <1>14, <1>15, <1>16, <1>17, <1>18 DEF Next

-----------------------------------------------------------------------------
(* A silenced player is in the hands of an advance, or stranded by one.    *)

\* The fields it speaks of: a handler may be added, a status told, a clock
\* stopped.
SameHalf(s, t) ==
    /\ t.playing = s.playing /\ t.stranded = s.stranded
    /\ t.clock # "idle" => s.clock # "idle"
    /\ t.status = Status(t) \/ (t.status = s.status /\ t.paused = s.paused)
    /\ \A i \in DOMAIN s.calls : i \in DOMAIN t.calls /\ t.calls[i] = s.calls[i]

LEMMA WholeFrame ==
    ASSUME NEW s, NEW t, Whole(s), SameHalf(s, t)
    PROVE  Whole(t)
<1>1. AdvanceUnderWay(s) => AdvanceUnderWay(t)
  BY DEF SameHalf, AdvanceUnderWay, CurrentAdvances
<1>2. Half(t) => Half(s)
  BY DEF SameHalf, Half, Status
<1>. QED
  BY <1>1, <1>2 DEF Whole, SameHalf

LEMMA CurrentIsWhole ==
    ASSUME NEW s, \E k \in DOMAIN s.calls : IsCurrent(s.calls[k])
    PROVE  Whole(s)
BY DEF Whole, AdvanceUnderWay, CurrentAdvances, IsCurrent

LEMMA QuietIsWhole ==
    ASSUME NEW s, Sound(s), Told(s), ~s.advancing
    PROVE  Whole(s)
BY DEF Whole, Half, Sound, Told, ClockAgrees

LEMMA StopWhole ==
    ASSUME NEW s, Sound(s), Told(s) \/ s.playing
    PROVE  Whole(Stop(s))
BY StopSound, QuietIsWhole

LEMMA BroadcastWhole ==
    ASSUME NEW s \in PlayerType, Whole(s)
    PROVE  Whole(BroadcastStatus(s))
<1>1. SameHalf(s, BroadcastStatus(s))
  BY DEF PlayerType, SameHalf, BroadcastStatus, Status
<1>. QED
  BY <1>1, WholeFrame

\* A failed advance stays under way until the end-of-file handler hears of it.
LEMMA SettleWhole ==
    ASSUME NEW s, Sound(s), NEW ok \in BOOLEAN, Whole(s) \/ ~ok
    PROVE  Whole(Settle(s, ok))
<1>. DEFINE call == [kind |-> "settle", file |-> s.loaded, ok |-> ok, current |-> FALSE,
                     origin |-> "fileEnd"]
            r == [s EXCEPT !.calls = Append(@, call)]
<1>1. call \in Calls /\ call.kind = "settle" /\ call.ok = ok
  BY DEF Sound, Typed, PlayerType, Calls, Origins
<1>2. Settle(s, ok) = r
  BY DEF Settle, Suspend
<1>3. s.calls \in Seq(Calls) /\ r.calls = Append(s.calls, call)
      /\ r.playing = s.playing /\ r.paused = s.paused /\ r.clock = s.clock
      /\ r.status = s.status /\ r.stranded = s.stranded
  BY DEF Sound, Typed, PlayerType
<1>. HIDE DEF call, r
<1>4. /\ \A i \in DOMAIN s.calls : i \in DOMAIN r.calls /\ r.calls[i] = s.calls[i]
      /\ Len(s.calls) + 1 \in DOMAIN r.calls /\ r.calls[Len(s.calls) + 1] = call
  BY <1>1, <1>3, AppendProperties, LenProperties
<1>5. CASE Whole(s)
  BY <1>2, <1>3, <1>4, <1>5, WholeFrame DEF SameHalf
<1>6. CASE ~ok
  BY <1>1, <1>2, <1>4, <1>6 DEF Whole, AdvanceUnderWay
<1>. QED
  BY <1>5, <1>6

LEMMA NextInQueueWhole ==
    ASSUME NEW s, Sound(s), Told(s) \/ s.playing, Whole(s) \/ s.queue # <<>>,
           NEW origin \in Origins, NEW r \in NextInQueue(s, origin)
    PROVE  Whole(r)
BY NextInQueueCases, PlayQueueItemSound, CurrentIsWhole, StopWhole

\* Every end of file that silences the player stops the clock and says so, or
\* claims an advance.
LEMMA HandleFileEndWhole ==
    ASSUME NEW s, Sound(s), s.playing, NEW r \in HandleFileEnd(s)
    PROVE  Whole(r)
<1>0. s \in PlayerType
  BY DEF Sound, Typed
<1>1. CASE IgnoresFileEnd(s)
  BY <1>1 DEF HandleFileEnd, Whole, Half
<1>2. CASE ~IgnoresFileEnd(s) /\ s.loop
  <2>1. PICK d \in Dispatch(StartCore(SeekTeardown(s))) : r = BroadcastStatus(d)
    BY <1>2 DEF HandleFileEnd
  <2>2. Sound(d) /\ d.playing
    BY SeekTeardownSound, StartCoreSound, DispatchSound, PauseSound DEF Dispatch
  <2>3. r.playing
    BY <2>1, <2>2 DEF BroadcastStatus, Sound, Typed, PlayerType
  <2>. QED
    BY <2>3 DEF Whole, Half
<1>3. CASE ~IgnoresFileEnd(s) /\ ~s.loop /\ s.queue # <<>> /\ s.queueGap
  <2>. DEFINE t == StopPlaybackClock(Silence(s))
  <2>1. r = StartGapDelay(BroadcastStatus(t))
    BY <1>3, Zenon DEF HandleFileEnd
  <2>2. t \in PlayerType /\ t.clock = "idle"
    <3>1. Silence(s) \in PlayerType
      BY <1>0, ClockTyped
    <3>2. t \in PlayerType
      BY <3>1, ClockTyped
    <3>3. \A u \in PlayerType : StopPlaybackClock(u).clock = "idle"
      BY DEF PlayerType, StopPlaybackClock
    <3>. QED
      BY <3>1, <3>2, <3>3
  <2>. HIDE DEF t
  <2>3. r.clock = "idle" /\ r.status = Status(r)
    BY <2>1, <2>2 DEF PlayerType, BroadcastStatus, StartGapDelay, Status
  <2>. QED
    BY <2>3 DEF Whole, Half
<1>4. CASE ~IgnoresFileEnd(s) /\ ~s.loop /\ s.queue # <<>> /\ ~s.queueGap
  <2>. DEFINE t == [s EXCEPT !.fileEndPending = TRUE]
  <2>1. Sound(t) /\ t.playing /\ t.queue = s.queue
    <3>1. Typed(t) /\ SameTransport(s, t) /\ t.queue = s.queue
      BY DEF Sound, Typed, PlayerType, SameTransport
    <3>. QED
      BY <3>1, SameTransportSound DEF SameTransport
  <2>2. PICK n \in NextInQueue(t, "fileEnd") :
           r = IF Len(n.calls) > Len(s.calls) THEN n ELSE Settle(n, TRUE)
    BY <1>4, Zenon DEF HandleFileEnd
  <2>. HIDE DEF t
  <2>3. Sound(n) /\ Whole(n)
    BY <1>4, <2>1, NextInQueueSound, NextInQueueWhole DEF Origins
  <2>. QED
    BY <2>2, <2>3, SettleWhole
<1>5. CASE ~IgnoresFileEnd(s) /\ ~s.loop /\ s.queue = <<>>
  <2>1. r = Stop(s)
    BY <1>5 DEF HandleFileEnd
  <2>. QED
    BY <2>1, StopWhole
<1>. QED
  BY <1>1, <1>2, <1>3, <1>4, <1>5

LEMMA FirstPassWhole ==
    ASSUME NEW s, Sound(s), s.playing, ~s.paused, NEW pastEnd,
           NEW r \in FirstPass(s, pastEnd)
    PROVE  Whole(r)
<1>1. PICK d \in IF pastEnd THEN HandleFileEnd(s) ELSE Dispatch(s) : r = BroadcastStatus(d)
  BY DEF FirstPass
<1>2. d \in PlayerType
  BY HandleFileEndSound, DispatchSound DEF Sound, Typed
<1>3. CASE pastEnd
  BY <1>1, <1>2, <1>3, HandleFileEndWhole, BroadcastWhole
<1>4. CASE ~pastEnd
  <2>1. d.playing
    BY <1>1, <1>4, PauseSound DEF Dispatch
  <2>. QED
    BY <1>1, <1>2, <2>1, BroadcastWhole DEF Whole, Half
<1>. QED
  BY <1>3, <1>4

LEMMA StartWhole ==
    ASSUME NEW s, Typed(s), ClockIsEnabled(s), AdvanceIsUnique(s),
           NEW pastEnd, NEW r \in Start(s, pastEnd)
    PROVE  Whole(r)
<1>1. CASE s.playing
  BY <1>1 DEF Start, Whole, Half
<1>2. CASE ~s.playing
  <2>1. Sound(StartCore(s)) /\ StartCore(s).playing /\ ~StartCore(s).paused
    BY StartCoreSound
  <2>. QED
    BY <1>2, <2>1, FirstPassWhole DEF Start
<1>. QED
  BY <1>1, <1>2

LEMMA SeekWhole ==
    ASSUME NEW s, Sound(s), Whole(s), NEW toEnd, NEW r \in Seek(s, toEnd)
    PROVE  Whole(r)
<1>0. s \in PlayerType
  BY DEF Sound, Typed
<1>1. CASE s.playing /\ ~s.paused
  <2>1. r \in Start(SeekTeardown(s), toEnd \/ s.loaded \in Empty)
    BY <1>1 DEF Seek
  <2>. QED
    BY <2>1, SeekTeardownSound, StartWhole
<1>2. CASE s.playing /\ s.paused
  <2>1. r.playing
    BY <1>0, <1>2 DEF Seek, BroadcastStatus, PlayerType
  <2>. QED
    BY <2>1 DEF Whole, Half
<1>3. CASE ~s.playing
  <2>1. r = [s EXCEPT !.fsm = TryTransition(@, "seeking")]
    BY <1>3, Zenon DEF Seek
  <2>2. SameHalf(s, r)
    BY <1>0, <2>1 DEF SameHalf, PlayerType
  <2>. QED
    BY <2>2, WholeFrame
<1>. QED
  BY <1>1, <1>2, <1>3

\* A command whose advance failed leaves a stranded player.
LEMMA RejectedWhole ==
    ASSUME NEW s, Sound(s), Told(s), NEW call \in Calls, Whole(s) \/ call.current
    PROVE  Whole(Rejected(s, call))
<1>1. call.origin \in Origins
  BY DEF Calls
<1>2. CASE call.origin = "command"
  <2>. DEFINE t == [s EXCEPT !.stranded = @ \/ call.current]
  <2>1. Rejected(s, call) = t
    BY <1>2 DEF Rejected
  <2>2. call.current => t.stranded
    BY DEF Sound, Typed, PlayerType
  <2>3. ~call.current => t = s
    BY DEF Sound, Typed, PlayerType
  <2>. HIDE DEF t
  <2>. QED
    BY <2>1, <2>2, <2>3 DEF Whole
<1>. QED
  BY <1>1, <1>2, StopWhole, SettleWhole DEF Rejected, Origins

LEMMA ContinueWhole ==
    ASSUME Sound(player), Told(player), Whole(player), Continue
    PROVE  Whole(player')
<1>. DEFINE call == Head(player.calls)
            s == [player EXCEPT !.calls = Tail(@)]
<1>1. player.calls # <<>>
  BY DEF Continue
<1>2. /\ Sound(s) /\ Told(s) /\ call \in Calls
      /\ IsCurrent(call) => NoneCurrent(s)
  BY <1>1, TailSound
<1>3. \/ call.kind = "advance" /\ player' \in AdvanceContinues(s, call)
      \/ call.kind = "start" /\ player' \in StartContinues(s)
      \/ call.kind = "settle" /\ player' = FileEndSettles(s, call)
  <2>1. call.kind \in {"advance", "start", "settle"}
    BY <1>2 DEF Calls
  <2>2. player' \in CASE call.kind = "advance" -> AdvanceContinues(s, call)
                       [] call.kind = "start"   -> StartContinues(s)
                       [] call.kind = "settle"  -> {FileEndSettles(s, call)}
    BY DEF Continue
  <2>. HIDE DEF call, s
  <2>. QED
    BY <2>1, <2>2
<1>4. Whole(s) \/ IsCurrent(call) \/ (call.kind = "settle" /\ ~call.ok)
  <2>1. /\ s.playing = player.playing /\ s.paused = player.paused
        /\ s.clock = player.clock /\ s.status = player.status
        /\ s.stranded = player.stranded
        /\ s.calls = Tail(player.calls) /\ player.calls \in Seq(Calls)
    BY DEF Sound, Typed, PlayerType
  <2>2. \A k \in DOMAIN player.calls :
           player.calls[k] = call \/ (k - 1 \in DOMAIN s.calls /\ s.calls[k - 1] = player.calls[k])
    <3>1. /\ Len(player.calls) \in Nat /\ Len(player.calls) >= 1
          /\ DOMAIN player.calls = 1..Len(player.calls)
          /\ DOMAIN s.calls = 1..(Len(player.calls) - 1)
          /\ \A k \in 1..(Len(player.calls) - 1) : s.calls[k] = player.calls[k + 1]
          /\ call = player.calls[1]
      BY <1>1, <2>1, HeadTailProperties, LenProperties
    <3>2. ASSUME NEW k \in DOMAIN player.calls, k # 1
          PROVE  k - 1 \in DOMAIN s.calls /\ s.calls[k - 1] = player.calls[k]
      <4>1. k \in Nat /\ k - 1 \in 1..(Len(player.calls) - 1) /\ (k - 1) + 1 = k
        BY <3>1, <3>2
      <4>2. s.calls[k - 1] = player.calls[(k - 1) + 1]
        BY <3>1, <4>1
      <4>. QED
        BY <3>1, <4>1, <4>2
    <3>. QED
      BY <3>1, <3>2
  <2>. HIDE DEF s, call
  <2>3. AdvanceUnderWay(player) =>
           AdvanceUnderWay(s) \/ IsCurrent(call) \/ (call.kind = "settle" /\ ~call.ok)
    BY <2>2 DEF AdvanceUnderWay, CurrentAdvances, IsCurrent
  <2>4. Half(s) => Half(player)
    BY <2>1 DEF Half, Status
  <2>. QED
    BY <2>1, <2>3, <2>4 DEF Whole
<1>. HIDE DEF call, s
<1>5. CASE call.kind = "advance" /\ player' \in AdvanceContinues(s, call)
  <2>0. Whole(s) \/ call.current
    BY <1>4, <1>5 DEF IsCurrent
  <2>1. CASE ~call.ok
    BY <1>2, <1>5, <2>0, <2>1, RejectedWhole DEF AdvanceContinues
  <2>2. CASE call.ok /\ ~call.current
    BY <1>2, <1>5, <2>0, <2>2, SettleWhole DEF AdvanceContinues, Settled
  <2>3. CASE call.ok /\ call.current
    <3>. DEFINE t == [s EXCEPT !.advancing = FALSE]
    <3>1. \/ \E d \in Start(t, t.loaded \in Empty) : player' = Settled(d, call)
          \/ ~t.outputDevice /\ player' = Rejected(t, call)
      BY <1>5, <2>3 DEF AdvanceContinues
    <3>2. /\ Typed(t) /\ ClockIsEnabled(t) /\ AdvanceIsUnique(t)
          /\ t.playing \/ ~t.outputDevice => Sound(t) /\ Told(t)
      BY <1>2, <1>5, <2>3, AdvanceEndsSound DEF IsCurrent
    <3>. HIDE DEF t
    <3>3. ASSUME NEW d \in Start(t, t.loaded \in Empty)
          PROVE  Sound(d) /\ Whole(d)
      <4>1. CASE t.playing
        BY <3>2, <3>3, <4>1, StartWhole DEF Start
      <4>2. CASE ~t.playing
        BY <3>2, <3>3, <4>2, StartSound, StartWhole
      <4>. QED
        BY <4>1, <4>2
    <3>. QED
      BY <1>2, <2>3, <3>1, <3>2, <3>3, SettleWhole, RejectedWhole DEF Settled
  <2>. QED
    BY <1>2, <2>1, <2>2, <2>3 DEF Calls
<1>6. CASE call.kind = "start" /\ player' \in StartContinues(s)
  <2>1. Whole(s)
    BY <1>4, <1>6 DEF IsCurrent
  <2>. QED
    BY <1>2, <1>6, <2>1, StartWhole DEF StartContinues, Sound
<1>7. CASE call.kind = "settle" /\ player' = FileEndSettles(s, call)
  <2>. DEFINE t == IF call.ok THEN s ELSE Stop(s)
  <2>1. Whole(t) /\ Sound(t)
    BY <1>2, <1>4, <1>7, StopWhole, StopSound DEF IsCurrent
  <2>2. player' = [t EXCEPT !.fileEndPending = FALSE]
    BY <1>7 DEF FileEndSettles
  <2>. HIDE DEF t
  <2>3. SameHalf(t, player')
    BY <2>1, <2>2 DEF Sound, Typed, PlayerType, SameHalf
  <2>. QED
    BY <2>1, <2>3, WholeFrame
<1>. QED
  BY <1>3, <1>5, <1>6, <1>7

LEMMA InitWhole == Init => Whole(player)
  BY DEF Init, Whole, Half, Status

LEMMA NextWhole == Inv /\ Whole(player) /\ [Next]_vars => Whole(player)'
<1>. SUFFICES ASSUME Sound(player), Told(player), Whole(player), [Next]_vars
              PROVE  Whole(player')
  BY DEF Inv, Whole, Half, Status, AdvanceUnderWay, CurrentAdvances
<1>0. player \in PlayerType
  BY DEF Sound, Typed
<1>1. ASSUME NEW f \in Files, PlaybackStart(f)
      PROVE  Whole(player')
  <2>. DEFINE call == [kind |-> "start", file |-> f, ok |-> TRUE, current |-> FALSE,
                       origin |-> "command"]
  <2>1. player' = [[player EXCEPT !.loaded = f] EXCEPT !.calls = Append(@, call)]
    BY <1>1 DEF PlaybackStart, Suspend, LoadFile
  <2>2. call \in Calls
    BY DEF Calls, Origins
  <2>. HIDE DEF call
  <2>3. /\ player'.calls = Append(player.calls, call) /\ player.calls \in Seq(Calls)
        /\ player'.playing = player.playing /\ player'.paused = player.paused
        /\ player'.clock = player.clock /\ player'.status = player.status
        /\ player'.stranded = player.stranded
    BY <1>0, <2>1 DEF PlayerType
  <2>4. \A i \in DOMAIN player.calls :
           i \in DOMAIN player'.calls /\ player'.calls[i] = player.calls[i]
    BY <2>2, <2>3, AppendProperties, LenProperties
  <2>. QED
    BY <2>3, <2>4, WholeFrame DEF SameHalf
<1>2. CASE PlaybackStop
  BY <1>2, StopWhole DEF PlaybackStop, Halts
<1>3. CASE PlaylistStop
  <2>. DEFINE t == Stop(player)
  <2>1. Whole(t) /\ t \in PlayerType /\ player' = ClearQueue(t)
    BY <1>3, StopSound, StopWhole DEF PlaylistStop, Halts, Sound, Typed
  <2>. HIDE DEF t
  <2>2. SameHalf(t, player')
    BY <2>1 DEF PlayerType, ClearQueue, SameHalf
  <2>. QED
    BY <2>1, <2>2, WholeFrame
<1>4. CASE PlaybackPause
  BY <1>4, PauseSound DEF PlaybackPause, Whole, Half
<1>5. CASE PlaybackResume
  BY <1>5, ResumedSound, FirstPassWhole DEF PlaybackResume, Resume
<1>6. CASE PlaybackSeek
  BY <1>6, SeekWhole DEF PlaybackSeek
<1>7. CASE PlaybackSetLoop
  <2>1. SameHalf(player, player')
    BY <1>0, <1>7 DEF PlaybackSetLoop, PlayerType, SameHalf
  <2>. QED
    BY <2>1, WholeFrame
<1>8. ASSUME NEW l \in Playlists, PlaylistStart(l)
      PROVE  Whole(player')
  <2>1. PICK q \in (IF l.shuffle /\ Len(l.files) > 1 THEN Shufflings(l.files) ELSE {l.files}),
             i \in DOMAIN l.files : player' \in PlayQueueItem(SetQueue(player, q, l), i, "command")
    BY <1>8 DEF PlaylistStart
  <2>2. l.files \in Seq(Files)
    BY PlaylistsAssumption
  <2>3. q \in Seq(Files) /\ Len(q) = Len(l.files)
    BY <2>1, <2>2, ShufflingsTyped
  <2>4. i \in DOMAIN q
    BY <2>1, <2>2, <2>3, LenProperties
  <2>5. Sound(SetQueue(player, q, l)) /\ SetQueue(player, q, l).queue = q
    BY <2>3, SetQueueSound
  <2>. QED
    BY <2>1, <2>4, <2>5, PlayQueueItemSound, CurrentIsWhole DEF Origins
<1>9. CASE PlaylistNext
  BY <1>9, NextInQueueWhole DEF PlaylistNext, Origins
<1>10. CASE PlaylistPrevious
  <2>1. player' \in PreviousInQueue(player, "command") /\ player.queue # <<>>
    BY <1>10 DEF PlaylistPrevious, QueueIsActive
  <2>. QED
    BY <2>1, PreviousInQueueSound, PlayQueueItemSound, CurrentIsWhole DEF Origins
<1>11. CASE InstrumentSettingsChanged
  <2>1. SameHalf(player, player')
    BY <1>0, <1>11 DEF InstrumentSettingsChanged, PlayerType, SameHalf
  <2>. QED
    BY <2>1, WholeFrame
<1>12. CASE SetClockEnabled
  <2>1. SameHalf(player, player')
    BY <1>0, <1>12 DEF SetClockEnabled, StopPlaybackClock, PlayerType, SameHalf
  <2>. QED
    BY <2>1, WholeFrame
<1>13. CASE FileEnds
  BY <1>13, HandleFileEndWhole DEF FileEnds, Sound, FlagsAgree
<1>14. CASE DevicePauses
  BY <1>14, PauseSound DEF DevicePauses, Sound, FlagsAgree, Whole, Half
<1>15. CASE GapFires
  <2>. DEFINE t == [player EXCEPT !.gapTimer = FALSE]
  <2>1. player' \in NextInQueue(t, "gap")
    BY <1>15 DEF GapFires
  <2>2. Sound(t) /\ Told(t)
    BY FieldSound
  <2>3. SameHalf(player, t)
    BY <1>0 DEF PlayerType, SameHalf
  <2>. HIDE DEF t
  <2>4. Whole(t)
    BY <2>3, WholeFrame
  <2>. QED
    BY <2>1, <2>2, <2>4, NextInQueueWhole DEF Origins
<1>16. CASE LostGapFires
  <2>. DEFINE t == [player EXCEPT !.lostGaps = @ - 1, !.gapTimer = FALSE]
  <2>1. player' \in NextInQueue(t, "gap") /\ player.lostGaps > 0
    BY <1>16 DEF LostGapFires
  <2>2. Sound(t) /\ Told(t)
    BY <2>1, LostGapSound
  <2>3. SameHalf(player, t)
    BY <1>0 DEF PlayerType, SameHalf
  <2>. HIDE DEF t
  <2>4. Whole(t)
    BY <2>3, WholeFrame
  <2>. QED
    BY <2>1, <2>2, <2>4, NextInQueueWhole DEF Origins
<1>17. CASE Continue
  BY <1>17, ContinueWhole
<1>18. CASE UNCHANGED vars
  BY <1>18 DEF vars
<1>. QED
  BY <1>1, <1>2, <1>3, <1>4, <1>5, <1>6, <1>7, <1>8, <1>9, <1>10, <1>11, <1>12, <1>13,
     <1>14, <1>15, <1>16, <1>17, <1>18 DEF Next

-----------------------------------------------------------------------------
(* What follows for every playlist, every file and any number of calls.    *)

\* The type invariant: above all, the queue position never leaves the queue,
\* however playlists are started, cleared and stepped through.
THEOREM TypeCorrect == Spec => []TypeOK
<1>1. Inv => TypeOK
  BY DEF Inv, Sound, Typed, TypeOK, Orders
<1>. QED
  BY <1>1, Invariance, PTL

\* startScheduler and stopScheduler are paired with the flags in every method,
\* and the advisory state machine of a playing player is never behind.
THEOREM SchedulerFollows == Spec => []SchedulerFollowsPlayer
<1>1. Inv => SchedulerFollowsPlayer
  BY DEF Inv, Sound, FlagsAgree, SchedulerFollowsPlayer
<1>. QED
  BY <1>1, Invariance, PTL

\* The slaves of the MIDI clock are never left running behind a silent player,
\* but for an advance in flight or a player stranded by a failed one; nor are
\* they stopped behind a running player by the pause of another file.
THEOREM ClockFollows == Spec => []ClockFollowsPlayer
<1>1. Init => Whole(player)
  BY InitWhole
<1>2. Inv /\ Whole(player) => ClockFollowsPlayer
  BY DEF Inv, Sound, ClockAgrees, Whole, Half, ClockFollowsPlayer
<1>. QED
  BY <1>1, <1>2, Invariance, NextWhole, PTL DEF Spec

\* No method of MidiPlayer changes what the clients see and keeps it from them,
\* but for a player an advance silenced and still holds, or has stranded.
THEOREM StatusIsTold == Spec => []StatusIsCurrent
<1>1. Init => Whole(player)
  BY InitWhole
<1>2. Inv /\ Whole(player) => StatusIsCurrent
  BY DEF Inv, Told, Whole, Half, StatusIsCurrent
<1>. QED
  BY <1>1, <1>2, Invariance, NextWhole, PTL DEF Spec

\* The token of playQueueItem leaves at most one advance that may start its
\* file, however many commands, gap timers and ends of file asked for one.
THEOREM AdvanceIsExclusive == Spec => []OneCurrentAdvance
<1>1. AdvanceIsUnique(player) => OneCurrentAdvance
  <2>. SUFFICES ASSUME AdvanceIsUnique(player) PROVE OneCurrentAdvance
    OBVIOUS
  <2>1. \A i, j \in CurrentAdvances(player) : i = j
    BY DEF AdvanceIsUnique, IsCurrent, CurrentAdvances
  <2>2. CurrentAdvances(player) # {} => player.advancing
    BY DEF AdvanceIsUnique, IsCurrent, CurrentAdvances
  <2>3. CASE CurrentAdvances(player) = {}
    BY <2>2, <2>3, FS_EmptySet DEF OneCurrentAdvance
  <2>4. CASE CurrentAdvances(player) # {}
    <3>1. PICK i : CurrentAdvances(player) = {i}
      BY <2>1, <2>4
    <3>2. Cardinality({i}) = 1
      BY FS_Singleton
    <3>. QED
      BY <2>2, <3>1, <3>2 DEF OneCurrentAdvance
  <2>. QED
    BY <2>3, <2>4
<1>2. Inv => OneCurrentAdvance
  BY <1>1 DEF Inv, Sound
<1>. QED
  BY <1>2, Invariance, PTL

\* After a stop nothing that was in flight, and no timer, brings the player back:
\* what stop() leaves behind cannot start a file, and stays that way until a
\* new order to play.  Its premise leaves out the stops that a lost gap timer
\* and the queue survive, and only those.
THEOREM StopIsFinal == Spec => []NoResurrection
<1>1. Init => HaltedIsDead
  BY DEF Init, HaltedIsDead
<1>2. HaltedIsDead => NoResurrection
  BY DEF HaltedIsDead, Dead, NoResurrection
<1>. QED
  BY <1>1, <1>2, Invariance, NextDead, PTL DEF Spec

\* An advance that may still start a file has loaded the one the queue points
\* at: neither a command nor an end of file moves the queue without claiming
\* an advance of its own, and whatever else loads a file is seen to do so.
THEOREM AdvanceIsFaithful == Spec => []AdvancePlaysItsFile
<1>1. Init => Faithful(player)
  BY DEF Init, Faithful
<1>2. Faithful(player) => AdvancePlaysItsFile
  BY DEF Faithful, Announced, IsCurrent, CurrentAdvances, AdvancePlaysItsFile
<1>. QED
  BY <1>1, <1>2, Invariance, NextFaithful, PTL DEF Spec
=============================================================================
