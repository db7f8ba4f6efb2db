----------------------------- MODULE RoutingProofs -----------------------------
(***************************************************************************)
(* The routings of a file, from the command that writes them to the player *)
(* that routes notes by them, for any number of applies, notes and         *)
(* outputs.                                                                *)
(*                                                                         *)
(* ApplyAssignments: the section is exclusive among the applies that did   *)
(* not give up, and nothing the token covers is replaced unseen.  The      *)
(* first follows from the order of the tickets, the second from this: an   *)
(* apply that is alone in its section has before it what it saw, as the    *)
(* token was equal when it entered and every other writer in its section   *)
(* marks it as slipped.                                                    *)
(*                                                                         *)
(* PlayerRouting: note-offs find their instruments, no decision is left    *)
(* behind, and the share of an instrument is kept.  The maps of the        *)
(* strategies run ahead of the instruments by the events scheduled and not *)
(* sent.  What joins the two is a route: decisions before each of these    *)
(* events, from some that account for all that sounds to those that the    *)
(* maps hold.  Events that a pause cancelled are a second route, from the  *)
(* notes held at the maps to those held at the cursor.                     *)
(***************************************************************************)
EXTENDS ApplyAssignments, PlayerRouting, SequenceTheorems, FiniteSetTheorems,
        WellFoundedInduction, TLAPS

\* Of two tickets, one waits for the other or did.
Ordered ==
    \A c, d \in Tickets : c # d => c \in ahead[d] \/ d \in ahead[c]

\* Who has the lock waits for nobody.
Gated ==
    \A c \in InSection : c \notin expired => ahead[c] = {}

Marked ==
    \A c, d \in InSection : c # d => c \in slipped

SlippedInside == slipped \subseteq InSection

\* A child that does not exist has no routings, now and in every snapshot.
NoChild(s) == s.bytes["adapted"] = Absent => s.routes["adapted"] = NoRows
Here == [bytes |-> bytes, routes |-> routes]
Childless == NoChild(Here) /\ \A c \in Tickets : NoChild(cmd[c].saw)

\* What c saw of the files in its token, and of the one it writes, is how they are.
Knows(c) ==
    LET saw == cmd[c].saw
    IN  /\ saw.bytes["original"] = bytes["original"] /\ saw.bytes["adapted"] = bytes["adapted"]
        /\ saw.bytes[Target(c)] = bytes[Target(c)]
        /\ saw.routes[Fingerprinted(saw)].print = routes[Fingerprinted(saw)].print

\* What an apply without a slip saw is what it has before it.
SawAll ==
    \A c \in InSection \ slipped : Knows(c)

\* An apply that adapts writes routings once the child exists.
ChildFirst ==
    \A c \in Applies :
        /\ cmd[c].pc \in {"routing", "bake", "baked"} /\ cmd[c].plan.mode = "adapt"
               => cmd[c].twin \/ (bytes["adapted"] # Absent /\ cmd[c].saw.bytes["adapted"] # Absent)
        /\ cmd[c].pc \in {"waiting", "retry"} => ~cmd[c].twin
        /\ cmd[c].pc = "retry" => c \in cmd[c].buffer
        /\ cmd[c].pc = "baked" => "bake" \in cmd[c].buffer

IInv ==
    /\ TypeOK /\ Ordered /\ Gated /\ Marked /\ SlippedInside
    /\ Childless /\ SawAll /\ ChildFirst /\ NoBlindOverwrite
-----------------------------------------------------------------------------
Inside == {"retry", "routing", "bake", "baked"}
Snapshots == [bytes : [Files -> Contents], routes : [Files -> Rows]]
Commands == [pc : States, plan : Plans, buffer : Contents, twin : BOOLEAN, saw : Snapshots]

\* Only c moves: further in its section, or out of it with its ticket.
Moved(c) ==
    /\ \A d \in Applies : d # c => cmd'[d] = cmd[d]
    /\ \/ cmd'[c].pc \in Inside /\ ahead' = ahead
       \/ cmd'[c].pc = "answered" /\ ahead' = Release(c)

Step(c) == Enter(c) \/ Expire(c) \/ Retry(c) \/ SaveRoutings(c) \/ Bake(c) \/ StoreBaked(c)

LEMMA NoRowsType == NoRows \in Rows /\ OtherRows \in Rows
  BY ApplyAssumption DEF Rows, NoRows, OtherRows

LEMMA EndedType == Ended("idle") \in Commands /\ Ended("answered") \in Commands
<1>1. (CHOOSE plan \in Plans : TRUE) \in Plans
  BY ApplyAssumption
<1> QED
  BY <1>1, NoRowsType DEF Ended, Commands, Snapshots, States, Contents

LEMMA AnswerMoves ==
  ASSUME TypeOK, NEW c \in Applies, Answer(c)
  PROVE  /\ cmd' \in [Applies -> Commands] /\ ahead' \in [Applies -> SUBSET Applies]
         /\ Moved(c)
         /\ cmd'[c].pc = "answered"
<1>1. cmd \in [Applies -> Commands] /\ ahead \in [Applies -> SUBSET Applies]
  BY DEF TypeOK, Commands, Snapshots
<1>2. cmd'[c] = Ended("answered") /\ \A d \in Applies : d # c => cmd'[d] = cmd[d]
  BY <1>1 DEF Answer
<1>3. cmd' \in [Applies -> Commands]
  BY <1>1, EndedType DEF Answer
<1>4. cmd'[c].pc = "answered"
  BY <1>2 DEF Ended
<1> QED
  BY <1>1, <1>2, <1>3, <1>4 DEF Answer, Moved, Release

LEMMA SuspendMoves ==
  ASSUME TypeOK, NEW c \in Applies, NEW pc \in Inside, NEW saw \in Snapshots,
         NEW buffer \in Contents, Suspend(c, pc, saw, buffer)
  PROVE  /\ cmd' \in [Applies -> Commands] /\ ahead' \in [Applies -> SUBSET Applies]
         /\ Moved(c)
         /\ cmd'[c].pc = pc /\ cmd'[c].saw = saw /\ cmd'[c].buffer = buffer
         /\ cmd'[c].plan = cmd[c].plan /\ cmd'[c].twin = cmd[c].twin
<1>1. cmd \in [Applies -> Commands] /\ ahead \in [Applies -> SUBSET Applies]
  BY DEF TypeOK, Commands, Snapshots
<1>2. /\ cmd'[c] = [pc |-> pc, plan |-> cmd[c].plan, buffer |-> buffer, twin |-> cmd[c].twin,
                 saw |-> saw]
      /\ \A d \in Applies : d # c => cmd'[d] = cmd[d]
  BY <1>1 DEF Suspend, Commands
<1>3. cmd' \in [Applies -> Commands]
  <2>1. cmd[c].plan \in Plans /\ pc \in States
    BY <1>1 DEF Commands, Inside, States
  <2>t. cmd[c].twin \in BOOLEAN
    BY <1>1 DEF Commands
  <2>r. ASSUME NEW b \in BOOLEAN
        PROVE  [pc |-> pc, plan |-> cmd[c].plan, buffer |-> buffer, twin |-> b, saw |-> saw]
                   \in Commands
    BY <2>1 DEF Commands
  <2>2. cmd'[c] \in Commands
    BY <1>2, <2>t, <2>r, Zenon
  <2>3. DOMAIN cmd' = Applies /\ cmd' = [d \in Applies |-> cmd'[d]]
    BY <1>1 DEF Suspend
  <2> QED
    BY <1>1, <1>2, <2>2, <2>3
<1> QED
  BY <1>1, <1>2, <1>3 DEF Suspend, Moved
-----------------------------------------------------------------------------
\* c writes with its eyes open, or the bookkeeping excuses it.
ExcusedApply(c) == c \in slipped \/ InSection \ {c} # {} \/ Knows(c)

DataType ==
    /\ bytes \in [Files -> Contents]
    /\ routes \in [Files -> Rows]
    /\ blind \subseteq {"bytes", "routings", "uncovered"}

\* What a write of c does to the data and to what c knows of it.
Written(c) ==
    /\ cmd' \in [Applies -> Commands] /\ ahead' \in [Applies -> SUBSET Applies]
    /\ DataType'
    /\ Moved(c)
    /\ NoBlindOverwrite'
    /\ NoChild(Here)'
    /\ bytes["adapted"] # Absent => bytes'["adapted"] # Absent
    /\ cmd'[c].pc \in Inside =>
           /\ NoChild(cmd'[c].saw)
           /\ Knows(c) => Knows(c)'
           /\ cmd'[c].plan = cmd[c].plan
           /\ cmd'[c].plan.mode = "adapt" /\ cmd'[c].pc # "retry"
                  => cmd'[c].twin \/ (bytes'["adapted"] # Absent
                                      /\ cmd'[c].saw.bytes["adapted"] # Absent)
           /\ cmd'[c].pc = "retry" => ~cmd'[c].twin
           /\ cmd'[c].pc = "retry" => c \in cmd'[c].buffer
           /\ cmd'[c].pc = "baked" => "bake" \in cmd'[c].buffer

LEMMA CommitWrites ==
  ASSUME TypeOK, NoChild(Here), NoBlindOverwrite, NEW c \in Applies, NoChild(cmd[c].saw),
         ExcusedApply(c), NEW buffer \in Contents, c \in buffer, ~cmd[c].twin,
         CommitBytes(c, buffer, "routing")
  PROVE  Written(c)
<1> DEFINE f == Target(c)
           saw == cmd[c].saw
           seen == [saw EXCEPT !.bytes[f] = buffer]
<1>1. f \in Files /\ saw \in Snapshots /\ cmd[c] \in Commands
  BY DEF Target, Files, TypeOK, Commands, Snapshots
<1>2. /\ seen.bytes = [saw.bytes EXCEPT ![f] = buffer] /\ seen.routes = saw.routes
      /\ seen \in Snapshots
  BY <1>1 DEF Snapshots
<1>3. /\ bytes' = [bytes EXCEPT ![f] = buffer] /\ routes' = routes
      /\ blind' = blind \cup Overwrite(c, "bytes", saw.bytes[f], bytes[f])
      /\ Suspend(c, "routing", seen, buffer)
  BY DEF CommitBytes
<1>4. /\ cmd' \in [Applies -> Commands] /\ ahead' \in [Applies -> SUBSET Applies]
      /\ Moved(c)
      /\ cmd'[c].pc = "routing" /\ cmd'[c].saw = seen /\ cmd'[c].plan = cmd[c].plan
      /\ cmd'[c].twin = cmd[c].twin
  <2> "routing" \in Inside
    BY DEF Inside
  <2> HIDE DEF seen
  <2> QED
    BY <1>2, <1>3, SuspendMoves
<1>5. buffer # Absent /\ Absent \in Contents
  BY ApplyAssumption DEF Absent, Contents
<1>t. Target(c)' = f
  BY <1>4 DEF Target
<1>6. Knows(c) => Overwrite(c, "bytes", saw.bytes[f], bytes[f]) = {}
  BY DEF Knows, Overwrite
<1>7. Overwrite(c, "bytes", saw.bytes[f], bytes[f]) = {}
  BY <1>6 DEF ExcusedApply, Overwrite
<1>8. NoBlindOverwrite' /\ DataType'
  BY <1>1, <1>3, <1>7 DEF NoBlindOverwrite, DataType, TypeOK
<1>9. bytes["adapted"] # Absent => bytes'["adapted"] # Absent
  BY <1>1, <1>3, <1>5 DEF TypeOK, Files
<1>10. NoChild(Here)'
  BY <1>3, <1>9 DEF NoChild, Here
<1>11. NoChild(seen)
  BY <1>1, <1>2, <1>5 DEF NoChild, Snapshots, Files
<1>12. ASSUME Knows(c) PROVE Knows(c)'
  <2>1. /\ saw.bytes["original"] = bytes["original"] /\ saw.bytes["adapted"] = bytes["adapted"]
        /\ saw.routes[Fingerprinted(saw)].print = routes[Fingerprinted(saw)].print
    BY <1>12 DEF Knows
  <2>2. /\ seen.bytes["original"] = bytes'["original"] /\ seen.bytes["adapted"] = bytes'["adapted"]
        /\ seen.bytes[f] = bytes'[f]
    BY <2>1, <1>1, <1>2, <1>3 DEF Snapshots, TypeOK, Files
  <2>3. CASE saw.bytes["adapted"] # Absent
    <3>1. Fingerprinted(seen) = "adapted" /\ Fingerprinted(saw) = "adapted"
      BY <2>3, <2>1, <2>2, <1>9 DEF Fingerprinted
    <3> QED
      BY <3>1, <2>1, <2>2, <1>2, <1>3, <1>4, <1>t DEF Knows
  <2>4. CASE saw.bytes["adapted"] = Absent
    <3>1. saw.routes["adapted"] = NoRows /\ routes["adapted"] = NoRows
      BY <2>4, <2>1 DEF NoChild, Here
    <3>2. saw.routes["original"].print = routes["original"].print
      BY <2>4, <2>1 DEF Fingerprinted
    <3>3. seen.routes[Fingerprinted(seen)].print = routes'[Fingerprinted(seen)].print
      BY <3>1, <3>2, <1>2, <1>3 DEF Fingerprinted
    <3> QED
      BY <3>3, <2>2, <1>4, <1>t DEF Knows
  <2> QED
    BY <2>3, <2>4
<1>13. cmd[c].plan.mode = "adapt" =>
           bytes'["adapted"] # Absent /\ seen.bytes["adapted"] # Absent
  BY <1>1, <1>2, <1>3, <1>5 DEF Target, TypeOK, Files, Snapshots
<1> QED
  BY <1>4, <1>8, <1>9, <1>10, <1>11, <1>12, <1>13 DEF Written

\* The duplicate that createDerivedFile finds becomes the target.
LEMMA TwinWrites ==
  ASSUME TypeOK, NoChild(Here), NoBlindOverwrite, NEW c \in Applies, NoChild(cmd[c].saw),
         NEW buffer \in Contents, TakeTwin(c, buffer)
  PROVE  Written(c)
<1> DEFINE saw == cmd[c].saw
           seen == [saw EXCEPT !.bytes["third"] = buffer]
           d == [cmd[c] EXCEPT !.pc = "routing", !.twin = TRUE, !.saw.bytes["third"] = buffer]
<1>1. cmd \in [Applies -> Commands] /\ ahead \in [Applies -> SUBSET Applies] /\ saw \in Snapshots
  BY DEF TypeOK, Commands, Snapshots
<1>2. /\ seen.bytes = [saw.bytes EXCEPT !["third"] = buffer] /\ seen.routes = saw.routes
      /\ seen \in Snapshots
  BY <1>1 DEF Snapshots
<1>3. cmd' = [cmd EXCEPT ![c] = d] /\ bytes["third"] = buffer
      /\ UNCHANGED <<bytes, routes, ahead, blind>>
  BY DEF TakeTwin
<1>4. d \in Commands /\ d.pc = "routing" /\ d.twin = TRUE /\ d.saw = seen /\ d.plan = cmd[c].plan
  BY <1>1, <1>2 DEF Commands, States
<1> HIDE DEF d
<1>5. cmd' \in [Applies -> Commands] /\ cmd'[c] = d
      /\ \A b \in Applies : b # c => cmd'[b] = cmd[b]
  BY <1>1, <1>3, <1>4
<1>6. Moved(c) /\ cmd'[c].pc # "retry" /\ cmd'[c].pc # "baked"
  BY <1>3, <1>4, <1>5 DEF Moved, Inside
<1>7. DataType' /\ NoBlindOverwrite' /\ NoChild(Here)'
  BY <1>3 DEF DataType, TypeOK, NoBlindOverwrite, NoChild, Here
<1>8. NoChild(seen)
  BY <1>1, <1>2 DEF NoChild, Snapshots, Files
<1>9. ASSUME Knows(c) PROVE Knows(c)'
  <2>1. Target(c)' = "third" /\ Fingerprinted(seen) = Fingerprinted(saw)
    BY <1>1, <1>2, <1>4, <1>5 DEF Target, Fingerprinted, Snapshots, Files
  <2> QED
    BY <1>1, <1>2, <1>3, <1>4, <1>5, <1>9, <2>1 DEF Knows, Snapshots, Files
<1> QED
  BY <1>1, <1>3, <1>4, <1>5, <1>6, <1>7, <1>8, <1>9 DEF Written

LEMMA RoutingsWrite ==
  ASSUME TypeOK, NoChild(Here), NoBlindOverwrite, NEW c \in Applies, NoChild(cmd[c].saw),
         ExcusedApply(c), ReplaceRoutings(c),
         cmd[c].plan.mode = "adapt" =>
             cmd[c].twin \/ (bytes["adapted"] # Absent /\ cmd[c].saw.bytes["adapted"] # Absent)
  PROVE  Written(c)
<1> DEFINE f == Target(c)
           saw == cmd[c].saw
<1>1. f \in Files /\ saw \in Snapshots /\ cmd[c] \in Commands
  BY DEF Target, Files, TypeOK, Commands, Snapshots
<1>2. PICK rows \in {cmd[c].plan.rows, NoRows, routes[f]} :
        /\ routes' = [routes EXCEPT ![f] = rows]
        /\ blind' = blind \cup OverwriteRows(c, saw.routes[f], routes[f])
        /\ IF cmd[c].plan.hands /\ rows = cmd[c].plan.rows
           THEN Suspend(c, "bake", [saw EXCEPT !.routes[f] = rows], {})
           ELSE Answer(c)
        /\ UNCHANGED bytes
  BY DEF ReplaceRoutings
<1>3. rows \in Rows
  BY <1>1, ApplyAssumption, NoRowsType DEF TypeOK, Commands
<1>4. DataType'
  <2>1. routes' \in [Files -> Rows] /\ bytes' \in [Files -> Contents]
    BY <1>1, <1>2, <1>3 DEF TypeOK
  <2>2. blind' \subseteq {"bytes", "routings", "uncovered"}
    BY <1>2 DEF TypeOK, Overwrite, OverwriteRows
  <2> QED
    BY <2>1, <2>2 DEF DataType
<1>5. NoBlindOverwrite'
  <2>1. Knows(c) /\ Covered(c) => saw.routes[f].print = routes[f].print
    BY DEF Knows, Covered
  <2>2. "routings" \notin OverwriteRows(c, saw.routes[f], routes[f])
    BY <2>1 DEF Overwrite, OverwriteRows, ExcusedApply
  <2>3. "bytes" \notin OverwriteRows(c, saw.routes[f], routes[f])
    BY DEF Overwrite, OverwriteRows
  <2> QED
    BY <1>2, <2>2, <2>3 DEF NoBlindOverwrite
<1>6. NoChild(Here)'
  BY <1>1, <1>2 DEF NoChild, Here, Target, TypeOK, Files
<1>7. CASE cmd[c].plan.hands /\ rows = cmd[c].plan.rows
  <2> DEFINE seen == [saw EXCEPT !.routes[f] = rows]
  <2>1. /\ seen.routes = [saw.routes EXCEPT ![f] = rows] /\ seen.bytes = saw.bytes
        /\ seen \in Snapshots
    BY <1>1, <1>3 DEF Snapshots
  <2>2. /\ cmd' \in [Applies -> Commands] /\ ahead' \in [Applies -> SUBSET Applies]
        /\ Moved(c)
        /\ cmd'[c].pc = "bake" /\ cmd'[c].saw = seen /\ cmd'[c].plan = cmd[c].plan
        /\ cmd'[c].twin = cmd[c].twin
    <3>1. Suspend(c, "bake", seen, {})
      BY <1>2, <1>7
    <3>2. "bake" \in Inside /\ {} \in Contents
      BY DEF Inside, Contents
    <3> HIDE DEF seen
    <3> QED
      BY <2>1, <3>1, <3>2, SuspendMoves
  <2>3. ASSUME Knows(c) PROVE Knows(c)'
    <3>1. saw.routes[Fingerprinted(saw)].print = routes[Fingerprinted(saw)].print
          /\ Target(c)' = f
      BY <2>2, <2>3 DEF Knows, Target
    <3>2. Fingerprinted(seen) = Fingerprinted(saw) /\ Fingerprinted(saw) \in Files
      BY <2>1 DEF Fingerprinted, Files
    <3>3. seen.routes[Fingerprinted(saw)].print = routes'[Fingerprinted(saw)].print
      BY <1>1, <1>2, <2>1, <3>1, <3>2 DEF Snapshots, TypeOK
    <3> QED
      BY <1>2, <2>1, <2>2, <2>3, <3>1, <3>2, <3>3 DEF Knows
  <2>4. NoChild(seen)
    <3>1. saw.bytes["adapted"] = Absent => f # "adapted"
      BY DEF Target
    <3> QED
      BY <2>1, <3>1, <1>1 DEF NoChild, Snapshots, Files
  <2>5. cmd'[c].plan.mode = "adapt" => cmd'[c].twin \/ cmd'[c].saw.bytes["adapted"] # Absent
    BY <2>1, <2>2
  <2> QED
    BY <2>2, <2>3, <2>4, <2>5, <1>2, <1>4, <1>5, <1>6 DEF Written
<1>8. CASE ~(cmd[c].plan.hands /\ rows = cmd[c].plan.rows)
  <2>1. Answer(c)
    BY <1>2, <1>8
  <2>2. "answered" \notin Inside
    BY DEF Inside
  <2> QED
    BY <2>1, <2>2, AnswerMoves, <1>2, <1>4, <1>5, <1>6 DEF Written
<1> QED
  BY <1>7, <1>8

LEMMA StaysWritten ==
  ASSUME TypeOK, NoChild(Here), NoBlindOverwrite, NEW c \in Applies,
         Answer(c), UNCHANGED <<bytes, routes, blind>>
  PROVE  Written(c)
<1>1. "answered" \notin Inside
  BY DEF Inside
<1>2. DataType' /\ NoBlindOverwrite' /\ NoChild(Here)'
  BY DEF DataType, TypeOK, NoBlindOverwrite, NoChild, Here
<1> QED
  BY <1>1, <1>2, AnswerMoves DEF Written

LEMMA BakedWrites ==
  ASSUME TypeOK, NoChild(Here), NoBlindOverwrite, NEW c \in Applies, ExcusedApply(c),
         "bake" \in cmd[c].buffer, StoreBaked(c)
  PROVE  Written(c)
<1> DEFINE f == Target(c)
<1>1. CASE UNCHANGED <<bytes, blind>>
  BY <1>1, StaysWritten DEF StoreBaked
<1>2. CASE /\ bytes' = [bytes EXCEPT ![f] = cmd[c].buffer]
           /\ blind' = blind \cup Overwrite(c, "bytes", cmd[c].saw.bytes[f], bytes[f])
  <2>1. f \in Files /\ cmd[c].buffer \in Contents
    BY DEF Target, Files, TypeOK
  <2>2. Knows(c) => Overwrite(c, "bytes", cmd[c].saw.bytes[f], bytes[f]) = {}
    BY DEF Knows, Overwrite
  <2>3. Overwrite(c, "bytes", cmd[c].saw.bytes[f], bytes[f]) = {}
    BY <2>2 DEF ExcusedApply, Overwrite
  <2>4. DataType' /\ NoBlindOverwrite'
    BY <2>1, <2>3, <1>2 DEF StoreBaked, DataType, NoBlindOverwrite, TypeOK
  <2>5. bytes["adapted"] # Absent => bytes'["adapted"] # Absent
    BY <2>1, <1>2 DEF TypeOK, Absent, Files
  <2>6. NoChild(Here)'
    BY <2>5 DEF StoreBaked, NoChild, Here
  <2>7. "answered" \notin Inside
    BY DEF Inside
  <2> QED
    BY <2>4, <2>5, <2>6, <2>7, AnswerMoves DEF StoreBaked, Written
<1> QED
  BY <1>1, <1>2 DEF StoreBaked

LEMMA BakeWrites ==
  ASSUME TypeOK, NoChild(Here), NoBlindOverwrite, NEW c \in Applies, NoChild(cmd[c].saw),
         Bake(c),
         cmd[c].plan.mode = "adapt" =>
             cmd[c].twin \/ (bytes["adapted"] # Absent /\ cmd[c].saw.bytes["adapted"] # Absent)
  PROVE  Written(c)
<1> DEFINE f == Target(c)
           saw == cmd[c].saw
           seen == [saw EXCEPT !.bytes[f] = bytes[f]]
           buffer == bytes[f] \cup {"bake"}
<1>1. f \in Files /\ saw \in Snapshots /\ bytes[f] \in Contents /\ buffer \in Contents
  BY DEF Target, Files, TypeOK, Snapshots, Contents
<1>2. /\ seen.bytes = [saw.bytes EXCEPT ![f] = bytes[f]] /\ seen.routes = saw.routes
      /\ seen \in Snapshots
  BY <1>1 DEF Snapshots
<1>3. /\ cmd' \in [Applies -> Commands] /\ ahead' \in [Applies -> SUBSET Applies]
      /\ Moved(c)
      /\ cmd'[c].pc = "baked" /\ cmd'[c].saw = seen /\ cmd'[c].plan = cmd[c].plan
      /\ cmd'[c].buffer = buffer /\ cmd'[c].twin = cmd[c].twin
  <2>1. "baked" \in Inside
    BY DEF Inside
  <2>2. Suspend(c, "baked", seen, buffer)
    BY DEF Bake
  <2> HIDE DEF seen, buffer
  <2> QED
    BY <1>1, <1>2, <2>1, <2>2, SuspendMoves
<1>4. UNCHANGED <<bytes, routes, blind>>
  BY DEF Bake
<1>5. DataType' /\ NoBlindOverwrite' /\ NoChild(Here)'
  BY <1>4 DEF DataType, TypeOK, NoBlindOverwrite, NoChild, Here
<1>6. cmd[c].plan.mode = "adapt" => cmd[c].twin \/ seen.bytes["adapted"] # Absent
  BY <1>1, <1>2 DEF Target, Files, Snapshots
<1>7. NoChild(seen)
  <2>1. seen.bytes["adapted"] = Absent => saw.bytes["adapted"] = Absent
    BY <1>1, <1>2, <1>6 DEF Target, Files, Snapshots
  <2> QED
    BY <2>1, <1>2 DEF NoChild
<1>8. ASSUME Knows(c) PROVE Knows(c)'
  <2>1. /\ seen.bytes["original"] = bytes["original"] /\ seen.bytes["adapted"] = bytes["adapted"]
        /\ seen.bytes[f] = bytes[f] /\ saw.bytes["adapted"] = bytes["adapted"]
    BY <1>8, <1>1, <1>2 DEF Knows, Snapshots, TypeOK, Files
  <2>2. Fingerprinted(seen) = Fingerprinted(saw) /\ Target(c)' = f
    BY <2>1, <1>3 DEF Fingerprinted, Target
  <2> QED
    BY <2>1, <2>2, <1>2, <1>3, <1>4, <1>8 DEF Knows
<1> QED
  BY <1>3, <1>4, <1>5, <1>6, <1>7, <1>8 DEF Written

\* The token checked at the entrance says that nothing moved.
LEMMA TokenSees ==
  ASSUME TypeOK, NEW c \in Applies, ~cmd[c].twin, ~Conflict(c)
  PROVE  Knows(c)
<1> DEFINE saw == cmd[c].saw
<1>1. /\ saw.bytes["original"] = Now.bytes["original"]
      /\ saw.bytes["adapted"] = Now.bytes["adapted"]
      /\ saw.routes[Fingerprinted(saw)].print = Now.routes[Fingerprinted(Now)].print
  BY DEF Conflict, Token
<1>2. Now.bytes = bytes /\ Now.routes["original"] = routes["original"]
      /\ Now.routes["adapted"] = routes["adapted"]
  BY DEF Now, TypeOK, Files
<1>3. Fingerprinted(saw) = Fingerprinted(Now) /\ Target(c) \in {"original", "adapted"}
  BY <1>1 DEF Fingerprinted, Target
<1>4. Now.routes[Fingerprinted(Now)] = routes[Fingerprinted(Now)]
  BY <1>2 DEF Fingerprinted
<1> QED
  BY <1>1, <1>2, <1>3, <1>4 DEF Knows

LEMMA SectionWrites ==
  ASSUME TypeOK, NoChild(Here), NoBlindOverwrite, NEW c \in Applies, NoChild(cmd[c].saw),
         ~cmd[c].twin, Section(c)
  PROVE  Written(c) /\ (cmd'[c].pc \in Inside => Knows(c))
<1>1. CASE Answer(c) /\ UNCHANGED <<bytes, routes, blind>>
  <2>1. cmd'[c].pc \notin Inside
    BY <1>1, AnswerMoves DEF Inside
  <2> QED
    BY <1>1, <2>1, StaysWritten
<1>2. CASE ~Conflict(c) /\ cmd[c].plan.mode = "routings" /\ ReplaceRoutings(c)
  <2>1. Knows(c)
    BY <1>2, TokenSees
  <2> QED
    BY <1>2, <2>1, RoutingsWrite DEF ExcusedApply
<1>3. CASE ~Conflict(c) /\ CommitBytes(c, bytes["original"] \cup {c}, "routing")
  <2>1. Knows(c)
    BY <1>3, TokenSees
  <2>2. bytes["original"] \cup {c} \in Contents
    BY DEF TypeOK, Files, Contents
  <2> HIDE DEF Contents
  <2> QED
    BY <1>3, <2>1, <2>2, CommitWrites DEF ExcusedApply
<1>4. CASE /\ ~Conflict(c)
           /\ Suspend(c, "retry", cmd[c].saw, bytes["original"] \cup {c})
           /\ UNCHANGED <<bytes, routes, blind>>
  <2> DEFINE buffer == bytes["original"] \cup {c}
  <2>1. Knows(c)
    BY <1>4, TokenSees
  <2>2. buffer \in Contents /\ cmd[c].saw \in Snapshots /\ "retry" \in Inside
    BY DEF TypeOK, Files, Contents, Inside, Snapshots
  <2>3. /\ cmd' \in [Applies -> Commands] /\ ahead' \in [Applies -> SUBSET Applies]
        /\ Moved(c)
        /\ cmd'[c].pc = "retry" /\ cmd'[c].saw = cmd[c].saw /\ cmd'[c].plan = cmd[c].plan
        /\ cmd'[c].buffer = buffer /\ cmd'[c].twin = cmd[c].twin
    <3> HIDE DEF buffer
    <3> QED
      BY <1>4, <2>2, SuspendMoves DEF buffer
  <2>4. DataType' /\ NoBlindOverwrite' /\ NoChild(Here)' /\ NoChild(cmd'[c].saw)
    BY <1>4, <2>3 DEF DataType, TypeOK, NoBlindOverwrite, NoChild, Here
  <2>5. Knows(c)'
    BY <2>1, <2>3, <1>4 DEF Knows, Fingerprinted, Target
  <2> QED
    BY <1>4, <2>1, <2>3, <2>4, <2>5 DEF Written
<1>5. CASE ~Conflict(c) /\ TakeTwin(c, bytes["original"] \cup {c})
  <2>1. Knows(c)
    BY <1>5, TokenSees
  <2>2. bytes["original"] \cup {c} \in Contents
    BY DEF TypeOK, Files, Contents
  <2> HIDE DEF Contents
  <2> QED
    BY <1>5, <2>1, <2>2, TwinWrites
<1> QED
  BY <1>1, <1>2, <1>3, <1>4, <1>5 DEF Section
-----------------------------------------------------------------------------
LEMMA InsideIsInSection ==
  ASSUME NEW c \in Applies
  PROVE  c \in InSection <=> cmd[c].pc \in Inside
BY DEF InSection, Inside

\* In every step of an apply, what it writes is excused.
LEMMA StepWrites ==
  ASSUME IInv, NEW c \in Applies, Step(c)
  PROVE  /\ Written(c)
         /\ c \in Tickets
         /\ cmd'[c].pc \in Inside /\ c \notin slipped' => Knows(c)
<1>1. TypeOK /\ NoChild(Here) /\ NoBlindOverwrite
  BY DEF IInv, Childless
<1>2. c \in Tickets
  BY DEF Step, Enter, Expire, Retry, SaveRoutings, Bake, StoreBaked, Tickets, InSection
<1>3. NoChild(cmd[c].saw)
  BY <1>2 DEF IInv, Childless
<1>4. CASE Enter(c) \/ Expire(c)
  BY <1>1, <1>2, <1>3, <1>4, SectionWrites DEF Enter, Expire, EnterSection, IInv, ChildFirst
<1>5. CASE Retry(c) \/ SaveRoutings(c) \/ Bake(c) \/ StoreBaked(c)
  <2>1. c \in InSection
    BY <1>5 DEF Retry, SaveRoutings, Bake, StoreBaked, InSection
  <2>2. c \notin slipped => Knows(c)
    BY <2>1 DEF IInv, SawAll, Knows
  <2>3. ExcusedApply(c)
    BY <2>2 DEF ExcusedApply
  <2>4. Alone
    BY <1>5 DEF Retry, SaveRoutings, Bake, StoreBaked
  <2>5. cmd'[c].pc \in Inside /\ c \notin slipped' => c \notin slipped
    BY <2>4 DEF Alone, InSection, Inside
  <2>6. CASE Retry(c)
    <3>1. c \in cmd[c].buffer /\ cmd[c].buffer \in Contents /\ ~cmd[c].twin
      BY <2>6 DEF IInv, ChildFirst, Retry, TypeOK
    <3>2. Written(c)
      BY <1>1, <1>3, <2>3, <2>6, <3>1, CommitWrites, StaysWritten DEF Retry
    <3> QED
      BY <3>2, <1>2, <2>2, <2>5
  <2>7. cmd[c].pc \in {"routing", "bake", "baked"} /\ cmd[c].plan.mode = "adapt" =>
            cmd[c].twin \/ (bytes["adapted"] # Absent /\ cmd[c].saw.bytes["adapted"] # Absent)
    BY DEF IInv, ChildFirst
  <2>8. CASE SaveRoutings(c)
    BY <1>1, <1>2, <1>3, <2>2, <2>3, <2>5, <2>7, <2>8, RoutingsWrite DEF SaveRoutings
  <2>9. CASE Bake(c)
    <3>1. Written(c)
      BY <1>1, <1>3, <2>7, <2>9, BakeWrites DEF Bake
    <3> QED
      BY <3>1, <1>2, <2>2, <2>5
  <2>10. CASE StoreBaked(c)
    <3>1. "bake" \in cmd[c].buffer
      BY <2>10 DEF IInv, ChildFirst, StoreBaked
    <3>2. Written(c)
      BY <1>1, <2>3, <2>10, <3>1, BakedWrites
    <3> QED
      BY <3>2, <1>2, <2>2, <2>5
  <2> QED
    BY <1>5, <2>6, <2>8, <2>9, <2>10
<1> QED
  BY <1>4, <1>5 DEF Step
-----------------------------------------------------------------------------
\* Who is in the section after a step of c, and who shared it with c.
LEMMA StepSection ==
  ASSUME IInv, NEW c \in Applies, Step(c)
  PROVE  /\ \A d \in Applies : d # c => /\ d \in InSection' <=> d \in InSection
                                        /\ d \in Tickets' <=> d \in Tickets
                                        /\ cmd'[d] = cmd[d]
         /\ Tickets' \subseteq Tickets
         /\ c \in Tickets' <=> c \in InSection'
         /\ (c \in InSection' /\ ahead' = ahead) \/ (c \notin Tickets' /\ ahead' = Release(c))
         /\ slipped' \subseteq InSection' /\ expired' \subseteq InSection'
         /\ edited' = edited
         /\ slipped \cap InSection' \subseteq slipped'
         /\ \A d \in InSection' : d # c /\ c \in InSection' => {c, d} \subseteq slipped'
         /\ expired \cap InSection' \subseteq expired'
         /\ c \in InSection' /\ c \notin expired' => ahead[c] = {}
<1>1. Written(c) /\ c \in Tickets
  BY StepWrites
<1>2. Moved(c)
  BY <1>1 DEF Written
<1>3. \A d \in Applies : d # c => /\ d \in InSection' <=> d \in InSection
                                  /\ d \in Tickets' <=> d \in Tickets
                                  /\ cmd'[d] = cmd[d]
  BY <1>2 DEF Moved, InSection, Tickets
<1>4. c \in Tickets' <=> c \in InSection'
  BY <1>2 DEF Moved, InSection, Tickets, Inside
<1>5. (c \in InSection' /\ ahead' = ahead) \/ (c \notin Tickets' /\ ahead' = Release(c))
  BY <1>2 DEF Moved, InSection, Tickets, Inside
<1>6. Tickets' \subseteq Tickets
  BY <1>1, <1>3 DEF Tickets, InSection
<1>7. CASE Enter(c) \/ Expire(c)
  <2>1. c \notin InSection
    BY <1>7 DEF Enter, Expire, InSection
  <2>2. slipped' = InSection' \cap (IF InSection = {} THEN {} ELSE InSection \cup {c})
    BY <1>7 DEF Enter, Expire, EnterSection
  <2>3. slipped \subseteq InSection
    BY DEF IInv, SlippedInside
  <2>4. \A d \in InSection' : d # c /\ c \in InSection' => {c, d} \subseteq slipped'
    BY <2>2, <1>3 DEF InSection
  <2>5. slipped \cap InSection' \subseteq slipped'
    BY <2>2, <2>3
  <2>6. expired \cap InSection' \subseteq expired' /\ expired' \subseteq InSection'
    BY <1>7 DEF Enter, Expire
  <2>7. c \in InSection' /\ c \notin expired' => ahead[c] = {}
    BY <1>7 DEF Enter, Expire, Granted
  <2>8. edited' = edited
    BY <1>7 DEF Enter, Expire, EnterSection
  <2> QED
    BY <1>3, <1>4, <1>5, <1>6, <2>2, <2>4, <2>5, <2>6, <2>7, <2>8
<1>8. CASE Retry(c) \/ SaveRoutings(c) \/ Bake(c) \/ StoreBaked(c)
  <2>1. c \in InSection
    BY <1>8 DEF Retry, SaveRoutings, Bake, StoreBaked, InSection
  <2>2. Alone
    BY <1>8 DEF Retry, SaveRoutings, Bake, StoreBaked
  <2>3. \A d \in InSection' : d # c => {c, d} \subseteq slipped
    BY <2>1, <1>3 DEF IInv, Marked, InSection
  <2>4. c \in InSection' /\ c \notin expired' => ahead[c] = {}
    BY <2>1, <2>2 DEF Alone, IInv, Gated
  <2> QED
    BY <1>3, <1>4, <1>5, <1>6, <2>2, <2>3, <2>4 DEF Alone
<1> QED
  BY <1>7, <1>8 DEF Step

LEMMA InitIInv == Init => IInv
<1> SUFFICES ASSUME Init PROVE IInv
  OBVIOUS
<1>1. TypeOK
  <2>1. cmd \in [Applies -> Commands]
    BY EndedType DEF Init
  <2>2. /\ bytes \in [Files -> Contents] /\ routes \in [Files -> Rows]
        /\ ahead \in [Applies -> SUBSET Applies]
        /\ edited = {} /\ expired = {} /\ slipped = {} /\ blind = {}
    BY NoRowsType DEF Init, Files, Contents, Absent
  <2> QED
    BY <2>1, <2>2 DEF TypeOK, Commands, Snapshots
<1>2. \A c \in Applies : cmd[c].pc = "idle"
  BY DEF Init, Ended
<1>3. InSection = {} /\ Tickets = {}
  BY <1>2 DEF InSection, Tickets
<1>4. NoChild(Here)
  BY DEF Init, NoChild, Here, Files, Absent
<1> QED
  BY <1>1, <1>2, <1>3, <1>4 DEF Init, IInv, SlippedInside, Ordered, Gated, Marked, Childless, SawAll,
     ChildFirst, NoBlindOverwrite

LEMMA StepIInv ==
  ASSUME IInv, NEW c \in Applies, Step(c)
  PROVE  IInv'
<1>1. Written(c) /\ c \in Tickets
  BY StepWrites
<1>2. TypeOK'
  BY <1>1, StepSection DEF Written, DataType, IInv, TypeOK, Commands, Snapshots, InSection
<1>3. Ordered'
  <2> SUFFICES ASSUME NEW x \in Tickets', NEW y \in Tickets', x # y
               PROVE  x \in ahead'[y] \/ y \in ahead'[x]
    BY DEF Ordered
  <2>1. x \in ahead[y] \/ y \in ahead[x]
    BY StepSection DEF IInv, Ordered
  <2>2. x \in Applies /\ y \in Applies
    BY DEF Tickets, InSection
  <2>3. CASE ahead' = ahead
    BY <2>1, <2>3
  <2>4. CASE c \notin Tickets' /\ ahead' = Release(c)
    BY <2>1, <2>2, <2>4 DEF Release
  <2> QED
    BY <2>3, <2>4, StepSection
<1>4. Gated'
  <2> SUFFICES ASSUME NEW x \in InSection', x \notin expired'
               PROVE  ahead'[x] = {}
    BY DEF Gated
  <2>1. x \in Applies
    BY DEF InSection
  <2>2. ahead[x] = {}
    BY <2>1, StepSection DEF IInv, Gated
  <2> QED
    BY <2>1, <2>2, StepSection DEF Release
<1>5. Marked' /\ SlippedInside'
  <2> SUFFICES ASSUME NEW x \in InSection', NEW y \in InSection', x # y
               PROVE  x \in slipped'
    BY StepSection DEF Marked, SlippedInside
  <2>1. CASE x = c \/ y = c
    BY <2>1, StepSection
  <2>2. CASE x # c /\ y # c
    <3>1. x \in InSection /\ y \in InSection
      BY <2>2, StepSection DEF InSection
    <3> QED
      BY <3>1, StepSection DEF IInv, Marked
  <2> QED
    BY <2>1, <2>2
<1>6. Childless'
  <2> SUFFICES ASSUME NEW x \in Tickets' PROVE NoChild(cmd'[x].saw)
    BY <1>1 DEF Childless, Written
  <2>1. x \in Applies /\ x \in Tickets
    BY StepSection DEF Tickets, InSection
  <2>2. CASE x = c
    <3>1. cmd'[c].pc \in Inside
      BY <2>2, StepSection DEF InSection, Inside
    <3> QED
      BY <3>1, <2>2, <1>1 DEF Written
  <2>3. CASE x # c
    BY <2>1, <2>3, StepSection DEF IInv, Childless
  <2> QED
    BY <2>2, <2>3
<1>7. SawAll'
  <2> SUFFICES ASSUME NEW x \in InSection', x \notin slipped' PROVE Knows(x)'
    BY DEF SawAll, Knows
  <2>1. x \in Applies
    BY DEF InSection
  <2>2. CASE x # c
    <3>1. x \in InSection /\ x \notin slipped
      BY <2>1, <2>2, StepSection
    <3>2. c \notin InSection
      BY <3>1, <2>2 DEF IInv, Marked
    <3>3. Enter(c) \/ Expire(c)
      BY <3>2 DEF Step, Retry, SaveRoutings, Bake, StoreBaked, InSection
    <3>4. x \in slipped'
      BY <3>1, <3>3 DEF Enter, Expire, EnterSection
    <3> QED
      BY <3>4
  <2>3. CASE x = c
    <3>1. cmd'[c].pc \in Inside
      BY <2>3 DEF InSection, Inside
    <3> QED
      BY <3>1, <2>3, StepWrites DEF Written
  <2> QED
    BY <2>2, <2>3
<1>8. ChildFirst'
  <2> SUFFICES ASSUME NEW x \in Applies
               PROVE  /\ cmd'[x].pc \in {"routing", "bake", "baked"} /\ cmd'[x].plan.mode = "adapt"
                             => cmd'[x].twin \/ (bytes'["adapted"] # Absent
                                                 /\ cmd'[x].saw.bytes["adapted"] # Absent)
                      /\ cmd'[x].pc \in {"waiting", "retry"} => ~cmd'[x].twin
                      /\ cmd'[x].pc = "retry" => x \in cmd'[x].buffer
                      /\ cmd'[x].pc = "baked" => "bake" \in cmd'[x].buffer
    BY DEF ChildFirst
  <2>1. CASE x = c
    BY <1>1, <2>1 DEF Written, Inside, Moved
  <2>2. CASE x # c
    <3>1. cmd'[x] = cmd[x]
      BY <2>2, StepSection
    <3> QED
      BY <3>1, <1>1 DEF Written, IInv, ChildFirst
  <2> QED
    BY <2>1, <2>2
<1> QED
  BY <1>1, <1>2, <1>3, <1>4, <1>5, <1>6, <1>7, <1>8 DEF IInv, Written, SlippedInside

LEMMA ArriveIInv ==
  ASSUME IInv, NEW c \in Applies, NEW plan \in Plans, Arrive(c, plan)
  PROVE  IInv'
<1>1. /\ cmd'[c] = [pc |-> "waiting", plan |-> plan, saw |-> Now, buffer |-> {}, twin |-> FALSE]
      /\ \A d \in Applies : d # c => cmd'[d] = cmd[d]
      /\ UNCHANGED <<bytes, routes, edited, expired, slipped, blind>>
      /\ ahead' = [ahead EXCEPT ![c] = Tickets]
      /\ cmd[c].pc = "idle"
  BY DEF Arrive, IInv, TypeOK
<1>2. InSection' = InSection /\ Tickets' = Tickets \cup {c} /\ c \notin Tickets
  BY <1>1 DEF InSection, Tickets
<1>3. TypeOK'
  <2>1. cmd \in [Applies -> Commands] /\ ahead \in [Applies -> SUBSET Applies]
    BY DEF IInv, TypeOK, Commands, Snapshots
  <2>2. Now \in Snapshots /\ {} \in Contents /\ Tickets \subseteq Applies
    BY NoRowsType DEF IInv, TypeOK, Now, Snapshots, Contents, Tickets, InSection
  <2>3. [pc |-> "waiting", plan |-> plan, saw |-> Now, buffer |-> {}, twin |-> FALSE] \in Commands
    BY <2>2 DEF Commands, States
  <2>4. cmd' \in [Applies -> Commands] /\ ahead' \in [Applies -> SUBSET Applies]
    BY <2>1, <2>2, <2>3 DEF Arrive
  <2> QED
    BY <2>4, <1>1 DEF IInv, TypeOK, Commands, Snapshots
<1>4. Ordered'
  BY <1>1, <1>2 DEF IInv, Ordered, TypeOK, Tickets, InSection
<1>5. Gated'
  BY <1>1, <1>2 DEF IInv, Gated, TypeOK, InSection
<1>6. Marked' /\ SlippedInside'
  BY <1>1, <1>2 DEF IInv, Marked, SlippedInside
<1>7. Childless'
  <2>1. NoChild(Here)' /\ NoChild(Here)
    BY <1>1 DEF IInv, Childless, NoChild, Here
  <2>2. \A d \in Tickets : NoChild(cmd'[d].saw)
    BY <1>1, <1>2 DEF IInv, Childless, Tickets, InSection
  <2>3. NoChild(Now)
    BY <2>1 DEF NoChild, Now, Here, IInv, TypeOK, Files
  <2> QED
    BY <1>1, <1>2, <2>1, <2>2, <2>3 DEF Childless
<1>8. SawAll'
  BY <1>1, <1>2 DEF IInv, SawAll, Knows, Target, Fingerprinted, InSection
<1>9. ChildFirst'
  <2> SUFFICES ASSUME NEW x \in Applies
               PROVE  /\ cmd'[x].pc \in {"routing", "bake", "baked"} /\ cmd'[x].plan.mode = "adapt"
                             => cmd'[x].twin \/ (bytes'["adapted"] # Absent
                                                 /\ cmd'[x].saw.bytes["adapted"] # Absent)
                      /\ cmd'[x].pc \in {"waiting", "retry"} => ~cmd'[x].twin
                      /\ cmd'[x].pc = "retry" => x \in cmd'[x].buffer
                      /\ cmd'[x].pc = "baked" => "bake" \in cmd'[x].buffer
    BY DEF ChildFirst
  <2>1. CASE x = c
    BY <1>1, <2>1
  <2>2. CASE x # c
    BY <1>1, <2>2 DEF IInv, ChildFirst
  <2> QED
    BY <2>1, <2>2
<1>10. NoBlindOverwrite'
  BY <1>1 DEF IInv, NoBlindOverwrite
<1> QED
  BY <1>3, <1>4, <1>5, <1>6, <1>7, <1>8, <1>9, <1>10 DEF IInv

LEMMA EditIInv ==
  ASSUME IInv, NEW e \in Edits, NEW f \in Files, Edit(e, f)
  PROVE  IInv'
<1>1. /\ bytes' = [bytes EXCEPT ![f] = {e}] /\ slipped' = slipped \cup InSection
      /\ UNCHANGED <<routes, cmd, ahead, expired, blind>>
      /\ edited' = edited \cup {e}
      /\ bytes[f] # Absent
  BY DEF Edit
<1>2. InSection' = InSection /\ Tickets' = Tickets
  BY <1>1 DEF InSection, Tickets
<1>3. {e} \in Contents /\ {e} # Absent
  BY ApplyAssumption DEF Contents, Absent
<1>4. TypeOK'
  BY <1>1, <1>2, <1>3 DEF IInv, TypeOK, InSection
<1>5. bytes["adapted"] # Absent => bytes'["adapted"] # Absent
  BY <1>1, <1>3 DEF IInv, TypeOK, Files
<1>6. Childless'
  BY <1>1, <1>2, <1>5 DEF IInv, Childless, NoChild, Here
<1>7. ChildFirst'
  BY <1>1, <1>5 DEF IInv, ChildFirst
<1>8. SawAll' /\ Marked' /\ SlippedInside'
  BY <1>1, <1>2 DEF IInv, SawAll, Marked, SlippedInside
<1>9. Ordered' /\ Gated' /\ NoBlindOverwrite'
  BY <1>1, <1>2 DEF IInv, Ordered, Gated, NoBlindOverwrite
<1> QED
  BY <1>4, <1>6, <1>7, <1>8, <1>9 DEF IInv

LEMMA Inductive == IInv /\ [Next]_vars => IInv'
<1> SUFFICES ASSUME IInv, [Next]_vars PROVE IInv'
  OBVIOUS
<1>1. ASSUME NEW c \in Applies, NEW plan \in Plans, Arrive(c, plan) PROVE IInv'
  BY <1>1, ArriveIInv
<1>2. ASSUME NEW c \in Applies, Step(c) PROVE IInv'
  BY <1>2, StepIInv
<1>3. ASSUME NEW e \in Edits, NEW f \in Files, Edit(e, f) PROVE IInv'
  BY <1>3, EditIInv
<1>4. CASE UNCHANGED vars
  BY <1>4 DEF vars, IInv, TypeOK, Ordered, Gated, Marked, SlippedInside, Childless, NoChild,
     Here, SawAll, Knows, Target, Fingerprinted, ChildFirst, NoBlindOverwrite, InSection, Tickets
<1> QED
  BY <1>1, <1>2, <1>3, <1>4 DEF Next, Step

(* The values of all variables have their types.                          *)
THEOREM TypeCorrect == Spec => []TypeOK
<1>1. IInv => TypeOK
  BY DEF IInv
<1> QED
  BY <1>1, InitIInv, Inductive, PTL DEF Spec

(* FileWriteLock is a mutex for the applies that did not give up, for any *)
(* number of them: two in the section and neither expired would each wait *)
(* for nobody, but one of them came behind the other.                     *)
THEOREM LockExcludes == Spec => []SectionIsExclusive
<1>1. IInv => SectionIsExclusive
  <2> SUFFICES ASSUME IInv, NEW c \in InSection, NEW d \in InSection, c # d,
                      {c, d} \cap expired = {}
               PROVE  FALSE
    BY DEF SectionIsExclusive
  <2>1. ahead[c] = {} /\ ahead[d] = {}
    BY DEF IInv, Gated
  <2>2. c \in ahead[d] \/ d \in ahead[c]
    BY DEF IInv, Ordered, Tickets
  <2> QED
    BY <2>1, <2>2
<1> QED
  BY <1>1, InitIInv, Inductive, PTL DEF Spec

(* The version token does what it is for: an apply that shares its section *)
(* with nobody replaces bytes and covered routings it has seen.            *)
THEOREM TokenProtects == Spec => []NoBlindOverwrite
<1>1. IInv => NoBlindOverwrite
  BY DEF IInv
<1> QED
  BY <1>1, InitIInv, Inductive, PTL DEF Spec

-----------------------------------------------------------------------------
\* A nonempty set of naturals has a least element.
LEMMA LeastNat ==
  ASSUME NEW T \in SUBSET Nat, T # {}
  PROVE  \E x \in T : \A y \in T : x <= y
<1> DEFINE Less == {ss \in Nat \X Nat : ss[1] < ss[2]}
<1>1. IsWellFoundedOn(Less, Nat)
  BY NatLessThanWellFounded DEF OpToRel
<1>2. PICK x \in T : \A y \in T : <<y, x>> \notin Less
  <2> HIDE DEF Less
  <2> QED
    BY <1>1, WFMin
<1>3. ASSUME NEW y \in T PROVE x <= y
  <2>1. x \in Nat /\ y \in Nat
    OBVIOUS
  <2>2. ~(y < x)
    BY <1>2, <2>1
  <2> QED
    BY <2>1, <2>2
<1> QED
  BY <1>3

-----------------------------------------------------------------------------
\* The steps R, one for each event of q, lead from a to b through states of S.
IsRoute(p, R, S, a, q, b) ==
    /\ p \in [0 .. Len(q) -> S]
    /\ p[0] = a /\ p[Len(q)] = b
    /\ \A i \in 1 .. Len(q) : <<p[i - 1], q[i], p[i]>> \in R

Routes(R, S, a, q, b) == \E p : IsRoute(p, R, S, a, q, b)

LEMMA RouteNowhere ==
  ASSUME NEW R, NEW S, NEW a, NEW b
  PROVE  Routes(R, S, a, <<>>, b) <=> a = b /\ a \in S
<1>1. Len(<<>>) = 0 /\ 1 .. 0 = {}
  BY EmptySeq
<1>2. ASSUME a = b, a \in S PROVE Routes(R, S, a, <<>>, b)
  <2>1. IsRoute([i \in 0 .. 0 |-> a], R, S, a, <<>>, b)
    BY <1>1, <1>2 DEF IsRoute
  <2> QED
    BY <2>1 DEF Routes
<1>3. ASSUME Routes(R, S, a, <<>>, b) PROVE a = b /\ a \in S
  BY <1>1, <1>3 DEF Routes, IsRoute
<1> QED
  BY <1>2, <1>3

LEMMA RouteEnds ==
  ASSUME NEW R, NEW S, NEW a, NEW b, NEW E, NEW q \in Seq(E), Routes(R, S, a, q, b)
  PROVE  a \in S /\ b \in S
<1>1. Len(q) \in Nat
  OBVIOUS
<1> QED
  BY <1>1 DEF Routes, IsRoute

LEMMA RouteOn ==
  ASSUME NEW R, NEW S, NEW a, NEW b, NEW c \in S, NEW E, NEW q \in Seq(E), NEW e \in E,
         Routes(R, S, a, q, b), <<b, e, c>> \in R
  PROVE  Routes(R, S, a, Append(q, e), c)
<1> DEFINE n == Len(q)
           r == Append(q, e)
<1>1. PICK p : IsRoute(p, R, S, a, q, b)
  BY DEF Routes
<1>2. /\ n \in Nat /\ r \in Seq(E) /\ Len(r) = n + 1 /\ r[n + 1] = e
      /\ \A i \in 1 .. n : r[i] = q[i]
  BY AppendProperties
<1> DEFINE f == [i \in 0 .. n + 1 |-> IF i = n + 1 THEN c ELSE p[i]]
<1> HIDE DEF r
<1>3. f \in [0 .. Len(r) -> S] /\ f[0] = a /\ f[Len(r)] = c
  BY <1>1, <1>2 DEF IsRoute
<1>4. ASSUME NEW i \in 1 .. Len(r) PROVE <<f[i - 1], r[i], f[i]>> \in R
  <2>1. CASE i = n + 1
    BY <1>1, <1>2, <2>1 DEF IsRoute
  <2>2. CASE i # n + 1
    <3>1. i \in 1 .. n /\ i - 1 \in 0 .. n + 1 /\ i - 1 # n + 1 /\ i \in 0 .. n + 1
      BY <1>2, <2>2
    <3>2. f[i - 1] = p[i - 1] /\ f[i] = p[i] /\ r[i] = q[i]
      BY <1>2, <2>2, <3>1
    <3> QED
      BY <1>1, <3>1, <3>2 DEF IsRoute
  <2> QED
    BY <2>1, <2>2
<1> QED
  BY <1>3, <1>4 DEF Routes, IsRoute, r

LEMMA RouteFrom ==
  ASSUME NEW R, NEW S, NEW a, NEW b, NEW E, NEW q \in Seq(E), q # <<>>,
         Routes(R, S, a, q, b)
  PROVE  \E c \in S : <<a, Head(q), c>> \in R /\ Routes(R, S, c, Tail(q), b)
<1> DEFINE n == Len(q)
           r == Tail(q)
<1>1. PICK p : IsRoute(p, R, S, a, q, b)
  BY DEF Routes
<1>2. n \in Nat /\ n > 0
  OBVIOUS
<1>3. /\ r \in Seq(E) /\ Len(r) = n - 1 /\ \A i \in 1 .. n - 1 : r[i] = q[i + 1]
  BY HeadTailProperties
<1>4. Head(q) = q[1]
  OBVIOUS
<1> DEFINE f == [i \in 0 .. n - 1 |-> p[i + 1]]
<1> HIDE DEF r
<1>5. f \in [0 .. Len(r) -> S] /\ f[Len(r)] = b
  BY <1>1, <1>2, <1>3 DEF IsRoute
<1>6. ASSUME NEW i \in 1 .. Len(r) PROVE <<f[i - 1], r[i], f[i]>> \in R
  <2>1. i + 1 \in 1 .. n /\ i - 1 \in 0 .. n - 1 /\ i \in 0 .. n - 1 /\ i - 1 + 1 = i /\ i + 1 - 1 = i
        /\ i \in 1 .. n - 1
    BY <1>2, <1>3
  <2>2. f[i - 1] = p[i] /\ f[i] = p[i + 1] /\ r[i] = q[i + 1]
    BY <1>3, <2>1
  <2>3. <<p[i + 1 - 1], q[i + 1], p[i + 1]>> \in R
    BY <1>1, <2>1 DEF IsRoute
  <2> QED
    BY <2>1, <2>2, <2>3
<1>7. Routes(R, S, p[1], r, b)
  <2>1. f[0] = p[1]
    BY <1>2
  <2> QED
    BY <1>5, <1>6, <2>1 DEF Routes, IsRoute
<1>8. p[1] \in S /\ <<a, Head(q), p[1]>> \in R
  <2>1. 1 \in 1 .. n /\ 1 \in 0 .. n /\ 1 - 1 = 0
    BY <1>2
  <2>2. <<p[1 - 1], q[1], p[1]>> \in R /\ p[1] \in S /\ p[0] = a
    BY <1>1, <2>1 DEF IsRoute
  <2> QED
    BY <1>4, <2>1, <2>2
<1> QED
  BY <1>7, <1>8 DEF r

LEMMA RouteJoin ==
  ASSUME NEW R, NEW S, NEW a, NEW b, NEW c, NEW E, NEW q \in Seq(E), NEW r \in Seq(E),
         Routes(R, S, a, q, b), Routes(R, S, b, r, c)
  PROVE  Routes(R, S, a, q \o r, c)
<1> DEFINE n == Len(q)
           m == Len(r)
           s == q \o r
<1>1. PICK p : IsRoute(p, R, S, a, q, b)
  BY DEF Routes
<1>2. PICK w : IsRoute(w, R, S, b, r, c)
  BY DEF Routes
<1>3. n \in Nat /\ m \in Nat
  OBVIOUS
<1>4. /\ s \in Seq(E) /\ Len(s) = n + m
      /\ \A i \in 1 .. n + m : s[i] = IF i <= n THEN q[i] ELSE r[i - n]
  BY ConcatProperties
<1> DEFINE f == [i \in 0 .. n + m |-> IF i <= n THEN p[i] ELSE w[i - n]]
<1> HIDE DEF s, n, m
<1>5. p \in [0 .. n -> S] /\ w \in [0 .. m -> S] /\ p[0] = a /\ p[n] = b /\ w[0] = b /\ w[m] = c
  BY <1>1, <1>2 DEF IsRoute, n, m
<1>6. f \in [0 .. Len(s) -> S]
  <2>1. ASSUME NEW i \in 0 .. n + m PROVE (IF i <= n THEN p[i] ELSE w[i - n]) \in S
    <3>1. CASE i <= n
      BY <1>3, <1>5, <3>1
    <3>2. CASE ~(i <= n)
      <4>1. i - n \in 0 .. m
        BY <1>3, <3>2
      <4> QED
        BY <1>5, <3>2, <4>1
    <3> QED
      BY <3>1, <3>2
  <2> QED
    BY <1>4, <2>1
<1>7. \A i \in 0 .. n : f[i] = p[i]
  BY <1>3
<1>8. ASSUME NEW i \in 0 .. m PROVE f[i + n] = w[i]
  <2>1. i + n \in 0 .. n + m /\ i + n - n = i /\ (i + n <= n => i = 0)
    BY <1>3
  <2>2. CASE i = 0
    BY <1>3, <1>5, <2>1, <2>2
  <2>3. CASE i # 0
    <3> DEFINE k == i + n
    <3>1. k \in 0 .. n + m /\ ~(k <= n) /\ k - n = i
      BY <1>3, <2>1, <2>3
    <3> HIDE DEF k
    <3>2. f[k] = w[i]
      BY <3>1
    <3> QED
      BY <3>2 DEF k
  <2> QED
    BY <2>2, <2>3
<1> HIDE DEF f
<1>9. ASSUME NEW i \in 1 .. Len(s) PROVE <<f[i - 1], s[i], f[i]>> \in R
  <2>1. CASE i <= n
    <3>1. i \in 1 .. n /\ i - 1 \in 0 .. n /\ i \in 0 .. n /\ i \in 1 .. n + m
      BY <1>3, <1>4, <2>1
    <3>2. <<p[i - 1], q[i], p[i]>> \in R
      BY <1>1, <3>1 DEF IsRoute, n
    <3> QED
      BY <1>4, <1>7, <2>1, <3>1, <3>2
  <2>2. CASE ~(i <= n)
    <3> DEFINE j == i - n
    <3>1. j \in 1 .. m /\ j - 1 \in 0 .. m /\ j \in 0 .. m /\ i \in 1 .. n + m
          /\ j + n = i /\ j - 1 + n = i - 1
      BY <1>3, <1>4, <2>2
    <3>2. s[i] = r[j]
      BY <1>4, <2>2, <3>1
    <3> HIDE DEF j
    <3>3. <<w[j - 1], r[j], w[j]>> \in R
      BY <1>2, <3>1 DEF IsRoute, m
    <3>4. f[j - 1 + n] = w[j - 1] /\ f[j + n] = w[j]
      BY <1>8, <3>1
    <3> QED
      BY <3>1, <3>2, <3>3, <3>4
  <2> QED
    BY <2>1, <2>2
<1>10. f[0] = a /\ f[Len(s)] = c
  <2>1. f[m + n] = w[m] /\ m + n = n + m
    BY <1>3, <1>8
  <2> QED
    BY <1>3, <1>4, <1>5, <1>7, <2>1
<1> QED
  BY <1>6, <1>9, <1>10 DEF Routes, IsRoute, s

-----------------------------------------------------------------------------
\* What the strategies may have decided on the notes that are on, in the order
\* of the pitch, and the decisions for an output.
Decisions(r) ==
    {a \in [Notes -> Seq(1 .. Len(r.outs))] : \A n \in Notes : Len(a[n]) <= MaxKept}

Decided(r, a, o) ==
    {t \in Notes \X (1 .. MaxKept) : t[2] <= Len(a[t[1]]) /\ r.outs[a[t[1]][t[2]]] = o}

Load(r, a, o) == Cardinality(Decided(r, a, o))

\* One more decision on a pitch, or one less, the oldest.
With(a, n, d) == [a EXCEPT ![n] = Append(a[n], d)]
Without(a, n) == [a EXCEPT ![n] = Tail(a[n])]

LEMMA LoadType ==
  ASSUME NEW r, NEW a, NEW o
  PROVE  IsFiniteSet(Decided(r, a, o)) /\ Load(r, a, o) \in Nat
<1>1. IsFiniteSet(Notes) /\ IsFiniteSet(1 .. MaxKept)
  BY RoutingAssumption, FS_Interval
<1>2. IsFiniteSet(Notes \X (1 .. MaxKept))
  BY <1>1, FS_Product
<1>3. Decided(r, a, o) \subseteq Notes \X (1 .. MaxKept)
  BY DEF Decided
<1> QED
  BY <1>2, <1>3, FS_Subset, FS_CardinalityType DEF Load

LEMMA LoadNone ==
  ASSUME NEW r, NEW a, NEW o, \A n \in Notes : a[n] = <<>>
  PROVE  Load(r, a, o) = 0
<1>1. Decided(r, a, o) = {}
  BY EmptySeq DEF Decided
<1> QED
  BY <1>1, FS_EmptySet DEF Load

\* One more decision.
LEMMA LoadMore ==
  ASSUME NEW r, NEW a \in Decisions(r), NEW n \in Notes, NEW d \in 1 .. Len(r.outs), NEW o,
         Len(a[n]) < MaxKept
  PROVE  /\ With(a, n, d) \in Decisions(r)
         /\ Load(r, With(a, n, d), o) = Load(r, a, o) + (IF r.outs[d] = o THEN 1 ELSE 0)
<1> DEFINE b == With(a, n, d)
           k == Len(a[n])
           T == 1 .. Len(r.outs)
<1>1. /\ a \in [Notes -> Seq(T)] /\ \A m \in Notes : Len(a[m]) <= MaxKept
      /\ MaxKept \in Nat /\ d \in T
  BY RoutingAssumption DEF Decisions
<1> HIDE DEF T
<1>2. /\ k \in Nat /\ a[n] \in Seq(T)
      /\ Append(a[n], d) \in Seq(T) /\ Len(Append(a[n], d)) = k + 1
      /\ Append(a[n], d)[k + 1] = d /\ \A j \in 1 .. k : Append(a[n], d)[j] = a[n][j]
  BY <1>1, AppendProperties
<1>3. /\ b \in [Notes -> Seq(T)] /\ b[n] = Append(a[n], d)
      /\ \A m \in Notes : m # n => b[m] = a[m]
  BY <1>1, <1>2 DEF With
<1> HIDE DEF b, k
<1>4. b \in Decisions(r)
  <2>1. ASSUME NEW m \in Notes PROVE Len(b[m]) <= MaxKept
    <3>1. CASE m = n
      BY <1>1, <1>2, <1>3, <3>1 DEF k
    <3>2. CASE m # n
      BY <1>1, <1>3, <3>2
    <3> QED
      BY <3>1, <3>2
  <2> QED
    BY <1>3, <2>1 DEF Decisions, T
<1>5. ASSUME NEW t \in Notes \X (1 .. MaxKept)
      PROVE  t \in Decided(r, b, o) <=> t \in Decided(r, a, o) \/ (t = <<n, k + 1>> /\ r.outs[d] = o)
  <2>1. t[1] \in Notes /\ t[2] \in 1 .. MaxKept /\ t = <<t[1], t[2]>> /\ t[2] \in Nat
    BY <1>1
  <2>2. CASE t[1] # n
    <3>1. b[t[1]] = a[t[1]] /\ t # <<n, k + 1>>
      BY <1>3, <2>1, <2>2
    <3>2. t \in Decided(r, b, o) <=> t[2] <= Len(b[t[1]]) /\ r.outs[b[t[1]][t[2]]] = o
      BY DEF Decided
    <3>3. t \in Decided(r, a, o) <=> t[2] <= Len(a[t[1]]) /\ r.outs[a[t[1]][t[2]]] = o
      BY DEF Decided
    <3>4. t \in Decided(r, b, o) <=> t \in Decided(r, a, o)
      BY <3>1, <3>2, <3>3, Zenon
    <3> QED
      BY <3>1, <3>4, Zenon
  <2>3. CASE t[1] = n /\ t[2] = k + 1
    <3>1. t = <<n, k + 1>> /\ ~(t[2] <= k) /\ t[2] <= k + 1
      BY <1>2, <2>1, <2>3
    <3>2. t \notin Decided(r, a, o)
      BY <2>3, <3>1 DEF Decided, k
    <3>3. t \in Decided(r, b, o) <=> r.outs[d] = o
      <4>1. t[2] <= Len(b[t[1]]) /\ b[t[1]][t[2]] = d
        BY <1>2, <1>3, <2>3, <3>1 DEF k
      <4> QED
        BY <4>1 DEF Decided
    <3> QED
      BY <3>1, <3>2, <3>3, Zenon
  <2>4. CASE t[1] = n /\ t[2] # k + 1
    <3>1. (t[2] <= k + 1 <=> t[2] <= k) /\ (t[2] <= k => t[2] \in 1 .. k) /\ t # <<n, k + 1>>
      BY <1>2, <2>1, <2>4
    <3>2. t[2] <= k => b[n][t[2]] = a[n][t[2]]
      BY <1>2, <1>3, <3>1
    <3>3. Len(b[n]) = k + 1 /\ Len(a[n]) = k
      BY <1>2, <1>3 DEF k
    <3>4. t \in Decided(r, b, o) <=> t[2] <= k /\ r.outs[b[n][t[2]]] = o
      BY <2>4, <3>1, <3>3 DEF Decided
    <3>5. t \in Decided(r, a, o) <=> t[2] <= k /\ r.outs[a[n][t[2]]] = o
      BY <2>4, <3>3 DEF Decided
    <3>6. t # <<n, k + 1>>
      BY <3>1
    <3>7. t \in Decided(r, b, o) <=> t \in Decided(r, a, o)
      BY <3>2, <3>4, <3>5, Zenon
    <3> QED
      BY <3>6, <3>7, Zenon
  <2> QED
    BY <2>2, <2>3, <2>4
<1>6. <<n, k + 1>> \in Notes \X (1 .. MaxKept) /\ <<n, k + 1>> \notin Decided(r, a, o)
  BY <1>1, <1>2 DEF Decided, k
<1>7. /\ Decided(r, a, o) \subseteq Notes \X (1 .. MaxKept)
      /\ Decided(r, b, o) \subseteq Notes \X (1 .. MaxKept)
  BY DEF Decided
<1>8. ASSUME r.outs[d] = o PROVE Load(r, b, o) = Load(r, a, o) + 1
  <2>1. Decided(r, b, o) = Decided(r, a, o) \cup {<<n, k + 1>>}
    BY <1>5, <1>6, <1>7, <1>8
  <2> QED
    BY <1>6, <2>1, LoadType, FS_AddElement DEF Load
<1>9. ASSUME r.outs[d] # o PROVE Load(r, b, o) = Load(r, a, o)
  <2>1. ASSUME NEW t \in Notes \X (1 .. MaxKept)
        PROVE  t \in Decided(r, b, o) <=> t \in Decided(r, a, o)
    <3>1. t \in Decided(r, b, o) <=> t \in Decided(r, a, o) \/ (t = <<n, k + 1>> /\ r.outs[d] = o)
      BY <1>5
    <3> QED
      BY <1>9, <3>1, Zenon
  <2>2. Decided(r, b, o) = Decided(r, a, o)
    BY <1>7, <2>1
  <2> QED
    BY <2>2 DEF Load
<1>10. Load(r, a, o) \in Nat
  BY LoadType
<1> QED
  BY <1>4, <1>8, <1>9, <1>10 DEF b

\* One less, the oldest of its pitch: those behind it move up.
LEMMA LoadLess ==
  ASSUME NEW r, NEW a \in Decisions(r), NEW n \in Notes, NEW o, a[n] # <<>>
  PROVE  /\ Without(a, n) \in Decisions(r)
         /\ Head(a[n]) \in 1 .. Len(r.outs)
         /\ Load(r, a, o) = Load(r, Without(a, n), o) + (IF r.outs[Head(a[n])] = o THEN 1 ELSE 0)
<1> DEFINE b == Without(a, n)
           k == Len(a[n])
           d == Head(a[n])
           T == 1 .. Len(r.outs)
           A == Decided(r, a, o)
           B == Decided(r, b, o)
           first == <<n, 1>>
<1>1. /\ a \in [Notes -> Seq(T)] /\ \A m \in Notes : Len(a[m]) <= MaxKept /\ Len(a[m]) \in Nat
      /\ MaxKept \in Nat
  BY RoutingAssumption DEF Decisions
<1> HIDE DEF T
<1>2. /\ k \in Nat /\ k > 0 /\ d \in T /\ d = a[n][1]
      /\ Tail(a[n]) \in Seq(T) /\ Len(Tail(a[n])) = k - 1
      /\ \A j \in 1 .. k - 1 : Tail(a[n])[j] = a[n][j + 1]
  BY <1>1, HeadTailProperties
<1>3. /\ b \in [Notes -> Seq(T)] /\ b[n] = Tail(a[n])
      /\ \A m \in Notes : m # n => b[m] = a[m]
  BY <1>1, <1>2 DEF Without
<1> HIDE DEF b, k, d
<1>4. b \in Decisions(r)
  <2>1. ASSUME NEW m \in Notes PROVE Len(b[m]) <= MaxKept
    <3>1. CASE m = n
      BY <1>1, <1>2, <1>3, <3>1 DEF k
    <3>2. CASE m # n
      BY <1>1, <1>3, <3>2
    <3> QED
      BY <3>1, <3>2
  <2> QED
    BY <1>3, <2>1 DEF Decisions, T
<1> DEFINE up == [t \in B |-> IF t[1] = n THEN <<n, t[2] + 1>> ELSE t]
<1>5. ASSUME NEW t \in B
      PROVE  /\ t[1] \in Notes /\ t[2] \in 1 .. MaxKept /\ t[2] \in Nat /\ t = <<t[1], t[2]>>
             /\ up[t] \in A \ {first}
             /\ t[1] = n => up[t] = <<n, t[2] + 1>>
             /\ t[1] # n => up[t] = t
  <2>1. t[1] \in Notes /\ t[2] \in 1 .. MaxKept /\ t[2] \in Nat /\ t = <<t[1], t[2]>>
        /\ t[2] <= Len(b[t[1]]) /\ r.outs[b[t[1]][t[2]]] = o
    BY <1>1 DEF Decided
  <2>2. CASE t[1] = n
    <3>1. t[2] \in 1 .. k - 1 /\ t[2] + 1 \in 1 .. MaxKept /\ t[2] + 1 <= k /\ t[2] + 1 # 1
      BY <1>1, <1>2, <1>3, <2>1, <2>2 DEF k
    <3>2. r.outs[a[n][t[2] + 1]] = o
      BY <1>2, <1>3, <2>1, <2>2, <3>1
    <3>3. up[t] = <<n, t[2] + 1>>
      BY <2>2
    <3> QED
      BY <2>1, <2>2, <3>1, <3>2, <3>3 DEF Decided, k
  <2>3. CASE t[1] # n
    <3>1. b[t[1]] = a[t[1]] /\ t # first /\ up[t] = t
      BY <1>3, <2>1, <2>3
    <3>2. t \in A
      BY <2>1, <3>1 DEF Decided
    <3> QED
      BY <2>1, <2>3, <3>1, <3>2
  <2> QED
    BY <2>1, <2>2, <2>3
<1>6. ASSUME NEW t \in A \ {first}
      PROVE  \E u \in B : up[u] = t
  <2>1. t[1] \in Notes /\ t[2] \in 1 .. MaxKept /\ t[2] \in Nat /\ t = <<t[1], t[2]>>
        /\ t[2] <= Len(a[t[1]]) /\ r.outs[a[t[1]][t[2]]] = o
    BY <1>1 DEF Decided
  <2>2. CASE t[1] = n
    <3> DEFINE u == <<n, t[2] - 1>>
    <3>1. t[2] # 1
      BY <1>6, <2>1, <2>2
    <3>2. t[2] - 1 \in 1 .. k - 1 /\ t[2] - 1 + 1 = t[2] /\ t[2] - 1 \in 1 .. MaxKept /\ t[2] - 1 <= k - 1
      BY <1>1, <1>2, <2>1, <2>2, <3>1 DEF k
    <3>3. b[n][t[2] - 1] = a[n][t[2]]
      BY <1>2, <1>3, <3>2
    <3>4. u \in B
      BY <1>2, <1>3, <2>1, <2>2, <3>2, <3>3 DEF Decided
    <3>5. up[u] = <<n, t[2]>>
      <4>1. u[1] = n /\ u[2] + 1 = t[2]
        BY <3>2
      <4> HIDE DEF u, B
      <4> QED
        BY <3>4, <4>1
    <3> QED
      BY <2>1, <2>2, <3>4, <3>5
  <2>3. CASE t[1] # n
    <3>1. t \in B
      BY <1>3, <2>1, <2>3 DEF Decided
    <3>2. up[t] = t
      BY <2>3, <3>1
    <3> QED
      BY <3>1, <3>2
  <2> QED
    BY <2>2, <2>3
<1>7. up \in Bijection(B, A \ {first})
  <2>1. up \in [B -> A \ {first}]
    BY <1>5
  <2>2. ASSUME NEW t \in B, NEW u \in B, up[t] = up[u] PROVE t = u
    <3>1. CASE t[1] = n /\ u[1] = n
      BY <1>5, <2>2, <3>1
    <3>2. CASE t[1] # n /\ u[1] # n
      BY <1>5, <2>2, <3>2
    <3>3. CASE t[1] = n /\ u[1] # n
      BY <1>5, <2>2, <3>3
    <3>4. CASE t[1] # n /\ u[1] = n
      BY <1>5, <2>2, <3>4
    <3> QED
      BY <3>1, <3>2, <3>3, <3>4
  <2> HIDE DEF up, A, B
  <2> QED
    BY <1>6, <2>1, <2>2 DEF Bijection, Injection, IsInjective, Surjection
<1> HIDE DEF up
<1>8. first \in A <=> r.outs[d] = o
  BY <1>1, <1>2 DEF Decided, k
<1>9. /\ IsFiniteSet(A) /\ IsFiniteSet(B) /\ IsFiniteSet(A \ {first})
      /\ Cardinality(A) \in Nat /\ Cardinality(B) \in Nat
  BY LoadType, FS_RemoveElement DEF Load
<1>10. Cardinality(B) = Cardinality(A \ {first})
  BY <1>7, <1>9, FS_Bijection DEF ExistsBijection
<1>11. Cardinality(A) = Cardinality(A \ {first}) + (IF first \in A THEN 1 ELSE 0)
  <2>1. CASE first \in A
    BY <1>9, <2>1, FS_RemoveElement
  <2>2. CASE first \notin A
    <3>1. A \ {first} = A
      BY <2>2
    <3>2. Cardinality(A \ {first}) = Cardinality(A)
      BY <3>1
    <3> HIDE DEF A, first
    <3> QED
      BY <1>9, <2>2, <3>2
  <2> QED
    BY <2>1, <2>2
<1>12. Load(r, a, o) = Load(r, b, o) + (IF r.outs[d] = o THEN 1 ELSE 0)
  BY <1>8, <1>10, <1>11 DEF Load
<1> QED
  BY <1>2, <1>4, <1>12 DEF b, d, T

-----------------------------------------------------------------------------
\* The entries of channelRouting.
LEMMA RoutingType ==
  ASSUME NEW r \in Routings \cup {Unrouted}
  PROVE  /\ r.strategy \in Strategies /\ r.outs \in Seq(Outputs)
         /\ Len(r.outs) \in Nat \ {0} /\ DOMAIN r.outs = 1 .. Len(r.outs)
         /\ \A d \in 1 .. Len(r.outs) : r.outs[d] \in Outputs
         /\ 1 \in 1 .. Len(r.outs) /\ Len(r.outs) \in 1 .. Len(r.outs)
<1>1. r.strategy \in Strategies /\ r.outs \in Seq(Outputs) /\ r.outs # <<>>
  <2>1. CASE r \in Routings
    BY <2>1, RoutingAssumption
  <2>2. CASE r = Unrouted
    <3>1. <<Default>> \in Seq(Outputs) /\ <<Default>> # <<>>
      BY RoutingAssumption
    <3> QED
      BY <2>2, <3>1 DEF Unrouted, Strategies
  <2> QED
    BY <2>1, <2>2
<1>2. Len(r.outs) \in Nat \ {0} /\ DOMAIN r.outs = 1 .. Len(r.outs)
  BY <1>1
<1> QED
  BY <1>1, <1>2

LEMMA MinOf ==
  ASSUME NEW T \in SUBSET Nat, T # {}
  PROVE  Min(T) \in T
<1>1. \E x \in T : \A y \in T : x <= y
  BY LeastNat
<1> QED
  BY <1>1 DEF Min

\* The output chosen for a note-on is one of the routing's.
LEMMA ChoiceType ==
  ASSUME RoutingTypeOK, NEW n \in Notes
  PROVE  Choice(n) \in 1 .. Len(routing.outs)
<1> DEFINE outs == routing.outs
           loads == split.loads
           L == {loads[outs[j]] : j \in DOMAIN outs}
           least == Min(L)
           I == {i \in DOMAIN outs : loads[outs[i]] = least}
<1>1. /\ routing.strategy \in Strategies /\ Len(outs) \in Nat \ {0}
      /\ DOMAIN outs = 1 .. Len(outs)
      /\ \A d \in 1 .. Len(outs) : outs[d] \in Outputs
      /\ loads \in [Outputs -> Nat] /\ split.turns[n] \in Nat /\ split.alternate \in Nat
  BY RoutingType, RoutingAssumption DEF RoutingTypeOK
<1>2. Min(I) \in 1 .. Len(outs)
  <2>1. L \subseteq Nat /\ L # {}
    BY <1>1
  <2>2. \A x \in L : \E j \in DOMAIN outs : loads[outs[j]] = x
    OBVIOUS
  <2> HIDE DEF L
  <2>3. least \in L
    BY <2>1, MinOf
  <2> HIDE DEF least
  <2>4. I \subseteq Nat /\ I # {} /\ I \subseteq 1 .. Len(outs)
    BY <1>1, <2>2, <2>3
  <2> HIDE DEF I
  <2>5. Min(I) \in I
    BY <2>4, MinOf
  <2> QED
    BY <2>4, <2>5
<1>3. ASSUME NEW k \in Nat PROVE 1 + (k % Len(outs)) \in 1 .. Len(outs)
  <2> DEFINE l == Len(outs)
             x == k % l
  <2>1. l \in Nat \ {0}
    BY <1>1
  <2> HIDE DEF l
  <2>2. x \in 0 .. l - 1
    BY <2>1
  <2> HIDE DEF x
  <2>3. 1 + x \in 1 .. l
    BY <2>1, <2>2
  <2> QED
    BY <2>3 DEF x, l
<1>4. CASE routing.strategy = "round_robin"
  <2>1. Choice(n) = 1 + (split.turns[n] % Len(outs))
    BY <1>4 DEF Choice
  <2> QED
    BY <1>1, <1>3, <2>1
<1>5. CASE routing.strategy = "alternate"
  <2>1. Choice(n) = 1 + (split.alternate % Len(outs))
    BY <1>5 DEF Choice
  <2> QED
    BY <1>1, <1>3, <2>1
<1>6. CASE routing.strategy = "least_loaded"
  <2>1. Choice(n) = Min(I)
    BY <1>6 DEF Choice
  <2> QED
    BY <1>2, <2>1
<1>7. CASE routing.strategy = "overflow"
  <2>1. Choice(n) = IF Overflows(outs) /\ Len(outs) > 1 THEN 2 ELSE 1
    BY <1>7 DEF Choice
  <2> QED
    BY <1>1, <2>1
<1>8. CASE routing.strategy = "second"
  <2>1. Choice(n) = Len(outs)
    BY <1>8 DEF Choice
  <2> QED
    BY <1>1, <2>1
<1>9. CASE routing.strategy \in {"single", "first"}
  <2>1. Choice(n) = 1
    BY <1>9 DEF Choice
  <2> QED
    BY <1>1, <2>1
<1> QED
  BY <1>1, <1>4, <1>5, <1>6, <1>7, <1>8, <1>9 DEF Strategies

\* So is the one that a note-off goes to.
LEMMA NoteOffChoiceType ==
  ASSUME RoutingTypeOK, NEW n \in Notes
  PROVE  NoteOffChoice(n) \in 1 .. Len(routing.outs)
BY RoutingType DEF RoutingTypeOK, NoteOffChoice, Tracked, Fallback

\* The maps after a note-on.
LEMMA ChosenType ==
  ASSUME RoutingTypeOK, NEW n \in Notes
  PROVE  /\ Chosen(n).turns \in [Notes -> 0 .. Cycle - 1]
         /\ Chosen(n).alternate \in 0 .. Cycle - 1
         /\ Chosen(n).loads = IF Counts THEN [split.loads EXCEPT ![routing.outs[Choice(n)]] = split.loads[routing.outs[Choice(n)]] + 1]
                              ELSE split.loads
         /\ Chosen(n).loads \in [Outputs -> Nat]
         /\ Chosen(n).assigned = IF Pairs THEN [split.assigned EXCEPT ![n] = Append(split.assigned[n], Choice(n))]
                                 ELSE split.assigned
         /\ Chosen(n).assigned \in [Notes -> Seq(Nat \ {0})]
         /\ Chosen(n) = [turns |-> Chosen(n).turns, alternate |-> Chosen(n).alternate,
                         loads |-> Chosen(n).loads, assigned |-> Chosen(n).assigned]
<1>1. /\ split.turns \in [Notes -> 0 .. Cycle - 1] /\ split.alternate \in 0 .. Cycle - 1
      /\ split.loads \in [Outputs -> Nat] /\ split.assigned \in [Notes -> Seq(Nat \ {0})]
      /\ Cycle \in Nat \ {0}
  BY RoutingAssumption DEF RoutingTypeOK
<1>2. Choice(n) \in 1 .. Len(routing.outs) /\ routing.outs[Choice(n)] \in Outputs
      /\ Choice(n) \in Nat \ {0}
  BY ChoiceType, RoutingType DEF RoutingTypeOK
<1>3. \A k \in 0 .. Cycle - 1 : (k + 1) % Cycle \in 0 .. Cycle - 1
  BY <1>1
<1>4. Chosen(n).turns \in [Notes -> 0 .. Cycle - 1]
  <2>1. split.turns[n] \in 0 .. Cycle - 1
    BY <1>1
  <2>2. (split.turns[n] + 1) % Cycle \in 0 .. Cycle - 1
    BY <1>3, <2>1
  <2> QED
    BY <1>1, <2>2 DEF Chosen
<1>5. Chosen(n).alternate \in 0 .. Cycle - 1
  BY <1>1, <1>3 DEF Chosen
<1>6. Chosen(n).loads = IF Counts THEN [split.loads EXCEPT ![routing.outs[Choice(n)]] = split.loads[routing.outs[Choice(n)]] + 1]
                        ELSE split.loads
  BY DEF Chosen
<1>7. Chosen(n).loads \in [Outputs -> Nat]
  BY <1>1, <1>2, <1>6
<1>8. Chosen(n).assigned = IF Pairs THEN [split.assigned EXCEPT ![n] = Append(split.assigned[n], Choice(n))]
                           ELSE split.assigned
  BY DEF Chosen
<1>9. Chosen(n).assigned \in [Notes -> Seq(Nat \ {0})]
  <2>1. Append(split.assigned[n], Choice(n)) \in Seq(Nat \ {0})
    BY <1>1, <1>2, AppendProperties
  <2> QED
    BY <1>1, <1>8, <2>1
<1>10. Chosen(n) = [turns |-> Chosen(n).turns, alternate |-> Chosen(n).alternate,
                    loads |-> Chosen(n).loads, assigned |-> Chosen(n).assigned]
  BY DEF Chosen
<1> QED
  BY <1>4, <1>5, <1>6, <1>7, <1>8, <1>9, <1>10

\* The maps after a note-off.
LEMMA ReleasedType ==
  ASSUME RoutingTypeOK, NEW n \in Notes
  PROVE  LET o == routing.outs[NoteOffChoice(n)] IN
         /\ Released(n) \in [turns : [Notes -> 0 .. Cycle - 1], alternate : 0 .. Cycle - 1,
                             loads : [Outputs -> Nat], assigned : [Notes -> Seq(Nat \ {0})]]
         /\ Released(n).assigned = IF Pairs /\ split.assigned[n] # <<>>
                                   THEN [split.assigned EXCEPT ![n] = Tail(split.assigned[n])]
                                   ELSE split.assigned
         /\ Released(n).loads = IF Pairs /\ Counts /\ Tracked(n)
                                THEN [split.loads EXCEPT ![o] = IF split.loads[o] > 0 THEN split.loads[o] - 1 ELSE 0]
                                ELSE split.loads
<1> DEFINE o == routing.outs[NoteOffChoice(n)]
           less == IF split.loads[o] > 0 THEN split.loads[o] - 1 ELSE 0
           popped == IF split.assigned[n] = <<>> THEN split
                     ELSE [split EXCEPT !.assigned = [split.assigned EXCEPT ![n] = Tail(split.assigned[n])]]
           T == [turns : [Notes -> 0 .. Cycle - 1], alternate : 0 .. Cycle - 1,
                 loads : [Outputs -> Nat], assigned : [Notes -> Seq(Nat \ {0})]]
<1>1. split \in T
  BY DEF RoutingTypeOK
<1>2. o \in Outputs
  BY NoteOffChoiceType, RoutingType DEF RoutingTypeOK
<1>3. less \in Nat
  BY <1>1, <1>2
<1>4. /\ popped \in T /\ popped.loads = split.loads
      /\ popped.assigned = IF split.assigned[n] = <<>> THEN split.assigned
                           ELSE [split.assigned EXCEPT ![n] = Tail(split.assigned[n])]
  <2>1. CASE split.assigned[n] = <<>>
    BY <1>1, <2>1
  <2>2. CASE split.assigned[n] # <<>>
    <3>1. split.assigned[n] \in Seq(Nat \ {0}) /\ Tail(split.assigned[n]) \in Seq(Nat \ {0})
      BY <1>1, <2>2, HeadTailProperties
    <3> QED
      BY <1>1, <2>2, <3>1
  <2> QED
    BY <2>1, <2>2
<1>5. Released(n) = IF ~Pairs THEN split
                    ELSE IF Counts /\ Tracked(n)
                    THEN [popped EXCEPT !.loads = [popped.loads EXCEPT ![o] = less]]
                    ELSE popped
  BY <1>1, <1>4 DEF Released
<1> HIDE DEF popped, o, less
<1>6. CASE ~Pairs
  BY <1>1, <1>5, <1>6
<1>7. CASE Pairs /\ Counts /\ Tracked(n)
  <2>1. Released(n) = [popped EXCEPT !.loads = [popped.loads EXCEPT ![o] = less]]
    BY <1>5, <1>7
  <2>2. [split.loads EXCEPT ![o] = less] \in [Outputs -> Nat]
    BY <1>1, <1>3
  <2>3. Released(n) \in T /\ Released(n).assigned = popped.assigned
        /\ Released(n).loads = [split.loads EXCEPT ![o] = less]
    BY <1>4, <2>1, <2>2
  <2> QED
    BY <1>4, <1>7, <2>3 DEF o, less
<1>8. CASE Pairs /\ ~(Counts /\ Tracked(n))
  BY <1>4, <1>5, <1>8
<1> QED
  BY <1>6, <1>7, <1>8 DEF o, less

-----------------------------------------------------------------------------
Scheduled == [on : BOOLEAN, note : Notes, out : Outputs]

\* Events as the file has them, the outputs forgotten.
Stripped(q) == [i \in DOMAIN q |-> [on |-> q[i].on, note |-> q[i].note]]

LEMMA StrippedType ==
  ASSUME NEW q \in Seq(Scheduled)
  PROVE  Stripped(q) \in Seq(Events) /\ (q = <<>> => Stripped(q) = <<>>)
<1>1. Len(q) \in Nat /\ DOMAIN q = 1 .. Len(q) /\ \A i \in 1 .. Len(q) : q[i] \in Scheduled
  OBVIOUS
<1>2. Stripped(q) \in [1 .. Len(q) -> Events]
  BY <1>1 DEF Stripped, Events, Scheduled
<1>3. Stripped(q) \in Seq(Events)
  BY <1>1, <1>2, SeqDef
<1>4. ASSUME q = <<>> PROVE Stripped(q) = <<>>
  <2>1. DOMAIN Stripped(q) = 1 .. Len(q) /\ Len(q) = 0
    BY <1>1, <1>4 DEF Stripped
  <2>2. Len(Stripped(q)) = 0
    BY <1>3, <2>1
  <2> QED
    BY <1>3, <2>2, EmptySeq
<1> QED
  BY <1>3, <1>4

LEMMA StrippedAppend ==
  ASSUME NEW q \in Seq(Scheduled), NEW e \in Scheduled
  PROVE  Stripped(Append(q, e)) = Append(Stripped(q), [on |-> e.on, note |-> e.note])
<1> DEFINE n == Len(q)
           r == Append(q, e)
           s == Stripped(q)
           d == [on |-> e.on, note |-> e.note]
           t == Append(s, d)
<1>1. /\ n \in Nat /\ DOMAIN q = 1 .. n /\ r \in Seq(Scheduled) /\ DOMAIN r = 1 .. n + 1
      /\ r[n + 1] = e /\ \A i \in 1 .. n : r[i] = q[i]
  BY AppendProperties
<1>2. /\ s \in Seq(Events) /\ DOMAIN s = 1 .. n /\ Len(s) = n /\ d \in Events
      /\ \A i \in 1 .. n : s[i] = [on |-> q[i].on, note |-> q[i].note]
  <2>1. s \in Seq(Events) /\ d \in Events
    BY StrippedType DEF Events, Scheduled
  <2>2. DOMAIN s = 1 .. n /\ \A i \in 1 .. n : s[i] = [on |-> q[i].on, note |-> q[i].note]
    BY <1>1 DEF Stripped
  <2>3. Len(s) = n
    BY <1>1, <2>1, <2>2
  <2> QED
    BY <2>1, <2>2, <2>3
<1> HIDE DEF n, r, s, d
<1>3. /\ t \in Seq(Events) /\ Len(t) = n + 1 /\ t[n + 1] = d /\ \A i \in 1 .. n : t[i] = s[i]
  BY <1>2, AppendProperties
<1>4. Stripped(r) \in Seq(Events) /\ Len(Stripped(r)) = n + 1
      /\ \A i \in 1 .. n + 1 : Stripped(r)[i] = [on |-> r[i].on, note |-> r[i].note]
  <2>1. DOMAIN Stripped(r) = 1 .. n + 1 /\ Stripped(r) \in Seq(Events)
        /\ \A i \in 1 .. n + 1 : Stripped(r)[i] = [on |-> r[i].on, note |-> r[i].note]
    BY <1>1, StrippedType DEF Stripped
  <2>2. Len(Stripped(r)) = n + 1
    BY <1>1, <2>1
  <2> QED
    BY <2>1, <2>2
<1>5. ASSUME NEW i \in 1 .. n + 1 PROVE Stripped(r)[i] = t[i]
  <2>1. CASE i = n + 1
    BY <1>1, <1>3, <1>4, <2>1 DEF d
  <2>2. CASE i # n + 1
    <3>1. i \in 1 .. n
      BY <1>1, <2>2
    <3> QED
      BY <1>1, <1>2, <1>3, <1>4, <3>1
  <2> QED
    BY <2>1, <2>2
<1>6. Stripped(r) = t
  <2> HIDE DEF t
  <2> QED
    BY <1>3, <1>4, <1>5, SeqEqual
<1> QED
  BY <1>6 DEF r, s, d

LEMMA StrippedTail ==
  ASSUME NEW q \in Seq(Scheduled), q # <<>>
  PROVE  /\ Stripped(q) # <<>> /\ Tail(q) \in Seq(Scheduled) /\ Head(q) \in Scheduled
         /\ Head(Stripped(q)) = [on |-> Head(q).on, note |-> Head(q).note]
         /\ Stripped(Tail(q)) = Tail(Stripped(q))
<1> DEFINE n == Len(q)
           r == Tail(q)
           s == Stripped(q)
           t == Tail(s)
<1>1. /\ n \in Nat /\ n > 0 /\ DOMAIN q = 1 .. n /\ r \in Seq(Scheduled) /\ DOMAIN r = 1 .. n - 1
      /\ Len(r) = n - 1 /\ Head(q) = q[1] /\ Head(q) \in Scheduled
      /\ \A i \in 1 .. n - 1 : r[i] = q[i + 1]
  BY HeadTailProperties
<1>2. /\ s \in Seq(Events) /\ DOMAIN s = 1 .. n /\ Len(s) = n
      /\ \A i \in 1 .. n : s[i] = [on |-> q[i].on, note |-> q[i].note]
  <2>1. s \in Seq(Events)
    BY StrippedType
  <2>2. DOMAIN s = 1 .. n /\ \A i \in 1 .. n : s[i] = [on |-> q[i].on, note |-> q[i].note]
    BY <1>1 DEF Stripped
  <2>3. Len(s) = n
    BY <1>1, <2>1, <2>2
  <2> QED
    BY <2>1, <2>2, <2>3
<1> HIDE DEF n, r, s
<1>3. /\ s # <<>> /\ Head(s) = s[1] /\ t \in Seq(Events) /\ Len(t) = n - 1
      /\ \A i \in 1 .. n - 1 : t[i] = s[i + 1]
  BY <1>1, <1>2, HeadTailProperties
<1>4. Head(s) = [on |-> Head(q).on, note |-> Head(q).note]
  BY <1>1, <1>2, <1>3
<1>5. /\ Stripped(r) \in Seq(Events) /\ DOMAIN Stripped(r) = 1 .. n - 1
      /\ \A i \in 1 .. n - 1 : Stripped(r)[i] = [on |-> r[i].on, note |-> r[i].note]
  BY <1>1, StrippedType DEF Stripped
<1>6. Len(Stripped(r)) = n - 1
  BY <1>1, <1>5
<1>7. ASSUME NEW i \in 1 .. n - 1 PROVE Stripped(r)[i] = t[i]
  <2>1. i + 1 \in 1 .. n
    BY <1>1
  <2> QED
    BY <1>1, <1>2, <1>3, <1>5, <2>1
<1>8. Stripped(r) = t
  <2> HIDE DEF t
  <2> QED
    BY <1>3, <1>5, <1>6, <1>7, SeqEqual
<1> QED
  BY <1>1, <1>3, <1>4, <1>8 DEF r, s

-----------------------------------------------------------------------------
LEMMA EnqueueType ==
  ASSUME RoutingTypeOK, NEW on \in BOOLEAN, NEW n \in Notes, Enqueue(on, n)
  PROVE  /\ split' \in [turns : [Notes -> 0 .. Cycle - 1], alternate : 0 .. Cycle - 1,
                        loads : [Outputs -> Nat], assigned : [Notes -> Seq(Nat \ {0})]]
         /\ routing.outs[IF on THEN Choice(n) ELSE NoteOffChoice(n)] \in Outputs
         /\ queue' \in Seq(Scheduled)
         /\ routing' \in Routings \cup {Unrouted} /\ sounding' \in [Outputs -> SUBSET Notes]
         /\ playing' \in BOOLEAN /\ excuses' \subseteq {"rescheduled", "rerouted", "carried"}
<1>1. split' \in [turns : [Notes -> 0 .. Cycle - 1], alternate : 0 .. Cycle - 1,
                  loads : [Outputs -> Nat], assigned : [Notes -> Seq(Nat \ {0})]]
  <2>1. CASE on
    <3>1. split' = Chosen(n)
      BY <2>1 DEF Enqueue
    <3>2. Chosen(n).turns \in [Notes -> 0 .. Cycle - 1] /\ Chosen(n).alternate \in 0 .. Cycle - 1
          /\ Chosen(n).loads \in [Outputs -> Nat] /\ Chosen(n).assigned \in [Notes -> Seq(Nat \ {0})]
          /\ Chosen(n) = [turns |-> Chosen(n).turns, alternate |-> Chosen(n).alternate,
                          loads |-> Chosen(n).loads, assigned |-> Chosen(n).assigned]
      BY ChosenType
    <3> QED
      BY <3>1, <3>2
  <2>2. CASE ~on
    <3>1. split' = Released(n)
      BY <2>2 DEF Enqueue
    <3> QED
      BY <3>1, ReleasedType
  <2> QED
    BY <2>1, <2>2
<1>2. routing.outs[IF on THEN Choice(n) ELSE NoteOffChoice(n)] \in Outputs
  <2>1. CASE on
    BY <2>1, ChoiceType, RoutingType DEF RoutingTypeOK
  <2>2. CASE ~on
    BY <2>2, NoteOffChoiceType, RoutingType DEF RoutingTypeOK
  <2> QED
    BY <2>1, <2>2
<1>3. queue' \in Seq(Scheduled)
  <2> DEFINE e == [on |-> on, note |-> n,
                   out |-> routing.outs[IF on THEN Choice(n) ELSE NoteOffChoice(n)]]
  <2>1. e \in Scheduled
    BY <1>2 DEF Scheduled
  <2>2. queue' = Append(queue, e) /\ queue \in Seq(Scheduled)
    BY DEF Enqueue, RoutingTypeOK, Scheduled
  <2> HIDE DEF e
  <2> QED
    BY <2>1, <2>2, AppendProperties
<1> QED
  BY <1>1, <1>2, <1>3 DEF Enqueue, RoutingTypeOK

LEMMA ResetType ==
  Fresh \in [turns : [Notes -> 0 .. Cycle - 1], alternate : 0 .. Cycle - 1,
             loads : [Outputs -> Nat], assigned : [Notes -> Seq(Nat \ {0})]]
<1>1. 0 \in 0 .. Cycle - 1 /\ <<>> \in Seq(Nat \ {0})
  BY RoutingAssumption, EmptySeq
<1> QED
  BY <1>1 DEF Fresh

LEMMA NotesOffType ==
  ASSUME RoutingTypeOK, AllNotesOff
  PROVE  sounding' \in [Outputs -> SUBSET Notes]
BY DEF RoutingTypeOK, AllNotesOff

(* Each variable keeps its type.                                           *)
LEMMA RoutingTypeStep ==
  ASSUME RoutingTypeOK, [RoutingNext]_routingVars
  PROVE  RoutingTypeOK'
<1> USE DEF RoutingTypeOK
<1>1. ASSUME NEW n \in Notes, NoteOn(n) PROVE RoutingTypeOK'
  <2>1. Enqueue(TRUE, n) /\ held' = [held EXCEPT ![n] = held[n] + 1] /\ again' = again
    BY <1>1 DEF NoteOn
  <2>2. held[n] + 1 \in Nat
    BY <1>1 DEF NoteOn
  <2>3. held' \in [Notes -> Nat]
    BY <2>1, <2>2
  <2> QED
    BY <2>1, <2>3, EnqueueType DEF Scheduled
<1>2. ASSUME NEW n \in Notes, NoteOff(n) PROVE RoutingTypeOK'
  <2>1. Enqueue(FALSE, n) /\ held' = [held EXCEPT ![n] = held[n] - 1] /\ again' = again
    BY <1>2 DEF NoteOff
  <2>2. held[n] - 1 \in Nat
    BY <1>2 DEF NoteOff
  <2>3. held' \in [Notes -> Nat]
    BY <2>1, <2>2
  <2> QED
    BY <2>1, <2>3, EnqueueType DEF Scheduled
<1>3. ASSUME Reschedule PROVE RoutingTypeOK'
  <2>1. again # <<>> /\ again \in Seq(Events) /\ Tail(again) \in Seq(Events) /\ Head(again) \in Events
    BY <1>3, HeadTailProperties DEF Reschedule
  <2>2. Enqueue(Head(again).on, Head(again).note) /\ held' = held /\ again' \in Seq(Events)
    BY <1>3, <2>1 DEF Reschedule
  <2>3. Head(again).on \in BOOLEAN /\ Head(again).note \in Notes
    BY <2>1 DEF Events
  <2> QED
    BY <2>2, <2>3, EnqueueType DEF Scheduled
<1>4. ASSUME Send PROVE RoutingTypeOK'
  <2>1. Tail(queue) \in Seq(Scheduled) /\ Head(queue) \in Scheduled
    BY <1>4, HeadTailProperties DEF Send, Scheduled
  <2>2. sounding' \in [Outputs -> SUBSET Notes]
    BY <1>4, <2>1 DEF Send, Scheduled
  <2> QED
    BY <1>4, <2>1, <2>2 DEF Send, Scheduled
<1>5. ASSUME Pause PROVE RoutingTypeOK'
  <2>1. again' = Stripped(queue) \o again /\ again' \in Seq(Events)
    BY <1>5, StrippedType, ConcatProperties DEF Pause, Stripped, Scheduled
  <2>2. sounding' \in [Outputs -> SUBSET Notes]
    BY <1>5, NotesOffType DEF Pause
  <2>3. queue' \in Seq(Scheduled)
    BY <1>5 DEF Pause
  <2> QED
    BY <1>5, <2>1, <2>2, <2>3 DEF Pause, Excused, Scheduled
<1>6. ASSUME Resume PROVE RoutingTypeOK'
  BY <1>6 DEF Resume
<1>7. ASSUME NEW on \in SUBSET Notes, Seek(on) PROVE RoutingTypeOK'
  <2>1. sounding' \in [Outputs -> SUBSET Notes]
    BY <1>7, NotesOffType DEF Seek
  <2>2. queue' \in Seq(Scheduled) /\ again' \in Seq(Events)
    BY <1>7 DEF Seek
  <2> QED
    BY <1>7, <2>1, <2>2, ResetType DEF Seek, Scheduled
<1>8. ASSUME NEW r \in Routings, Reroute(r) PROVE RoutingTypeOK'
  <2>1. sounding' \in [Outputs -> SUBSET Notes]
    BY <1>8, NotesOffType DEF Reroute
  <2> QED
    BY <1>8, <2>1 DEF Reroute
<1>9. ASSUME ClearRouting PROVE RoutingTypeOK'
  BY <1>9 DEF ClearRouting
<1>10. ASSUME UNCHANGED routingVars PROVE RoutingTypeOK'
  BY <1>10 DEF routingVars
<1> QED
  BY <1>1, <1>2, <1>3, <1>4, <1>5, <1>6, <1>7, <1>8, <1>9, <1>10 DEF RoutingNext

LEMMA RoutingTypeInit ==
  ASSUME RoutingInit
  PROVE  RoutingTypeOK
<1>1. split = Fresh /\ queue \in Seq(Scheduled) /\ again \in Seq(Events)
  BY DEF RoutingInit
<1> QED
  BY <1>1, ResetType DEF RoutingInit, RoutingTypeOK, Scheduled

(* Each variable has its type: every choice of a strategy is one of the    *)
(* routing's outputs, and every count stays a natural number.              *)
THEOREM RoutingTypeCorrect == RoutingSpec => []RoutingTypeOK
<1>1. RoutingInit => RoutingTypeOK
  BY RoutingTypeInit
<1>2. RoutingTypeOK /\ [RoutingNext]_routingVars => RoutingTypeOK'
  BY RoutingTypeStep
<1> QED
  BY <1>1, <1>2, PTL DEF RoutingSpec

-----------------------------------------------------------------------------
\* Decisions under which the output that overflows has no more than its share.
Fitting(r) == {a \in Decisions(r) : Overflowing(r) => Load(r, a, r.outs[1]) <= Share}

\* What an event does to the decisions, and where it goes.
DecideStep(r, a, e, b) ==
    \/ /\ e.on
       /\ \E d \in 1 .. Len(r.outs) :
             e.out = r.outs[d] /\ b = [a EXCEPT ![e.note] = Append(a[e.note], d)]
    \/ ~e.on /\ a[e.note] = <<>> /\ b = a
    \/ /\ ~e.on /\ a[e.note] # <<>>
       /\ e.out = r.outs[Head(a[e.note])] /\ b = [a EXCEPT ![e.note] = Tail(a[e.note])]

DecideSteps(r) ==
    {t \in Decisions(r) \X Scheduled \X Decisions(r) : DecideStep(r, t[1], t[2], t[3])}

\* What an event does to the notes that the file holds.
Counters == [Notes -> Nat]

HeldStep(a, e, b) ==
    IF e.on THEN b = [a EXCEPT ![e.note] = a[e.note] + 1]
    ELSE a[e.note] > 0 /\ b = [a EXCEPT ![e.note] = a[e.note] - 1]

HeldSteps == {t \in Counters \X Events \X Counters : HeldStep(t[1], t[2], t[3])}

LEMMA DecideSteps3 ==
  ASSUME NEW r, NEW a, NEW e, NEW b
  PROVE  <<a, e, b>> \in DecideSteps(r)
         <=> a \in Decisions(r) /\ e \in Scheduled /\ b \in Decisions(r) /\ DecideStep(r, a, e, b)
<1> DEFINE t == <<a, e, b>>
<1>1. t[1] = a /\ t[2] = e /\ t[3] = b
  OBVIOUS
<1>2. t \in Decisions(r) \X Scheduled \X Decisions(r)
      <=> a \in Decisions(r) /\ e \in Scheduled /\ b \in Decisions(r)
  OBVIOUS
<1> HIDE DEF t
<1>3. t \in DecideSteps(r)
      <=> t \in Decisions(r) \X Scheduled \X Decisions(r) /\ DecideStep(r, t[1], t[2], t[3])
  BY DEF DecideSteps
<1> QED
  BY <1>1, <1>2, <1>3, Zenon DEF t

LEMMA HeldSteps3 ==
  ASSUME NEW a, NEW e, NEW b
  PROVE  <<a, e, b>> \in HeldSteps
         <=> a \in Counters /\ e \in Events /\ b \in Counters /\ HeldStep(a, e, b)
<1> DEFINE t == <<a, e, b>>
<1>1. t[1] = a /\ t[2] = e /\ t[3] = b
  OBVIOUS
<1>2. t \in Counters \X Events \X Counters <=> a \in Counters /\ e \in Events /\ b \in Counters
  OBVIOUS
<1> HIDE DEF t
<1>3. t \in HeldSteps <=> t \in Counters \X Events \X Counters /\ HeldStep(t[1], t[2], t[3])
  BY DEF HeldSteps
<1> QED
  BY <1>1, <1>2, <1>3, Zenon DEF t

\* The notes s that sound are among the notes decided, on the outputs decided.
Heard(r, a, s) ==
    \A o \in Outputs : \A n \in s[o] : \E j \in 1 .. Len(a[n]) : r.outs[a[n][j]] = o

\* They are among the notes held, on the first output.
HeardFirst(r, a, s) ==
    \A o \in Outputs : \A n \in s[o] : o = r.outs[1] /\ a[n] > 0

\* The instruments s once the event was sent.
SoundingAfter(s, e) ==
    [s EXCEPT ![e.out] = IF e.on THEN s[e.out] \cup {e.note} ELSE s[e.out] \ {e.note}]

LEMMA HeardAfter ==
  ASSUME NEW r, NEW a, NEW e, NEW b, NEW s \in [Outputs -> SUBSET Notes],
         Heard(r, a, s), <<a, e, b>> \in DecideSteps(r)
  PROVE  Heard(r, b, SoundingAfter(s, e))
<1> DEFINE n == e.note
           T == 1 .. Len(r.outs)
<1>1. /\ a \in [Notes -> Seq(T)] /\ b \in [Notes -> Seq(T)] /\ e \in Scheduled
      /\ DecideStep(r, a, e, b)
  BY DecideSteps3 DEF Decisions
<1> HIDE DEF T
<1>2. /\ n \in Notes /\ e.out \in Outputs /\ a[n] \in Seq(T) /\ Len(a[n]) \in Nat
      /\ e.on \in BOOLEAN
  BY <1>1 DEF Scheduled
<1>3. SUFFICES ASSUME NEW o \in Outputs, NEW m \in SoundingAfter(s, e)[o]
               PROVE  \E j \in 1 .. Len(b[m]) : r.outs[b[m][j]] = o
  BY DEF Heard
<1>4. SoundingAfter(s, e)[o] = IF o = e.out THEN IF e.on THEN s[o] \cup {n} ELSE s[o] \ {n}
                               ELSE s[o]
  BY <1>1 DEF SoundingAfter, Scheduled
<1>5. m \in Notes
  BY <1>2, <1>3, <1>4
<1>6. m \in s[o] => \E j \in 1 .. Len(a[m]) : r.outs[a[m][j]] = o
  BY DEF Heard
<1>7. CASE e.on
  <2>1. PICK d \in 1 .. Len(r.outs) :
          e.out = r.outs[d] /\ b = [a EXCEPT ![n] = Append(a[n], d)]
    BY <1>1, <1>7 DEF DecideStep
  <2>2. CASE m # n
    <3>1. b[m] = a[m]
      BY <1>1, <1>5, <2>1, <2>2
    <3>2. m \in s[o]
      BY <1>3, <1>4, <2>2
    <3> QED
      BY <1>6, <3>1, <3>2
  <2>3. CASE m = n
    <3>1. b[n] = Append(a[n], d) /\ d \in T
      BY <1>1, <1>2, <2>1 DEF T
    <3>2. /\ Len(b[n]) = Len(a[n]) + 1 /\ b[n][Len(a[n]) + 1] = d
          /\ \A j \in 1 .. Len(a[n]) : b[n][j] = a[n][j]
      BY <1>2, <3>1, AppendProperties
    <3>3. CASE o = e.out
      <4>1. Len(a[n]) + 1 \in 1 .. Len(b[n])
        BY <1>2, <3>2
      <4>2. r.outs[b[n][Len(a[n]) + 1]] = o
        BY <2>1, <3>2, <3>3
      <4> QED
        BY <2>3, <4>1, <4>2
    <3>4. CASE o # e.out
      <4>1. m \in s[o]
        BY <1>3, <1>4, <3>4
      <4>2. PICK j \in 1 .. Len(a[n]) : r.outs[a[n][j]] = o
        BY <1>6, <2>3, <4>1
      <4>3. j \in 1 .. Len(b[n]) /\ b[n][j] = a[n][j]
        BY <1>2, <3>2
      <4> QED
        BY <2>3, <4>2, <4>3
    <3> QED
      BY <3>3, <3>4
  <2> QED
    BY <2>2, <2>3
<1>8. CASE ~e.on
  <2>1. m \in s[o] /\ (o = e.out => m # n)
    BY <1>3, <1>4, <1>8
  <2>2. PICK j \in 1 .. Len(a[m]) : r.outs[a[m][j]] = o
    BY <1>6, <2>1
  <2>3. CASE a[n] = <<>>
    BY <1>1, <1>8, <2>2, <2>3 DEF DecideStep
  <2>4. CASE a[n] # <<>>
    <3>1. e.out = r.outs[Head(a[n])] /\ b = [a EXCEPT ![n] = Tail(a[n])]
      BY <1>1, <1>8, <2>4 DEF DecideStep
    <3>2. CASE m # n
      BY <1>1, <1>5, <2>2, <3>1, <3>2
    <3>3. CASE m = n
      <4>1. /\ b[n] = Tail(a[n]) /\ Len(Tail(a[n])) = Len(a[n]) - 1 /\ Head(a[n]) = a[n][1]
            /\ \A i \in 1 .. Len(a[n]) - 1 : Tail(a[n])[i] = a[n][i + 1]
        BY <1>1, <1>2, <2>4, <3>1, HeadTailProperties
      <4>2. j # 1
        BY <2>1, <2>2, <3>1, <3>3, <4>1
      <4> DEFINE i == j - 1
      <4>3. i \in 1 .. Len(a[n]) - 1 /\ i + 1 = j
        BY <1>2, <2>2, <3>3, <4>2
      <4> HIDE DEF i
      <4>4. b[n][i] = a[n][j] /\ i \in 1 .. Len(b[n])
        BY <4>1, <4>3
      <4> QED
        BY <2>2, <3>3, <4>4
    <3> QED
      BY <3>2, <3>3
  <2> QED
    BY <2>3, <2>4
<1> QED
  BY <1>2, <1>7, <1>8

LEMMA HeardFirstAfter ==
  ASSUME NEW r, NEW a, NEW e \in Scheduled, NEW b, NEW s \in [Outputs -> SUBSET Notes],
         HeardFirst(r, a, s), e.out = r.outs[1],
         <<a, [on |-> e.on, note |-> e.note], b>> \in HeldSteps
  PROVE  HeardFirst(r, b, SoundingAfter(s, e))
<1> DEFINE n == e.note
<1>1. /\ a \in [Notes -> Nat] /\ b \in [Notes -> Nat]
      /\ HeldStep(a, [on |-> e.on, note |-> e.note], b)
  BY HeldSteps3 DEF Counters
<1>2. n \in Notes /\ e.out \in Outputs /\ e.on \in BOOLEAN /\ a[n] \in Nat
  BY <1>1 DEF Scheduled
<1>3. SUFFICES ASSUME NEW o \in Outputs, NEW m \in SoundingAfter(s, e)[o]
               PROVE  o = r.outs[1] /\ b[m] > 0
  BY DEF HeardFirst
<1>4. SoundingAfter(s, e)[o] = IF o = e.out THEN IF e.on THEN s[o] \cup {n} ELSE s[o] \ {n}
                               ELSE s[o]
  BY <1>2 DEF SoundingAfter
<1>5. m \in Notes /\ (m \in s[o] => o = r.outs[1] /\ a[m] > 0)
  BY <1>2, <1>3, <1>4 DEF HeardFirst
<1>6. CASE e.on
  <2>1. b = [a EXCEPT ![n] = a[n] + 1]
    BY <1>1, <1>6 DEF HeldStep
  <2>2. b[m] = IF m = n THEN a[n] + 1 ELSE a[m]
    BY <1>1, <1>5, <2>1
  <2>3. o = r.outs[1]
    BY <1>3, <1>4, <1>5
  <2>4. m = n \/ m \in s[o]
    BY <1>3, <1>4
  <2> QED
    BY <1>2, <1>5, <2>2, <2>3, <2>4
<1>7. CASE ~e.on
  <2>1. b = [a EXCEPT ![n] = a[n] - 1]
    BY <1>1, <1>7 DEF HeldStep
  <2>2. m \in s[o] /\ (o = e.out => m # n)
    BY <1>3, <1>4, <1>7
  <2>3. m # n
    BY <1>5, <2>2
  <2>4. b[m] = a[m]
    BY <1>1, <1>5, <2>1, <2>3
  <2> QED
    BY <1>5, <2>2, <2>4
<1> QED
  BY <1>2, <1>6, <1>7

-----------------------------------------------------------------------------
\* The loads are those of the decisions kept, where they are counted.
LoadsRight ==
    \A o \in Outputs : split.loads[o] = IF Counts THEN Load(routing, split.assigned, o) ELSE 0

\* b: the notes held before the events to be scheduled again.
Kept(b) ==
    IF Pairs
    THEN /\ \A n \in Notes : Len(split.assigned[n]) <= b[n]
         /\ \E a : /\ Routes(DecideSteps(routing), Fitting(routing), a, queue, split.assigned)
                   /\ Heard(routing, a, sounding)
    ELSE /\ Undecided
         /\ \A i \in 1 .. Len(queue) : queue[i].out = routing.outs[1]
         /\ \E a : /\ Routes(HeldSteps, Counters, a, Stripped(queue), b)
                   /\ HeardFirst(routing, a, sounding)

RoutingInv ==
    /\ RoutingTypeOK
    /\ excuses = {} =>
         /\ ~playing => queue = <<>> /\ Silent(sounding)
         /\ LoadsRight
         /\ \E b : Routes(HeldSteps, Counters, b, again, held) /\ Kept(b)

\* A note-on adds its decision, within the share.
LEMMA PairOn ==
  ASSUME RoutingTypeOK, Pairs, LoadsRight, NEW n \in Notes, split.assigned \in Fitting(routing),
         Len(split.assigned[n]) < MaxKept
  PROVE  LET b == [split.assigned EXCEPT ![n] = Append(split.assigned[n], Choice(n))]
         IN  /\ b \in Fitting(routing)
             /\ \A o \in Outputs : Chosen(n).loads[o] = IF Counts THEN Load(routing, b, o) ELSE 0
<1> DEFINE A == split.assigned
           d == Choice(n)
           outs == routing.outs
           b == With(A, n, d)
<1>1. /\ d \in 1 .. Len(outs) /\ A \in Decisions(routing)
      /\ outs[d] \in Outputs /\ outs[1] \in Outputs /\ Len(outs) \in Nat /\ Share \in Nat
  BY ChoiceType, RoutingType, RoutingAssumption DEF Fitting, RoutingTypeOK
<1>2. Chosen(n).loads = IF Counts THEN [split.loads EXCEPT ![outs[d]] = split.loads[outs[d]] + 1]
                        ELSE split.loads
  BY DEF Chosen
<1>3. split.loads \in [Outputs -> Nat]
  BY DEF RoutingTypeOK
<1>4. Overflowing(routing) =>
        /\ Counts /\ outs[1] # outs[2]
        /\ d = IF split.loads[outs[1]] >= Share THEN 2 ELSE 1
  BY DEF Overflowing, Counts, Choice, Overflows
<1>5. \A o \in Outputs : LET L == Load(routing, A, o) IN L \in Nat
  BY LoadType
<1> HIDE DEF d
<1> HIDE DEF A
<1>6. /\ b \in Decisions(routing)
      /\ \A o \in Outputs : Load(routing, b, o) = Load(routing, A, o) + (IF outs[d] = o THEN 1 ELSE 0)
  <2>1. A \in Decisions(routing) /\ d \in 1 .. Len(routing.outs) /\ Len(A[n]) < MaxKept
    BY <1>1 DEF A
  <2>2. ASSUME NEW o
        PROVE  /\ b \in Decisions(routing)
               /\ Load(routing, b, o) = Load(routing, A, o) + (IF outs[d] = o THEN 1 ELSE 0)
    BY <2>1, LoadMore
  <2> QED
    BY <1>1, <2>2
<1> HIDE DEF b, A, outs
<1>7. ASSUME Overflowing(routing) PROVE Load(routing, b, outs[1]) <= Share
  <2>1. split.loads[outs[1]] = Load(routing, A, outs[1]) /\ Load(routing, A, outs[1]) \in Nat
    BY <1>1, <1>4, <1>5, <1>7 DEF LoadsRight, A
  <2>2. Load(routing, A, outs[1]) <= Share
    BY <1>7 DEF Fitting, A, outs
  <2>3. Load(routing, b, outs[1]) = Load(routing, A, outs[1]) + (IF outs[d] = outs[1] THEN 1 ELSE 0)
    BY <1>1, <1>6
  <2>4. CASE split.loads[outs[1]] >= Share
    BY <1>4, <1>7, <2>2, <2>3, <2>4, <2>1
  <2>5. CASE ~(split.loads[outs[1]] >= Share)
    BY <1>1, <2>1, <2>3, <2>5
  <2> QED
    BY <2>4, <2>5
<1>8. ASSUME NEW o \in Outputs
      PROVE  Chosen(n).loads[o] = IF Counts THEN Load(routing, b, o) ELSE 0
  <2>1. split.loads[o] = IF Counts THEN Load(routing, A, o) ELSE 0
    BY DEF LoadsRight, A
  <2>2. Load(routing, b, o) = Load(routing, A, o) + (IF outs[d] = o THEN 1 ELSE 0)
        /\ Load(routing, A, o) \in Nat
    BY <1>5, <1>6
  <2>3. CASE Counts /\ o = outs[d]
    BY <1>1, <1>2, <1>3, <2>1, <2>2, <2>3
  <2>4. CASE Counts /\ o # outs[d]
    BY <1>1, <1>2, <1>3, <2>1, <2>2, <2>4
  <2>5. CASE ~Counts
    BY <1>2, <2>1, <2>5
  <2> QED
    BY <2>3, <2>4, <2>5
<1>9. b \in Fitting(routing)
  BY <1>6, <1>7 DEF Fitting, outs
<1> QED
  BY <1>8, <1>9 DEF b, A, d, With

\* A note-off takes the oldest decision of its pitch away.
LEMMA PairOff ==
  ASSUME RoutingTypeOK, Pairs, LoadsRight, NEW n \in Notes, split.assigned \in Fitting(routing)
  PROVE  LET b == Released(n).assigned
         IN  /\ b \in Fitting(routing)
             /\ \A o \in Outputs : Released(n).loads[o] = IF Counts THEN Load(routing, b, o) ELSE 0
             /\ split.assigned[n] # <<>> =>
                  /\ NoteOffChoice(n) = Head(split.assigned[n])
                  /\ b = [split.assigned EXCEPT ![n] = Tail(split.assigned[n])]
             /\ split.assigned[n] = <<>> => b = split.assigned
<1> DEFINE A == split.assigned
           d == Head(A[n])
           outs == routing.outs
           b == Without(A, n)
           o0 == outs[NoteOffChoice(n)]
<1>1. /\ A \in Decisions(routing) /\ DOMAIN outs = 1 .. Len(outs)
      /\ outs[1] \in Outputs /\ Share \in Nat
  BY RoutingType, RoutingAssumption DEF Fitting, RoutingTypeOK
<1>2. split.loads \in [Outputs -> Nat]
  BY DEF RoutingTypeOK
<1>3. /\ Released(n).assigned = IF A[n] # <<>> THEN b ELSE A
      /\ Released(n).loads = IF Counts /\ Tracked(n)
                             THEN [split.loads EXCEPT ![o0] = IF split.loads[o0] > 0 THEN split.loads[o0] - 1 ELSE 0]
                             ELSE split.loads
  BY ReleasedType DEF Without
<1>4. CASE A[n] = <<>>
  <2>1. ~Tracked(n)
    BY <1>4 DEF Tracked
  <2>2. Released(n).assigned = A /\ Released(n).loads = split.loads
    BY <1>3, <1>4, <2>1
  <2> QED
    BY <1>4, <2>2 DEF LoadsRight
<1>5. CASE A[n] # <<>>
  <2>1. /\ b \in Decisions(routing) /\ d \in 1 .. Len(outs)
        /\ \A o \in Outputs : Load(routing, A, o) = Load(routing, b, o) + (IF outs[d] = o THEN 1 ELSE 0)
    <3> HIDE DEF A
    <3>1. A \in Decisions(routing) /\ A[n] # <<>>
      BY <1>1, <1>5
    <3>2. ASSUME NEW o
          PROVE  /\ b \in Decisions(routing) /\ d \in 1 .. Len(outs)
                 /\ Load(routing, A, o) = Load(routing, b, o) + (IF outs[d] = o THEN 1 ELSE 0)
      BY <3>1, LoadLess
    <3> QED
      BY <1>1, <3>2
  <2>2. Tracked(n) /\ NoteOffChoice(n) = d
    BY <1>1, <1>5, <2>1 DEF Tracked, NoteOffChoice
  <2>3. \A o \in Outputs : Load(routing, b, o) \in Nat
    BY LoadType
  <2>4. outs[d] \in Outputs
    BY <2>1, RoutingType DEF RoutingTypeOK
  <2>5. Released(n).assigned = b
    BY <1>3, <1>5
  <2>6. Released(n).loads = IF Counts THEN [split.loads EXCEPT ![outs[d]] =
                              IF split.loads[outs[d]] > 0 THEN split.loads[outs[d]] - 1 ELSE 0]
                            ELSE split.loads
    BY <1>3, <2>2
  <2> HIDE DEF A, b, d, outs
  <2>7. ASSUME NEW o \in Outputs
        PROVE  Released(n).loads[o] = IF Counts THEN Load(routing, b, o) ELSE 0
    <3>1. split.loads[o] = IF Counts THEN Load(routing, A, o) ELSE 0
      BY DEF LoadsRight, A
    <3>2. Load(routing, A, o) = Load(routing, b, o) + (IF outs[d] = o THEN 1 ELSE 0)
          /\ Load(routing, b, o) \in Nat
      BY <2>1, <2>3
    <3>3. CASE Counts /\ o = outs[d]
      <4>1. split.loads[o] = Load(routing, b, o) + 1
        BY <3>1, <3>2, <3>3
      <4> QED
        BY <1>2, <2>4, <2>6, <3>2, <3>3, <4>1
    <3>4. CASE Counts /\ o # outs[d]
      BY <1>2, <2>4, <2>6, <3>1, <3>2, <3>4
    <3>5. CASE ~Counts
      BY <2>6, <3>1, <3>5
    <3> QED
      BY <3>3, <3>4, <3>5
  <2>8. ASSUME Overflowing(routing) PROVE Load(routing, b, outs[1]) <= Share
    <3>1. Load(routing, A, outs[1]) <= Share
      BY <2>8 DEF Fitting, A, outs
    <3>2. Load(routing, A, outs[1]) = Load(routing, b, outs[1]) + (IF outs[d] = outs[1] THEN 1 ELSE 0)
          /\ Load(routing, b, outs[1]) \in Nat
      BY <1>1, <2>1, <2>3
    <3> QED
      BY <1>1, <3>1, <3>2
  <2>9. b \in Fitting(routing)
    BY <2>1, <2>8 DEF Fitting, outs
  <2> QED
    BY <1>5, <2>2, <2>5, <2>7, <2>9 DEF b, d, A, Without
<1> QED
  BY <1>4, <1>5

-----------------------------------------------------------------------------
\* An event is scheduled: the notes held change from b to c.
LEMMA EnqueueKeeps ==
  ASSUME RoutingTypeOK, LoadsRight, NEW on \in BOOLEAN, NEW n \in Notes, Enqueue(on, n),
         NEW b, NEW c, <<b, [on |-> on, note |-> n], c>> \in HeldSteps, Kept(b)
  PROVE  LoadsRight' /\ Kept(c)'
<1> DEFINE A == split.assigned
           out == routing.outs[IF on THEN Choice(n) ELSE NoteOffChoice(n)]
           e == [on |-> on, note |-> n, out |-> out]
<1>1. /\ routing' = routing /\ sounding' = sounding
      /\ Pairs' = Pairs /\ Counts' = Counts
      /\ queue' = Append(queue, e) /\ queue \in Seq(Scheduled)
      /\ split' = IF on THEN Chosen(n) ELSE Released(n)
      /\ on => Len(split.assigned[n]) < MaxKept
  BY DEF Enqueue, RoutingTypeOK, Scheduled, Pairs, Counts
<1>2. e \in Scheduled /\ e.on = on /\ e.note = n /\ e.out = out
  BY EnqueueType DEF Scheduled
<1>3. /\ b \in [Notes -> Nat] /\ c \in [Notes -> Nat]
      /\ c = [b EXCEPT ![n] = IF on THEN b[n] + 1 ELSE b[n] - 1]
  BY HeldSteps3 DEF HeldStep, Counters
<1>4. A \in [Notes -> Seq(Nat \ {0})]
  BY DEF RoutingTypeOK
<1> HIDE DEF A, e
<1>5. CASE Pairs
  <2>1. /\ \A m \in Notes : Len(A[m]) <= b[m]
        /\ \E a : /\ Routes(DecideSteps(routing), Fitting(routing), a, queue, A)
                  /\ Heard(routing, a, sounding)
    BY <1>5 DEF Kept, A
  <2>2. PICK a : /\ Routes(DecideSteps(routing), Fitting(routing), a, queue, A)
                 /\ Heard(routing, a, sounding)
    BY <2>1
  <2>3. A \in Fitting(routing)
    BY <1>1, <2>2, RouteEnds
  <2>4. A \in Decisions(routing)
    BY <2>3 DEF Fitting
  <2> DEFINE B == split'.assigned
  <2>5. /\ B \in Fitting(routing) /\ DecideStep(routing, A, e, B)
        /\ \A o \in Outputs : split'.loads[o] = IF Counts THEN Load(routing, B, o) ELSE 0
        /\ \A m \in Notes : Len(B[m]) <= c[m]
    <3>1. CASE on
      <4>1. B = [A EXCEPT ![n] = Append(A[n], Choice(n))] /\ split' = Chosen(n)
        BY <1>1, <1>5, <3>1 DEF Chosen, A
      <4>2. B \in Fitting(routing)
            /\ \A o \in Outputs : split'.loads[o] = IF Counts THEN Load(routing, B, o) ELSE 0
        BY <1>1, <1>5, <2>3, <3>1, <4>1, PairOn DEF A
      <4>3. Choice(n) \in 1 .. Len(routing.outs) /\ e.out = routing.outs[Choice(n)]
        BY <1>2, <3>1, ChoiceType
      <4>4. DecideStep(routing, A, e, B)
        BY <1>2, <3>1, <4>1, <4>3 DEF DecideStep
      <4>5. ASSUME NEW m \in Notes PROVE Len(B[m]) <= c[m]
        <5>1. CASE m = n
          <6>1. Choice(n) \in Nat \ {0} /\ A[n] \in Seq(Nat \ {0})
            <7>1. Choice(n) \in Nat \ {0}
              <8> DEFINE k == Choice(n)
                         l == Len(routing.outs)
              <8>1. k \in 1 .. l /\ l \in Nat
                BY <4>3, RoutingType DEF RoutingTypeOK
              <8> HIDE DEF k, l
              <8>2. k \in Nat \ {0}
                BY <8>1
              <8> QED
                BY <8>2 DEF k
            <7> QED
              BY <1>4, <7>1
          <6>2. B[n] = Append(A[n], Choice(n)) /\ c[n] = b[n] + 1
            BY <1>3, <1>4, <3>1, <4>1
          <6>3. Len(B[n]) = Len(A[n]) + 1 /\ Len(A[n]) \in Nat
            BY <6>1, <6>2, AppendProperties
          <6> QED
            BY <1>3, <2>1, <5>1, <6>2, <6>3
        <5>2. CASE m # n
          BY <1>3, <1>4, <2>1, <4>1, <5>2
        <5> QED
          BY <5>1, <5>2
      <4> QED
        BY <4>2, <4>4, <4>5
    <3>2. CASE ~on
      <4>1. split' = Released(n) /\ e.out = routing.outs[NoteOffChoice(n)]
        BY <1>1, <1>2, <3>2
      <4>2. /\ B \in Fitting(routing)
            /\ \A o \in Outputs : split'.loads[o] = IF Counts THEN Load(routing, B, o) ELSE 0
            /\ A[n] # <<>> => /\ NoteOffChoice(n) = Head(A[n])
                              /\ B = [A EXCEPT ![n] = Tail(A[n])]
            /\ A[n] = <<>> => B = A
        BY <1>5, <2>3, <4>1, PairOff DEF A
      <4>3. DecideStep(routing, A, e, B)
        BY <1>2, <3>2, <4>1, <4>2 DEF DecideStep
      <4>4. b[n] > 0 /\ c[n] = b[n] - 1
        BY <1>3, <3>2, HeldSteps3 DEF HeldStep
      <4>5. ASSUME NEW m \in Notes PROVE Len(B[m]) <= c[m]
        <5>1. CASE m = n /\ A[n] = <<>>
          BY <1>3, <4>2, <4>4, <5>1
        <5>2. CASE m = n /\ A[n] # <<>>
          <6>1. A[n] \in Seq(Nat \ {0})
            BY <1>4
          <6>2. B[n] = Tail(A[n])
            BY <1>4, <4>2, <5>2
          <6>3. Len(B[n]) = Len(A[n]) - 1 /\ Len(A[n]) \in Nat
            BY <5>2, <6>1, <6>2, HeadTailProperties
          <6> QED
            BY <1>3, <2>1, <4>4, <5>2, <6>3
        <5>3. CASE m # n
          <6>1. B[m] = A[m] /\ c[m] = b[m]
            BY <1>3, <1>4, <4>2, <5>3
          <6> QED
            BY <2>1, <6>1
        <5> QED
          BY <5>1, <5>2, <5>3
      <4> QED
        BY <4>2, <4>3, <4>5
    <3> QED
      BY <3>1, <3>2
  <2>6. B \in Decisions(routing)
    BY <2>5 DEF Fitting
  <2>7. <<A, e, B>> \in DecideSteps(routing)
    BY <1>2, <2>4, <2>5, <2>6, DecideSteps3
  <2>8. Routes(DecideSteps(routing), Fitting(routing), a, queue', B)
    <3> HIDE DEF B
    <3> QED
      BY <1>1, <1>2, <2>2, <2>5, <2>7, RouteOn
  <2>9. LoadsRight'
    BY <1>1, <2>5 DEF LoadsRight
  <2>10. Kept(c)'
    BY <1>1, <1>5, <2>2, <2>5, <2>8 DEF Kept
  <2> QED
    BY <2>9, <2>10
<1>6. CASE ~Pairs
  <2>1. /\ Undecided
        /\ \A i \in 1 .. Len(queue) : queue[i].out = routing.outs[1]
        /\ \E a : /\ Routes(HeldSteps, Counters, a, Stripped(queue), b)
                  /\ HeardFirst(routing, a, sounding)
    BY <1>6 DEF Kept
  <2>2. PICK a : /\ Routes(HeldSteps, Counters, a, Stripped(queue), b)
                 /\ HeardFirst(routing, a, sounding)
    BY <2>1
  <2>3. ~Counts /\ Choice(n) = 1 /\ NoteOffChoice(n) = 1
    BY <1>6, RoutingType DEF Pairs, Counts, Choice, NoteOffChoice
  <2>4. split'.loads = split.loads /\ split'.assigned = split.assigned
    BY <1>1, <1>6, <2>3, ChosenType, ReleasedType
  <2>5. Undecided' /\ LoadsRight'
    BY <1>1, <2>1, <2>3, <2>4 DEF Undecided, LoadsRight
  <2>6. ASSUME NEW i \in 1 .. Len(queue') PROVE queue'[i].out = routing.outs[1]
    <3>1. /\ Len(queue') = Len(queue) + 1 /\ queue'[Len(queue) + 1] = e /\ Len(queue) \in Nat
          /\ \A j \in 1 .. Len(queue) : queue'[j] = queue[j]
      BY <1>1, <1>2, AppendProperties
    <3>2. CASE i = Len(queue) + 1
      BY <1>2, <2>3, <3>1, <3>2
    <3>3. CASE i # Len(queue) + 1
      BY <2>1, <3>1, <3>3
    <3> QED
      BY <3>2, <3>3
  <2> DEFINE d == [on |-> on, note |-> n]
             s == Stripped(queue)
  <2>7. d \in Events /\ s \in Seq(Events) /\ Stripped(queue') = Append(s, d)
    BY <1>1, <1>2, StrippedType, StrippedAppend DEF Events
  <2>8. c \in Counters
    BY <1>3 DEF Counters
  <2>9. Routes(HeldSteps, Counters, a, Stripped(queue'), c)
    <3> HIDE DEF d, s
    <3>1. <<b, d, c>> \in HeldSteps /\ Routes(HeldSteps, Counters, a, s, b)
      BY <2>2 DEF d, s
    <3> QED
      BY <2>7, <2>8, <3>1, RouteOn
  <2>10. Kept(c)'
    BY <1>1, <1>6, <2>2, <2>5, <2>6, <2>9 DEF Kept
  <2> QED
    BY <2>5, <2>10
<1> QED
  BY <1>5, <1>6

\* A timer fires.
LEMMA SendKeeps ==
  ASSUME RoutingTypeOK, Send, NEW b, Kept(b)
  PROVE  Kept(b)'
<1> DEFINE e == Head(queue)
           T == Tail(queue)
<1>1. /\ routing' = routing /\ split' = split /\ Pairs' = Pairs /\ queue # <<>>
      /\ queue' = T /\ queue \in Seq(Scheduled) /\ sounding \in [Outputs -> SUBSET Notes]
  BY DEF Send, RoutingTypeOK, Scheduled, Pairs
<1>2. e \in Scheduled /\ T \in Seq(Scheduled)
  BY <1>1, HeadTailProperties
<1>3. sounding' = SoundingAfter(sounding, e)
  BY DEF Send, SoundingAfter
<1> HIDE DEF e, T
<1>4. CASE Pairs
  <2>1. PICK a : /\ Routes(DecideSteps(routing), Fitting(routing), a, queue, split.assigned)
                 /\ Heard(routing, a, sounding)
    BY <1>4 DEF Kept
  <2>2. PICK c \in Fitting(routing) :
          /\ <<a, e, c>> \in DecideSteps(routing)
          /\ Routes(DecideSteps(routing), Fitting(routing), c, T, split.assigned)
    BY <1>1, <2>1, RouteFrom DEF e, T
  <2>3. Heard(routing, c, sounding')
    BY <1>1, <1>3, <2>1, <2>2, HeardAfter
  <2> QED
    BY <1>1, <1>4, <2>2, <2>3 DEF Kept
<1>5. CASE ~Pairs
  <2>1. /\ Undecided
        /\ \A i \in 1 .. Len(queue) : queue[i].out = routing.outs[1]
        /\ \E a : /\ Routes(HeldSteps, Counters, a, Stripped(queue), b)
                  /\ HeardFirst(routing, a, sounding)
    BY <1>5 DEF Kept
  <2>2. PICK a : /\ Routes(HeldSteps, Counters, a, Stripped(queue), b)
                 /\ HeardFirst(routing, a, sounding)
    BY <2>1
  <2>3. /\ Len(queue) \in Nat /\ Len(queue) > 0 /\ Len(T) = Len(queue) - 1 /\ e = queue[1]
        /\ \A i \in 1 .. Len(queue) - 1 : T[i] = queue[i + 1]
    BY <1>1, HeadTailProperties DEF e, T
  <2>4. e.out = routing.outs[1]
    BY <2>1, <2>3
  <2>5. ASSUME NEW i \in 1 .. Len(T) PROVE T[i].out = routing.outs[1]
    <3>1. i \in 1 .. Len(queue) - 1 /\ i + 1 \in 1 .. Len(queue)
      BY <2>3
    <3> QED
      BY <2>1, <2>3, <3>1
  <2> DEFINE d == [on |-> e.on, note |-> e.note]
             s == Stripped(queue)
  <2>6. s \in Seq(Events) /\ s # <<>> /\ Head(s) = d /\ Tail(s) = Stripped(T)
    BY <1>1, StrippedType, StrippedTail DEF e, T
  <2> HIDE DEF d, s
  <2>7. PICK c \in Counters :
          <<a, Head(s), c>> \in HeldSteps /\ Routes(HeldSteps, Counters, c, Tail(s), b)
    BY <2>2, <2>6, RouteFrom DEF s
  <2>8. HeardFirst(routing, c, sounding')
    BY <1>1, <1>2, <1>3, <2>2, <2>4, <2>6, <2>7, HeardFirstAfter DEF d
  <2>9. Undecided'
    BY <1>1, <2>1 DEF Undecided
  <2> QED
    BY <1>1, <1>5, <2>5, <2>6, <2>7, <2>8, <2>9 DEF Kept
<1> QED
  BY <1>4, <1>5

\* What sounds is on the outputs of the routing.
LEMMA OnTheRouting ==
  ASSUME RoutingTypeOK, NEW b, Kept(b), AllNotesOff
  PROVE  \A o \in Outputs : sounding'[o] = {}
<1> SUFFICES ASSUME NEW o \in Outputs, o \notin Range(routing.outs)
             PROVE  sounding[o] = {}
  BY DEF AllNotesOff
<1>1. /\ DOMAIN routing.outs = 1 .. Len(routing.outs) /\ 1 \in DOMAIN routing.outs
      /\ queue \in Seq(Scheduled)
  BY RoutingType DEF RoutingTypeOK, Scheduled
<1>2. \A j \in DOMAIN routing.outs : routing.outs[j] # o
  BY DEF Range
<1>3. CASE Pairs
  <2>1. PICK a : /\ Routes(DecideSteps(routing), Fitting(routing), a, queue, split.assigned)
                 /\ Heard(routing, a, sounding)
    BY <1>3 DEF Kept
  <2>2. a \in Fitting(routing)
    BY <1>1, <2>1, RouteEnds
  <2>3. a \in [Notes -> Seq(1 .. Len(routing.outs))]
    BY <2>2 DEF Fitting, Decisions
  <2>4. ASSUME NEW n \in sounding[o] PROVE FALSE
    <3>1. n \in Notes
      BY DEF RoutingTypeOK
    <3>2. PICK j \in 1 .. Len(a[n]) : routing.outs[a[n][j]] = o
      BY <2>1 DEF Heard
    <3>3. a[n] \in Seq(1 .. Len(routing.outs))
      BY <2>3, <3>1
    <3>4. a[n][j] \in 1 .. Len(routing.outs)
      BY <3>2, <3>3
    <3> QED
      BY <1>1, <1>2, <3>2, <3>4
  <2> QED
    BY <2>4
<1>4. CASE ~Pairs
  BY <1>1, <1>2, <1>4 DEF Kept, HeardFirst
<1> QED
  BY <1>3, <1>4

-----------------------------------------------------------------------------
LEMMA SameNowhere ==
  ASSUME NEW b \in Counters
  PROVE  Routes(HeldSteps, Counters, b, <<>>, b)
BY RouteNowhere

\* Nothing decided, nothing scheduled, nothing sounding.
Afresh == Undecided /\ queue = <<>> /\ Silent(sounding)

LEMMA AfreshKeeps ==
  RoutingTypeOK /\ Afresh => LoadsRight /\ \A b \in Counters : Kept(b)
<1> SUFFICES ASSUME RoutingTypeOK, Afresh
             PROVE  LoadsRight /\ \A b \in Counters : Kept(b)
  OBVIOUS
<1> DEFINE A == split.assigned
<1>1. /\ \A o \in Outputs : split.loads[o] = 0 /\ sounding[o] = {}
      /\ \A n \in Notes : A[n] = <<>>
      /\ queue = <<>> /\ A \in [Notes -> Seq(Nat \ {0})]
      /\ Share \in Nat /\ MaxKept \in Nat
  BY RoutingAssumption DEF Afresh, Undecided, Silent, RoutingTypeOK
<1> HIDE DEF A
<1>2. \A o : Load(routing, A, o) = 0
  BY <1>1, LoadNone
<1>3. LoadsRight
  BY <1>1, <1>2 DEF LoadsRight, A
<1>4. A \in Fitting(routing)
  <2>1. \A n \in Notes : A[n] \in Seq(1 .. Len(routing.outs)) /\ Len(A[n]) = 0
    BY <1>1, EmptySeq
  <2>2. A \in [Notes -> Seq(1 .. Len(routing.outs))]
    BY <1>1, <2>1
  <2>3. A \in Decisions(routing)
    BY <1>1, <2>1, <2>2 DEF Decisions
  <2> QED
    BY <1>1, <1>2, <2>3 DEF Fitting
<1>5. ASSUME NEW b \in Counters PROVE Kept(b)
  <2>1. CASE Pairs
    <3>1. Routes(DecideSteps(routing), Fitting(routing), A, queue, A)
      BY <1>1, <1>4, RouteNowhere
    <3>2. Heard(routing, A, sounding)
      BY <1>1 DEF Heard
    <3>3. \A n \in Notes : Len(A[n]) <= b[n]
      BY <1>1, EmptySeq DEF Counters
    <3> QED
      BY <2>1, <3>1, <3>2, <3>3 DEF Kept, A
  <2>2. CASE ~Pairs
    <3>1. Stripped(queue) = <<>> /\ Len(queue) = 0
      BY <1>1, StrippedType, EmptySeq
    <3>2. Routes(HeldSteps, Counters, b, Stripped(queue), b)
      BY <3>1, SameNowhere
    <3>3. HeardFirst(routing, b, sounding)
      BY <1>1 DEF HeardFirst
    <3>4. Undecided
      BY DEF Afresh
    <3> QED
      BY <2>2, <3>1, <3>2, <3>3, <3>4 DEF Kept
  <2> QED
    BY <2>1, <2>2
<1> QED
  BY <1>3, <1>5

LEMMA AfreshKeepsNext ==
  RoutingTypeOK' /\ Afresh' => LoadsRight' /\ (\A b \in Counters : Kept(b))'
BY AfreshKeeps, PTL

LEMMA FreshIsUndecided ==
  ASSUME split = Fresh
  PROVE  Undecided
BY DEF Fresh, Undecided

LEMMA FreshIsUndecidedNext ==
  ASSUME split' = Fresh
  PROVE  Undecided'
BY DEF Fresh, Undecided

LEMMA RoutingInvInit ==
  ASSUME RoutingInit
  PROVE  RoutingInv
<1>1. RoutingTypeOK
  BY RoutingTypeInit
<1>2. Afresh
  BY FreshIsUndecided DEF RoutingInit, Afresh, Silent
<1>3. held \in Counters /\ again = <<>> /\ playing
  BY <1>1 DEF RoutingInit, RoutingTypeOK, Counters
<1> QED
  BY <1>1, <1>2, <1>3, AfreshKeeps, SameNowhere DEF RoutingInv

\* A note-on or a note-off of the file.
LEMMA PlayedKeeps ==
  ASSUME RoutingTypeOK, RoutingTypeOK', LoadsRight, NEW on \in BOOLEAN, NEW n \in Notes,
         Enqueue(on, n), again = <<>>, again' = again,
         on \/ held[n] > 0, held' = [held EXCEPT ![n] = IF on THEN held[n] + 1 ELSE held[n] - 1],
         NEW b, Routes(HeldSteps, Counters, b, again, held), Kept(b)
  PROVE  LoadsRight' /\ \E c : Routes(HeldSteps, Counters, c, again', held') /\ Kept(c)'
<1> DEFINE d == [on |-> on, note |-> n]
<1>1. b = held /\ held \in Counters
  BY RouteNowhere
<1>2. PICK c : c = held'
  OBVIOUS
<1>3. c \in Counters /\ d \in Events /\ d.on = on /\ d.note = n
  BY <1>2 DEF RoutingTypeOK, Counters, Events
<1>4. HeldStep(b, d, c)
  BY <1>1, <1>2, <1>3 DEF HeldStep
<1>5. b \in Counters
  BY <1>1
<1> HIDE DEF d
<1>6. <<b, d, c>> \in HeldSteps
  BY <1>3, <1>4, <1>5, HeldSteps3
<1>7. LoadsRight' /\ Kept(c)'
  BY <1>6, EnqueueKeeps DEF d
<1>8. Routes(HeldSteps, Counters, c, again', held')
  BY <1>2, <1>3, SameNowhere
<1> QED
  BY <1>7, <1>8

\* An event that a pause cancelled.
LEMMA RescheduleKeeps ==
  ASSUME RoutingTypeOK, LoadsRight, Reschedule,
         NEW b, Routes(HeldSteps, Counters, b, again, held), Kept(b)
  PROVE  LoadsRight' /\ \E c : Routes(HeldSteps, Counters, c, again', held') /\ Kept(c)'
<1> DEFINE d == Head(again)
<1>1. again \in Seq(Events) /\ again # <<>> /\ again' = Tail(again) /\ held' = held
  BY DEF RoutingTypeOK, Reschedule
<1>2. PICK c \in Counters : /\ <<b, Head(again), c>> \in HeldSteps
                            /\ Routes(HeldSteps, Counters, c, Tail(again), held)
  BY <1>1, RouteFrom
<1>3. d \in Events /\ Enqueue(d.on, d.note)
  BY <1>1, HeadTailProperties DEF Reschedule
<1> HIDE DEF d
<1>4. d.on \in BOOLEAN /\ d.note \in Notes /\ d = [on |-> d.on, note |-> d.note]
  BY <1>3 DEF Events
<1>5. <<b, [on |-> d.on, note |-> d.note], c>> \in HeldSteps
  BY <1>2, <1>4 DEF d
<1>6. LoadsRight' /\ Kept(c)'
  BY <1>3, <1>4, <1>5, EnqueueKeeps
<1> QED
  BY <1>1, <1>2, <1>6

LEMMA PauseKeeps ==
  ASSUME RoutingTypeOK, RoutingTypeOK', LoadsRight, Pause, excuses' = {},
         NEW b, Routes(HeldSteps, Counters, b, again, held), Kept(b)
  PROVE  /\ LoadsRight' /\ queue' = <<>> /\ Silent(sounding)'
         /\ \E c : Routes(HeldSteps, Counters, c, again', held') /\ Kept(c)'
<1>1. /\ routing' = routing /\ split' = split /\ held' = held /\ queue' = <<>>
      /\ Pairs' = Pairs /\ Counts' = Counts
      /\ queue \in Seq(Scheduled) /\ again \in Seq(Events)
      /\ again' = Stripped(queue) \o again
  BY DEF Pause, RoutingTypeOK, Pairs, Counts, Scheduled, Stripped
<1>2. \A o \in Outputs : sounding'[o] = {}
  BY OnTheRouting DEF Pause
<1>3. ~Pairs \/ queue = <<>>
  BY DEF Pause, Excused
<1>4. LoadsRight' /\ Silent(sounding)'
  BY <1>1, <1>2 DEF LoadsRight, Silent
<1>5. CASE Pairs
  <2>1. Stripped(queue) = <<>> /\ queue = <<>>
    BY <1>1, <1>3, <1>5, StrippedType
  <2>2. again' = again
    BY <1>1, <2>1, ConcatEmptySeq
  <2>3. PICK a : Routes(DecideSteps(routing), Fitting(routing), a, queue, split.assigned)
    BY <1>5 DEF Kept
  <2>4. Heard(routing, a, sounding')
    BY <1>2 DEF Heard
  <2>5. Kept(b)'
    BY <1>1, <1>5, <2>1, <2>3, <2>4 DEF Kept
  <2> QED
    BY <1>1, <1>4, <2>2, <2>5
<1>6. CASE ~Pairs
  <2>1. PICK a : Routes(HeldSteps, Counters, a, Stripped(queue), b)
    BY <1>6 DEF Kept
  <2>2. Stripped(queue) \in Seq(Events)
    BY <1>1, StrippedType
  <2>3. Routes(HeldSteps, Counters, a, again', held') /\ a \in Counters
    BY <1>1, <2>1, <2>2, RouteJoin, RouteEnds
  <2>4. Undecided /\ Undecided'
    BY <1>1, <1>6 DEF Kept, Undecided
  <2>5. Kept(a)'
    BY <1>1, <1>4, <2>3, <2>4, AfreshKeepsNext DEF Afresh
  <2> QED
    BY <1>1, <1>4, <2>3, <2>5
<1> QED
  BY <1>5, <1>6

\* New routings, when none of what the old one decided is left.
LEMMA RerouteKeeps ==
  ASSUME RoutingTypeOK, RoutingTypeOK', NEW r \in Routings, Reroute(r), excuses' = {},
         ~playing => Silent(sounding),
         NEW b, Routes(HeldSteps, Counters, b, again, held), Kept(b)
  PROVE  /\ LoadsRight' /\ queue' = <<>> /\ Silent(sounding)'
         /\ \E c : Routes(HeldSteps, Counters, c, again', held') /\ Kept(c)'
<1>1. /\ split' = split /\ held' = held /\ again' = again /\ queue' = queue
      /\ again \in Seq(Events)
  BY DEF Reroute, RoutingTypeOK
<1>2. queue = <<>> /\ Undecided
  BY DEF Reroute
<1>3. \A o \in Outputs : sounding'[o] = {}
  <2>1. CASE playing
    BY <2>1, OnTheRouting DEF Reroute
  <2>2. CASE ~playing
    BY <2>2 DEF Reroute, Silent
  <2> QED
    BY <2>1, <2>2
<1>4. Silent(sounding)' /\ Undecided'
  BY <1>1, <1>2, <1>3 DEF Silent, Undecided
<1>5. b \in Counters
  BY <1>1, RouteEnds
<1>6. LoadsRight' /\ Kept(b)'
  BY <1>1, <1>2, <1>4, <1>5, AfreshKeepsNext DEF Afresh
<1> QED
  BY <1>1, <1>2, <1>4, <1>6

\* Every step of the channel keeps the invariant.
LEMMA RoutingInvStep ==
  ASSUME RoutingInv, [RoutingNext]_routingVars
  PROVE  RoutingInv'
<1>1. RoutingTypeOK /\ RoutingTypeOK'
  BY RoutingTypeStep DEF RoutingInv
<1> SUFFICES ASSUME excuses' = {}
             PROVE  /\ ~playing' => queue' = <<>> /\ Silent(sounding)'
                    /\ LoadsRight'
                    /\ \E c : Routes(HeldSteps, Counters, c, again', held') /\ Kept(c)'
  BY <1>1 DEF RoutingInv
<1>2. ASSUME excuses = {}
      PROVE  /\ ~playing => queue = <<>> /\ Silent(sounding)
             /\ LoadsRight
             /\ \E b : Routes(HeldSteps, Counters, b, again, held) /\ Kept(b)
  BY <1>2 DEF RoutingInv
<1>3. ASSUME NEW n \in Notes, NoteOn(n)
      PROVE  /\ ~playing' => queue' = <<>> /\ Silent(sounding)'
             /\ LoadsRight'
             /\ \E c : Routes(HeldSteps, Counters, c, again', held') /\ Kept(c)'
  <2>1. /\ Enqueue(TRUE, n) /\ again = <<>> /\ again' = again
        /\ held' = [held EXCEPT ![n] = IF TRUE THEN held[n] + 1 ELSE held[n] - 1]
    BY <1>3 DEF NoteOn
  <2>2. excuses = {} /\ playing'
    BY <2>1 DEF Enqueue
  <2>3. PICK b : Routes(HeldSteps, Counters, b, again, held) /\ Kept(b)
    BY <1>2, <2>2
  <2> QED
    BY <1>1, <1>2, <2>1, <2>2, <2>3, PlayedKeeps
<1>4. ASSUME NEW n \in Notes, NoteOff(n)
      PROVE  /\ ~playing' => queue' = <<>> /\ Silent(sounding)'
             /\ LoadsRight'
             /\ \E c : Routes(HeldSteps, Counters, c, again', held') /\ Kept(c)'
  <2>1. /\ Enqueue(FALSE, n) /\ again = <<>> /\ again' = again /\ held[n] > 0
        /\ held' = [held EXCEPT ![n] = IF FALSE THEN held[n] + 1 ELSE held[n] - 1]
    BY <1>4 DEF NoteOff
  <2>2. excuses = {} /\ playing'
    BY <2>1 DEF Enqueue
  <2>3. PICK b : Routes(HeldSteps, Counters, b, again, held) /\ Kept(b)
    BY <1>2, <2>2
  <2> QED
    BY <1>1, <1>2, <2>1, <2>2, <2>3, PlayedKeeps
<1>5. ASSUME Reschedule
      PROVE  /\ ~playing' => queue' = <<>> /\ Silent(sounding)'
             /\ LoadsRight'
             /\ \E c : Routes(HeldSteps, Counters, c, again', held') /\ Kept(c)'
  <2>1. excuses = {} /\ playing'
    BY <1>5 DEF Reschedule, Enqueue
  <2>2. PICK b : Routes(HeldSteps, Counters, b, again, held) /\ Kept(b)
    BY <1>2, <2>1
  <2> QED
    BY <1>1, <1>2, <1>5, <2>1, <2>2, RescheduleKeeps
<1>6. ASSUME Send
      PROVE  /\ ~playing' => queue' = <<>> /\ Silent(sounding)'
             /\ LoadsRight'
             /\ \E c : Routes(HeldSteps, Counters, c, again', held') /\ Kept(c)'
  <2>1. /\ excuses = {} /\ playing' = playing /\ queue # <<>>
        /\ split' = split /\ Counts' = Counts /\ routing' = routing
        /\ again' = again /\ held' = held
    BY <1>6 DEF Send, Counts
  <2>2. PICK b : Routes(HeldSteps, Counters, b, again, held) /\ Kept(b)
    BY <1>2, <2>1
  <2>3. Kept(b)'
    BY <1>1, <1>6, <2>2, SendKeeps
  <2>4. LoadsRight'
    BY <1>2, <2>1 DEF LoadsRight
  <2> QED
    BY <1>2, <2>1, <2>2, <2>3, <2>4
<1>7. ASSUME Pause
      PROVE  /\ ~playing' => queue' = <<>> /\ Silent(sounding)'
             /\ LoadsRight'
             /\ \E c : Routes(HeldSteps, Counters, c, again', held') /\ Kept(c)'
  <2>1. excuses = {}
    BY <1>7 DEF Pause, Excused
  <2>2. PICK b : Routes(HeldSteps, Counters, b, again, held) /\ Kept(b)
    BY <1>2, <2>1
  <2> QED
    BY <1>1, <1>2, <1>7, <2>1, <2>2, PauseKeeps
<1>8. ASSUME Resume
      PROVE  /\ ~playing' => queue' = <<>> /\ Silent(sounding)'
             /\ LoadsRight'
             /\ \E c : Routes(HeldSteps, Counters, c, again', held') /\ Kept(c)'
  <2>1. /\ excuses = {} /\ playing' /\ queue' = queue /\ sounding' = sounding
        /\ split' = split /\ routing' = routing /\ again' = again /\ held' = held
    BY <1>8 DEF Resume
  <2>2. PICK b : Routes(HeldSteps, Counters, b, again, held) /\ Kept(b)
    BY <1>2, <2>1
  <2>3. Kept(b)' /\ LoadsRight'
    BY <1>2, <2>1, <2>2 DEF Kept, LoadsRight, Pairs, Counts, Undecided
  <2> QED
    BY <2>1, <2>2, <2>3
<1>9. ASSUME NEW on \in SUBSET Notes, Seek(on)
      PROVE  /\ ~playing' => queue' = <<>> /\ Silent(sounding)'
             /\ LoadsRight'
             /\ \E c : Routes(HeldSteps, Counters, c, again', held') /\ Kept(c)'
  <2>1. /\ split' = Fresh /\ queue' = <<>> /\ again' = <<>>
        /\ excuses' = IF Silent(sounding') THEN {} ELSE {"rerouted"}
    BY <1>9 DEF Seek
  <2>2. Silent(sounding')
    BY <2>1
  <2>3. Afresh'
    BY <2>1, <2>2, FreshIsUndecidedNext DEF Afresh
  <2>4. PICK c : c = held'
    OBVIOUS
  <2>5. c \in Counters
    BY <1>1, <2>4 DEF RoutingTypeOK, Counters
  <2>6. LoadsRight' /\ Kept(c)'
    BY <1>1, <2>3, <2>5, AfreshKeepsNext
  <2>7. Routes(HeldSteps, Counters, c, again', held')
    BY <2>1, <2>4, <2>5, SameNowhere
  <2> QED
    BY <2>1, <2>2, <2>6, <2>7
<1>10. ASSUME NEW r \in Routings, Reroute(r)
      PROVE  /\ ~playing' => queue' = <<>> /\ Silent(sounding)'
             /\ LoadsRight'
             /\ \E c : Routes(HeldSteps, Counters, c, again', held') /\ Kept(c)'
  <2>1. excuses = {}
    BY <1>10 DEF Reroute
  <2>2. PICK b : Routes(HeldSteps, Counters, b, again, held) /\ Kept(b)
    BY <1>2, <2>1
  <2> QED
    BY <1>1, <1>2, <1>10, <2>1, <2>2, RerouteKeeps
<1>11. ASSUME ClearRouting PROVE FALSE
  BY <1>11 DEF ClearRouting
<1>12. ASSUME UNCHANGED routingVars
      PROVE  /\ ~playing' => queue' = <<>> /\ Silent(sounding)'
             /\ LoadsRight'
             /\ \E c : Routes(HeldSteps, Counters, c, again', held') /\ Kept(c)'
  <2>1. /\ excuses = {} /\ playing' = playing /\ queue' = queue /\ sounding' = sounding
        /\ split' = split /\ routing' = routing /\ again' = again /\ held' = held
    BY <1>12 DEF routingVars
  <2>2. PICK b : Routes(HeldSteps, Counters, b, again, held) /\ Kept(b)
    BY <1>2, <2>1
  <2>3. Kept(b)' /\ LoadsRight'
    BY <1>2, <2>1, <2>2 DEF Kept, LoadsRight, Pairs, Counts, Undecided
  <2> QED
    BY <1>2, <2>1, <2>2, <2>3
<1> QED
  BY <1>3, <1>4, <1>5, <1>6, <1>7, <1>8, <1>9, <1>10, <1>11, <1>12 DEF RoutingNext

-----------------------------------------------------------------------------
LEMMA NothingLeft ==
  ASSUME RoutingInv
  PROVE  NothingLeftBehind
<1> SUFFICES ASSUME Quiet, excuses = {} PROVE Silent(sounding) /\ Undecided
  BY DEF NothingLeftBehind
<1>1. RoutingTypeOK /\ LoadsRight
  BY DEF RoutingInv
<1>2. PICK b : Routes(HeldSteps, Counters, b, again, held) /\ Kept(b)
  BY DEF RoutingInv
<1>3. b = held /\ again = <<>> /\ queue = <<>> /\ \A n \in Notes : held[n] = 0
  <2>1. again = <<>> /\ queue = <<>> /\ \A n \in Notes : held[n] = 0
    BY DEF Quiet
  <2> QED
    BY <1>2, <2>1, RouteNowhere
<1>4. CASE Pairs
  <2>1. ASSUME NEW n \in Notes PROVE split.assigned[n] = <<>>
    <3>1. split.assigned[n] \in Seq(Nat \ {0}) /\ Len(split.assigned[n]) <= 0
      BY <1>1, <1>2, <1>3, <1>4 DEF Kept, RoutingTypeOK
    <3> QED
      BY <3>1, EmptySeq
  <2>2. \A o \in Outputs : split.loads[o] = 0
    BY <1>1, <2>1, LoadNone DEF LoadsRight
  <2>3. PICK a : /\ Routes(DecideSteps(routing), Fitting(routing), a, queue, split.assigned)
                 /\ Heard(routing, a, sounding)
    BY <1>2, <1>4 DEF Kept
  <2>4. a = split.assigned
    BY <1>3, <2>3, RouteNowhere
  <2>5. ASSUME NEW o \in Outputs, NEW n \in sounding[o] PROVE FALSE
    <3>1. n \in Notes
      BY <1>1 DEF RoutingTypeOK
    <3>2. a[n] = <<>> /\ \E j \in 1 .. Len(a[n]) : routing.outs[a[n][j]] = o
      BY <2>1, <2>3, <2>4, <3>1 DEF Heard
    <3> QED
      BY <3>2, EmptySeq
  <2>6. Silent(sounding)
    BY <2>5 DEF Silent
  <2> QED
    BY <2>1, <2>2, <2>6 DEF Undecided
<1>5. CASE ~Pairs
  <2>1. PICK a : /\ Routes(HeldSteps, Counters, a, Stripped(queue), b)
                 /\ HeardFirst(routing, a, sounding)
    BY <1>2, <1>5 DEF Kept
  <2>2. queue \in Seq(Scheduled)
    BY <1>1 DEF RoutingTypeOK, Scheduled
  <2>3. a = b
    <3>1. Stripped(queue) = <<>>
      BY <1>3, <2>2, StrippedType
    <3>2. Routes(HeldSteps, Counters, a, <<>>, b)
      BY <2>1, <3>1
    <3> QED
      BY <3>2, RouteNowhere
  <2>4. ASSUME NEW o \in Outputs, NEW n \in sounding[o] PROVE FALSE
    BY <1>1, <1>3, <2>1, <2>3, <2>4 DEF HeardFirst, RoutingTypeOK
  <2>5. Silent(sounding) /\ Undecided
    BY <1>2, <1>5, <2>4 DEF Silent, Kept
  <2> QED
    BY <2>5
<1> QED
  BY <1>4, <1>5

\* Distinct notes that sound on an output come of distinct decisions for it.
LEMMA HeardIsDecided ==
  ASSUME NEW r, NEW a \in Decisions(r), NEW s \in [Outputs -> SUBSET Notes], NEW o \in Outputs,
         Heard(r, a, s)
  PROVE  Cardinality(s[o]) <= Load(r, a, o)
<1> DEFINE D == Decided(r, a, o)
           f == [n \in s[o] |-> <<n, CHOOSE j \in 1 .. Len(a[n]) : r.outs[a[n][j]] = o>>]
<1>1. IsFiniteSet(D) /\ Cardinality(D) = Load(r, a, o)
  BY LoadType DEF Load
<1>2. ASSUME NEW n \in s[o] PROVE f[n] \in D /\ f[n][1] = n
  <2> DEFINE j == CHOOSE j \in 1 .. Len(a[n]) : r.outs[a[n][j]] = o
  <2>1. j \in 1 .. Len(a[n]) /\ r.outs[a[n][j]] = o
    BY DEF Heard
  <2>2. f[n] = <<n, j>>
    OBVIOUS
  <2> HIDE DEF j
  <2>3. n \in Notes /\ Len(a[n]) \in Nat /\ Len(a[n]) <= MaxKept /\ MaxKept \in Nat
    BY RoutingAssumption DEF Decisions
  <2>4. j \in 1 .. MaxKept /\ j <= Len(a[n])
    BY <2>1, <2>3
  <2>5. <<n, j>> \in D
    BY <2>1, <2>3, <2>4 DEF Decided
  <2> HIDE DEF f, D
  <2> QED
    BY <2>2, <2>5
<1> HIDE DEF D, f
<1>3. f \in Injection(s[o], D)
  <2>1. f \in [s[o] -> D]
    BY <1>2 DEF f
  <2>2. \A m, n \in s[o] : f[m] = f[n] => m = n
    BY <1>2
  <2> QED
    BY <2>1, <2>2 DEF Injection, IsInjective
<1>4. Cardinality(s[o]) <= Cardinality(D)
  BY <1>1, <1>3, FS_Injection DEF ExistsInjection
<1> QED
  BY <1>1, <1>4

LEMMA ShareKept ==
  ASSUME RoutingInv
  PROVE  ShareHolds
<1> SUFFICES ASSUME Overflowing(routing), excuses = {}
             PROVE  Cardinality(sounding[routing.outs[1]]) <= Share
  BY DEF ShareHolds
<1>1. RoutingTypeOK /\ Pairs
  BY DEF RoutingInv, Overflowing, Pairs
<1>2. PICK b : Kept(b)
  BY DEF RoutingInv
<1>3. PICK a : /\ Routes(DecideSteps(routing), Fitting(routing), a, queue, split.assigned)
               /\ Heard(routing, a, sounding)
  BY <1>1, <1>2 DEF Kept
<1>4. a \in Fitting(routing)
  <2>1. queue \in Seq(Scheduled)
    BY <1>1 DEF RoutingTypeOK, Scheduled
  <2> QED
    BY <1>3, <2>1, RouteEnds
<1>5. /\ a \in Decisions(routing) /\ Load(routing, a, routing.outs[1]) <= Share
      /\ Load(routing, a, routing.outs[1]) \in Nat /\ Share \in Nat
      /\ routing.outs[1] \in Outputs /\ sounding \in [Outputs -> SUBSET Notes]
  BY <1>1, <1>4, LoadType, RoutingType, RoutingAssumption DEF Fitting, RoutingTypeOK
<1>6. Cardinality(sounding[routing.outs[1]]) <= Load(routing, a, routing.outs[1])
  BY <1>3, <1>5, HeardIsDecided
<1>7. Cardinality(sounding[routing.outs[1]]) \in Nat
  <2>1. IsFiniteSet(sounding[routing.outs[1]])
    BY <1>5, RoutingAssumption, FS_Subset
  <2> QED
    BY <2>1, FS_CardinalityType
<1> QED
  BY <1>5, <1>6, <1>7

LEMMA RoutingInductive == RoutingSpec => []RoutingInv
<1>1. RoutingInit => RoutingInv
  BY RoutingInvInit
<1>2. RoutingInv /\ [RoutingNext]_routingVars => RoutingInv'
  BY RoutingInvStep
<1> QED
  BY <1>1, <1>2, PTL DEF RoutingSpec

(* Once the file holds nothing and everything was sent, no instrument of a *)
(* split channel sounds and the maps of the strategies are empty, for all  *)
(* strategies, outputs and notes, whatever was seeked or paused, unless an *)
(* event was scheduled, or a note decided, before a pause or new routings  *)
(* came between (getOutputForChannel, _popSegmentAssignment).              *)
THEOREM NoDecisionIsLost == RoutingSpec => []NothingLeftBehind
<1>1. RoutingInv => NothingLeftBehind
  BY NothingLeft
<1> QED
  BY <1>1, RoutingInductive, PTL

(* With the strategy overflow the first instrument never sounds more notes *)
(* than its share, however far the counting of scheduled events runs ahead *)
(* of the sending.                                                         *)
THEOREM ShareIsKept == RoutingSpec => []ShareHolds
<1>1. RoutingInv => ShareHolds
  BY ShareKept
<1> QED
  BY <1>1, RoutingInductive, PTL
=============================================================================
