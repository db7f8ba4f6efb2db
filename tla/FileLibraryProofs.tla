-------------------------- MODULE FileLibraryProofs --------------------------
(***************************************************************************)
(* Isolation in the file library, for any number of files, contents,       *)
(* commands in flight and attempts: as long as no two commands meet, every *)
(* row has its blob on disk under its own hash, unless a collection took   *)
(* it from a write that waited for the locked database.                    *)
(*                                                                         *)
(* The invariant says what each command in flight relies on (Safe).  A     *)
(* step changes rows and blobs only within the files and blobs it touches  *)
(* (Within), so it leaves what the others rely on as it was (FrameSafe).   *)
(* Rows and blobs are parameters R and B of these predicates: a command    *)
(* writes its blob before it tries the transaction, in the same step.      *)
(***************************************************************************)
EXTENDS FileLibrary, TLAPS

FilesIn(R) == {f \in FileIds : R[f] # None}

\* The library is sound: no two rows share a hash, and each has its blob.
Good(R, B) ==
    \A f \in FilesIn(R) :
        /\ R[f].blob \in B /\ R[f].hash = R[f].blob
        /\ \A g \in FilesIn(R) : R[g].hash = R[f].hash => g = f

\* The row a command read first is still the one in the table.
Unmoved(c, R) ==
    /\ c.file \in FilesIn(R) /\ c.old \in Row
    /\ R[c.file].hash = c.old.hash /\ R[c.file].blob = c.old.blob

Stores(R, f, x) == R[f].hash = x /\ R[f].blob = x

\* What a command in flight relies on, at each of its awaits.
Safe(c, R, B) ==
    /\ c.at = "baking" => c.op = "bake" /\ Unmoved(c, R)
    /\ c.at = "retry" =>
          /\ c.new \in Contents /\ c.new \in B
          /\ c.op # "derive" => Unmoved(c, R)
          /\ \A f \in FilesIn(R) : R[f].hash = c.new => c.op # "derive" /\ f = c.file
    /\ c.at = "cleanup" =>
          /\ LeavesOldBlob(c) => \A f \in FilesIn(R) : R[f].blob # c.old.blob
          /\ c.op # "derive" => c.file \in FilesIn(R) /\ Stores(R, c.file, c.new)
          /\ c.op = "derive" /\ c.file \in FilesIn(R) =>
                \E f \in FilesIn(R) : Stores(R, f, c.new) /\ R[f].parent = c.file

\* From R and B to Q and D only rows of F change, or appear, and only to
\* contents in X; only blobs in X come or go.
Within(R, B, Q, D, F, X) ==
    /\ \A f \in FileIds :
          \/ Q[f] = R[f]
          \/ f \in F /\ Q[f] = None
          \/ /\ (f \in F /\ R[f] # None) \/ (f = nextId /\ R[f] = None)
             /\ Q[f] \in Row /\ Q[f].hash \in X /\ Q[f].blob \in X
    /\ \A x : x \notin X => (x \in B <=> x \in D)

\* A row of R that changes leaves a content in X, or goes with the row it is a
\* copy of and leaves its content in L.
Leaves(R, Q, X, L) ==
    \A f \in FilesIn(R) :
        \/ Q[f] = R[f] \/ R[f].blob \in X
        \/ /\ Q[f] = None /\ R[f].blob \in L
           /\ R[f].parent \in FileIds /\ Q[R[f].parent] = None

Apart(c, F, X) == FilesOf(c) \cap F = {} /\ BlobsOf(c) \cap X = {}

Tables == [FileIds -> Row \cup {None}]

\* A command that has tried its transaction knows its new content; a new copy
\* replaces no row.
Commands == {c \in Command : /\ IF c.at = "baking" THEN c.new = None ELSE c.new \in Contents
                             /\ c.op = "derive" => c.old = None}

Typed ==
    /\ rows \in Tables
    /\ nextId \in Nat \ {0} /\ \A f \in Files : f < nextId
    /\ cmd \in [Workers -> Commands \cup {None}]
    /\ \A w \in InFlight : cmd[w].file < nextId
    /\ overlap \in BOOLEAN

\* A command that did not bring its content to disk, or that is done, holds no
\* orphan but one left before.
Accounted(c, orphans, left) ==
    c.new \in orphans /\ ((c.at = "retry" /\ c.op = "save" /\ c.dedup) \/ c.at = "cleanup")
        => c.new \in left

Held == UNION {BlobsOf(cmd[w]) : w \in InFlight}

\* What is on disk, or was until a collection took it from a waiting write.
Kept == blobs \cup swept

Isolated ==
    /\ Good(rows, Kept)
    /\ Orphans \subseteq leaked \cup Held
    /\ \A w \in InFlight :
          /\ Safe(cmd[w], rows, Kept)
          /\ Accounted(cmd[w], Orphans, leaked)
          /\ \A v \in InFlight \ {w} : Apart(cmd[v], FilesOf(cmd[w]), BlobsOf(cmd[w]))

Inv == Typed /\ (~overlap => Isolated)

-----------------------------------------------------------------------------
(* What a step leaves alone.                                               *)

\* The absent value is no content, file, row, command or worker.
LEMMA NoneIsNothing == None \notin Contents /\ None \notin FileIds /\ None \notin Row
                       /\ None \notin Command /\ None \notin Workers
  BY FileLibraryAssumption

\* But for a collection, what a step takes from the disk is all that goes.
LEMMA LeakKeeps ==
    ASSUME NEW B, Leak(B)
    PROVE  Kept' = blobs' \cup swept
  BY DEF Leak, Kept

\* A step that stays apart from a command leaves what it relies on.
LEMMA FrameSafe ==
    ASSUME NEW R \in Tables, NEW B, NEW Q \in Tables, NEW D, NEW F, NEW X, NEW L,
           NEW c \in Commands, c.file # nextId,
           Within(R, B, Q, D, F, X), Leaves(R, Q, X, L), Apart(c, F, X), Safe(c, R, B)
    PROVE  Safe(c, Q, D)
<1>0. c \in Command
  BY DEF Commands
<1>1. \A f \in FilesIn(R) : f \notin F => Q[f] = R[f] /\ f \in FilesIn(Q)
  BY DEF Within, FilesIn
<1>2. \A f \in FilesIn(Q) :
          \/ Q[f] = R[f] /\ f \in FilesIn(R)
          \/ Q[f].hash \in X /\ Q[f].blob \in X
  BY DEF Within, FilesIn
<1>3. c.op # "derive" /\ Unmoved(c, R) => Unmoved(c, Q)
  <2>1. c.op # "derive" => c.file \notin F
    BY DEF Apart, FilesOf
  <2> QED BY <1>1, <2>1 DEF Unmoved
<1>4. c.new \in Contents => c.new \in BlobsOf(c) /\ c.new \notin X
  BY NoneIsNothing DEF Apart, BlobsOf
<1>5. LeavesOldBlob(c) => c.old \in Row /\ c.old.blob \in BlobsOf(c) /\ c.old.blob \notin X
  <2>1. c.old # None => c.old \in Row /\ c.old.blob \in Contents
    BY <1>0 DEF Command, Row
  <2> QED BY <2>1, NoneIsNothing DEF Apart, BlobsOf, LeavesOldBlob
<1>6. CASE c.at = "baking"
  BY <1>3, <1>6 DEF Safe
<1>7. CASE c.at = "retry"
  <2>1. c.new \in D
    BY <1>4, <1>7 DEF Safe, Within
  <2>2. \A f \in FilesIn(Q) : Q[f].hash = c.new => c.op # "derive" /\ f = c.file
    BY <1>2, <1>4, <1>7 DEF Safe
  <2> QED BY <1>3, <1>7, <2>1, <2>2 DEF Safe
<1>8. CASE c.at = "cleanup"
  <2>1. LeavesOldBlob(c) => \A f \in FilesIn(Q) : Q[f].blob # c.old.blob
    BY <1>2, <1>5, <1>8 DEF Safe
  <2>2. c.op # "derive" => c.file \in FilesIn(Q) /\ Stores(Q, c.file, c.new)
    BY <1>1, <1>8 DEF Safe, Stores, Apart, FilesOf
  <2>3. ASSUME c.op = "derive", c.file \in FilesIn(Q)
        PROVE  \E f \in FilesIn(Q) : Stores(Q, f, c.new) /\ Q[f].parent = c.file
    <3>1. c.file \in FilesIn(R)
      BY <2>3 DEF Within, FilesIn
    <3>2. PICK f \in FilesIn(R) : Stores(R, f, c.new) /\ R[f].parent = c.file
      BY <1>8, <2>3, <3>1 DEF Safe
    <3>3. R[f].blob \notin X
      BY <1>4, <1>8, <3>2 DEF Stores, Commands
    <3>4. Q[c.file] # None
      BY <2>3 DEF FilesIn
    <3>5. Q[f] = R[f]
      BY <3>2, <3>3, <3>4 DEF Leaves
    <3> QED BY <3>2, <3>5 DEF Stores, FilesIn
  <2> QED BY <1>8, <2>1, <2>2, <2>3 DEF Safe
<1> QED BY <1>0, <1>6, <1>7, <1>8 DEF Command

\* A new orphan outside X is a content that a row left, in L.
LEMMA OrphansComeFrom ==
    ASSUME Typed, Typed', NEW F, NEW X, NEW L,
           Within(rows, blobs, rows', blobs', F, X), Leaves(rows, rows', X, L),
           NEW b \in Orphans', b \notin X
    PROVE  b \in Orphans \cup L
<1> SUFFICES ASSUME b \notin Orphans PROVE b \in L
  OBVIOUS
<1>1. b \in blobs' /\ b \in blobs /\ b \notin Referenced'
  BY DEF Within, Orphans
<1>2. PICK f \in Files : rows[f].blob = b
  BY <1>1 DEF Orphans, Referenced
<1>3. f \in FilesIn(rows) /\ rows'[f] # rows[f]
  BY <1>1, <1>2 DEF FilesIn, Files, Referenced
<1> QED BY <1>2, <1>3 DEF Leaves

\* A step that stays apart from a command, and that leaves no orphan outside X
\* or L, adds no orphan to those that the command accounts for.
LEMMA FrameAccounted ==
    ASSUME Typed, Typed', NEW F, NEW X, NEW L, NEW c \in Commands,
           Within(rows, blobs, rows', blobs', F, X), Leaves(rows, rows', X, L), Apart(c, F, X),
           (leaked \cup L) \cap Orphans' \subseteq leaked',
           Accounted(c, Orphans, leaked)
    PROVE  Accounted(c, Orphans', leaked')
<1> SUFFICES ASSUME c.new \in Orphans',
                    (c.at = "retry" /\ c.op = "save" /\ c.dedup) \/ c.at = "cleanup"
             PROVE  c.new \in leaked \cup L
  BY DEF Accounted
<1>1. c.new \notin X
  BY NoneIsNothing DEF Commands, Command, Apart, BlobsOf
<1>2. c.new \in Orphans \cup L
  BY <1>1, OrphansComeFrom
<1> QED BY <1>2 DEF Accounted

\* The orphans among what a step touches, or what its command held, are recorded
\* or still the command's own.
Settled(w, X, L) ==
    /\ (leaked \cup L) \cap Orphans' \subseteq leaked'
    /\ \A b \in Orphans' :
          b \in X \/ (w \in InFlight /\ b \in BlobsOf(cmd[w])) =>
              b \in leaked' \/ (w \in InFlight' /\ b \in BlobsOf(cmd'[w]))
    /\ w \in InFlight' => Accounted(cmd'[w], Orphans', leaked')

\* A step of worker w, or of no worker, that changes rows and blobs only
\* within what it touches keeps the commands of the others isolated.
LEMMA OthersStayIsolated ==
    ASSUME Inv, Typed', NEW w, NEW F, NEW X, NEW L, Kept' = blobs' \cup swept,
           Within(rows, blobs, rows', blobs', F, X), Leaves(rows, rows', X, L),
           ~overlap' => ~overlap /\ \A v \in InFlight \ {w} : Apart(cmd[v], F, X),
           \A v \in Workers \ {w} : cmd'[v] = cmd[v],
           ~overlap' => Good(rows', Kept') /\ Settled(w, X, L),
           ~overlap' /\ w \in InFlight' =>
               /\ Safe(cmd'[w], rows', Kept')
               /\ FilesOf(cmd'[w]) \subseteq F /\ BlobsOf(cmd'[w]) \subseteq X
    PROVE  Inv'
<1> SUFFICES ASSUME ~overlap' PROVE Isolated'
  BY DEF Inv
<1>1. Isolated /\ Typed /\ Settled(w, X, L)
  BY DEF Inv
<1>2. \A v \in InFlight' \ {w} : v \in InFlight /\ cmd'[v] = cmd[v] /\ cmd[v] \in Commands
                                 /\ Apart(cmd[v], F, X) /\ cmd[v].file # nextId
  <2> TAKE v \in InFlight' \ {w}
  <2>1. v \in InFlight /\ cmd'[v] = cmd[v] /\ cmd[v] \in Commands
    BY <1>1 DEF InFlight, Typed
  <2>2. cmd[v].file \in FileIds /\ cmd[v].file < nextId /\ nextId \in Nat
    BY <1>1, <2>1 DEF Typed, Commands, Command
  <2> QED BY <2>1, <2>2 DEF FileIds
<1>3. \A v \in InFlight' \ {w} : Safe(cmd'[v], rows', Kept')
  <2> TAKE v \in InFlight' \ {w}
  <2>1. Safe(cmd[v], rows, Kept) /\ Apart(cmd[v], F, X)
    BY <1>1, <1>2 DEF Isolated
  <2>2. rows \in Tables /\ rows' \in Tables
    BY DEF Inv, Typed
  <2>k. Within(rows, Kept, rows', Kept', F, X)
    BY DEF Within, Kept
  <2>3. Safe(cmd[v], rows', Kept')
    BY <1>2, <2>1, <2>2, <2>k, FrameSafe
  <2> QED BY <1>2, <2>3
<1>4. \A v \in InFlight' : Safe(cmd'[v], rows', Kept')
  BY <1>3
<1>5. ASSUME NEW u \in InFlight', NEW v \in InFlight' \ {u}
      PROVE  Apart(cmd'[v], FilesOf(cmd'[u]), BlobsOf(cmd'[u]))
  <2>1. CASE u = w
    BY <1>2, <1>5, <2>1 DEF Apart
  <2>2. CASE v = w
    BY <1>2, <1>5, <2>2 DEF Apart
  <2>3. CASE u # w /\ v # w
    BY <1>1, <1>2, <1>5, <2>3 DEF Isolated
  <2> QED BY <2>1, <2>2, <2>3
<1>6. \A v \in InFlight' : Accounted(cmd'[v], Orphans', leaked')
  <2> TAKE v \in InFlight'
  <2>1. CASE v = w
    BY <1>1, <2>1 DEF Settled
  <2>2. CASE v # w
    <3>1. Accounted(cmd[v], Orphans, leaked)
      BY <1>1, <1>2, <2>2 DEF Isolated
    <3>2. (leaked \cup L) \cap Orphans' \subseteq leaked'
      BY <1>1 DEF Settled
    <3>3. Accounted(cmd[v], Orphans', leaked')
      BY <1>1, <1>2, <2>2, <3>1, <3>2, FrameAccounted
    <3> QED BY <1>2, <2>2, <3>3
  <2> QED BY <2>1, <2>2
<1>7. Orphans' \subseteq leaked' \cup Held'
  <2> SUFFICES ASSUME NEW b \in Orphans', b \notin leaked'
               PROVE  \E v \in InFlight' : b \in BlobsOf(cmd'[v])
    BY DEF Held
  <2>0. b \notin leaked \cup L
    BY <1>1 DEF Settled
  <2>1. CASE b \in X
    BY <1>1, <2>1 DEF Settled
  <2>2. CASE b \notin X
    <3>1. b \in Orphans
      BY <1>1, <2>0, <2>2, OrphansComeFrom
    <3>2. PICK v \in InFlight : b \in BlobsOf(cmd[v])
      BY <1>1, <2>0, <3>1 DEF Isolated, Held
    <3>3. CASE v = w
      BY <1>1, <3>2, <3>3 DEF Settled
    <3>4. CASE v # w
      BY <3>2, <3>4 DEF InFlight
    <3> QED BY <3>3, <3>4
  <2> QED BY <2>1, <2>2
<1> QED BY <1>4, <1>5, <1>6, <1>7 DEF Isolated

-----------------------------------------------------------------------------
(* One attempt of a transaction.                                           *)

\* The files of the table are those of the current rows.
LEMMA FilesAreThoseIn == Files = FilesIn(rows)
  BY DEF Files, FilesIn

\* What an attempt does to the command it is made for.
Outcome(w, c) ==
    \/ cmd'[w] = None
    \/ cmd'[w] \in Commands /\ FilesOf(cmd'[w]) = FilesOf(c) /\ BlobsOf(cmd'[w]) = BlobsOf(c)

\* An attempt keeps the types, concerns no other worker, and leaves its command
\* done or holding the same file and blobs.
LEMMA AttemptTypes ==
    ASSUME Typed, NEW w \in Workers, NEW c \in Commands, c.at = "retry", c.file < nextId,
           NEW disk, Persist(w, c, disk)
    PROVE  /\ rows' \in Tables
           /\ nextId' \in Nat \ {0} /\ \A f \in Files' : f < nextId'
           /\ cmd' \in [Workers -> Commands \cup {None}]
           /\ \A v \in InFlight' : cmd'[v].file < nextId'
           /\ \A v \in Workers \ {w} : cmd'[v] = cmd[v]
           /\ Outcome(w, c)
<1>0. c \in Command /\ c.new \in Contents /\ c.file \in FileIds /\ nextId \in Nat
      /\ c.file < nextId + 1
  BY DEF Commands, Command, Typed, FileIds
<1>f. \A v \in InFlight : cmd[v].file < nextId /\ cmd[v].file < nextId + 1
  <2> TAKE v \in InFlight
  <2>1. cmd[v] \in Command /\ cmd[v].file < nextId
    BY DEF Typed, InFlight, Commands
  <2>2. cmd[v].file \in FileIds
    BY <2>1 DEF Command
  <2> QED BY <1>0, <2>1, <2>2 DEF FileIds
<1>1. CASE Reject(w, c, disk)
  <2>1. cmd' = [cmd EXCEPT ![w] = None] /\ UNCHANGED <<rows, nextId>>
    BY <1>1 DEF Reject, Finish
  <2> QED BY <1>f, <2>1 DEF Typed, Files, Outcome, InFlight
<1>2. CASE Commit(w, c, disk)
  <2> DEFINE d == [c EXCEPT !.at = "cleanup"]
  <2>1. d \in Commands /\ FilesOf(d) = FilesOf(c) /\ BlobsOf(d) = BlobsOf(c) /\ d.file = c.file
    BY <1>0 DEF Commands, Command, FilesOf, BlobsOf
  <2>2. cmd' = [cmd EXCEPT ![w] = d]
    BY <1>2 DEF Commit, Suspend
  <2>3. cmd' \in [Workers -> Commands \cup {None}] /\ cmd'[w] = d
        /\ \A v \in Workers \ {w} : cmd'[v] = cmd[v]
    BY <2>1, <2>2 DEF Typed
  <2>f. \A v \in InFlight' : cmd'[v].file < nextId /\ cmd'[v].file < nextId + 1
    BY <1>0, <1>f, <2>1, <2>3 DEF InFlight
  <2>4. CASE c.op = "derive"
    <3>1. rows' = [rows EXCEPT ![nextId] = [hash |-> c.new, blob |-> c.new, parent |-> c.file]]
          /\ nextId' = nextId + 1
      BY <1>2, <2>4 DEF Commit
    <3>2. [hash |-> c.new, blob |-> c.new, parent |-> c.file] \in Row
      BY <1>0 DEF Row
    <3>3. rows' \in Tables
      BY <3>1, <3>2 DEF Typed, Tables
    <3>4. \A f \in Files' : f < nextId'
      BY <3>1 DEF Typed, Tables, Files, FileIds
    <3> QED BY <2>1, <2>3, <2>f, <3>1, <3>3, <3>4 DEF Typed, Outcome
  <2>5. CASE c.op # "derive"
    <3>1. nextId' = nextId
          /\ rows' = IF c.file \in Files
                     THEN [rows EXCEPT ![c.file] = Replaced(@, c)] ELSE rows
      BY <1>2, <2>5 DEF Commit
    <3>2. c.file \in Files => rows[c.file] \in Row /\ Replaced(rows[c.file], c) \in Row
      BY <1>0 DEF Typed, Tables, Files, Row, Replaced
    <3>3. rows' \in Tables
      BY <3>1, <3>2 DEF Typed, Tables
    <3>4. \A f \in Files' : f \in Files
      BY <3>1 DEF Files, Typed, Tables
    <3> QED BY <2>1, <2>3, <2>f, <3>1, <3>3, <3>4 DEF Typed, Outcome
  <2> QED BY <2>4, <2>5
<1>3. CASE Suspend(w, Again(c)) /\ UNCHANGED <<rows, nextId>>
  <2> DEFINE e == [c EXCEPT !.at = "retry"]
  <2>a. e \in Command
    BY <1>0 DEF Command
  <2>b. \A n \in Nat : [e EXCEPT !.tries = n] \in Command
    BY <2>a DEF Command
  <2>c. c.tries + 1 \in Nat
    BY <1>0 DEF Command
  <2>d. Again(c) \in Command
    BY <2>b, <2>c DEF Again
  <2>e. /\ Again(c).new = c.new /\ Again(c).old = c.old
        /\ Again(c).op = c.op /\ Again(c).file = c.file /\ Again(c).at = "retry"
    BY <1>0 DEF Again, Command
  <2>1. Again(c) \in Commands /\ FilesOf(Again(c)) = FilesOf(c) /\ BlobsOf(Again(c)) = BlobsOf(c)
    BY <1>0, <2>d, <2>e DEF Commands, FilesOf, BlobsOf
  <2>2. \A v \in InFlight' : cmd'[v].file < nextId
    BY <1>3, <1>f, <2>e DEF Suspend, Typed, InFlight
  <2> QED BY <1>3, <2>1, <2>2 DEF Suspend, Typed, Files, Outcome
<1> QED BY <1>1, <1>2, <1>3 DEF Persist

\* An attempt leaves a sound library, touches no more than its command holds
\* and leaves the command what it relies on.
LEMMA AttemptKeeps ==
    ASSUME Typed, NEW w \in Workers, NEW c \in Commands, c.at = "retry", NEW disk,
           Good(rows, disk \cup swept), Safe(c, rows, disk \cup swept), Persist(w, c, disk)
    PROVE  /\ Good(rows', Kept')
           /\ Within(rows, disk, rows', blobs', FilesOf(c), BlobsOf(c))
           /\ Leaves(rows, rows', BlobsOf(c), {})
           /\ cmd'[w] = None \/ Safe(cmd'[w], rows', Kept')
           /\ Kept' = blobs' \cup swept
<1> DEFINE R == FilesIn(rows)
<1>0. c \in Command /\ c.new \in Contents /\ c.file \in FileIds /\ c.new \in BlobsOf(c)
      /\ c.new \in disk \cup swept /\ rows \in Tables
  BY NoneIsNothing DEF Commands, Command, BlobsOf, Safe, Typed
<1>s. /\ c.op # "derive" => Unmoved(c, rows)
      /\ \A f \in R : rows[f].hash = c.new => c.op # "derive" /\ f = c.file
  BY DEF Safe
<1>u. c.op # "derive" => c.old.blob \in BlobsOf(c) /\ c.old.hash = c.old.blob
                          /\ FilesOf(c) = {c.file} /\ c.old # None /\ c.file \in R
                          /\ rows[c.file].blob \in BlobsOf(c)
  BY <1>s, NoneIsNothing DEF Unmoved, BlobsOf, FilesOf, Good, Row
<1>k. Kept' = blobs' \cup swept
  BY LeakKeeps DEF Persist, Reject, Commit
<1>1. CASE Reject(w, c, disk)
  <2>1. rows' = rows /\ cmd' = [cmd EXCEPT ![w] = None]
        /\ blobs' = IF RollsBack(c) THEN disk \ {c.new} ELSE disk
    BY <1>1 DEF Reject, Finish
  <2>2. RollsBack(c) => \A f \in R : rows[f].blob # c.new
    BY <1>s, <1>u DEF RollsBack, Unmoved, Good
  <2>3. Good(rows', Kept')
    BY <1>k, <2>1, <2>2 DEF Good
  <2>4. Within(rows, disk, rows', blobs', FilesOf(c), BlobsOf(c))
    BY <1>0, <2>1 DEF Within
  <2>5. cmd'[w] = None
    BY <2>1 DEF Typed
  <2> QED BY <1>k, <2>1, <2>3, <2>4, <2>5 DEF Leaves
<1>2. CASE Commit(w, c, disk)
  <2> DEFINE d == [c EXCEPT !.at = "cleanup"]
  <2>1. blobs' = disk /\ cmd'[w] = d
    BY <1>2 DEF Commit, Suspend, Typed
  <2>d. d.at = "cleanup" /\ d.op = c.op /\ d.old = c.old /\ d.new = c.new /\ d.file = c.file
    BY <1>0 DEF Command
  <2>2. CASE c.op = "derive"
    <3> DEFINE r == [hash |-> c.new, blob |-> c.new, parent |-> c.file]
    <3>1. rows' = [rows EXCEPT ![nextId] = r]
      BY <1>2, <2>2 DEF Commit
    <3>2. r \in Row /\ r.hash = c.new /\ r.blob = c.new /\ r # None /\ r.parent = c.file
      BY <1>0, NoneIsNothing DEF Row
    <3>3. nextId \notin R /\ nextId \in FileIds
      BY <1>2, <2>2 DEF Typed, Files, FilesIn, FileIds, Commit, Room
    <3>4. \A f \in FilesIn(rows') : \/ f \in R /\ rows'[f] = rows[f]
                                    \/ rows'[f] = r /\ f = nextId
      BY <1>0, <3>1 DEF FilesIn, Tables
    <3>5. Good(rows', Kept')
      BY <1>0, <1>k, <1>s, <2>1, <2>2, <3>2, <3>4 DEF Good
    <3>6. Within(rows, disk, rows', blobs', FilesOf(c), BlobsOf(c))
      BY <1>0, <2>1, <3>1, <3>2, <3>3 DEF Within, FilesIn, Tables
    <3>7. Leaves(rows, rows', BlobsOf(c), {})
      BY <1>0, <3>1, <3>3 DEF Leaves, Tables
    <3>8. Safe(d, rows', Kept')
      <4>1. nextId \in FilesIn(rows') /\ rows'[nextId] = r
        BY <1>0, <3>1, <3>2, <3>3 DEF FilesIn, Tables
      <4>2. ~LeavesOldBlob(d)
        BY <2>2, <2>d DEF LeavesOldBlob, Commands
      <4> HIDE DEF r
      <4> QED BY <2>2, <2>d, <3>2, <4>1, <4>2 DEF Safe, Stores
    <3> QED BY <1>k, <2>1, <3>5, <3>6, <3>7, <3>8
  <2>3. CASE c.op # "derive"
    <3>1. rows' = [rows EXCEPT ![c.file] = Replaced(rows[c.file], c)]
      BY <1>2, <1>u, <2>3, FilesAreThoseIn DEF Commit
    <3> DEFINE r == Replaced(rows[c.file], c)
    <3>2. r \in Row /\ r.hash = c.new /\ r.blob = c.new /\ r # None
      <4>1. rows[c.file] \in Row
        BY <1>0, <1>u, <2>3 DEF FilesIn, Tables
      <4> QED BY <1>0, <1>s, <2>3, <4>1, NoneIsNothing DEF Replaced, Row, Unmoved
    <3>3. \A f \in FilesIn(rows') : \/ f \in R /\ f # c.file /\ rows'[f] = rows[f]
                                    \/ rows'[f] = r /\ f = c.file
      BY <1>0, <3>1 DEF FilesIn, Tables
    <3>4. Good(rows', Kept')
      BY <1>0, <1>k, <1>s, <2>1, <3>2, <3>3 DEF Good
    <3>5. Within(rows, disk, rows', blobs', FilesOf(c), BlobsOf(c))
      BY <1>0, <1>u, <2>1, <2>3, <3>1, <3>2 DEF Within, Tables, FilesIn
    <3>l. Leaves(rows, rows', BlobsOf(c), {})
      BY <1>0, <1>u, <2>3, <3>1 DEF Leaves, FilesIn, Tables
    <3>s. c.file \in FilesIn(rows') /\ Stores(rows', c.file, c.new)
      BY <1>0, <3>1, <3>2 DEF FilesIn, Tables, Stores
    <3>6. Safe(d, rows', Kept')
      <4> SUFFICES ASSUME LeavesOldBlob(d), NEW f \in FilesIn(rows')
                   PROVE  rows'[f].blob # c.old.blob
        BY <2>3, <2>d, <3>s DEF Safe
      <4>1. c.old.blob # c.new
        BY <2>d DEF LeavesOldBlob
      <4>2. \A g \in R : g # c.file => rows[g].blob # c.old.blob
        BY <1>s, <1>u, <2>3 DEF Good, Unmoved
      <4> QED BY <3>2, <3>3, <4>1, <4>2
    <3> QED BY <1>k, <2>1, <3>4, <3>5, <3>6, <3>l
  <2> QED BY <2>2, <2>3
<1>3. CASE blobs' = disk /\ Suspend(w, Again(c)) /\ UNCHANGED <<rows, nextId>>
  <2>1. cmd'[w] = Again(c)
    BY <1>3 DEF Suspend, Typed
  <2>2. Again(c).at = "retry" /\ Again(c).op = c.op /\ Again(c).old = c.old
        /\ Again(c).new = c.new /\ Again(c).file = c.file
    BY <1>0 DEF Again, Command
  <2>3. Safe(Again(c), rows, disk \cup swept)
    BY <2>2, <1>0, <1>s DEF Safe, Unmoved
  <2>4. Within(rows, disk, rows, disk, FilesOf(c), BlobsOf(c))
    BY DEF Within
  <2> QED BY <1>3, <1>k, <2>1, <2>3, <2>4 DEF Leaves
<1> QED BY <1>1, <1>2, <1>3 DEF Persist

\* A content that a save found on disk, if no row has it, was left there before.
LeftBefore(c, disk) ==
    c.op = "save" /\ c.dedup /\ c.new \in disk \ Referenced => c.new \in leaked

\* An attempt leaves no orphan but recorded ones and those its command holds.
LEMMA AttemptSettles ==
    ASSUME Typed, NEW w \in Workers, NEW c \in Commands, c.at = "retry", NEW disk,
           Good(rows, disk \cup swept), Safe(c, rows, disk \cup swept), Persist(w, c, disk), LeftBefore(c, disk)
    PROVE  /\ leaked \cap Orphans' \subseteq leaked'
           /\ \A b \in Orphans' \cap BlobsOf(c) :
                 b \in leaked' \/ (w \in InFlight' /\ b \in BlobsOf(cmd'[w]))
           /\ w \in InFlight' => Accounted(cmd'[w], Orphans', leaked')
<1>0. c \in Command /\ c.new \in Contents
  BY DEF Commands, Command
<1>1. ASSUME NEW b \in BlobsOf(c) PROVE b = c.new \/ (c.op # "derive" /\ b = c.old.blob)
  BY <1>1 DEF BlobsOf, Commands
<1>2. CASE Reject(w, c, disk)
  <2>1. /\ rows' = rows /\ cmd' = [cmd EXCEPT ![w] = None]
        /\ blobs' = IF RollsBack(c) THEN disk \ {c.new} ELSE disk
        /\ Leak(IF c.op = "save" THEN {} ELSE {c.new})
    BY <1>2 DEF Reject, Finish
  <2>2. Orphans' \subseteq disk \ Referenced
    BY <2>1 DEF Orphans, Referenced, Files
  <2>3. c.op # "derive" => c.old.blob \in Referenced
    BY FilesAreThoseIn DEF Safe, Unmoved, Referenced
  <2>4. c.new \in Orphans' => c.new \in leaked'
    <3>1. c.op = "save" /\ c.new \in Orphans' => c.dedup
      BY <2>1, <2>2, <2>3 DEF RollsBack, Orphans
    <3> QED BY <2>1, <2>2, <3>1 DEF Leak, LeftBefore
  <2>5. w \notin InFlight'
    BY <2>1 DEF Typed, InFlight
  <2> QED BY <1>1, <2>1, <2>2, <2>3, <2>4, <2>5 DEF Leak
<1>3. CASE Commit(w, c, disk)
  <2> DEFINE d == [c EXCEPT !.at = "cleanup"]
  <2>1. cmd'[w] = d /\ Leak({})
    BY <1>3 DEF Commit, Suspend, Typed
  <2>2. BlobsOf(d) = BlobsOf(c) /\ d \in Command /\ d.at = "cleanup" /\ d.op = c.op
        /\ d.new = c.new /\ d.file = c.file
    BY <1>0 DEF BlobsOf, Command
  <2>3. w \in InFlight'
    BY <2>1, <2>2, NoneIsNothing DEF InFlight
  <2> HIDE DEF d
  <2>4. c.new \in Referenced'
    <3>1. Safe(d, rows', Kept')
      BY <2>1, <2>2, NoneIsNothing, AttemptKeeps
    <3>2. CASE c.op # "derive"
      BY <2>2, <3>1, <3>2 DEF Safe, Stores, Referenced, Files, FilesIn
    <3>3. CASE c.op = "derive"
      <4> DEFINE r == [hash |-> c.new, blob |-> c.new, parent |-> c.file]
      <4>1. rows' = [rows EXCEPT ![nextId] = r] /\ nextId \in FileIds
        BY <1>3, <3>3 DEF Commit, Room
      <4>2. r \in Row /\ r.blob = c.new
        BY <1>0 DEF Row, Command
      <4> HIDE DEF r
      <4> QED BY <4>1, <4>2, NoneIsNothing DEF Typed, Tables, Referenced, Files
    <3> QED BY <3>2, <3>3
  <2> QED BY <2>1, <2>2, <2>3, <2>4 DEF Leak, Accounted, Orphans
<1>4. CASE blobs' = disk /\ Suspend(w, Again(c)) /\ UNCHANGED <<rows, nextId>> /\ Leak({})
  <2>1. cmd'[w] = Again(c)
    BY <1>4 DEF Suspend, Typed
  <2>2. /\ Again(c).op = c.op /\ Again(c).old = c.old /\ Again(c).new = c.new
        /\ Again(c).dedup = c.dedup /\ Again(c).at = "retry"
    BY <1>0 DEF Again, Command
  <2>3. w \in InFlight' /\ BlobsOf(Again(c)) = BlobsOf(c)
    <3>1. Again(c) \in Command
      <4>1. [c EXCEPT !.at = "retry"] \in Command
        BY <1>0 DEF Command
      <4>2. c.tries + 1 \in Nat
        BY <1>0 DEF Command
      <4> QED BY <4>1, <4>2 DEF Again, Command
    <3> QED BY <2>1, <2>2, <3>1, NoneIsNothing DEF InFlight, BlobsOf
  <2>4. Orphans' = disk \ Referenced
    BY <1>4 DEF Orphans, Referenced, Files
  <2>5. Accounted(Again(c), Orphans', leaked')
    BY <1>4, <2>2, <2>4 DEF Accounted, LeftBefore, Leak
  <2> QED BY <1>4, <2>1, <2>3, <2>5 DEF Leak
<1> QED BY <1>2, <1>3, <1>4 DEF Persist

-----------------------------------------------------------------------------
(* The actions, one lemma for those that share a step.                     *)

\* The history variable tells whether a step met a command in flight.
LEMMA TouchIsApart ==
    ASSUME NEW w, NEW F, NEW X, overlap \in BOOLEAN, Touch(w, F, X)
    PROVE  /\ overlap' \in BOOLEAN
           /\ ~overlap' => ~overlap /\ \A v \in InFlight \ {w} : Apart(cmd[v], F, X)
<1>1. overlap' = (overlap \/ \E v \in InFlight \ {w} :
                     \/ FilesOf(cmd[v]) \cap F # {} \/ BlobsOf(cmd[v]) \cap X # {})
  BY DEF Touch
<1> QED BY <1>1, Zenon DEF Apart

\* A command that writes a blob and tries its transaction.
LEMMA StoreKeeps ==
    ASSUME Inv, NEW w \in Workers, NEW op \in Operations, NEW f \in FileIds, f < nextId,
           NEW old \in Row \cup {None}, NEW x \in Contents,
           op = "derive" => old = None /\ Owners(x) = {},
           ~overlap /\ op # "derive" =>
               f \in Files /\ old \in Row /\ rows[f].hash = old.hash /\ rows[f].blob = old.blob,
           w \in InFlight => op # "derive" /\ BlobsOf(cmd[w]) \subseteq {old.blob},
           Store(w, op, f, old, x)
    PROVE  Inv'
<1> DEFINE c == [op |-> op, at |-> "retry", file |-> f, old |-> old, new |-> x,
                 dedup |-> x \in blobs, tries |-> 0]
<1> Typed
  BY DEF Inv
<1>1. CASE op # "derive" /\ x # old.hash /\ Owners(x) \ {f} # {}
  <2>1. Finish(w) /\ UNCHANGED <<rows, nextId, blobs, overlap, leaked, swept>>
    BY <1>1 DEF Store
  <2>2. cmd' = [cmd EXCEPT ![w] = None]
    BY <2>1 DEF Finish
  <2>3. Typed' /\ w \notin InFlight' /\ \A v \in Workers \ {w} : cmd'[v] = cmd[v]
    BY <2>1, <2>2 DEF Typed, Files, InFlight
  <2>4. Within(rows, blobs, rows', blobs', {}, {}) /\ Leaves(rows, rows', {}, {})
    BY <2>1 DEF Within, Leaves
  <2>5. \A v \in InFlight : Apart(cmd[v], {}, {})
    BY DEF Apart
  <2>6. ~overlap' => ~overlap /\ Good(rows', Kept')
    BY <2>1 DEF Inv, Isolated, Kept
  <2>k. Kept' = blobs' \cup swept
    BY <2>1 DEF Kept
  <2>7. ~overlap' => Settled(w, {}, {})
    <3>1. ~overlap => old.blob \in Referenced
      BY <1>1 DEF Referenced
    <3>2. Orphans' = Orphans /\ leaked' = leaked
      BY <2>1 DEF Orphans, Referenced, Files
    <3> QED BY <2>1, <2>3, <3>1, <3>2 DEF Settled, Orphans
  <2> QED BY <2>3, <2>4, <2>5, <2>6, <2>7, <2>k, OthersStayIsolated
<1>2. CASE ~(op # "derive" /\ x # old.hash /\ Owners(x) \ {f} # {})
  <2>1. Touch(w, FilesOf(c), BlobsOf(c)) /\ Persist(w, c, blobs \cup {x})
    BY <1>2 DEF Store
  <2>c. c \in Commands /\ c.at = "retry" /\ c.op = op /\ c.file = f /\ c.old = old /\ c.new = x
    BY DEF Commands, Command
  <2>d. c.dedup = (x \in blobs)
    OBVIOUS
  <2> HIDE DEF c
  <2>2. /\ rows' \in Tables
        /\ nextId' \in Nat \ {0} /\ \A g \in Files' : g < nextId'
        /\ cmd' \in [Workers -> Commands \cup {None}]
        /\ \A v \in InFlight' : cmd'[v].file < nextId'
        /\ \A v \in Workers \ {w} : cmd'[v] = cmd[v]
        /\ Outcome(w, c)
    BY <2>1, <2>c, AttemptTypes
  <2>3. /\ overlap' \in BOOLEAN
        /\ ~overlap' => ~overlap /\ \A v \in InFlight \ {w} : Apart(cmd[v], FilesOf(c), BlobsOf(c))
    <3>1. overlap \in BOOLEAN
      BY DEF Typed
    <3> QED BY <2>1, <3>1, TouchIsApart
  <2>4. Typed'
    BY <2>2, <2>3 DEF Typed
  <2> SUFFICES ASSUME ~overlap' PROVE Inv'
    BY <2>4 DEF Inv
  <2>5. Good(rows, Kept)
    BY <2>3 DEF Inv, Isolated
  <2>6. Good(rows, blobs \cup {x} \cup swept)
    BY <2>5 DEF Good, Kept
  <2>7. Safe(c, rows, blobs \cup {x} \cup swept)
    <3>1. op # "derive" => Unmoved(c, rows)
      BY <2>3, <2>c, FilesAreThoseIn DEF Unmoved
    <3>2. ASSUME NEW g \in FilesIn(rows), rows[g].hash = x PROVE op # "derive" /\ g = f
      <4>1. g \in Owners(x)
        BY <3>2, FilesAreThoseIn DEF Owners
      <4>2. op # "derive"
        BY <4>1
      <4>3. CASE x = old.hash
        BY <2>3, <2>5, <3>2, <4>2, <4>3, FilesAreThoseIn DEF Good
      <4>4. CASE x # old.hash
        BY <1>2, <4>1, <4>2, <4>4
      <4> QED BY <4>2, <4>3, <4>4
    <3> QED BY <2>c, <3>1, <3>2 DEF Safe
  <2>8. /\ Good(rows', Kept')
        /\ Within(rows, blobs \cup {x}, rows', blobs', FilesOf(c), BlobsOf(c))
        /\ Leaves(rows, rows', BlobsOf(c), {})
        /\ cmd'[w] = None \/ Safe(cmd'[w], rows', Kept')
        /\ Kept' = blobs' \cup swept
    BY <2>1, <2>c, <2>6, <2>7, AttemptKeeps
  <2>9. Within(rows, blobs, rows', blobs', FilesOf(c), BlobsOf(c))
    <3>1. x \in BlobsOf(c)
      BY <2>c, NoneIsNothing DEF BlobsOf
    <3> QED BY <2>8, <3>1 DEF Within
  <2>10. w \in InFlight' => /\ Safe(cmd'[w], rows', Kept')
                            /\ FilesOf(cmd'[w]) \subseteq FilesOf(c)
                            /\ BlobsOf(cmd'[w]) \subseteq BlobsOf(c)
    BY <2>2, <2>8 DEF Outcome, InFlight
  <2>11. Settled(w, BlobsOf(c), {})
    <3>1. LeftBefore(c, blobs \cup {x})
      <4> SUFFICES ASSUME x \in blobs \ Referenced, op = "save" PROVE x \in leaked
        BY <2>c, <2>d DEF LeftBefore
      <4>1. x \in Orphans /\ x \in BlobsOf(c)
        BY <2>c, NoneIsNothing DEF Orphans, BlobsOf
      <4>2. \A v \in InFlight \ {w} : x \notin BlobsOf(cmd[v])
        BY <2>3, <4>1 DEF Apart
      <4>3. w \in InFlight => x \notin BlobsOf(cmd[w])
        <5>1. old.blob \in Referenced
          BY <2>3 DEF Referenced
        <5> QED BY <5>1
      <4> QED BY <2>3, <4>1, <4>2, <4>3 DEF Inv, Isolated, Held
    <3>2. w \in InFlight => BlobsOf(cmd[w]) \subseteq BlobsOf(c)
      <4>1. w \in InFlight => old.blob \in BlobsOf(c)
        <5>1. w \in InFlight => old \in Row
          BY <2>3
        <5>2. old \in Row => old.blob \in Contents /\ old # None
          BY NoneIsNothing DEF Row
        <5> QED BY <2>c, <5>1, <5>2, NoneIsNothing DEF BlobsOf
      <4> QED BY <4>1
    <3> QED BY <2>1, <2>c, <2>6, <2>7, <3>1, <3>2, AttemptSettles DEF Settled
  <2> QED BY <2>2, <2>3, <2>4, <2>8, <2>9, <2>10, <2>11, OthersStayIsolated
<1> QED BY <1>1, <1>2

\* The bytes of a row that owns them are written, by an upload or a copy.
LEMMA DuplicateKeeps ==
    ASSUME Inv, NEW w, w \notin InFlight, NEW x \in Contents, Owners(x) # {},
           blobs' = blobs \cup {x}, Touch(w, {}, {x}), UNCHANGED <<rows, nextId, cmd>>, Leak({})
    PROVE  Inv'
<1>1. /\ overlap' \in BOOLEAN
      /\ ~overlap' => ~overlap /\ \A v \in InFlight \ {w} : Apart(cmd[v], {}, {x})
  <2>1. overlap \in BOOLEAN
    BY DEF Inv, Typed
  <2> QED BY <2>1, TouchIsApart
<1>2. Typed'
  BY <1>1 DEF Inv, Typed, Files, InFlight
<1>3. Within(rows, blobs, rows', blobs', {}, {x}) /\ Leaves(rows, rows', {x}, {})
  BY DEF Within, Leaves
<1>k. Kept' = blobs' \cup swept
  BY LeakKeeps
<1>4. ~overlap' => Good(rows', Kept')
  BY <1>1, <1>k DEF Inv, Isolated, Good, Kept
<1>5. w \notin InFlight' /\ \A v \in Workers : cmd'[v] = cmd[v]
  BY DEF InFlight
<1>6. ~overlap' => Settled(w, {x}, {})
  <2>1. ~overlap' => x \in Referenced'
    BY <1>1, FilesAreThoseIn DEF Inv, Isolated, Good, Owners, Referenced, Files
  <2> QED BY <1>5, <2>1 DEF Settled, Leak, Orphans
<1> QED BY <1>1, <1>2, <1>3, <1>4, <1>5, <1>6, <1>k, OthersStayIsolated

\* An upload keeps the invariant: its blob is taken back only when no row has it.
LEMMA UploadKeeps ==
    ASSUME Inv, NEW x \in Contents, Upload(x)
    PROVE  Inv'
<1>1. /\ overlap' \in BOOLEAN
      /\ ~overlap' => ~overlap /\ \A v \in InFlight \ {None} : Apart(cmd[v], {}, {x})
  <2>1. overlap \in BOOLEAN /\ Touch(None, {}, {x})
    BY DEF Inv, Typed, Upload
  <2> QED BY <2>1, TouchIsApart
<1>2. None \notin InFlight /\ None \notin InFlight' /\ cmd' = cmd
  BY NoneIsNothing DEF InFlight, Upload
<1>l. Leak({}) /\ Kept' = blobs' \cup swept
  BY LeakKeeps DEF Upload
<1>3. CASE Owners(x) # {} /\ blobs' = blobs \cup {x} /\ UNCHANGED <<rows, nextId>>
  <2>1. Touch(None, {}, {x}) /\ UNCHANGED <<rows, nextId, cmd>> /\ Leak({})
    BY <1>3, <1>l DEF Upload
  <2> QED BY <1>2, <1>3, <2>1, DuplicateKeeps
<1>4. CASE Owners(x) = {} /\ blobs' = blobs \ {x} /\ UNCHANGED <<rows, nextId>>
  <2>1. Typed'
    BY <1>1, <1>2, <1>4 DEF Inv, Typed, Files, InFlight
  <2>2. Within(rows, blobs, rows', blobs', {}, {x}) /\ Leaves(rows, rows', {x}, {})
    BY <1>4 DEF Within, Leaves
  <2>3. ~overlap' => Good(rows', Kept')
    BY <1>1, <1>4, <1>l, FilesAreThoseIn DEF Inv, Isolated, Good, Owners, Kept
  <2>4. Settled(None, {x}, {})
    BY <1>2, <1>4, <1>l DEF Settled, Leak, Orphans
  <2> QED BY <1>1, <1>2, <1>l, <2>1, <2>2, <2>3, <2>4, OthersStayIsolated
<1>5. CASE /\ Owners(x) = {} /\ nextId \in FileIds /\ blobs' = blobs \cup {x} /\ nextId' = nextId + 1
           /\ rows' = [rows EXCEPT ![nextId] = [hash |-> x, blob |-> x, parent |-> None]]
  <2> DEFINE r == [hash |-> x, blob |-> x, parent |-> None]
  <2>1. r \in Row /\ r.hash = x /\ r.blob = x /\ r # None
    BY NoneIsNothing DEF Row
  <2>2. rows \in Tables /\ nextId \in Nat \ {0} /\ nextId \notin Files
        /\ \A f \in Files : f < nextId
    BY DEF Inv, Typed, FileIds, Files
  <2> HIDE DEF r
  <2>3. rows' \in Tables /\ \A f \in FileIds : rows'[f] = IF f = nextId THEN r ELSE rows[f]
    BY <1>5, <2>1, <2>2 DEF Tables, r
  <2>4. \A f \in Files' : f < nextId'
    BY <1>5, <2>2, <2>3 DEF Files, FileIds
  <2>5. Typed'
    <3>1. \A v \in InFlight' : cmd'[v].file < nextId'
      <4> TAKE v \in InFlight'
      <4>1. cmd'[v] = cmd[v] /\ cmd[v] \in Command /\ cmd[v].file < nextId
        BY <1>2 DEF Inv, Typed, InFlight, Commands
      <4>2. cmd[v].file \in FileIds
        BY <4>1 DEF Command
      <4> QED BY <1>5, <2>2, <4>1, <4>2 DEF FileIds
    <3> QED BY <1>1, <1>2, <1>5, <2>2, <2>3, <2>4, <3>1 DEF Inv, Typed
  <2>6. Within(rows, blobs, rows', blobs', {}, {x}) /\ Leaves(rows, rows', {x}, {})
    BY <1>5, <2>1, <2>2, <2>3 DEF Within, Leaves, Files, FilesIn
  <2>7. ~overlap' => Good(rows', Kept')
    <3> SUFFICES ASSUME ~overlap' PROVE Good(rows', Kept')
      OBVIOUS
    <3>1. Good(rows, Kept)
      BY <1>1 DEF Inv, Isolated
    <3>2. \A f \in FilesIn(rows) : rows[f].hash # x
      BY <1>5, FilesAreThoseIn DEF Owners
    <3>3. \A f \in FilesIn(rows') : \/ f \in FilesIn(rows) /\ rows'[f] = rows[f]
                                    \/ rows'[f] = r /\ f = nextId
      BY <2>3 DEF FilesIn
    <3>4. Kept' = blobs \cup {x} \cup swept
      BY <1>5, <1>l
    <3>5. ASSUME NEW f \in FilesIn(rows')
          PROVE  rows'[f].blob \in Kept' /\ rows'[f].hash = rows'[f].blob
      BY <2>1, <3>1, <3>3, <3>4, <3>5 DEF Good, Kept
    <3>6. ASSUME NEW f \in FilesIn(rows'), NEW g \in FilesIn(rows'),
                 rows'[g].hash = rows'[f].hash
          PROVE  g = f
      BY <2>1, <3>1, <3>2, <3>3, <3>6 DEF Good
    <3> QED BY <3>5, <3>6 DEF Good
  <2>8. Settled(None, {x}, {})
    <3>1. x \in Referenced'
      BY <1>5, <2>1, <2>3 DEF Referenced, Files
    <3> QED BY <1>2, <1>l, <3>1 DEF Settled, Leak, Orphans
  <2> QED BY <1>1, <1>2, <1>l, <2>5, <2>6, <2>7, <2>8, OthersStayIsolated
<1> QED BY <1>3, <1>4, <1>5 DEF Upload, Room

\* A bake holds the row it reads and that row's blob.
LEMMA BakeKeeps ==
    ASSUME Inv, NEW w \in Workers, BakeAndSave(w)
    PROVE  Inv'
<1>1. PICK f \in Files :
          /\ rows[f].blob \in blobs
          /\ Suspend(w, [op |-> "bake", at |-> "baking", file |-> f, old |-> rows[f],
                         new |-> None, dedup |-> FALSE, tries |-> 0])
          /\ Touch(w, {f}, {rows[f].blob})
  BY DEF BakeAndSave
<1> DEFINE c == [op |-> "bake", at |-> "baking", file |-> f, old |-> rows[f],
                 new |-> None, dedup |-> FALSE, tries |-> 0]
<1>2. UNCHANGED <<rows, nextId, blobs, leaked, swept>> /\ w \notin InFlight
  BY DEF BakeAndSave, InFlight
<1>3. rows[f] \in Row /\ f \in FileIds /\ f < nextId
  BY DEF Inv, Typed, Tables, Files
<1>4. c \in Commands
  BY <1>3 DEF Commands, Command, Operations
<1>5. FilesOf(c) \subseteq {f} /\ BlobsOf(c) \subseteq {rows[f].blob}
  BY <1>3, NoneIsNothing DEF FilesOf, BlobsOf
<1>k. Kept' = Kept /\ Kept' = blobs' \cup swept
  BY <1>2 DEF Kept
<1>6. Safe(c, rows, Kept) /\ c.at = "baking" /\ c.file = f
  BY <1>3, FilesAreThoseIn DEF Safe, Unmoved
<1> HIDE DEF c
<1>7. cmd' = [cmd EXCEPT ![w] = c]
  BY <1>1 DEF Suspend, c
<1>8. /\ overlap' \in BOOLEAN
      /\ ~overlap' => ~overlap /\ \A v \in InFlight \ {w} : Apart(cmd[v], {f}, {rows[f].blob})
  <2>1. overlap \in BOOLEAN
    BY DEF Inv, Typed
  <2> QED BY <1>1, <2>1, TouchIsApart
<1>9. Typed' /\ cmd'[w] = c /\ \A v \in Workers \ {w} : cmd'[v] = cmd[v]
  BY <1>2, <1>3, <1>4, <1>6, <1>7, <1>8 DEF Inv, Typed, Files, InFlight
<1>10. Within(rows, blobs, rows', blobs', {f}, {rows[f].blob})
       /\ Leaves(rows, rows', {rows[f].blob}, {})
  BY <1>2 DEF Within, Leaves
<1>11. ~overlap' => Good(rows', Kept')
  BY <1>2, <1>8, <1>k DEF Inv, Isolated
<1>12. Safe(cmd'[w], rows', Kept') /\ FilesOf(cmd'[w]) \subseteq {f}
       /\ BlobsOf(cmd'[w]) \subseteq {rows[f].blob}
  BY <1>2, <1>5, <1>6, <1>9, <1>k
<1>13. Settled(w, {rows[f].blob}, {})
  <2>1. Orphans' = Orphans /\ rows[f].blob \in Referenced
    BY <1>2 DEF Orphans, Referenced, Files
  <2> QED BY <1>2, <1>6, <1>9, <2>1 DEF Settled, Accounted, Orphans
<1> QED BY <1>8, <1>9, <1>10, <1>11, <1>12, <1>13, <1>k, OthersStayIsolated

\* A later attempt changes only what its command holds since its first one.
LEMMA RetryKeeps ==
    ASSUME Inv, NEW w \in Workers, Retry(w)
    PROVE  Inv'
<1> DEFINE c == cmd[w]
<1>1. c \in Commands /\ c.at = "retry" /\ Persist(w, c, blobs) /\ w \in InFlight
      /\ overlap' = overlap /\ c.file < nextId
  BY DEF Inv, Typed, Retry, InFlight
<1> HIDE DEF c
<1>2. /\ rows' \in Tables
      /\ nextId' \in Nat \ {0} /\ \A g \in Files' : g < nextId'
      /\ cmd' \in [Workers -> Commands \cup {None}]
      /\ \A v \in InFlight' : cmd'[v].file < nextId'
      /\ \A v \in Workers \ {w} : cmd'[v] = cmd[v]
      /\ Outcome(w, c)
  BY <1>1, AttemptTypes DEF Inv
<1>3. Typed'
  BY <1>1, <1>2 DEF Inv, Typed
<1> SUFFICES ASSUME ~overlap' PROVE Inv'
  BY <1>3 DEF Inv
<1>4. Isolated
  BY <1>1 DEF Inv
<1>5. Good(rows, blobs \cup swept) /\ Safe(c, rows, blobs \cup swept) /\ LeftBefore(c, blobs)
  BY <1>1, <1>4 DEF Isolated, Accounted, LeftBefore, Orphans, Kept, c
<1>6. /\ Good(rows', Kept')
      /\ Within(rows, blobs, rows', blobs', FilesOf(c), BlobsOf(c))
      /\ Leaves(rows, rows', BlobsOf(c), {})
      /\ cmd'[w] = None \/ Safe(cmd'[w], rows', Kept')
      /\ Kept' = blobs' \cup swept
  BY <1>1, <1>5, AttemptKeeps DEF Inv
<1>7. \A v \in InFlight \ {w} : Apart(cmd[v], FilesOf(c), BlobsOf(c))
  BY <1>1, <1>4 DEF Isolated, c
<1>8. w \in InFlight' => /\ Safe(cmd'[w], rows', Kept')
                         /\ FilesOf(cmd'[w]) \subseteq FilesOf(c)
                         /\ BlobsOf(cmd'[w]) \subseteq BlobsOf(c)
  BY <1>2, <1>6 DEF Outcome, InFlight
<1>9. Settled(w, BlobsOf(c), {})
  <2>1. /\ leaked \cap Orphans' \subseteq leaked'
        /\ \A b \in Orphans' \cap BlobsOf(c) :
              b \in leaked' \/ (w \in InFlight' /\ b \in BlobsOf(cmd'[w]))
        /\ w \in InFlight' => Accounted(cmd'[w], Orphans', leaked')
    BY <1>1, <1>5, AttemptSettles DEF Inv
  <2> QED BY <2>1 DEF Settled, c
<1> QED BY <1>1, <1>2, <1>3, <1>6, <1>7, <1>8, <1>9, OthersStayIsolated

\* A copy holds its new content; a copy of what is there changes no row.
LEMMA CreateDerivedKeeps ==
    ASSUME Inv, NEW w \in Workers, CreateDerivedFile(w)
    PROVE  Inv'
<1>1. cmd[w] = None /\ w \notin InFlight
  BY DEF CreateDerivedFile, InFlight
<1>2. PICK p \in Files, x \in Contents :
          \/ /\ Owners(x) # {}
             /\ blobs' = blobs \cup {x}
             /\ Touch(w, {}, {x})
             /\ UNCHANGED <<rows, nextId, cmd>>
             /\ Leak({})
          \/ /\ Owners(x) = {}
             /\ Store(w, "derive", p, None, x)
  BY DEF CreateDerivedFile
<1>3. CASE /\ Owners(x) # {} /\ blobs' = blobs \cup {x} /\ Touch(w, {}, {x})
           /\ UNCHANGED <<rows, nextId, cmd>> /\ Leak({})
  BY <1>1, <1>3, DuplicateKeeps
<1>4. CASE Owners(x) = {} /\ Store(w, "derive", p, None, x)
  <2>1. p \in FileIds /\ p < nextId /\ "derive" \in Operations
    BY DEF Files, Operations, Inv, Typed
  <2> QED BY <1>1, <1>4, <2>1, StoreKeeps
<1> QED BY <1>2, <1>3, <1>4

\* A save or a replacement reads its row in the step of its first attempt.
LEMMA SaveKeeps ==
    ASSUME Inv, NEW w \in Workers, NEW op, SaveFile(w, op)
    PROVE  Inv'
<1>1. PICK f \in Files, x \in Contents : Store(w, op, f, rows[f], x)
  BY DEF SaveFile
<1>2. op \in Operations /\ op # "derive"
  BY DEF SaveFile, Operations
<1>3. f \in FileIds /\ rows[f] \in Row /\ f < nextId
  BY DEF Files, Inv, Typed, Tables
<1>4. w \notin InFlight
  BY DEF SaveFile, InFlight
<1> QED BY <1>1, <1>2, <1>3, <1>4, StoreKeeps

\* When the bake is done the row it read is still the one in the table.
LEMMA BakedKeeps ==
    ASSUME Inv, NEW w \in Workers, Baked(w)
    PROVE  Inv'
<1>1. PICK x \in Contents : Store(w, "bake", cmd[w].file, cmd[w].old, x)
  BY DEF Baked
<1>2. cmd[w] \in Command /\ w \in InFlight /\ cmd[w].at = "baking"
      /\ cmd[w].file < nextId /\ cmd[w].new = None
  BY DEF Baked, Inv, Typed, Commands, InFlight
<1>3. cmd[w].file \in FileIds /\ cmd[w].old \in Row \cup {None} /\ "bake" \in Operations
  BY <1>2 DEF Command, Operations
<1>4. ~overlap => /\ cmd[w].file \in Files /\ cmd[w].old \in Row
                  /\ rows[cmd[w].file].hash = cmd[w].old.hash
                  /\ rows[cmd[w].file].blob = cmd[w].old.blob
  BY <1>2, FilesAreThoseIn DEF Inv, Isolated, Safe, Unmoved
<1>5. BlobsOf(cmd[w]) \subseteq {cmd[w].old.blob}
  BY <1>2 DEF BlobsOf
<1> QED BY <1>1, <1>2, <1>3, <1>4, <1>5, StoreKeeps

\* The old blob goes when no row names it any more.
LEMMA CleanupKeeps ==
    ASSUME Inv, NEW w \in Workers, Cleanup(w)
    PROVE  Inv'
<1> DEFINE c == cmd[w]
<1>1. /\ c \in Command /\ w \in InFlight /\ c.at = "cleanup"
      /\ blobs' = IF LeavesOldBlob(c) THEN blobs \ {c.old.blob} ELSE blobs
      /\ cmd' = [cmd EXCEPT ![w] = None]
      /\ rows' = rows /\ nextId' = nextId /\ overlap' = overlap /\ Leak({})
      /\ Kept' = blobs' \cup swept
  BY LeakKeeps DEF Inv, Typed, Commands, Cleanup, Finish, InFlight
<1> HIDE DEF c
<1>2. Typed' /\ w \notin InFlight' /\ \A v \in Workers \ {w} : cmd'[v] = cmd[v]
  BY <1>1 DEF Inv, Typed, Files, InFlight
<1>3. LeavesOldBlob(c) => c.old.blob \in BlobsOf(c)
  <2>1. c.old # None => c.old \in Row /\ c.old.blob \in Contents
    BY <1>1 DEF Command, Row
  <2> QED BY <2>1, NoneIsNothing DEF BlobsOf, LeavesOldBlob
<1>4. Within(rows, blobs, rows', blobs', {}, BlobsOf(c)) /\ Leaves(rows, rows', BlobsOf(c), {})
  BY <1>1, <1>3 DEF Within, Leaves
<1> SUFFICES ASSUME ~overlap' PROVE Inv'
  BY <1>2 DEF Inv
<1>5. Isolated
  BY <1>1 DEF Inv
<1>6. \A v \in InFlight \ {w} : Apart(cmd[v], {}, BlobsOf(c))
  BY <1>1, <1>5 DEF Isolated, Apart, c
<1>7. Good(rows', Kept')
  <2>1. Good(rows, Kept) /\ Safe(c, rows, Kept)
    BY <1>1, <1>5 DEF Isolated, c
  <2> QED BY <1>1, <2>1 DEF Good, Safe, Kept
<1>8. Settled(w, BlobsOf(c), {})
  <2>1. Orphans' \subseteq Orphans /\ leaked' = leaked \cap Orphans'
    BY <1>1 DEF Orphans, Referenced, Files, Leak
  <2>2. c.new \in Orphans => c.new \in leaked
    BY <1>1, <1>5 DEF Isolated, Accounted, c
  <2>3. ASSUME NEW b \in BlobsOf(c), b \in Orphans' PROVE b = c.new
    BY <1>1, <2>3 DEF BlobsOf, LeavesOldBlob, Orphans
  <2> QED BY <1>2, <2>1, <2>2, <2>3 DEF Settled, c
<1> QED BY <1>1, <1>2, <1>4, <1>6, <1>7, <1>8, OthersStayIsolated

\* A row goes with the one that is deleted, or because the row it copies goes.
LEMMA CascadeFollowsParents ==
    ASSUME rows \in Tables, NEW f \in Files, NEW g \in Cascade(f), g # f
    PROVE  rows[g].parent \in Cascade(f)
<1> DEFINE F == Cascade(f)
           D == F \ {g}
           Closed(E) == f \in E /\ \A h \in Files : rows[h].parent \in E => h \in E
<1> SUFFICES ASSUME rows[g].parent \notin F PROVE FALSE
  OBVIOUS
<1>1. F = {h \in Files : \A E \in SUBSET Files : Closed(E) => h \in E}
  BY DEF Cascade
<1>2. Closed(F)
  BY <1>1
<1>3. Closed(D) /\ D \in SUBSET Files
  BY <1>1, <1>2
<1>4. g \in D
  BY <1>1, <1>3
<1> QED BY <1>4

\* A deletion removes the blob of a row that goes, and no other row has it.
LEMMA DeleteKeeps ==
    ASSUME Inv, NEW f \in Files, DeleteFile(f)
    PROVE  Inv'
<1> DEFINE F == Cascade(f)
           X == {rows[f].blob}
           L == {rows[g].blob : g \in F}
<1>1. /\ rows' = [g \in FileIds |-> IF g \in F THEN None ELSE rows[g]]
      /\ blobs' = blobs \ X
      /\ Touch(None, F, X)
      /\ nextId' = nextId /\ cmd' = cmd /\ Leak(L)
      /\ Kept' = blobs' \cup swept
  BY LeakKeeps DEF DeleteFile
<1>2. f \in F /\ F \subseteq Files
  BY DEF Cascade
<1>p. \A g \in F : g = f \/ rows[g].parent \in F
  BY CascadeFollowsParents DEF Inv, Typed
<1> HIDE DEF F
<1>3. /\ overlap' \in BOOLEAN
      /\ ~overlap' => ~overlap /\ \A v \in InFlight \ {None} : Apart(cmd[v], F, X)
  <2>1. overlap \in BOOLEAN
    BY DEF Inv, Typed
  <2> QED BY <1>1, <2>1, TouchIsApart
<1>4. rows' \in Tables /\ \A g \in Files' : g \in Files /\ g \notin F /\ rows'[g] = rows[g]
  BY <1>1 DEF Inv, Typed, Tables, Files
<1>5. Typed' /\ None \notin InFlight'
  BY <1>1, <1>3, <1>4, NoneIsNothing DEF Inv, Typed, InFlight
<1>6. Within(rows, blobs, rows', blobs', F, X)
  BY <1>1 DEF Within
<1>l. Leaves(rows, rows', X, L)
  BY <1>1, <1>2, <1>p DEF Leaves, FilesIn, Files
<1>7. ~overlap' => Good(rows', Kept')
  <2>1. FilesIn(rows') = Files'
    BY DEF FilesIn, Files
  <2> SUFFICES ASSUME Good(rows, Kept) PROVE Good(rows', Kept')
    BY <1>3 DEF Inv, Isolated
  <2>2. \A g \in Files' : rows'[g].blob # rows[f].blob
    BY <1>2, <1>4, FilesAreThoseIn DEF Good
  <2> QED BY <1>1, <1>4, <2>1, <2>2, FilesAreThoseIn DEF Good, Kept
<1>8. Settled(None, X, L)
  <2>1. None \notin InFlight
    BY NoneIsNothing DEF InFlight
  <2> QED BY <1>1, <1>5, <2>1 DEF Settled, Leak, Orphans
<1> QED BY <1>1, <1>3, <1>5, <1>6, <1>7, <1>8, <1>l, OthersStayIsolated

\* A garbage collection removes no blob that a row names, and what it takes from
\* a waiting write is recorded.
LEMMA GcKeeps ==
    ASSUME Inv, GcOrphans
    PROVE  Inv'
<1>1. /\ blobs' = blobs \cap Referenced
      /\ swept' = swept \cup (Orphans \cap Waiting)
      /\ rows' = rows /\ nextId' = nextId /\ cmd' = cmd /\ overlap' = overlap
  BY DEF GcOrphans
<1>2. Typed' /\ InFlight' = InFlight /\ Orphans' = {}
  BY <1>1 DEF Inv, Typed, Files, InFlight, Orphans, Referenced
<1> SUFFICES ASSUME ~overlap' PROVE Isolated'
  BY <1>2 DEF Inv
<1>3. Isolated
  BY <1>1 DEF Inv
<1>4. \A x \in Kept : x \in Referenced \cup Waiting => x \in Kept'
  BY <1>1 DEF Kept, Orphans
<1>5. Good(rows', Kept')
  BY <1>1, <1>3, <1>4, FilesAreThoseIn DEF Isolated, Good, Referenced
<1>6. ASSUME NEW v \in InFlight PROVE Safe(cmd'[v], rows', Kept')
  <2>1. Safe(cmd[v], rows, Kept)
    BY <1>3 DEF Isolated
  <2>2. cmd[v].at = "retry" => cmd[v].new \in Waiting
    BY DEF Waiting
  <2> QED BY <1>1, <1>4, <2>1, <2>2 DEF Safe
<1> QED BY <1>1, <1>2, <1>3, <1>5, <1>6 DEF Isolated, Accounted

\* A crash forgets the commands in flight and nothing else.
LEMMA CrashKeeps ==
    ASSUME Inv, Crash
    PROVE  Inv'
<1>1. /\ cmd' = [v \in Workers |-> None]
      /\ rows' = rows /\ nextId' = nextId /\ blobs' = blobs /\ overlap' = overlap
  BY DEF Crash
<1>2. Typed' /\ InFlight' = {}
  BY <1>1 DEF Inv, Typed, Files, InFlight
<1>3. ~overlap' => Orphans' \subseteq leaked'
  <2>1. Leak(Held) /\ Orphans' = Orphans
    BY <1>1 DEF Crash, Held, Orphans, Referenced, Files
  <2> QED BY <1>1, <2>1 DEF Inv, Isolated, Leak
<1>4. Kept' = blobs' \cup swept
  BY LeakKeeps DEF Crash
<1> QED BY <1>1, <1>2, <1>3, <1>4 DEF Inv, Isolated, Kept

-----------------------------------------------------------------------------
(* The theorems.                                                           *)

\* Isolation is an invariant of the library.
THEOREM InvHolds == Spec => []Inv
<1>1. Init => Inv
  <2> SUFFICES ASSUME Init PROVE Inv
    OBVIOUS
  <2>1. Files = {} /\ FilesIn(rows) = {} /\ InFlight = {} /\ Orphans = {}
    BY DEF Init, Files, FilesIn, InFlight, Orphans
  <2>2. rows \in Tables /\ cmd \in [Workers -> Commands \cup {None}]
    BY DEF Init, Tables
  <2>3. nextId \in Nat \ {0}
    <3>1. nextId = 1
      BY DEF Init
    <3> QED BY <3>1
  <2>4. overlap \in BOOLEAN
    BY Zenon DEF Init
  <2>5. Typed
    BY <2>1, <2>2, <2>3, <2>4 DEF Typed
  <2> QED BY <2>1, <2>5 DEF Inv, Isolated, Good
<1>2. Inv /\ [Next]_vars => Inv'
  <2> SUFFICES ASSUME Inv, [Next]_vars PROVE Inv'
    OBVIOUS
  <2>1. ASSUME NEW w \in Workers, SaveFile(w, "save") \/ SaveFile(w, "replace") PROVE Inv'
    BY <2>1, SaveKeeps
  <2>2. ASSUME NEW w \in Workers, BakeAndSave(w) PROVE Inv'
    BY <2>2, BakeKeeps
  <2>3. ASSUME NEW w \in Workers, Baked(w) PROVE Inv'
    BY <2>3, BakedKeeps
  <2>4. ASSUME NEW w \in Workers, CreateDerivedFile(w) PROVE Inv'
    BY <2>4, CreateDerivedKeeps
  <2>5. ASSUME NEW w \in Workers, Retry(w) PROVE Inv'
    BY <2>5, RetryKeeps
  <2>6. ASSUME NEW w \in Workers, Cleanup(w) PROVE Inv'
    BY <2>6, CleanupKeeps
  <2>7. ASSUME NEW x \in Contents, Upload(x) PROVE Inv'
    BY <2>7, UploadKeeps
  <2>8. ASSUME NEW f \in Files, DeleteFile(f) PROVE Inv'
    BY <2>8, DeleteKeeps
  <2>9. CASE GcOrphans
    BY <2>9, GcKeeps
  <2>10. CASE Crash
    BY <2>10, CrashKeeps
  <2>11. CASE UNCHANGED vars
    BY <2>11 DEF vars, Inv, Typed, Isolated, Files, InFlight, Orphans, Referenced, Held, Kept
  <2> QED BY <2>1, <2>2, <2>3, <2>4, <2>5, <2>6, <2>7, <2>8, <2>9, <2>10, <2>11 DEF Next
<1> QED BY <1>1, <1>2, PTL DEF Spec

\* What the types leave to be shown next to Typed.
Bounded ==
    /\ nextId <= MaxFiles + 1
    /\ blobs \subseteq Contents /\ leaked \subseteq Contents /\ swept \subseteq Contents
    /\ \A w \in InFlight : cmd[w].tries < Attempts

\* An attempt keeps within the ids, the contents and the tries.
LEMMA AttemptIsBounded ==
    ASSUME Typed, Bounded, NEW w \in Workers, NEW c \in Commands, c.at = "retry",
           c.tries < Attempts, NEW disk \in SUBSET Contents, Persist(w, c, disk)
    PROVE  Bounded'
<1>0. c \in Command /\ nextId \in Nat /\ MaxFiles \in Nat /\ Attempts \in Nat /\ c.tries \in Nat
  BY FileLibraryAssumption DEF Commands, Command, Typed
<1>1. /\ blobs' \subseteq disk /\ nextId' <= MaxFiles + 1
      /\ leaked' \subseteq blobs' /\ swept' \subseteq swept
  <2>1. Reject(w, c, disk) => blobs' \subseteq disk /\ nextId' = nextId
    BY DEF Reject
  <2>2. Commit(w, c, disk) => blobs' = disk /\ nextId' <= MaxFiles + 1
    BY <1>0 DEF Commit, Room, FileIds, Bounded
  <2>3. leaked' \subseteq Orphans' /\ swept' \subseteq swept
    BY DEF Persist, Reject, Commit, Leak
  <2> QED BY <2>1, <2>2, <2>3 DEF Persist, Bounded, Orphans
<1>2. \/ cmd' = [cmd EXCEPT ![w] = None]
      \/ cmd' = [cmd EXCEPT ![w] = [c EXCEPT !.at = "cleanup"]]
      \/ cmd' = [cmd EXCEPT ![w] = Again(c)] /\ ~LastTry(c)
  BY DEF Persist, Reject, Commit, Finish, Suspend
<1>3. [c EXCEPT !.at = "cleanup"].tries < Attempts
  BY <1>0 DEF Command
<1>4. ~LastTry(c) => Again(c).tries < Attempts
  <2>1. Again(c).tries = c.tries + 1
    BY <1>0 DEF Again, Command
  <2> QED BY <1>0, <2>1 DEF LastTry
<1>5. \A v \in InFlight' : cmd'[v].tries < Attempts
  BY <1>2, <1>3, <1>4 DEF Typed, Bounded, InFlight
<1> QED BY <1>1, <1>5 DEF Bounded

\* A write keeps within them as well.
LEMMA StoreIsBounded ==
    ASSUME Typed, Bounded, NEW w \in Workers, NEW op \in Operations, NEW f \in FileIds,
           NEW old \in Row \cup {None}, NEW x \in Contents, op = "derive" => old = None,
           Store(w, op, f, old, x)
    PROVE  Bounded'
<1> DEFINE c == [op |-> op, at |-> "retry", file |-> f, old |-> old, new |-> x,
                 dedup |-> x \in blobs, tries |-> 0]
<1>1. CASE Finish(w) /\ UNCHANGED <<rows, nextId, blobs, overlap, leaked, swept>>
  BY <1>1 DEF Finish, Typed, Bounded, InFlight
<1>2. CASE Persist(w, c, blobs \cup {x})
  <2>1. c \in Commands /\ c.at = "retry" /\ c.tries = 0
    BY DEF Commands, Command
  <2>2. 0 < Attempts /\ blobs \cup {x} \in SUBSET Contents
    BY FileLibraryAssumption DEF Bounded
  <2> HIDE DEF c
  <2> QED BY <1>2, <2>1, <2>2, AttemptIsBounded
<1> QED BY <1>1, <1>2 DEF Store

\* The types hold, overlap or not: ids, contents and tries keep their bounds.
THEOREM TypeCorrect == Spec => []TypeOK
<1>0. MaxFiles \in Nat /\ Attempts \in Nat \ {0}
  BY FileLibraryAssumption
<1>1. Init => Bounded
  BY <1>0 DEF Init, Bounded, InFlight
<1>2. Inv /\ Bounded /\ [Next]_vars => Bounded'
  <2> SUFFICES ASSUME Inv, Bounded, [Next]_vars PROVE Bounded'
    OBVIOUS
  <2>t. Typed
    BY DEF Inv
  <2>1. ASSUME NEW w \in Workers, SaveFile(w, "save") \/ SaveFile(w, "replace") PROVE Bounded'
    BY <2>1, <2>t, StoreIsBounded DEF SaveFile, Typed, Tables, Files, Operations
  <2>2. ASSUME NEW w \in Workers, BakeAndSave(w) PROVE Bounded'
    BY <1>0, <2>2, <2>t DEF BakeAndSave, Suspend, Bounded, Typed, InFlight
  <2>3. ASSUME NEW w \in Workers, Baked(w) PROVE Bounded'
    <3>1. cmd[w] \in Command
      BY <2>3, <2>t DEF Baked, Typed, Commands
    <3>2. cmd[w].file \in FileIds /\ cmd[w].old \in Row \cup {None} /\ "bake" \in Operations
      BY <3>1 DEF Command, Operations
    <3> QED BY <2>3, <2>t, <3>2, StoreIsBounded DEF Baked
  <2>4. ASSUME NEW w \in Workers, CreateDerivedFile(w) PROVE Bounded'
    <3>1. PICK p \in Files, x \in Contents :
              \/ blobs' = blobs \cup {x} /\ UNCHANGED <<rows, nextId, cmd>> /\ Leak({})
              \/ Store(w, "derive", p, None, x)
      BY <2>4 DEF CreateDerivedFile
    <3>2. CASE blobs' = blobs \cup {x} /\ UNCHANGED <<rows, nextId, cmd>> /\ Leak({})
      BY <3>2 DEF Bounded, Leak, Orphans, InFlight
    <3>3. CASE Store(w, "derive", p, None, x)
      BY <2>t, <3>3, StoreIsBounded DEF Files, Operations
    <3> QED BY <3>1, <3>2, <3>3
  <2>5. ASSUME NEW w \in Workers, Retry(w) PROVE Bounded'
    BY <2>5, <2>t, AttemptIsBounded DEF Retry, Typed, Bounded, InFlight
  <2>6. ASSUME NEW w \in Workers, Cleanup(w) PROVE Bounded'
    BY <2>6, <2>t DEF Cleanup, Finish, Leak, Orphans, Typed, Bounded, InFlight
  <2>7. ASSUME NEW x \in Contents, Upload(x) PROVE Bounded'
    <3>1. nextId' <= MaxFiles + 1
      BY <1>0, <2>7, <2>t DEF Upload, Room, FileIds, Typed, Bounded
    <3>2. blobs' \subseteq Contents
      BY <2>7 DEF Upload, Bounded
    <3> QED BY <2>7, <3>1, <3>2 DEF Upload, Leak, Orphans, Bounded, InFlight
  <2>8. ASSUME NEW f \in Files, DeleteFile(f) PROVE Bounded'
    BY <2>8 DEF DeleteFile, Leak, Orphans, Bounded, InFlight
  <2>9. CASE GcOrphans
    BY <2>9 DEF GcOrphans, Orphans, Bounded, InFlight
  <2>10. CASE Crash
    BY <2>10 DEF Crash, Leak, Orphans, Bounded, InFlight
  <2>11. CASE UNCHANGED vars
    BY <2>11 DEF vars, Bounded, InFlight
  <2> QED BY <2>1, <2>2, <2>3, <2>4, <2>5, <2>6, <2>7, <2>8, <2>9, <2>10, <2>11 DEF Next
<1>3. Inv /\ Bounded => TypeOK
  BY <1>0 DEF Inv, Typed, Tables, Commands, Bounded, TypeOK
<1> QED BY <1>1, <1>2, <1>3, InvHolds, PTL DEF Spec

\* As long as no two commands in flight meet in a file or a content, a row of
\* midi_files lacks its blob on disk only if a garbage collection took it while
\* the write waited for the locked database, through rollbacks, retries, crashes
\* and cascading deletions; and content_hash names the blob, although the hash is
\* written only when it differs from the one read before the bake.
THEOREM RowsStayWhole == Spec => []RowsAreWhole
<1>1. Inv => RowsAreWhole
  BY FilesAreThoseIn DEF Inv, Isolated, Good, RowsAreWhole, Referenced, Kept
<1> QED BY <1>1, InvHolds, PTL

\* Under the same proviso what no row uses is what a command in flight holds, or
\* what a crash, a failed bake, replacement or copy, or a cascade left.
THEOREM OrphansAccountedFor == Spec => []OrphansAreExplained
<1>1. Inv => OrphansAreExplained
  BY DEF Inv, Isolated, OrphansAreExplained, Held
<1> QED BY <1>1, InvHolds, PTL

\* Under the same proviso a command about to answer has its content in the
\* library, unless its copy went with the file it was made from or a collection
\* took its bytes.
THEOREM AnswersAreTrue == Spec => []AnsweredIsStored
<1>1. ASSUME Inv, ~overlap, NEW w \in InFlight, cmd[w].at = "cleanup"
      PROVE  IF cmd[w].op = "derive"
             THEN cmd[w].file \in Files =>
                      \E f \in Files : Stores(rows, f, cmd[w].new) /\ cmd[w].new \in Kept
             ELSE cmd[w].file \in Files /\ Stores(rows, cmd[w].file, cmd[w].new)
                  /\ cmd[w].new \in Kept
  BY <1>1, FilesAreThoseIn DEF Inv, Isolated, Good, Safe, Stores
<1>2. Inv => AnsweredIsStored
  BY <1>1 DEF AnsweredIsStored, Stores, Kept
<1> QED BY <1>2, InvHolds, PTL
=============================================================================
