--------------------------- MODULE ApplyAssignments ---------------------------
(***************************************************************************)
(* Concurrent `apply_assignments` commands on one file: FileWriteLock, a   *)
(* mutex per file whose waiters give up after a time and enter without it, *)
(* and the version token by which an apply refuses to write on top of what *)
(* it did not see.                                                         *)
(*                                                                         *)
(* The bytes of a file are the set of transformations they contain, so two *)
(* contents are equal exactly when their hashes are.  The active automatic *)
(* routings of a file are the columns that routingFingerprint reads and    *)
(* the rest.  A step is what a handler does between two awaits.            *)
(***************************************************************************)
EXTENDS FiniteSets

CONSTANTS
    Applies,  \* the apply commands, each sent once
    Plans,    \* what they ask for: a mode, rows, and if an instrument has hands
    Edits,    \* saves of the file editor, which do not take the lock
    Columns   \* what the routings may say

\* The columns in the fingerprint (channels, device, transposition, split) and
\* the others (overlap_strategy, behavior_mode, instrument_name, ...).
Rows == [print : Columns, rest : Columns]
Modes == {"routings", "overwrite", "adapt"}  \* createAdaptedFile, overwriteOriginal

ASSUME ApplyAssumption ==
    /\ "absent" \notin Applies \cup Edits /\ {"none", "other"} \subseteq Columns
    /\ Plans \subseteq [mode : Modes, hands : BOOLEAN, rows : Rows] /\ Plans # {}

VARIABLES
    bytes,    \* contents of the original, its adapted child and a third file
    routes,   \* their active automatic routings
    cmd,      \* what each apply has suspended
    ahead,    \* _chains: the applies that an apply's `previous` waits for
    edited,   \* edits made
    expired,  \* history: applies in their section without the lock
    slipped,  \* history: applies in their section with another writer inside
    blind     \* history: what applies with nobody inside overwrote unseen

vars == <<bytes, routes, cmd, ahead, edited, expired, slipped, blind>>

Files == {"original", "adapted", "third"}
Absent == {"absent"}  \* the content of a file not created yet
Contents == SUBSET (Applies \cup Edits \cup {"bake", "absent", "child"})
NoRows == [print |-> "none", rest |-> "none"]
OtherRows == [print |-> "other", rest |-> "other"]  \* those of the third file
States == {"idle", "waiting", "retry", "routing", "bake", "baked", "answered"}

InSection == {c \in Applies : cmd[c].pc \in {"retry", "routing", "bake", "baked"}}
Tickets == {c \in Applies : cmd[c].pc = "waiting"} \cup InSection

-----------------------------------------------------------------------------
\* What there is to see on arrival; no apply looks for a third file.
Now == [bytes |-> bytes, routes |-> [routes EXCEPT !["third"] = NoRows]]

\* The file whose routings are part of the token.
Fingerprinted(s) == IF s.bytes["adapted"] # Absent THEN "adapted" ELSE "original"

TokenOfRoutings(s) == \* mutant: the hashes are left out of the token
    <<{}, {}, s.routes[Fingerprinted(s)].print>>

\* snapshotApplyTargets, with routingFingerprint
Token(s) ==
    <<s.bytes["original"], s.bytes["adapted"], s.routes[Fingerprinted(s)].print>>

\* The file that receives the bytes and the routings.
Target(c) ==
    IF cmd[c].twin THEN "third"
    ELSE IF cmd[c].plan.mode = "adapt" THEN "adapted" ELSE "original"

\* UNIQUE(content_hash): no other file has these bytes.
Unique(f, buffer) == \A g \in Files \ {f} : bytes[g] # buffer

\* A command that has nothing suspended.
Ended(pc) ==
    [pc |-> pc, plan |-> CHOOSE plan \in Plans : TRUE, buffer |-> {}, twin |-> FALSE,
     saw |-> [bytes |-> [f \in Files |-> {}], routes |-> [f \in Files |-> NoRows]]]

\* A third file may hold what an apply is about to make of the original.
Init ==
    /\ \E child \in {{"child"}, Absent}, third \in {{c} : c \in Applies} \cup {Absent} :
           bytes = [f \in Files |-> CASE f = "original" -> {}
                                      [] f = "adapted" -> child
                                      [] f = "third" -> third]
    /\ routes = [f \in Files |-> IF f = "third" THEN OtherRows ELSE NoRows]
    /\ cmd = [c \in Applies |-> Ended("idle")]
    /\ ahead = [c \in Applies |-> {}]
    /\ edited = {} /\ expired = {} /\ slipped = {} /\ blind = {}

\* applyAssignments up to its first await: snapshot, then a place in the chain.
Arrive(c, plan) ==
    /\ cmd[c].pc = "idle"
    /\ cmd' = [cmd EXCEPT ![c] = [pc |-> "waiting", plan |-> plan, saw |-> Now,
                                  buffer |-> {}, twin |-> FALSE]]
    /\ ahead' = [ahead EXCEPT ![c] = Tickets]
    /\ UNCHANGED <<bytes, routes, edited, expired, slipped, blind>>

GrantedAtOnce(c) == TRUE \* mutant: acquire does not wait

\* `previous` is resolved: every earlier ticket was released.
Granted(c) == ahead[c] = {}

\* _waitWithTimeout resolves although `previous` has not.
GivesUp(c) == ~Granted(c)

\* The `finally` of applyAssignments.
Release(c) == [d \in Applies |-> ahead[d] \ {c}]

Answer(c) ==
    /\ cmd' = [cmd EXCEPT ![c] = Ended("answered")]
    /\ ahead' = Release(c)

Suspend(c, pc, saw, buffer) ==
    /\ cmd' = [cmd EXCEPT ![c].pc = pc, ![c].saw = saw, ![c].buffer = buffer]
    /\ UNCHANGED ahead

\* The token covers the routings that c replaces.
Covered(c) == Target(c) = Fingerprinted(cmd[c].saw)

\* Bookkeeping of an overwrite by c of what it takes for `old`.
Overwrite(c, what, old, current) ==
    IF old = current \/ c \in slipped \/ InSection \ {c} # {} THEN {} ELSE {what}

\* What c loses of the rows it replaces, seen by the token or not.
OverwriteRows(c, old, current) ==
    Overwrite(c, IF Covered(c) /\ old.print # current.print THEN "routings" ELSE "uncovered",
              old, current)

\* replaceFileBytes or createDerivedFile commits.
CommitBytes(c, buffer, pc) ==
    LET f == Target(c)
    IN  /\ Unique(f, buffer)
        /\ bytes' = [bytes EXCEPT ![f] = buffer]
        /\ blind' = blind \cup Overwrite(c, "bytes", cmd[c].saw.bytes[f], bytes[f])
        /\ Suspend(c, pc, [cmd[c].saw EXCEPT !.bytes[f] = buffer], buffer)
        /\ UNCHANGED routes

\* createDerivedFile finds a file with these bytes: status 'duplicate'.
TakeTwin(c, buffer) ==
    /\ bytes["adapted"] = Absent /\ bytes["third"] = buffer
    /\ cmd' = [cmd EXCEPT ![c] = [@ EXCEPT !.pc = "routing", !.twin = TRUE,
                                           !.saw.bytes["third"] = buffer]]
    /\ UNCHANGED <<bytes, routes, ahead, blind>>

\* deleteActiveAutoByFileId, then a row per channel; either may fail.  Then
\* the bake, if a row that was saved has hands.
ReplaceRoutings(c) ==
    \E rows \in {cmd[c].plan.rows, NoRows, routes[Target(c)]} :
        LET f == Target(c)
        IN  /\ routes' = [routes EXCEPT ![f] = rows]
            /\ blind' = blind \cup OverwriteRows(c, cmd[c].saw.routes[f], routes[f])
            /\ IF cmd[c].plan.hands /\ rows = cmd[c].plan.rows
               THEN Suspend(c, "bake", [cmd[c].saw EXCEPT !.routes[f] = rows], {})
               ELSE Answer(c)
            /\ UNCHANGED bytes

\* snapshotDrift
Conflict(c) == Token(cmd[c].saw) # Token(Now)

\* applyAssignmentsLocked up to its first await, or its end.
Section(c) ==
    \/ /\ Conflict(c)
       /\ Answer(c)
       /\ UNCHANGED <<bytes, routes, blind>>
    \/ /\ ~Conflict(c)       \* unreadable, unconvertible, or a collision of bytes
       /\ Answer(c)
       /\ UNCHANGED <<bytes, routes, blind>>
    \/ /\ ~Conflict(c) /\ cmd[c].plan.mode = "routings"
       /\ ReplaceRoutings(c)
    \/ /\ ~Conflict(c) /\ cmd[c].plan.mode # "routings"
       /\ LET buffer == bytes["original"] \cup {c}
          IN  \/ CommitBytes(c, buffer, "routing")
              \/ cmd[c].plan.mode = "adapt" /\ TakeTwin(c, buffer)
              \/ /\ Unique(Target(c), buffer)
                 /\ Suspend(c, "retry", cmd[c].saw, buffer) /\ UNCHANGED <<bytes, routes, blind>>

EnterSection(c) ==
    /\ Section(c)
    /\ slipped' = InSection' \cap (IF InSection = {} THEN {} ELSE InSection \cup {c})
    /\ UNCHANGED edited

Enter(c) ==
    /\ cmd[c].pc = "waiting" /\ Granted(c)
    /\ EnterSection(c)
    /\ expired' = expired \cap InSection'

Expire(c) ==
    /\ cmd[c].pc = "waiting" /\ GivesUp(c)
    /\ EnterSection(c)
    /\ expired' = (expired \cup {c}) \cap InSection'

\* Nobody enters in the step.
Alone ==
    /\ slipped' = slipped \cap InSection' /\ expired' = expired \cap InSection'
    /\ UNCHANGED edited

\* The pause after a locked database ends: the write commits, or has no try left.
Retry(c) ==
    /\ cmd[c].pc = "retry"
    /\ \/ CommitBytes(c, cmd[c].buffer, "routing")
       \/ Answer(c) /\ UNCHANGED <<bytes, routes, blind>>
    /\ Alone

SaveRoutings(c) ==
    /\ cmd[c].pc = "routing"
    /\ ReplaceRoutings(c)
    /\ Alone

\* bakeAndSave reads the file and awaits the baker.
Bake(c) ==
    /\ cmd[c].pc = "bake"
    /\ LET f == Target(c)
       IN  Suspend(c, "baked", [cmd[c].saw EXCEPT !.bytes[f] = bytes[f]], bytes[f] \cup {"bake"})
    /\ UNCHANGED <<bytes, routes, blind>>
    /\ Alone

\* It stores the baked file, or fails, which is only a warning.
StoreBaked(c) ==
    /\ cmd[c].pc = "baked"
    /\ LET f == Target(c)
       IN  \/ /\ Unique(f, cmd[c].buffer)
              /\ bytes' = [bytes EXCEPT ![f] = cmd[c].buffer]
              /\ blind' = blind \cup Overwrite(c, "bytes", cmd[c].saw.bytes[f], bytes[f])
           \/ UNCHANGED <<bytes, blind>>
    /\ Answer(c)
    /\ UNCHANGED routes
    /\ Alone

\* A save of the editor, which takes no lock.
Edit(e, f) ==
    /\ e \notin edited /\ bytes[f] # Absent
    /\ bytes' = [bytes EXCEPT ![f] = {e}]
    /\ edited' = edited \cup {e}
    /\ slipped' = slipped \cup InSection
    /\ UNCHANGED <<routes, cmd, ahead, expired, blind>>

Next ==
    \/ \E c \in Applies :
           \/ \E plan \in Plans : Arrive(c, plan)
           \/ Enter(c) \/ Expire(c) \/ Retry(c)
           \/ SaveRoutings(c) \/ Bake(c) \/ StoreBaked(c)
    \/ \E e \in Edits, f \in Files : Edit(e, f)

Spec == Init /\ [][Next]_vars

-----------------------------------------------------------------------------
(* Each variable has its type. *)
TypeOK ==
    /\ bytes \in [Files -> Contents]
    /\ routes \in [Files -> Rows]
    /\ cmd \in [Applies -> [pc : States, plan : Plans, buffer : Contents, twin : BOOLEAN,
                            saw : [bytes : [Files -> Contents], routes : [Files -> Rows]]]]
    /\ ahead \in [Applies -> SUBSET Applies]
    /\ edited \subseteq Edits
    /\ expired \subseteq Applies /\ slipped \subseteq Applies
    /\ blind \subseteq {"bytes", "routings", "uncovered"}

(* Of two applies between read and write, one gave up waiting: the mutex   *)
(* holds among those that did not, whatever order they came, expired and   *)
(* ended in (FileWriteLock.acquire).                                       *)
SectionIsExclusive ==
    \A c, d \in InSection : c # d => {c, d} \cap expired # {}

(* "No write silently lost": bytes, or fingerprinted routing columns, that  *)
(* an apply replaces are those of its snapshot, taken before it waited, or *)
(* of itself, except where a writer without the lock was inside its        *)
(* section, or the rows are not those in the token (snapshotApplyTargets,  *)
(* snapshotDrift).                                                         *)
NoBlindOverwrite ==
    "bytes" \notin blind /\ "routings" \notin blind

(* The token covers "everything one `apply_assignments` may overwrite",    *)
(* says the comment of snapshotApplyTargets.  It does not hold what        *)
(* routingFingerprint leaves out, nor the original's routings when there   *)
(* is an adapted child, nor those of a third file with the adapted bytes.  *)
NoRoutingsLost ==
    "uncovered" \notin blind
=============================================================================
