----------------------------- MODULE JobLifecycle -----------------------------
(* What TranscriptionJobManager promises of its jobs, whatever the engine    *)
(* does: an accepted job waits, works and ends once, in the order of         *)
(* creation and never more than `Parallel` at a time; only an ended job is   *)
(* forgotten.                                                                *)
EXTENDS Integers, FiniteSets

CONSTANTS
    Ids,      \* jobs, numbered in the order of their creation
    Parallel  \* jobs that may work at a time

VARIABLE state \* of every job there was, is or will be

Outcomes == {"complete", "failed", "cancelled"}
States == {"absent", "waiting", "working", "forgotten"} \cup Outcomes

In(s) == {j \in Ids : state[j] = s}

Init == state = [j \in Ids |-> "absent"]

\* A job is created; finished ones may be forgotten to make room.
Accept(j) ==
    /\ state[j] = "absent"
    /\ \A i \in In("absent") : j <= i
    /\ \E F \in SUBSET {i \in Ids : state[i] \in Outcomes} :
          state' = [i \in Ids |-> IF i = j THEN "waiting"
                                  ELSE IF i \in F THEN "forgotten" ELSE state[i]]

\* Some waiting jobs begin, the oldest first.
Begin ==
    \E B \in (SUBSET In("waiting")) \ {{}} :
        /\ \A i \in In("waiting"), b \in B : i < b => i \in B
        /\ Cardinality(In("working") \cup B) <= Parallel
        /\ state' = [i \in Ids |-> IF i \in B THEN "working" ELSE state[i]]

\* A working job ends in any way; one that waits can only be cancelled.
End(j, outcome) ==
    /\ \/ state[j] = "working"
       \/ state[j] = "waiting" /\ outcome = "cancelled"
    /\ state' = [state EXCEPT ![j] = outcome]

Forget(j) ==
    /\ state[j] \in Outcomes
    /\ state' = [state EXCEPT ![j] = "forgotten"]

Next ==
    \/ \E j \in Ids : \/ Accept(j)
                      \/ Forget(j)
                      \/ \E outcome \in Outcomes : End(j, outcome)
    \/ Begin

Spec == Init /\ [][Next]_state
===============================================================================
