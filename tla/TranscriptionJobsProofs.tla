------------------------ MODULE TranscriptionJobsProofs ------------------------
(***************************************************************************)
(* TranscriptionJobManager for any number of jobs, slots and places in the *)
(* queue and in memory: slots are never lost nor overdrawn, each job is    *)
(* announced once, a complete job is stored, memory is bounded, and the    *)
(* manager implements JobLifecycle.                                        *)
(*                                                                         *)
(* The invariants hang together through `work`: the status of a job is     *)
(* tied to where its pipeline stands, so that what waits in the queue has  *)
(* no work, and what has work is neither finished nor announced.           *)
(***************************************************************************)
EXTENDS TranscriptionJobs, FiniteSetTheorems, SequenceTheorems, TLAPS

\* The status of a job and where its pipeline stands.
Pipeline(job, w) ==
    /\ w \in Stages => job.status = w
    /\ w \in {"resolved", "rejected"} => job.status \in Stages
    /\ w = "settled" => job.status \in Terminal \cup {"forgotten"}
    /\ w = "none" => job.status \notin Stages

\* AnnouncedOnce, with the jobs that are forgotten.
ToldOnce(job, t) ==
    /\ job.status \in Terminal => t = <<job.status>>
    /\ job.status = "forgotten" => Len(t) = 1
    /\ job.status \notin Terminal \cup {"forgotten"} => t = <<>>

\* CompleteIsHonest, with the jobs on their way there.
Honest(job, w) ==
    /\ job.status = "complete" => job.imported /\ ~job.stopped /\ ~job.timedOut
    /\ w = "resolved" => job.imported
    /\ job.stopped \/ job.timedOut => job.aborted

Sound(j) == Pipeline(jobs[j], work[j]) /\ ToldOnce(jobs[j], told[j]) /\ Honest(jobs[j], work[j])

\* The two halves of SlotsAreWork.
SlotsTaken ==
    /\ running = {j \in Ids : work[j] # "none"}
    /\ Cardinality(running) <= MaxParallel
    /\ \A j \in Ids : jobs[j].timer => j \in running

QueueWaits ==
    /\ \A i \in DOMAIN queue :
          /\ jobs[queue[i]].status = "queued"
          /\ \A k \in DOMAIN queue : k < i => queue[k] < queue[i]
    /\ ~destroyed => \A j \in Ids : jobs[j].status = "queued" =>
                        \E i \in DOMAIN queue : queue[i] = j

\* The jobs not created yet come last.
CreatedInOrder ==
    \A i, j \in Ids : i < j /\ jobs[i].status = "absent" => jobs[j].status = "absent"

Inv ==
    /\ TypeOK
    /\ SlotsTaken
    /\ QueueWaits
    /\ CreatedInOrder
    /\ \A j \in Ids : Sound(j)

-----------------------------------------------------------------------------
(* Sets of jobs.                                                           *)

LEMMA IdsFinite == IsFiniteSet(Ids) /\ Ids \subseteq Nat
  BY FS_Interval, LimitsAssumption DEF Ids

LEMMA JobsFinite ==
  ASSUME NEW S \in SUBSET Ids
  PROVE  IsFiniteSet(S) /\ Cardinality(S) \in Nat
  BY IdsFinite, FS_Subset, FS_CardinalityType

LEMMA SubsetCardinality ==
  ASSUME NEW S \in SUBSET Ids, NEW T \in SUBSET S
  PROVE  Cardinality(T) <= Cardinality(S)
  BY JobsFinite, FS_Subset

LEMMA UnionCardinality ==
  ASSUME NEW S \in SUBSET Ids, NEW T \in SUBSET Ids
  PROVE  Cardinality(S \cup T) <= Cardinality(S) + Cardinality(T)
<1>1. /\ IsFiniteSet(S) /\ IsFiniteSet(T)
      /\ Cardinality(S) \in Nat /\ Cardinality(T) \in Nat
  BY JobsFinite
<1>2. Cardinality(S \cap T) \in Nat
  BY S \cap T \in SUBSET Ids, JobsFinite
<1>3. Cardinality(S \cup T) = Cardinality(S) + Cardinality(T) - Cardinality(S \cap T)
  BY <1>1, FS_Union
<1> QED
  BY <1>1, <1>2, <1>3

LEMMA DifferenceCardinality ==
  ASSUME NEW S \in SUBSET Ids, NEW T \in SUBSET S
  PROVE  Cardinality(S \ T) = Cardinality(S) - Cardinality(T)
<1>1. IsFiniteSet(S) /\ S \cap T = T
  BY JobsFinite
<1> QED
  BY <1>1, FS_Difference

\* A set of jobs that is not empty has an oldest one: it has the fewest below.
LEMMA HasOldest ==
  ASSUME NEW S \in SUBSET Ids, NEW U \in SUBSET S, U # {}
  PROVE  \E m \in U : \A i \in U : m <= i
<1> DEFINE Below(i) == {k \in S : k < i}
           F == {Below(i) : i \in U}
<1>1. F # {} /\ F \subseteq FiniteSubsetsOf(S)
  <2>1. \A i \in U : Below(i) \in SUBSET S /\ IsFiniteSet(Below(i))
    BY JobsFinite
  <2> QED
    BY <2>1 DEF FiniteSubsetsOf
<1>2. PICK X \in F : \A Y \in F : <<Y, X>> \notin StrictSubsetOrdering(S)
  <2>1. IsWellFoundedOn(StrictSubsetOrdering(S), FiniteSubsetsOf(S))
    BY FS_StrictSubsetOrderingWellFounded
  <2> HIDE DEF F
  <2> QED
    BY <1>1, <2>1, WFMin
<1>3. PICK m \in U : X = Below(m)
  BY <1>2
<1>4. ASSUME NEW i \in U, i < m
      PROVE  FALSE
  <2>1. Below(i) \subseteq Below(m)
    <3>1. \A k \in S : k \in Nat
      BY IdsFinite
    <3>2. i \in Nat /\ m \in Nat
      BY IdsFinite
    <3>3. \A k \in S : k < i => k < m
      BY <1>4, <3>1, <3>2
    <3> QED
      BY <3>3
  <2>2. i \in Below(m) /\ i \notin Below(i)
    BY <1>4, IdsFinite
  <2>3. Below(i) \in F /\ Below(i) \in SUBSET S /\ Below(m) \in SUBSET S
    OBVIOUS
  <2>4. <<Below(i), Below(m)>> \in StrictSubsetOrdering(S)
    BY <2>1, <2>2, <2>3 DEF StrictSubsetOrdering
  <2> QED
    BY <1>2, <1>3, <2>3, <2>4
<1> QED
  BY <1>4, IdsFinite

\* Oldest takes as many as it is asked for, if there are as many.
LEMMA OldestCardinality ==
  ASSUME NEW S \in SUBSET Ids, NEW n \in Nat, n <= Cardinality(S)
  PROVE  Cardinality(Oldest(S, n)) >= n
<1> DEFINE O == Oldest(S, n)
<1>1. O \in SUBSET S /\ Cardinality(O) \in Nat /\ Cardinality(S) \in Nat
  BY JobsFinite DEF Oldest
<1>2. SUFFICES ASSUME Cardinality(O) < n
               PROVE  FALSE
  BY <1>1
<1>3. S \ O # {}
  BY <1>1, <1>2
<1>4. PICK m \in S \ O : \A i \in S \ O : m <= i
  BY <1>3, HasOldest
<1>5. {i \in S : i < m} \in SUBSET O
  <2>1. m \in Nat /\ \A i \in S : i \in Nat
    BY IdsFinite
  <2>2. \A i \in S \ O : ~(i < m)
    BY <1>4, <2>1
  <2> QED
    BY <2>2
<1>6. Cardinality({i \in S : i < m}) <= Cardinality(O) /\ Cardinality({i \in S : i < m}) \in Nat
  BY <1>1, <1>5, SubsetCardinality, JobsFinite
<1>7. m \in O
  BY <1>1, <1>2, <1>4, <1>6 DEF Oldest
<1> QED
  BY <1>4, <1>7

\* What is left of a set when the oldest make room.
LEMMA RoomIsMade ==
  ASSUME NEW S \in SUBSET Ids, NEW T \in SUBSET S, NEW max \in Nat,
         Cardinality(S) - Cardinality(T) <= max
  PROVE  Cardinality(S \ Oldest(T, Cardinality(S) - max)) <= max
<1> DEFINE n == Cardinality(S) - max
           O == Oldest(T, n)
<1>1. /\ T \in SUBSET Ids /\ O \in SUBSET T
      /\ Cardinality(S) \in Nat /\ Cardinality(T) \in Nat /\ Cardinality(O) \in Nat
  BY JobsFinite DEF Oldest
<1>2. Cardinality(S \ O) = Cardinality(S) - Cardinality(O)
  <2>1. O \in SUBSET S
    BY <1>1
  <2> HIDE DEF O
  <2> QED
    BY <2>1, DifferenceCardinality
<1>3. CASE n <= 0
  BY <1>1, <1>2, <1>3
<1>4. CASE n > 0
  <2>1. n \in Nat /\ n <= Cardinality(T)
    BY <1>1, <1>4
  <2>2. Cardinality(O) >= n
    BY <1>1, <2>1, OldestCardinality
  <2> QED
    BY <1>1, <1>2, <2>2
<1> QED
  BY <1>1, <1>3, <1>4

-----------------------------------------------------------------------------
(* The queue and the slots.                                                *)

\* The queue is a list of distinct jobs that wait.
LEMMA QueueFacts ==
  ASSUME TypeOK, QueueWaits
  PROVE  /\ Len(queue) \in Nat /\ DOMAIN queue = 1 .. Len(queue)
         /\ \A i \in 1 .. Len(queue) :
               /\ queue[i] \in Ids
               /\ jobs[queue[i]].status = "queued"
               /\ queue[i] \notin Finished
         /\ \A i, k \in 1 .. Len(queue) : k < i => queue[k] < queue[i]
         /\ \A i, k \in 1 .. Len(queue) : queue[k] = queue[i] => k = i
<1>1. Len(queue) \in Nat /\ DOMAIN queue = 1 .. Len(queue)
  BY LenProperties DEF TypeOK
<1>2. \A i \in 1 .. Len(queue) : queue[i] \in Ids /\ jobs[queue[i]].status = "queued"
  BY <1>1, ElementOfSeq DEF TypeOK, QueueWaits
<1>3. \A i \in 1 .. Len(queue) : queue[i] \notin Finished
  BY <1>2 DEF Finished, Terminal
<1>4. \A i, k \in 1 .. Len(queue) : k < i => queue[k] < queue[i]
  BY <1>1 DEF QueueWaits
<1>5. \A i, k \in 1 .. Len(queue) : queue[k] = queue[i] => k = i
  <2> TAKE i, k \in 1 .. Len(queue)
  <2>1. queue[i] \in Nat /\ queue[k] \in Nat
    BY <1>2, IdsFinite
  <2>2. k < i \/ i < k \/ i = k
    BY <1>1
  <2> QED
    BY <2>1, <2>2, <1>4
<1> QED
  BY <1>1, <1>2, <1>3, <1>4, <1>5

\* What _drain starts, besides the jobs of R.
Eldest(n) == {queue[i] : i \in 1 .. n}

\* _drain starts the front of the queue, as far as there are slots.
LEMMA DrainEffect ==
  ASSUME TypeOK, SlotsTaken, QueueWaits, NEW R \in SUBSET running, Drain(R)
  PROVE  \E n \in 0 .. Len(queue) :
            /\ destroyed => n = 0
            /\ n > 0 => Cardinality(R) + n <= MaxParallel
            /\ queue' = SubSeq(queue, n + 1, Len(queue))
            /\ running' = R \cup Eldest(n)
            /\ jobs' = [j \in Ids |-> IF j \in Eldest(n) THEN Started(jobs[j])
                                      ELSE IF j \in running \ R THEN Disarmed(jobs[j])
                                      ELSE jobs[j]]
            /\ work' = [j \in Ids |-> IF j \in Eldest(n) THEN "preprocessing"
                                      ELSE IF j \in running \ R THEN "none" ELSE work[j]]
<1> DEFINE r == Cardinality(R)
           take == IF destroyed THEN {} ELSE Taken(R)
<1>1. r \in Nat /\ r <= MaxParallel /\ MaxParallel \in Nat
  <2>1. running \in SUBSET Ids /\ R \in SUBSET Ids
    BY DEF TypeOK
  <2>2. Cardinality(running) \in Nat /\ r \in Nat /\ r <= Cardinality(running)
    BY <2>1, JobsFinite, SubsetCardinality
  <2> QED
    BY <2>2, LimitsAssumption DEF SlotsTaken
<1>2. PICK n \in 0 .. Len(queue) :
         /\ take = 1 .. n
         /\ destroyed => n = 0
         /\ n > 0 => r + n <= MaxParallel
  <2>1. CASE destroyed
    <3>1. take = 1 .. 0
      BY <2>1
    <3>2. 0 \in 0 .. Len(queue)
      BY QueueFacts
    <3> HIDE DEF take
    <3> QED
      BY <2>1, <3>1, <3>2
  <2>2. CASE ~destroyed
    <3>1. Taken(R) = {i \in 1 .. Len(queue) : r + (i - 1) < MaxParallel}
      <4>1. \A i \in 1 .. Len(queue) :
               Cardinality({k \in 1 .. (i - 1) : queue[k] \notin Finished}) = i - 1
        <5> TAKE i \in 1 .. Len(queue)
        <5>1. {k \in 1 .. (i - 1) : queue[k] \notin Finished} = 1 .. (i - 1)
          BY QueueFacts
        <5>2. Cardinality(1 .. (i - 1)) = i - 1
          BY FS_Interval, QueueFacts
        <5> QED
          BY <5>1, <5>2
      <4> QED
        BY <4>1, QueueFacts DEF Taken
    <3>2. Len(queue) \in Nat
      BY QueueFacts
    <3>3. CASE Len(queue) <= MaxParallel - r
      <4>1. take = 1 .. Len(queue) /\ Len(queue) \in 0 .. Len(queue)
        BY <1>1, <2>2, <3>1, <3>2, <3>3
      <4> HIDE DEF take
      <4> QED
        BY <1>1, <2>2, <3>2, <3>3, <4>1
    <3>4. CASE MaxParallel - r < Len(queue)
      <4>1. take = 1 .. (MaxParallel - r) /\ MaxParallel - r \in 0 .. Len(queue)
        BY <1>1, <2>2, <3>1, <3>2, <3>4
      <4> HIDE DEF take
      <4> QED
        BY <1>1, <2>2, <3>2, <4>1
    <3> QED
      BY <1>1, <3>2, <3>3, <3>4
  <2> QED
    BY <2>1, <2>2
<1>3. Cardinality(take) = n /\ n \in Nat
  BY <1>2, FS_Interval, QueueFacts
<1>4. {queue[i] : i \in take} \ Finished = Eldest(n)
  <2>1. \A i \in 1 .. n : queue[i] \notin Finished
    BY QueueFacts
  <2> QED
    BY <1>2, <2>1 DEF Eldest
<1>5. /\ queue' = SubSeq(queue, Cardinality(take) + 1, Len(queue))
      /\ running' = R \cup ({queue[i] : i \in take} \ Finished)
      /\ jobs' = [j \in Ids |-> IF j \in {queue[i] : i \in take} \ Finished THEN Started(jobs[j])
                                ELSE IF j \in running \ R THEN Disarmed(jobs[j])
                                ELSE jobs[j]]
      /\ work' = [j \in Ids |-> IF j \in {queue[i] : i \in take} \ Finished THEN "preprocessing"
                                ELSE IF j \in running \ R THEN "none" ELSE work[j]]
  BY DEF Drain
<1> HIDE DEF take
<1> QED
  BY <1>2, <1>3, <1>4, <1>5

LEMMA FrontFacts ==
  ASSUME TypeOK, QueueWaits, NEW n \in 0 .. Len(queue)
  PROVE  /\ Eldest(n) \in SUBSET Ids
         /\ \A j \in Eldest(n) : jobs[j].status = "queued"
         /\ Cardinality(Eldest(n)) <= n
<1>1. Eldest(n) \in SUBSET Ids /\ \A j \in Eldest(n) : jobs[j].status = "queued"
  BY QueueFacts DEF Eldest
<1>2. Cardinality(Eldest(n)) <= n
  <2> DEFINE f == [i \in 1 .. n |-> queue[i]]
  <2>1. f \in Surjection(1 .. n, Eldest(n))
    <3>1. f \in [1 .. n -> Eldest(n)]
      BY DEF Eldest
    <3>2. \A j \in Eldest(n) : \E i \in 1 .. n : f[i] = j
      BY DEF Eldest
    <3> HIDE DEF f
    <3> QED
      BY <3>1, <3>2 DEF Surjection
  <2>2. IsFiniteSet(1 .. n) /\ Cardinality(1 .. n) = n
    <3>1. n \in Nat
      BY QueueFacts
    <3> QED
      BY <3>1, FS_Interval
  <2> QED
    BY <2>1, <2>2, FS_Surjection
<1> QED
  BY <1>1, <1>2

\* What a drain leaves in the queue.
LEMMA RestFacts ==
  ASSUME TypeOK, QueueWaits, NEW n \in 0 .. Len(queue),
         NEW s, s = SubSeq(queue, n + 1, Len(queue))
  PROVE  /\ s \in Seq(Ids) /\ Len(s) = Len(queue) - n /\ DOMAIN s = 1 .. Len(s)
         /\ \A i \in 1 .. Len(s) : s[i] = queue[i + n] /\ i + n \in 1 .. Len(queue)
<1>1. Len(queue) \in Nat /\ n \in Int /\ \A i \in n + 1 .. Len(queue) : queue[i] \in Ids
  BY QueueFacts
<1>2. /\ s \in Seq(Ids)
      /\ Len(s) = IF n + 1 <= Len(queue) THEN Len(queue) - (n + 1) + 1 ELSE 0
      /\ \A i \in 1 .. Len(queue) - (n + 1) + 1 : s[i] = queue[n + 1 + i - 1]
  <2>1. n + 1 \in Int /\ Len(queue) \in Int
    BY <1>1
  <2> QED
    BY <1>1, <2>1, SubSeqProperties
<1>3. Len(s) = Len(queue) - n
  BY <1>1, <1>2
<1>4. DOMAIN s = 1 .. Len(s)
  BY <1>2, LenProperties
<1>5. \A i \in 1 .. Len(s) : s[i] = queue[i + n] /\ i + n \in 1 .. Len(queue)
  BY <1>1, <1>2, <1>3
<1> QED
  BY <1>2, <1>3, <1>4, <1>5

\* Until a shutdown, the front of the queue is older than the rest.
LEMMA FrontIsOldest ==
  ASSUME TypeOK, QueueWaits, ~destroyed, NEW n \in 0 .. Len(queue),
         NEW j \in Eldest(n), NEW i \in Ids, jobs[i].status = "queued", i < j
  PROVE  i \in Eldest(n)
<1>1. PICK p \in 1 .. Len(queue) : queue[p] = i
  BY QueueFacts DEF QueueWaits
<1>2. PICK q \in 1 .. n : queue[q] = j
  BY DEF Eldest
<1>3. q \in 1 .. Len(queue) /\ p \in Nat /\ q \in Nat /\ n \in Nat
  BY QueueFacts
<1>4. CASE p <= n
  BY <1>1, <1>3, <1>4 DEF Eldest
<1>5. CASE n < p
  <2>1. queue[q] < queue[p]
    BY <1>3, <1>5, QueueFacts
  <2>2. i \in Nat /\ j \in Nat
    BY IdsFinite, FrontFacts
  <2> QED
    BY <1>1, <1>2, <2>1, <2>2
<1> QED
  BY <1>3, <1>4, <1>5

-----------------------------------------------------------------------------
(* A drain, by whichever step.                                             *)

LEMMA DrainFields ==
  ASSUME TypeOK, NEW F \in SUBSET Ids, NEW D \in SUBSET Ids,
         jobs' = [j \in Ids |-> IF j \in F THEN Started(jobs[j])
                                ELSE IF j \in D THEN Disarmed(jobs[j]) ELSE jobs[j]]
  PROVE  /\ jobs' \in [Ids -> Jobs]
         /\ \A j \in Ids :
               /\ jobs'[j].status = IF j \in F THEN "preprocessing" ELSE jobs[j].status
               /\ jobs'[j].timer => (jobs[j].timer /\ j \notin D) \/ j \in F
               /\ jobs'[j].aborted = jobs[j].aborted
               /\ jobs'[j].timedOut = jobs[j].timedOut
               /\ jobs'[j].stopped = jobs[j].stopped
               /\ jobs'[j].imported = jobs[j].imported
               /\ jobs'[j].result = jobs[j].result
<1>1. \A j \in Ids : jobs[j] \in Jobs
  BY DEF TypeOK
<1>2. \A j \in Ids : Started(jobs[j]) \in Jobs /\ Disarmed(jobs[j]) \in Jobs
  BY <1>1 DEF Jobs, Started, Disarmed, Stages
<1>3. jobs' \in [Ids -> Jobs]
  BY <1>1, <1>2
<1>4. SUFFICES ASSUME NEW j \in Ids
               PROVE  /\ jobs'[j].status = IF j \in F THEN "preprocessing" ELSE jobs[j].status
                      /\ jobs'[j].timer => (jobs[j].timer /\ j \notin D) \/ j \in F
                      /\ jobs'[j].aborted = jobs[j].aborted
                      /\ jobs'[j].timedOut = jobs[j].timedOut
                      /\ jobs'[j].stopped = jobs[j].stopped
                      /\ jobs'[j].imported = jobs[j].imported
                      /\ jobs'[j].result = jobs[j].result
  BY <1>3
<1>5. CASE j \in F
  <2>1. jobs'[j] = [jobs[j] EXCEPT !.status = "preprocessing", !.timer = TRUE]
    BY <1>5 DEF Started
  <2> QED
    BY <1>1, <1>5, <2>1 DEF Jobs
<1>6. CASE j \notin F /\ j \in D
  <2>1. jobs'[j] = [jobs[j] EXCEPT !.timer = FALSE]
    BY <1>6 DEF Disarmed
  <2> QED
    BY <1>1, <1>6, <2>1 DEF Jobs
<1>7. CASE j \notin F /\ j \notin D
  BY <1>7
<1> QED
  BY <1>5, <1>6, <1>7

LEMMA DrainKeeps ==
  ASSUME Inv, NEW R \in SUBSET running, Drain(R),
         \A j \in running \ R : work[j] = "settled",
         draining' \in BOOLEAN, UNCHANGED <<destroyed, told>>
  PROVE  Inv'
<1> DEFINE D == running \ R
<1> USE DEF Inv
<1>1. PICK n \in 0 .. Len(queue) :
            /\ destroyed => n = 0
            /\ n > 0 => Cardinality(R) + n <= MaxParallel
            /\ queue' = SubSeq(queue, n + 1, Len(queue))
            /\ running' = R \cup Eldest(n)
            /\ jobs' = [j \in Ids |-> IF j \in Eldest(n) THEN Started(jobs[j])
                                      ELSE IF j \in D THEN Disarmed(jobs[j])
                                      ELSE jobs[j]]
            /\ work' = [j \in Ids |-> IF j \in Eldest(n) THEN "preprocessing"
                                      ELSE IF j \in D THEN "none" ELSE work[j]]
  BY DrainEffect
<1>2. /\ Eldest(n) \in SUBSET Ids /\ D \in SUBSET Ids /\ R \in SUBSET Ids
      /\ \A j \in Eldest(n) : jobs[j].status = "queued"
      /\ Cardinality(Eldest(n)) <= n
  BY FrontFacts DEF TypeOK
<1>3. /\ jobs' \in [Ids -> Jobs]
      /\ \A j \in Ids :
            /\ jobs'[j].status = IF j \in Eldest(n) THEN "preprocessing" ELSE jobs[j].status
            /\ jobs'[j].timer => (jobs[j].timer /\ j \notin D) \/ j \in Eldest(n)
            /\ jobs'[j].aborted = jobs[j].aborted
            /\ jobs'[j].timedOut = jobs[j].timedOut
            /\ jobs'[j].stopped = jobs[j].stopped
            /\ jobs'[j].imported = jobs[j].imported
            /\ jobs'[j].result = jobs[j].result
  BY <1>1, <1>2, DrainFields
<1>4. \A j \in Eldest(n) : work[j] = "none"
  BY <1>2 DEF TypeOK, Sound, Pipeline, Stages, Terminal, Work
<1>5. TypeOK'
  <2>1. work' \in [Ids -> Work]
    BY <1>1 DEF TypeOK, Work
  <2>2. queue' \in Seq(Ids)
    BY <1>1, RestFacts
  <2>3. running' \subseteq Ids
    BY <1>1, <1>2
  <2> QED
    BY <1>3, <2>1, <2>2, <2>3 DEF TypeOK
<1>6. SlotsTaken'
  <2>1. running' = {j \in Ids : work'[j] # "none"}
    BY <1>1, <1>2, <1>4 DEF SlotsTaken, TypeOK
  <2>2. Cardinality(running') <= MaxParallel
    <3>1. /\ Cardinality(R) <= Cardinality(running) /\ Cardinality(R) \in Nat
          /\ Cardinality(running) \in Nat /\ Cardinality(Eldest(n)) \in Nat
          /\ Cardinality(R \cup Eldest(n)) \in Nat
          /\ Cardinality(R \cup Eldest(n)) <= Cardinality(R) + Cardinality(Eldest(n))
      <4>1. running \in SUBSET Ids /\ R \cup Eldest(n) \in SUBSET Ids
        BY <1>2 DEF TypeOK
      <4> QED
        BY <1>2, <4>1, JobsFinite, SubsetCardinality, UnionCardinality
    <3>2. n \in Nat /\ MaxParallel \in Nat
      BY QueueFacts, LimitsAssumption
    <3>3. Cardinality(running) <= MaxParallel
      BY DEF SlotsTaken
    <3>4. CASE n > 0
      BY <1>1, <1>2, <3>1, <3>2, <3>4
    <3>5. CASE n = 0
      BY <1>1, <1>2, <3>1, <3>2, <3>3, <3>5
    <3> QED
      BY <3>2, <3>4, <3>5
  <2>3. \A j \in Ids : jobs'[j].timer => j \in running'
    BY <1>1, <1>3 DEF SlotsTaken
  <2> QED
    BY <2>1, <2>2, <2>3 DEF SlotsTaken
<1>7. QueueWaits'
  <2>1. /\ DOMAIN queue' = 1 .. Len(queue') /\ Len(queue') = Len(queue) - n
        /\ \A i \in 1 .. Len(queue') : queue'[i] = queue[i + n] /\ i + n \in 1 .. Len(queue)
    BY <1>1, RestFacts
  <2>2. n \in Nat /\ Len(queue) \in Nat
    BY QueueFacts
  <2>3. ASSUME NEW i \in DOMAIN queue'
        PROVE  jobs'[queue'[i]].status = "queued"
    <3>1. /\ i + n \in 1 .. Len(queue) /\ queue'[i] = queue[i + n]
          /\ queue[i + n] \in Ids /\ jobs[queue[i + n]].status = "queued"
      BY <2>1, <2>3, QueueFacts
    <3>2. queue[i + n] \notin Eldest(n)
      <4>1. \A p \in 1 .. n : p \in 1 .. Len(queue) /\ p # i + n
        BY <2>1, <2>2, <2>3
      <4> QED
        BY <3>1, <4>1, QueueFacts DEF Eldest
    <3> QED
      BY <1>3, <3>1, <3>2
  <2>4. ASSUME NEW i \in DOMAIN queue', NEW k \in DOMAIN queue', k < i
        PROVE  queue'[k] < queue'[i]
    <3>1. /\ k + n \in 1 .. Len(queue) /\ i + n \in 1 .. Len(queue) /\ k + n < i + n
          /\ queue'[i] = queue[i + n] /\ queue'[k] = queue[k + n]
      BY <2>1, <2>2, <2>4
    <3> QED
      BY <3>1, QueueFacts
  <2>5. ASSUME ~destroyed', NEW j \in Ids, jobs'[j].status = "queued"
        PROVE  \E i \in DOMAIN queue' : queue'[i] = j
    <3>1. j \notin Eldest(n) /\ jobs[j].status = "queued"
      BY <1>3, <2>5
    <3>2. PICK p \in 1 .. Len(queue) : queue[p] = j
      BY <2>5, <3>1, QueueFacts DEF QueueWaits
    <3>3. n < p
      BY <2>2, <3>1, <3>2 DEF Eldest
    <3>4. p - n \in 1 .. Len(queue') /\ queue'[p - n] = queue[(p - n) + n] /\ (p - n) + n = p
      BY <2>1, <2>2, <3>2, <3>3
    <3> QED
      BY <2>1, <3>2, <3>4
  <2> QED
    BY <2>3, <2>4, <2>5 DEF QueueWaits
<1>8. CreatedInOrder'
  BY <1>2, <1>3 DEF CreatedInOrder
<1>9. ASSUME NEW j \in Ids
      PROVE  Sound(j)'
  <2>1. Sound(j) /\ jobs[j] \in Jobs
    BY DEF TypeOK
  <2>2. CASE j \in Eldest(n)
    BY <1>1, <1>2, <1>3, <2>1, <2>2
       DEF Sound, Pipeline, ToldOnce, Honest, Stages, Terminal
  <2>3. CASE j \notin Eldest(n) /\ j \in D
    BY <1>1, <1>3, <2>1, <2>3
       DEF Sound, Pipeline, ToldOnce, Honest, Stages, Terminal
  <2>4. CASE j \notin Eldest(n) /\ j \notin D
    BY <1>1, <1>3, <2>1, <2>4
       DEF Sound, Pipeline, ToldOnce, Honest
  <2> QED
    BY <2>2, <2>3, <2>4
<1> QED
  BY <1>5, <1>6, <1>7, <1>8, <1>9

-----------------------------------------------------------------------------
(* A step that concerns one job, which neither waits nor waits thereafter. *)

LEMMA LocalStep ==
  ASSUME Inv, NEW j \in Ids,
         UNCHANGED <<running, queue, draining, destroyed>>,
         jobs' \in [Ids -> Jobs], work' \in [Ids -> Work], told' \in [Ids -> Seq(Terminal)],
         \A i \in Ids \ {j} :
            /\ jobs'[i] = [jobs[i] EXCEPT !.result = jobs'[i].result]
            /\ work'[i] = work[i] /\ told'[i] = told[i],
         jobs[j].status \notin {"queued", "absent"}, jobs'[j].status \notin {"queued", "absent"},
         jobs'[j].timer => jobs[j].timer,
         work'[j] = "none" <=> work[j] = "none",
         Pipeline(jobs'[j], work'[j]), ToldOnce(jobs'[j], told'[j]), Honest(jobs'[j], work'[j])
  PROVE  Inv'
<1> USE DEF Inv
<1>1. \A i \in Ids \ {j} :
         /\ jobs'[i].status = jobs[i].status /\ jobs'[i].timer = jobs[i].timer
         /\ jobs'[i].aborted = jobs[i].aborted /\ jobs'[i].timedOut = jobs[i].timedOut
         /\ jobs'[i].stopped = jobs[i].stopped /\ jobs'[i].imported = jobs[i].imported
  <2> TAKE i \in Ids \ {j}
  <2>1. jobs[i] \in Jobs
    BY DEF TypeOK
  <2>2. jobs'[i] = [jobs[i] EXCEPT !.result = jobs'[i].result]
    OBVIOUS
  <2> QED
    BY <2>1, <2>2 DEF Jobs
<1>2. TypeOK'
  BY DEF TypeOK
<1>3. SlotsTaken'
  <2>1. running' = {i \in Ids : work'[i] # "none"}
    BY DEF SlotsTaken
  <2>2. \A i \in Ids : jobs'[i].timer => i \in running'
    BY <1>1 DEF SlotsTaken
  <2> QED
    BY <2>1, <2>2 DEF SlotsTaken
<1>4. \A i \in Ids : jobs'[i].status = "queued" <=> jobs[i].status = "queued"
  BY <1>1
<1>5. QueueWaits'
  <2>1. \A i \in DOMAIN queue : queue[i] \in Ids
    BY QueueFacts
  <2> QED
    BY <1>4, <2>1 DEF QueueWaits
<1>6. CreatedInOrder'
  <2>1. \A i \in Ids : jobs'[i].status = "absent" <=> jobs[i].status = "absent"
    BY <1>1
  <2> QED
    BY <2>1 DEF CreatedInOrder
<1>7. ASSUME NEW i \in Ids
      PROVE  Sound(i)'
  <2>1. CASE i = j
    BY <2>1 DEF Sound
  <2>2. CASE i # j
    BY <1>1, <2>2 DEF Sound, Pipeline, ToldOnce, Honest
  <2> QED
    BY <2>1, <2>2
<1> QED
  BY <1>2, <1>3, <1>5, <1>6, <1>7

-----------------------------------------------------------------------------
(* The actions.                                                            *)

\* What the invariant says of a job with work under way, and of a finished one.
LEMMA JobFacts ==
  ASSUME Inv, NEW j \in Ids
  PROVE  /\ jobs[j] \in Jobs /\ work[j] \in Work /\ told[j] \in Seq(Terminal)
         /\ Sound(j)
         /\ j \in running <=> work[j] # "none"
         /\ work[j] \in Stages \cup {"resolved", "rejected"}
               => jobs[j].status \in Stages /\ j \notin Finished /\ told[j] = <<>>
         /\ j \in Finished => work[j] \in {"none", "settled"}
         /\ j \in Finished <=> jobs[j].status \in Terminal
         /\ j \in Known <=> jobs[j].status \notin Gone
<1>1. jobs[j] \in Jobs /\ work[j] \in Work /\ told[j] \in Seq(Terminal) /\ Sound(j)
  BY DEF Inv, TypeOK
<1>2. j \in running <=> work[j] # "none"
  BY DEF Inv, SlotsTaken
<1>3. /\ j \in Finished <=> jobs[j].status \in Terminal
      /\ j \in Known <=> jobs[j].status \notin Gone
  BY DEF Finished, Known
<1>4. work[j] \in Stages \cup {"resolved", "rejected"} => jobs[j].status \in Stages
  BY <1>1 DEF Sound, Pipeline
<1>5. jobs[j].status \in Stages => j \notin Finished /\ told[j] = <<>>
  BY <1>1, <1>3 DEF Sound, ToldOnce, Stages, Terminal
<1>6. j \in Finished => work[j] \in {"none", "settled"}
  BY <1>1, <1>4, <1>5 DEF Work, Stages
<1> QED
  BY <1>1, <1>2, <1>3, <1>4, <1>5, <1>6

\* Told once: a job that was not announced is.
LEMMA ToldFirst ==
  ASSUME NEW t, t = <<>>, NEW outcome \in Terminal
  PROVE  Append(t, outcome) = <<outcome>> /\ <<outcome>> \in Seq(Terminal)
  OBVIOUS

LEMMA EntersKeeps ==
  ASSUME Inv, NEW j \in Ids, NEW stage \in Stages, Enters(j, stage), work[j] \in Stages
  PROVE  Inv'
<1>1. /\ jobs[j] \in Jobs /\ Sound(j) /\ jobs[j].status \in Stages /\ j \notin Finished
      /\ told[j] = <<>>
  BY JobFacts
<1>2. /\ jobs' = [jobs EXCEPT ![j].status = stage]
      /\ work' = [work EXCEPT ![j] = stage]
      /\ UNCHANGED <<queue, running, draining, destroyed, told>>
  BY <1>1 DEF Enters
<1>3. /\ jobs \in [Ids -> Jobs] /\ work \in [Ids -> Work] /\ told \in [Ids -> Seq(Terminal)]
  BY DEF Inv, TypeOK
<1>4. /\ jobs'[j] = [jobs[j] EXCEPT !.status = stage] /\ work'[j] = stage /\ told'[j] = <<>>
  BY <1>1, <1>2, <1>3
<1>5. jobs' \in [Ids -> Jobs] /\ work' \in [Ids -> Work]
  BY <1>2, <1>3 DEF Jobs, Work, Stages
<1>6. \A i \in Ids \ {j} :
            /\ jobs'[i] = [jobs[i] EXCEPT !.result = jobs'[i].result]
            /\ work'[i] = work[i] /\ told'[i] = told[i]
  BY <1>2, <1>3 DEF Jobs
<1>7. /\ Pipeline(jobs'[j], work'[j]) /\ ToldOnce(jobs'[j], told'[j])
      /\ Honest(jobs'[j], work'[j]) /\ jobs'[j].status \in Stages
      /\ jobs'[j].timer = jobs[j].timer
  BY <1>1, <1>4 DEF Sound, Pipeline, ToldOnce, Honest, Jobs, Stages, Terminal
<1> QED
  BY <1>1, <1>2, <1>3, <1>4, <1>5, <1>6, <1>7, LocalStep DEF Stages

LEMMA ReachesKeeps ==
  ASSUME Inv, NEW j \in Ids, NEW end \in {"resolved", "rejected"}, NEW imported \in BOOLEAN,
         Reaches(j, end, imported), work[j] \in Stages, end = "resolved" => imported
  PROVE  Inv'
<1>1. /\ jobs[j] \in Jobs /\ Sound(j) /\ jobs[j].status \in Stages /\ told[j] = <<>>
  BY JobFacts
<1>2. /\ jobs' = [jobs EXCEPT ![j].imported = imported]
      /\ work' = [work EXCEPT ![j] = end]
      /\ UNCHANGED <<queue, running, draining, destroyed, told>>
  BY DEF Reaches
<1>3. /\ jobs \in [Ids -> Jobs] /\ work \in [Ids -> Work] /\ told \in [Ids -> Seq(Terminal)]
  BY DEF Inv, TypeOK
<1>4. /\ jobs'[j] = [jobs[j] EXCEPT !.imported = imported] /\ work'[j] = end /\ told'[j] = <<>>
  BY <1>1, <1>2, <1>3
<1>5. jobs' \in [Ids -> Jobs] /\ work' \in [Ids -> Work]
  BY <1>2, <1>3 DEF Jobs, Work
<1>6. \A i \in Ids \ {j} :
            /\ jobs'[i] = [jobs[i] EXCEPT !.result = jobs'[i].result]
            /\ work'[i] = work[i] /\ told'[i] = told[i]
  BY <1>2, <1>3 DEF Jobs
<1>7. /\ Pipeline(jobs'[j], work'[j]) /\ ToldOnce(jobs'[j], told'[j])
      /\ Honest(jobs'[j], work'[j]) /\ jobs'[j].status \in Stages
      /\ jobs'[j].timer = jobs[j].timer
  BY <1>1, <1>4 DEF Sound, Pipeline, ToldOnce, Honest, Jobs, Stages, Terminal
<1> QED
  BY <1>1, <1>2, <1>3, <1>4, <1>5, <1>6, <1>7, LocalStep DEF Stages

LEMMA TimesOutKeeps ==
  ASSUME Inv, NEW j \in Ids, TimesOut(j)
  PROVE  Inv'
<1>1. /\ jobs[j] \in Jobs /\ Sound(j) /\ jobs[j].status \in Stages /\ told[j] = <<>>
  <2>1. j \in running
    BY DEF TimesOut, Inv, SlotsTaken
  <2>2. work[j] \in Stages \cup {"resolved", "rejected"}
    BY <2>1, JobFacts DEF TimesOut, Work, Stages
  <2> QED
    BY <2>2, JobFacts
<1>2. /\ jobs' = [jobs EXCEPT ![j] = [Abort(@) EXCEPT !.timedOut = TRUE, !.timer = FALSE]]
      /\ UNCHANGED <<queue, running, work, draining, destroyed, told>>
  BY DEF TimesOut
<1>3. /\ jobs \in [Ids -> Jobs] /\ work \in [Ids -> Work] /\ told \in [Ids -> Seq(Terminal)]
  BY DEF Inv, TypeOK
<1>4. jobs'[j] = [jobs[j] EXCEPT !.aborted = TRUE, !.timedOut = TRUE, !.timer = FALSE]
  BY <1>1, <1>2, <1>3 DEF Abort, Jobs
<1>5. jobs' \in [Ids -> Jobs]
  BY <1>1, <1>2, <1>3, <1>4 DEF Jobs
<1>6. \A i \in Ids \ {j} :
            /\ jobs'[i] = [jobs[i] EXCEPT !.result = jobs'[i].result]
            /\ work'[i] = work[i] /\ told'[i] = told[i]
  BY <1>2, <1>3 DEF Jobs
<1>7. /\ Pipeline(jobs'[j], work'[j]) /\ ToldOnce(jobs'[j], told'[j])
      /\ Honest(jobs'[j], work'[j]) /\ jobs'[j].status \in Stages
      /\ ~jobs'[j].timer
  <2>1. /\ jobs'[j].status = jobs[j].status /\ jobs'[j].imported = jobs[j].imported
        /\ jobs'[j].aborted /\ ~jobs'[j].timer
    BY <1>1, <1>4 DEF Jobs
  <2>2. jobs[j].status \notin Terminal /\ jobs[j].status # "complete"
    BY <1>1 DEF Stages, Terminal
  <2>3. work'[j] = work[j] /\ told'[j] = told[j]
    BY <1>2
  <2> QED
    BY <1>1, <2>1, <2>2, <2>3 DEF Sound, Pipeline, ToldOnce, Honest
<1> QED
  BY <1>1, <1>2, <1>3, <1>5, <1>6, <1>7, LocalStep DEF Stages

LEMMA DeleteKeeps ==
  ASSUME Inv, NEW j \in Ids, Delete(j)
  PROVE  Inv'
<1>1. /\ jobs[j] \in Jobs /\ Sound(j) /\ jobs[j].status \in Terminal
      /\ work[j] \in {"none", "settled"}
  BY JobFacts DEF Delete
<1>2. /\ jobs' = [jobs EXCEPT ![j] = Forgotten]
      /\ UNCHANGED <<queue, running, work, draining, destroyed, told>>
  BY DEF Delete
<1>3. /\ jobs \in [Ids -> Jobs] /\ work \in [Ids -> Work] /\ told \in [Ids -> Seq(Terminal)]
  BY DEF Inv, TypeOK
<1>4. /\ Forgotten \in Jobs /\ Forgotten.status = "forgotten" /\ ~Forgotten.timer
      /\ ~Forgotten.stopped /\ ~Forgotten.timedOut
  BY DEF Forgotten, Blank, Jobs, Gone
<1>5. jobs' \in [Ids -> Jobs] /\ jobs'[j] = Forgotten
  BY <1>2, <1>3, <1>4
<1>6. \A i \in Ids \ {j} :
            /\ jobs'[i] = [jobs[i] EXCEPT !.result = jobs'[i].result]
            /\ work'[i] = work[i] /\ told'[i] = told[i]
  BY <1>2, <1>3 DEF Jobs
<1>7. /\ Pipeline(jobs'[j], work'[j]) /\ ToldOnce(jobs'[j], told'[j])
      /\ Honest(jobs'[j], work'[j])
  BY <1>1, <1>2, <1>4, <1>5 DEF Sound, Pipeline, ToldOnce, Honest, Stages, Terminal
<1>8. jobs[j].status \notin {"queued", "absent"}
  BY <1>1 DEF Terminal
<1> QED
  BY <1>2, <1>3, <1>4, <1>5, <1>6, <1>7, <1>8, LocalStep

LEMMA SettlesKeeps ==
  ASSUME Inv, NEW j \in Ids, Settles(j)
  PROVE  Inv'
<1> DEFINE outcome == Outcome(j)
           holders == {i \in Known : jobs[i].result} \cup {j}
<1>1. /\ jobs[j] \in Jobs /\ Sound(j) /\ jobs[j].status \in Stages /\ told[j] = <<>>
      /\ j \notin Finished /\ work[j] \in {"resolved", "rejected"}
  BY JobFacts DEF Settles
<1>2. /\ jobs \in [Ids -> Jobs] /\ work \in [Ids -> Work] /\ told \in [Ids -> Seq(Terminal)]
  BY DEF Inv, TypeOK
<1>3. outcome \in Terminal /\ (outcome = "complete" => work[j] = "resolved" /\ ~jobs[j].aborted)
  BY <1>1 DEF Outcome, Terminal
<1>4. /\ work' = [work EXCEPT ![j] = "settled"]
      /\ told' = [told EXCEPT ![j] = Append(@, outcome)]
      /\ UNCHANGED <<queue, running, draining, destroyed>>
      /\ IF outcome = "complete"
         THEN jobs' = [i \in Ids |->
                         [jobs[i] EXCEPT !.status = IF i = j THEN outcome ELSE @,
                                         !.result = i \in WithResult(holders)]]
         ELSE jobs' = [jobs EXCEPT ![j].status = outcome]
  BY <1>1 DEF Settles, Announce
<1>5. work'[j] = "settled" /\ told'[j] = <<outcome>>
  BY <1>1, <1>2, <1>3, <1>4, ToldFirst
<1>6. work' \in [Ids -> Work] /\ told' \in [Ids -> Seq(Terminal)]
  <2>1. Append(told[j], outcome) \in Seq(Terminal)
    BY <1>1, <1>3, ToldFirst
  <2> QED
    BY <1>2, <1>4, <2>1 DEF Work
<1>7. /\ jobs' \in [Ids -> Jobs]
      /\ \A i \in Ids \ {j} : jobs'[i] = [jobs[i] EXCEPT !.result = jobs'[i].result]
      /\ jobs'[j].status = outcome /\ jobs'[j].timer = jobs[j].timer
      /\ jobs'[j].imported = jobs[j].imported /\ jobs'[j].stopped = jobs[j].stopped
      /\ jobs'[j].timedOut = jobs[j].timedOut /\ jobs'[j].aborted = jobs[j].aborted
  <2>1. CASE outcome = "complete"
    <3> DEFINE R(i) == i \in WithResult(holders)
    <3>1. jobs' = [i \in Ids |-> [jobs[i] EXCEPT !.status = IF i = j THEN outcome ELSE @,
                                                !.result = R(i)]]
      BY <1>4, <2>1
    <3>2. \A i \in Ids : R(i) \in BOOLEAN
      OBVIOUS
    <3> HIDE DEF outcome, holders, R
    <3>3. ASSUME NEW i \in Ids \ {j}
          PROVE  jobs'[i] \in Jobs /\ jobs'[i] = [jobs[i] EXCEPT !.result = jobs'[i].result]
      <4>1. jobs'[i] = [jobs[i] EXCEPT !.status = jobs[i].status, !.result = R(i)] /\ jobs[i] \in Jobs
        BY <1>2, <3>1
      <4>2. jobs'[i] = [jobs[i] EXCEPT !.result = R(i)]
        BY <4>1 DEF Jobs
      <4> QED
        BY <3>2, <4>1, <4>2 DEF Jobs
    <3>4. jobs'[j] = [jobs[j] EXCEPT !.status = outcome, !.result = R(j)]
      BY <3>1
    <3>5. jobs'[j] \in Jobs
      BY <1>1, <1>3, <3>2, <3>4 DEF Jobs
    <3>6. /\ jobs'[j].status = outcome /\ jobs'[j].timer = jobs[j].timer
          /\ jobs'[j].imported = jobs[j].imported /\ jobs'[j].stopped = jobs[j].stopped
          /\ jobs'[j].timedOut = jobs[j].timedOut /\ jobs'[j].aborted = jobs[j].aborted
      BY <1>1, <3>4 DEF Jobs
    <3>7. jobs' \in [Ids -> Jobs]
      <4>1. \A i \in Ids : jobs'[i] \in Jobs
        BY <3>3, <3>5
      <4>2. jobs' = [i \in Ids |-> jobs'[i]]
        BY <3>1
      <4> QED
        BY <4>1, <4>2
    <3> QED
      BY <3>3, <3>6, <3>7
  <2>2. CASE outcome # "complete"
    <3>1. jobs' = [jobs EXCEPT ![j].status = outcome]
      BY <1>4, <2>2
    <3> HIDE DEF outcome, holders
    <3> QED
      BY <1>2, <1>3, <3>1 DEF Jobs
  <2> QED
    BY <2>1, <2>2
<1>8. \A i \in Ids \ {j} : work'[i] = work[i] /\ told'[i] = told[i]
  BY <1>2, <1>4
<1>9. /\ Pipeline(jobs'[j], work'[j]) /\ ToldOnce(jobs'[j], told'[j])
      /\ Honest(jobs'[j], work'[j])
  <2>1. Honest(jobs[j], work[j])
    BY <1>1 DEF Sound
  <2>2. Pipeline(jobs'[j], work'[j]) /\ ToldOnce(jobs'[j], told'[j])
    BY <1>3, <1>5, <1>7 DEF Pipeline, ToldOnce, Stages, Terminal
  <2>3. Honest(jobs'[j], work'[j])
    BY <1>3, <1>5, <1>7, <2>1 DEF Honest
  <2> QED
    BY <2>2, <2>3
<1>10. /\ jobs[j].status \notin {"queued", "absent"} /\ jobs'[j].status \notin {"queued", "absent"}
       /\ work'[j] # "none" /\ work[j] # "none"
  BY <1>1, <1>3, <1>5, <1>7 DEF Stages, Terminal
<1> HIDE DEF outcome, holders
<1> QED
  BY <1>4, <1>6, <1>7, <1>8, <1>9, <1>10, LocalStep

LEMMA RemoveAtFacts ==
  ASSUME NEW S, NEW s \in Seq(S), NEW p \in 1 .. Len(s)
  PROVE  /\ RemoveAt(s, p) \in Seq(S) /\ Len(RemoveAt(s, p)) = Len(s) - 1
         /\ \A i \in 1 .. Len(s) - 1 : RemoveAt(s, p)[i] = IF i < p THEN s[i] ELSE s[i + 1]
<1> DEFINE a == SubSeq(s, 1, p - 1)
           b == SubSeq(s, p + 1, Len(s))
<1>1. Len(s) \in Nat /\ p \in Int /\ \A i \in 1 .. Len(s) : s[i] \in S
  BY LenProperties, ElementOfSeq
<1>2. a \in Seq(S) /\ Len(a) = p - 1 /\ \A i \in 1 .. p - 1 : a[i] = s[i]
  <2>1. 1 \in Int /\ p - 1 \in Int /\ \A i \in 1 .. p - 1 : s[i] \in S
    BY <1>1
  <2>2. /\ a \in Seq(S) /\ Len(a) = IF 1 <= p - 1 THEN (p - 1) - 1 + 1 ELSE 0
        /\ \A i \in 1 .. (p - 1) - 1 + 1 : a[i] = s[1 + i - 1]
    BY <2>1, SubSeqProperties
  <2> QED
    BY <1>1, <2>2
<1>3. b \in Seq(S) /\ Len(b) = Len(s) - p /\ \A i \in 1 .. Len(s) - p : b[i] = s[p + i]
  <2>1. p + 1 \in Int /\ Len(s) \in Int /\ \A i \in p + 1 .. Len(s) : s[i] \in S
    BY <1>1
  <2>2. /\ b \in Seq(S) /\ Len(b) = IF p + 1 <= Len(s) THEN Len(s) - (p + 1) + 1 ELSE 0
        /\ \A i \in 1 .. Len(s) - (p + 1) + 1 : b[i] = s[(p + 1) + i - 1]
    BY <2>1, SubSeqProperties
  <2> QED
    BY <1>1, <2>2
<1>6. RemoveAt(s, p) = a \o b
  BY DEF RemoveAt
<1> HIDE DEF a, b
<1>4. /\ a \o b \in Seq(S) /\ Len(a \o b) = Len(a) + Len(b)
      /\ \A i \in 1 .. Len(a) + Len(b) : (a \o b)[i] = IF i <= Len(a) THEN a[i] ELSE b[i - Len(a)]
  BY <1>2, <1>3, ConcatProperties
<1>5. \A i \in 1 .. Len(s) - 1 : (a \o b)[i] = IF i < p THEN s[i] ELSE s[i + 1]
  <2> TAKE i \in 1 .. Len(s) - 1
  <2>1. CASE i < p
    BY <1>1, <1>2, <1>3, <1>4, <2>1
  <2>2. CASE ~(i < p)
    <3>1. i - (p - 1) \in 1 .. Len(s) - p /\ p + (i - (p - 1)) = i + 1
      BY <1>1, <2>2
    <3>2. (a \o b)[i] = b[i - (p - 1)]
      BY <1>1, <1>2, <1>3, <1>4, <2>2
    <3> QED
      BY <1>3, <2>2, <3>1, <3>2
  <2> QED
    BY <2>1, <2>2
<1> QED
  BY <1>1, <1>2, <1>3, <1>4, <1>5, <1>6

\* The first occurrence is the only one.
LEMMA RemoveFirstFacts ==
  ASSUME NEW S, NEW s \in Seq(S), NEW e,
         \A i, k \in 1 .. Len(s) : s[k] = s[i] => k = i,
         NEW p \in 1 .. Len(s), s[p] = e
  PROVE  RemoveFirst(s, e) = RemoveAt(s, p)
<1>1. SelectInSeq(s, LAMBDA v : v = e) = p
  <2>1. {i \in 1 .. Len(s) : s[i] = e} = {p}
    OBVIOUS
  <2>2. SelectInSeq(s, LAMBDA v : v = e) = Min({p})
    BY <2>1 DEF SelectInSeq
  <2>3. Min({p}) = p
    BY DEF Min
  <2> QED
    BY <2>2, <2>3
<1> QED
  BY <1>1 DEF RemoveFirst

LEMMA CancelKeeps ==
  ASSUME Inv, NEW j \in Ids, Cancel(j)
  PROVE  Inv'
<1>1. /\ jobs[j] \in Jobs /\ work[j] \in Work /\ Sound(j)
      /\ jobs[j].status \notin Gone \cup Terminal /\ told[j] = <<>>
  BY JobFacts DEF Cancel, Sound, ToldOnce, Gone, Terminal
<1>2. /\ jobs \in [Ids -> Jobs] /\ work \in [Ids -> Work] /\ told \in [Ids -> Seq(Terminal)]
      /\ queue \in Seq(Ids)
  BY DEF Inv, TypeOK
<1>3. queue' = RemoveFirst(queue, j) /\ UNCHANGED <<running, work, draining, destroyed>>
  BY DEF Cancel
<1>4. CASE j \in running
  <2>1. /\ jobs' = [jobs EXCEPT ![j] = [Abort(@) EXCEPT !.stopped = TRUE]] /\ told' = told
    BY <1>4 DEF Cancel, AskToStop
  <2>2. work[j] # "none"
    BY <1>4, JobFacts
  <2>3. jobs[j].status \in Stages
    BY <1>1, <2>2 DEF Sound, Pipeline, Work, Stages, Gone
  <2>4. \A i \in 1 .. Len(queue) : queue[i] # j
    BY <2>3, QueueFacts DEF Inv, Stages
  <2>5. queue' = queue
    BY <1>3, <2>4 DEF RemoveFirst
  <2>6. jobs'[j] = [jobs[j] EXCEPT !.aborted = TRUE, !.stopped = TRUE]
    BY <1>1, <1>2, <2>1 DEF Abort, Jobs
  <2>7. /\ jobs' \in [Ids -> Jobs]
        /\ \A i \in Ids \ {j} :
              /\ jobs'[i] = [jobs[i] EXCEPT !.result = jobs'[i].result]
              /\ work'[i] = work[i] /\ told'[i] = told[i]
    BY <1>1, <1>2, <1>3, <2>1, <2>6 DEF Jobs
  <2>8. /\ jobs'[j].status = jobs[j].status /\ jobs'[j].imported = jobs[j].imported
        /\ jobs'[j].aborted /\ jobs'[j].timer = jobs[j].timer
    BY <1>1, <2>6 DEF Jobs
  <2>9. jobs[j].status \notin {"complete", "queued", "absent"}
    BY <2>3 DEF Stages
  <2>10. /\ Pipeline(jobs'[j], work'[j]) /\ ToldOnce(jobs'[j], told'[j])
         /\ Honest(jobs'[j], work'[j])
    BY <1>1, <1>3, <2>1, <2>8, <2>9 DEF Sound, Pipeline, ToldOnce, Honest
  <2> QED
    BY <1>2, <1>3, <2>1, <2>5, <2>7, <2>8, <2>9, <2>10, LocalStep
<1>5. CASE j \notin running
  <2>1. /\ jobs' = [jobs EXCEPT ![j] = [Abort(@) EXCEPT !.status = "cancelled", !.stopped = TRUE]]
        /\ told' = [told EXCEPT ![j] = Append(@, "cancelled")]
    BY <1>5 DEF Cancel, AskToStop, SettleAtOnce, Announce
  <2>2. work[j] = "none" /\ jobs[j].status = "queued"
    BY <1>1, <1>5, JobFacts DEF Sound, Pipeline, Jobs
  <2>3. jobs'[j] = [jobs[j] EXCEPT !.aborted = TRUE, !.status = "cancelled", !.stopped = TRUE]
    BY <1>1, <1>2, <2>1 DEF Abort, Jobs
  <2>4. /\ jobs'[j] \in Jobs /\ jobs'[j].status = "cancelled" /\ jobs'[j].aborted
        /\ jobs'[j].timer = jobs[j].timer
    BY <1>1, <2>3 DEF Jobs, Terminal
  <2>5. told'[j] = <<"cancelled">> /\ <<"cancelled">> \in Seq(Terminal)
    BY <1>1, <1>2, <2>1, ToldFirst DEF Terminal
  <2>6. /\ jobs' \in [Ids -> Jobs] /\ told' \in [Ids -> Seq(Terminal)]
        /\ \A i \in Ids \ {j} : jobs'[i] = jobs[i] /\ told'[i] = told[i]
    BY <1>2, <2>1, <2>3, <2>4, <2>5
  <2>7. /\ queue' \in Seq(Ids) /\ DOMAIN queue' = 1 .. Len(queue') /\ Len(queue') \in Nat
        /\ \A i \in 1 .. Len(queue') : \E p \in 1 .. Len(queue) :
              /\ queue'[i] = queue[p] /\ queue[p] # j
              /\ \A k \in 1 .. Len(queue') : k < i => \E q \in 1 .. Len(queue) :
                    q < p /\ queue'[k] = queue[q]
        /\ \A p \in 1 .. Len(queue) : queue[p] # j => \E i \in 1 .. Len(queue') : queue'[i] = queue[p]
    <3>1. Len(queue) \in Nat
      BY QueueFacts DEF Inv
    <3>2. CASE \A p \in 1 .. Len(queue) : queue[p] # j
      <4>1. queue' = queue
        BY <1>3, <3>2 DEF RemoveFirst
      <4> QED
        BY <1>2, <3>1, <3>2, <4>1, LenProperties
    <3>3. ASSUME NEW p \in 1 .. Len(queue), queue[p] = j
          PROVE  <2>7
      <4>1. /\ queue' \in Seq(Ids) /\ Len(queue') = Len(queue) - 1
            /\ \A i \in 1 .. Len(queue) - 1 :
                  queue'[i] = IF i < p THEN queue[i] ELSE queue[i + 1]
        <5>1. queue' = RemoveAt(queue, p)
          BY <1>2, <1>3, <3>3, QueueFacts, RemoveFirstFacts DEF Inv
        <5> QED
          BY <1>2, <5>1, RemoveAtFacts
      <4>2. DOMAIN queue' = 1 .. Len(queue') /\ Len(queue') \in Nat
        BY <4>1, LenProperties
      <4>3. \A q \in 1 .. Len(queue) : queue[q] = j => q = p
        BY <3>3, QueueFacts DEF Inv
      <4>4. ASSUME NEW i \in 1 .. Len(queue')
            PROVE  \E q \in 1 .. Len(queue) :
                      /\ queue'[i] = queue[q] /\ queue[q] # j
                      /\ \A k \in 1 .. Len(queue') : k < i => \E r \in 1 .. Len(queue) :
                            r < q /\ queue'[k] = queue[r]
        <5> DEFINE up(k) == IF k < p THEN k ELSE k + 1
        <5>1. \A k \in 1 .. Len(queue') : /\ up(k) \in 1 .. Len(queue) /\ up(k) # p
                                          /\ queue'[k] = queue[up(k)]
                                          /\ k < i => up(k) < up(i)
          BY <3>1, <4>1
        <5>2. queue[up(i)] # j
          BY <4>3, <5>1
        <5> HIDE DEF up
        <5> QED
          BY <5>1, <5>2
      <4>5. ASSUME NEW q \in 1 .. Len(queue), queue[q] # j
            PROVE  \E i \in 1 .. Len(queue') : queue'[i] = queue[q]
        <5>1. CASE q < p
          <6>1. q \in 1 .. Len(queue') /\ queue'[q] = queue[q]
            BY <3>1, <4>1, <5>1
          <6> QED
            BY <6>1
        <5>2. CASE p < q
          <6>1. q - 1 \in 1 .. Len(queue') /\ queue'[q - 1] = queue[(q - 1) + 1] /\ (q - 1) + 1 = q
            BY <3>1, <4>1, <5>2
          <6> QED
            BY <6>1
        <5> QED
          BY <3>1, <3>3, <4>5, <5>1, <5>2
      <4> QED
        BY <4>1, <4>2, <4>4, <4>5
    <3> QED
      BY <3>2, <3>3
  <2>8. TypeOK'
    BY <1>3, <2>6, <2>7 DEF Inv, TypeOK
  <2>9. SlotsTaken'
    BY <1>3, <1>5, <2>4, <2>6 DEF Inv, SlotsTaken
  <2>10. QueueWaits'
    <3>1. ASSUME NEW i \in DOMAIN queue'
          PROVE  /\ jobs'[queue'[i]].status = "queued"
                 /\ \A k \in DOMAIN queue' : k < i => queue'[k] < queue'[i]
      <4>1. PICK p \in 1 .. Len(queue) :
              /\ queue'[i] = queue[p] /\ queue[p] # j
              /\ \A k \in 1 .. Len(queue') : k < i => \E q \in 1 .. Len(queue) :
                    q < p /\ queue'[k] = queue[q]
        BY <2>7
      <4>2. queue[p] \in Ids /\ jobs[queue[p]].status = "queued"
        BY QueueFacts DEF Inv
      <4>3. \A q \in 1 .. Len(queue) : q < p => queue[q] < queue[p]
        BY QueueFacts DEF Inv
      <4> QED
        BY <2>6, <2>7, <4>1, <4>2, <4>3
    <3>2. ASSUME ~destroyed', NEW i \in Ids, jobs'[i].status = "queued"
          PROVE  \E p \in DOMAIN queue' : queue'[p] = i
      <4>1. i # j /\ jobs[i].status = "queued"
        BY <2>4, <2>6, <3>2
      <4>2. PICK p \in 1 .. Len(queue) : queue[p] = i
        BY <1>3, <3>2, <4>1, QueueFacts DEF Inv, QueueWaits
      <4> QED
        BY <2>7, <4>1, <4>2
    <3> QED
      BY <3>1, <3>2 DEF QueueWaits
  <2>11. CreatedInOrder'
    BY <2>2, <2>4, <2>6 DEF Inv, CreatedInOrder
  <2>12. ASSUME NEW i \in Ids
         PROVE  Sound(i)'
    <3>1. CASE i = j
      BY <1>3, <2>2, <2>4, <2>5, <3>1 DEF Sound, Pipeline, ToldOnce, Honest, Stages, Terminal
    <3>2. CASE i # j
      BY <1>3, <2>6, <3>2 DEF Inv, Sound
    <3> QED
      BY <3>1, <3>2
  <2> QED
    BY <2>8, <2>9, <2>10, <2>11, <2>12 DEF Inv
<1> QED
  BY <1>4, <1>5

LEMMA DestroyKeeps ==
  ASSUME Inv, Destroy
  PROVE  Inv'
<1> DEFINE Stopped(job) == [Abort(job) EXCEPT !.timer = FALSE, !.stopped = TRUE]
<1>1. /\ destroyed' /\ queue' = <<>> /\ UNCHANGED <<running, work, draining, told>>
      /\ jobs' = [j \in Ids |-> IF j \in Known \ Finished THEN Stopped(jobs[j]) ELSE jobs[j]]
  BY DEF Destroy
<1>2. /\ jobs \in [Ids -> Jobs] /\ work \in [Ids -> Work]
  BY DEF Inv, TypeOK
<1>3. \A j \in Ids : /\ Stopped(jobs[j]) \in Jobs
                     /\ Stopped(jobs[j]).status = jobs[j].status
                     /\ Stopped(jobs[j]).imported = jobs[j].imported
                     /\ Stopped(jobs[j]).aborted /\ ~Stopped(jobs[j]).timer
  <2> TAKE j \in Ids
  <2>1. jobs[j] \in Jobs
    BY <1>2
  <2>2. Stopped(jobs[j]) = [jobs[j] EXCEPT !.aborted = TRUE, !.timer = FALSE, !.stopped = TRUE]
    BY <2>1 DEF Abort, Jobs
  <2> HIDE DEF Stopped
  <2> QED
    BY <2>1, <2>2 DEF Jobs
<1> HIDE DEF Stopped
<1>4. /\ jobs' \in [Ids -> Jobs]
      /\ \A j \in Ids : jobs'[j].status = jobs[j].status /\ (jobs'[j].timer => jobs[j].timer)
  BY <1>1, <1>2, <1>3
<1>5. TypeOK'
  <2>1. <<>> \in Seq(Ids)
    OBVIOUS
  <2> QED
    BY <1>1, <1>4, <2>1 DEF Inv, TypeOK
<1>6. SlotsTaken'
  BY <1>1, <1>4 DEF Inv, SlotsTaken
<1>7. QueueWaits'
  <2>1. DOMAIN queue' = {}
    BY <1>1
  <2> QED
    BY <1>1, <2>1 DEF QueueWaits
<1>8. CreatedInOrder'
  BY <1>4 DEF Inv, CreatedInOrder
<1>9. ASSUME NEW j \in Ids
      PROVE  Sound(j)'
  <2>1. Sound(j) /\ work'[j] = work[j] /\ told'[j] = told[j]
    BY <1>1 DEF Inv
  <2>2. CASE j \in Known \ Finished
    <3>1. jobs'[j] = Stopped(jobs[j]) /\ jobs[j].status # "complete"
      BY <1>1, <2>2, JobFacts DEF Terminal
    <3> QED
      BY <1>3, <2>1, <3>1 DEF Sound, Pipeline, ToldOnce, Honest
  <2>3. CASE j \notin Known \ Finished
    BY <1>1, <2>1, <2>3 DEF Sound
  <2> QED
    BY <2>2, <2>3
<1> QED
  BY <1>5, <1>6, <1>7, <1>8, <1>9 DEF Inv

\* What a creation makes of the jobs: the new one waits and some of the finished
\* ones are forgotten.
LEMMA CreateEffect ==
  ASSUME Inv, NEW j \in Ids, Create(j)
  PROVE  \E expired \in SUBSET Finished :
            LET kept == (Known \cup {j}) \ expired
                gone == expired \cup Overflow(kept)
            IN  /\ gone \in SUBSET Finished /\ j \notin gone
                /\ jobs' \in [Ids -> Jobs]
                /\ jobs'[j] = [Blank EXCEPT !.status = "queued"]
                /\ \A i \in Ids \ {j} : jobs'[i] = IF i \in gone THEN Forgotten ELSE jobs[i]
<1>1. PICK expired \in SUBSET Finished :
         LET kept == (Known \cup {j}) \ expired
             gone == expired \cup Overflow(kept)
         IN  jobs' = [i \in Ids |->
                 IF i = j THEN [Blank EXCEPT !.status = "queued"]
                 ELSE IF i \in gone THEN Forgotten
                 ELSE jobs[i]]
  BY DEF Create
<1> DEFINE kept == (Known \cup {j}) \ expired
           gone == expired \cup Overflow(kept)
<1>2. gone \in SUBSET Finished
  BY DEF Overflow, Oldest
<1>3. j \notin gone
  BY <1>2 DEF Finished, Terminal, Create
<1>4. Forgotten \in Jobs /\ [Blank EXCEPT !.status = "queued"] \in Jobs
  BY DEF Forgotten, Blank, Jobs, Gone
<1>5. jobs' = [i \in Ids |-> IF i = j THEN [Blank EXCEPT !.status = "queued"]
                             ELSE IF i \in gone THEN Forgotten ELSE jobs[i]]
  BY <1>1
<1>6. jobs \in [Ids -> Jobs]
  BY DEF Inv, TypeOK
<1>7. /\ jobs' \in [Ids -> Jobs] /\ jobs'[j] = [Blank EXCEPT !.status = "queued"]
      /\ \A i \in Ids \ {j} : jobs'[i] = IF i \in gone THEN Forgotten ELSE jobs[i]
  <2> HIDE DEF gone
  <2> QED
    BY <1>4, <1>5, <1>6
<1> QED
  BY <1>2, <1>3, <1>7

LEMMA CreateKeeps ==
  ASSUME Inv, NEW j \in Ids, Create(j)
  PROVE  Inv'
<1>1. PICK gone \in SUBSET Finished :
         /\ j \notin gone /\ jobs' \in [Ids -> Jobs]
         /\ jobs'[j] = [Blank EXCEPT !.status = "queued"]
         /\ \A i \in Ids \ {j} : jobs'[i] = IF i \in gone THEN Forgotten ELSE jobs[i]
  <2>1. PICK expired \in SUBSET Finished :
            LET kept == (Known \cup {j}) \ expired
                gone == expired \cup Overflow(kept)
            IN  /\ gone \in SUBSET Finished /\ j \notin gone
                /\ jobs' \in [Ids -> Jobs]
                /\ jobs'[j] = [Blank EXCEPT !.status = "queued"]
                /\ \A i \in Ids \ {j} : jobs'[i] = IF i \in gone THEN Forgotten ELSE jobs[i]
    BY CreateEffect
  <2> QED
    BY <2>1
<1>2. /\ jobs[j].status = "absent" /\ \A i \in Ids : i < j => jobs[i].status # "absent"
      /\ ~destroyed /\ queue' = Append(queue, j) /\ draining'
      /\ UNCHANGED <<running, work, destroyed, told>>
  BY DEF Create, HasRoom, Enqueued
<1>3. /\ jobs'[j].status = "queued" /\ ~jobs'[j].timer /\ ~jobs'[j].stopped /\ ~jobs'[j].timedOut
      /\ Forgotten.status = "forgotten" /\ ~Forgotten.timer
      /\ ~Forgotten.stopped /\ ~Forgotten.timedOut
  BY <1>1 DEF Forgotten, Blank
<1>4. /\ jobs[j] \in Jobs /\ work[j] = "none" /\ told[j] = <<>>
  BY <1>2, JobFacts DEF Sound, Pipeline, ToldOnce, Work, Stages, Terminal
<1>5. \A i \in gone : i \in Ids /\ jobs[i].status \in Terminal /\ work[i] \in {"none", "settled"}
  BY JobFacts DEF Finished
<1>6. \A i \in Ids : /\ jobs'[i].status = "queued" <=> i = j \/ jobs[i].status = "queued"
                     /\ jobs'[i].status = "absent" <=> i # j /\ jobs[i].status = "absent"
                     /\ jobs'[i].timer => jobs[i].timer
  BY <1>1, <1>2, <1>3, <1>5 DEF Terminal
<1>7. /\ queue' \in Seq(Ids) /\ DOMAIN queue' = 1 .. Len(queue) + 1
      /\ \A i \in 1 .. Len(queue) : queue'[i] = queue[i]
      /\ queue'[Len(queue) + 1] = j
  <2>1. queue \in Seq(Ids)
    BY DEF Inv, TypeOK
  <2>2. /\ queue' \in Seq(Ids) /\ Len(queue') = Len(queue) + 1
        /\ \A i \in 1 .. Len(queue) : queue'[i] = queue[i]
        /\ queue'[Len(queue) + 1] = j
    BY <1>2, <2>1, AppendProperties
  <2> QED
    BY <2>2, LenProperties
<1>8. TypeOK'
  BY <1>1, <1>2, <1>7 DEF Inv, TypeOK
<1>9. SlotsTaken'
  BY <1>2, <1>6 DEF Inv, SlotsTaken
<1>10. QueueWaits'
  <2>1. Len(queue) \in Nat
    BY QueueFacts DEF Inv
  <2>2. ASSUME NEW i \in 1 .. Len(queue)
        PROVE  /\ queue[i] \in Ids /\ queue[i] < j /\ jobs[queue[i]].status = "queued"
    <3>1. queue[i] \in Ids /\ jobs[queue[i]].status = "queued"
      BY QueueFacts DEF Inv
    <3>2. ~(j < queue[i]) /\ queue[i] # j
      BY <1>2, <3>1 DEF Inv, CreatedInOrder
    <3>3. queue[i] \in Nat /\ j \in Nat
      BY <3>1, IdsFinite
    <3> QED
      BY <3>1, <3>2, <3>3
  <2>3. ASSUME NEW i \in DOMAIN queue'
        PROVE  jobs'[queue'[i]].status = "queued"
    <3>1. CASE i = Len(queue) + 1
      BY <1>3, <1>7, <3>1
    <3>2. CASE i # Len(queue) + 1
      <4>1. i \in 1 .. Len(queue)
        BY <1>7, <2>1, <3>2
      <4> QED
        BY <1>6, <1>7, <2>2, <4>1
    <3> QED
      BY <3>1, <3>2
  <2>4. ASSUME NEW i \in DOMAIN queue', NEW k \in DOMAIN queue', k < i
        PROVE  queue'[k] < queue'[i]
    <3>1. k \in 1 .. Len(queue)
      BY <1>7, <2>1, <2>4
    <3>2. CASE i = Len(queue) + 1
      BY <1>7, <2>2, <3>1, <3>2
    <3>3. CASE i \in 1 .. Len(queue)
      <4>1. queue[k] < queue[i]
        BY <2>4, <3>1, <3>3, QueueFacts DEF Inv
      <4> QED
        BY <1>7, <3>1, <3>3, <4>1
    <3> QED
      BY <1>7, <2>1, <3>2, <3>3
  <2>5. ASSUME NEW i \in Ids, jobs'[i].status = "queued"
        PROVE  \E p \in DOMAIN queue' : queue'[p] = i
    <3>1. CASE i = j
      BY <1>7, <2>1, <3>1
    <3>2. CASE i # j
      <4>1. jobs[i].status = "queued"
        BY <1>6, <2>5, <3>2
      <4>2. PICK p \in 1 .. Len(queue) : queue[p] = i
        BY <1>2, <4>1, QueueFacts DEF Inv, QueueWaits
      <4>3. p \in DOMAIN queue'
        BY <1>7, <2>1
      <4> QED
        BY <1>7, <4>2, <4>3
    <3> QED
      BY <3>1, <3>2
  <2> QED
    BY <2>3, <2>4, <2>5 DEF QueueWaits
<1>11. CreatedInOrder'
  <2> SUFFICES ASSUME NEW i \in Ids, NEW k \in Ids, i < k, jobs'[i].status = "absent"
               PROVE  jobs'[k].status = "absent"
    BY DEF CreatedInOrder
  <2>1. jobs[i].status = "absent" /\ i # j
    BY <1>6
  <2>2. jobs[k].status = "absent"
    BY <2>1 DEF Inv, CreatedInOrder
  <2>3. ~(i < j) /\ i \in Nat /\ j \in Nat /\ k \in Nat
    BY <1>2, <2>1, IdsFinite
  <2>4. k # j
    BY <2>1, <2>3
  <2> QED
    BY <1>6, <2>2, <2>4
<1>12. ASSUME NEW i \in Ids
       PROVE  Sound(i)'
  <2>1. Sound(i) /\ work'[i] = work[i] /\ told'[i] = told[i]
    BY <1>2 DEF Inv
  <2>2. CASE i = j
    BY <1>3, <1>4, <2>1, <2>2 DEF Sound, Pipeline, ToldOnce, Honest, Stages, Terminal
  <2>3. CASE i \in gone
    <3>1. jobs'[i] = Forgotten /\ told[i] = <<jobs[i].status>>
      BY <1>1, <1>5, <2>1, <2>3 DEF Sound, ToldOnce
    <3>2. Len(told[i]) = 1
      BY <3>1
    <3> QED
      BY <1>3, <1>5, <2>1, <2>3, <3>1, <3>2
         DEF Sound, Pipeline, ToldOnce, Honest, Stages, Terminal
  <2>4. CASE i # j /\ i \notin gone
    BY <1>1, <2>1, <2>4 DEF Sound
  <2> QED
    BY <2>2, <2>3, <2>4
<1> QED
  BY <1>8, <1>9, <1>10, <1>11, <1>12 DEF Inv

-----------------------------------------------------------------------------
LEMMA WorkStepKeeps ==
  ASSUME Inv, NEW j \in Ids, WorkStep(j)
  PROVE  Inv'
<1>1. CASE Prepares(j)
  BY <1>1, EntersKeeps DEF Prepares, Stages
<1>2. CASE Transcribes(j)
  BY <1>2, EntersKeeps DEF Transcribes, Stages
<1>3. CASE Unwinds(j)
  BY <1>3, ReachesKeeps DEF Unwinds, Stages
<1>4. CASE Breaks(j)
  BY <1>4, ReachesKeeps DEF Breaks, Stages
<1>5. CASE Imports(j)
  BY <1>5, ReachesKeeps DEF Imports, Stages
<1>6. CASE Settles(j)
  BY <1>6, SettlesKeeps
<1>7. CASE Finishes(j)
  <2>1. running \ {j} \in SUBSET running /\ \A i \in running \ (running \ {j}) : work[i] = "settled"
    BY <1>7 DEF Finishes
  <2>2. Drain(running \ {j}) /\ UNCHANGED <<draining, destroyed, told>>
    BY <1>7 DEF Finishes
  <2>3. draining' \in BOOLEAN
    BY <2>2 DEF Inv, TypeOK
  <2> QED
    BY <2>1, <2>2, <2>3, DrainKeeps
<1> QED
  BY <1>1, <1>2, <1>3, <1>4, <1>5, <1>6, <1>7 DEF WorkStep

LEMMA InvInit == Init => Inv
<1> SUFFICES ASSUME Init
             PROVE  Inv
  OBVIOUS
<1>1. Blank \in Jobs
  BY DEF Blank, Jobs, Gone
<1>2. TypeOK
  <2>1. <<>> \in Seq(Ids) /\ <<>> \in Seq(Terminal)
    BY EmptySeq
  <2> QED
    BY <1>1, <2>1 DEF Init, TypeOK, Work
<1>3. SlotsTaken
  <2>1. Cardinality(running) = 0
    BY FS_EmptySet DEF Init
  <2> QED
    BY <2>1, LimitsAssumption DEF Init, SlotsTaken, Blank
<1>4. QueueWaits /\ CreatedInOrder
  BY DEF Init, QueueWaits, CreatedInOrder, Blank
<1>5. \A j \in Ids : Sound(j)
  BY DEF Init, Sound, Pipeline, ToldOnce, Honest, Blank, Stages, Terminal
<1> QED
  BY <1>2, <1>3, <1>4, <1>5 DEF Inv

LEMMA InvNext == Inv /\ [Next]_vars => Inv'
<1> SUFFICES ASSUME Inv, [Next]_vars
             PROVE  Inv'
  OBVIOUS
<1>1. ASSUME NEW j \in Ids, Create(j)
      PROVE  Inv'
  BY <1>1, CreateKeeps
<1>2. ASSUME NEW j \in Ids, Cancel(j)
      PROVE  Inv'
  BY <1>2, CancelKeeps
<1>3. ASSUME NEW j \in Ids, Delete(j)
      PROVE  Inv'
  BY <1>3, DeleteKeeps
<1>4. ASSUME NEW j \in Ids, TimesOut(j)
      PROVE  Inv'
  BY <1>4, TimesOutKeeps
<1>5. ASSUME NEW j \in Ids, WorkStep(j)
      PROVE  Inv'
  BY <1>5, WorkStepKeeps
<1>6. CASE RunDrain
  <2>1. /\ running \in SUBSET running /\ \A i \in running \ running : work[i] = "settled"
        /\ Drain(running) /\ draining' \in BOOLEAN /\ UNCHANGED <<destroyed, told>>
    BY <1>6 DEF RunDrain
  <2> QED
    BY <2>1, DrainKeeps
<1>7. CASE Destroy
  BY <1>7, DestroyKeeps
<1>8. CASE UNCHANGED vars
  BY <1>8 DEF vars, Inv, TypeOK, SlotsTaken, QueueWaits, CreatedInOrder, Sound
<1> QED
  BY <1>1, <1>2, <1>3, <1>4, <1>5, <1>6, <1>7, <1>8 DEF Next

THEOREM InvHolds == Spec => []Inv
  BY InvInit, InvNext, PTL DEF Spec

(* Each variable of the job manager has its type.                          *)
THEOREM TypeCorrect == Spec => []TypeOK
<1>1. Inv => TypeOK
  BY DEF Inv
<1> QED
  BY <1>1, InvHolds, PTL

(* However many slots there are, they are taken exactly by the jobs whose  *)
(* work is not through (_drain, _start), and the queue holds exactly the   *)
(* jobs that wait, in the order of their creation.                         *)
THEOREM SlotsHold == Spec => []SlotsAreWork
<1>1. Inv => SlotsAreWork
  BY DEF Inv, SlotsTaken, QueueWaits, SlotsAreWork
<1> QED
  BY <1>1, InvHolds, PTL

(* A job that ended was announced once, as what it is (_emit).             *)
THEOREM AnnouncementsHold == Spec => []AnnouncedOnce
<1>1. Inv => AnnouncedOnce
  <2> SUFFICES ASSUME Inv, NEW j \in Ids
               PROVE  /\ Len(told[j]) <= 1
                      /\ jobs[j].status \in Terminal => told[j] = <<jobs[j].status>>
                      /\ told[j] # <<>> => jobs[j].status \in Terminal \cup {"forgotten"}
    BY DEF AnnouncedOnce
  <2>1. ToldOnce(jobs[j], told[j])
    BY DEF Inv, Sound
  <2>2. CASE jobs[j].status \in Terminal
    <3>1. told[j] = <<jobs[j].status>>
      BY <2>1, <2>2 DEF ToldOnce
    <3>2. Len(told[j]) = 1
      BY <3>1
    <3> QED
      BY <2>2, <3>1, <3>2
  <2>3. CASE jobs[j].status = "forgotten"
    <3>1. Len(told[j]) = 1 /\ jobs[j].status \notin Terminal
      BY <2>1, <2>3 DEF ToldOnce, Terminal
    <3> QED
      BY <2>3, <3>1
  <2>4. CASE jobs[j].status \notin Terminal \cup {"forgotten"}
    <3>1. told[j] = <<>>
      BY <2>1, <2>4 DEF ToldOnce
    <3>2. Len(told[j]) = 0
      BY <3>1
    <3> QED
      BY <2>4, <3>1, <3>2
  <2> QED
    BY <2>2, <2>3, <2>4
<1> QED
  BY <1>1, InvHolds, PTL

(* A job is complete only with its file in the library, and if nobody      *)
(* stopped it in time (_settleComplete).                                   *)
THEOREM CompletionHolds == Spec => []CompleteIsHonest
<1>1. Inv => CompleteIsHonest
  BY DEF Inv, Sound, Honest, CompleteIsHonest
<1> QED
  BY <1>1, InvHolds, PTL

-----------------------------------------------------------------------------
(* Memory.                                                                 *)

Holders == {j \in Ids : jobs[j].result}

LEMMA NothingMore ==
  ASSUME Inv, MemoryIsBounded, Len(queue') \in Nat, Len(queue') <= Len(queue),
         \A j \in Ids : /\ jobs[j].status \in Gone => jobs'[j].status \in Gone
                        /\ jobs'[j].result => jobs[j].result
  PROVE  MemoryIsBounded'
<1>1. /\ Known \in SUBSET Ids /\ Known' \in SUBSET Known
      /\ Holders \in SUBSET Ids /\ Holders' \in SUBSET Holders
  BY DEF Known, Holders
<1>2. /\ Cardinality(Known') <= Cardinality(Known) /\ Cardinality(Holders') <= Cardinality(Holders)
      /\ Cardinality(Known) \in Nat /\ Cardinality(Holders) \in Nat
      /\ Cardinality(Known') \in Nat /\ Cardinality(Holders') \in Nat
  <2>1. Known' \in SUBSET Ids /\ Holders' \in SUBSET Ids
    BY <1>1
  <2> QED
    BY <1>1, <2>1, JobsFinite, SubsetCardinality
<1>3. Len(queue) \in Nat
  BY QueueFacts DEF Inv
<1> QED
  BY <1>2, <1>3, LimitsAssumption DEF MemoryIsBounded, Holders

\* The jobs that are not finished fit the queue and the slots.
LEMMA UnfinishedFit ==
  ASSUME Inv, ~destroyed
  PROVE  Cardinality(Known \ Finished) <= Len(queue) + MaxParallel
<1>1. Len(queue) \in 0 .. Len(queue)
  BY QueueFacts DEF Inv
<1>2. Eldest(Len(queue)) \in SUBSET Ids /\ Cardinality(Eldest(Len(queue))) <= Len(queue)
  BY <1>1, FrontFacts DEF Inv
<1>3. running \in SUBSET Ids /\ Cardinality(running) <= MaxParallel
  BY DEF Inv, TypeOK, SlotsTaken
<1>4. Known \ Finished \in SUBSET (Eldest(Len(queue)) \cup running)
  <2> SUFFICES ASSUME NEW j \in Known \ Finished
               PROVE  j \in Eldest(Len(queue)) \cup running
    OBVIOUS
  <2>1. j \in Ids
    BY DEF Known
  <2>2. jobs[j].status = "queued" \/ jobs[j].status \in Stages
    BY <2>1, JobFacts DEF Jobs, Gone
  <2>3. CASE jobs[j].status = "queued"
    <3>1. \E p \in 1 .. Len(queue) : queue[p] = j
      BY <2>1, <2>3, QueueFacts DEF Inv, QueueWaits
    <3> QED
      BY <3>1 DEF Eldest
  <2>4. CASE jobs[j].status \in Stages
    BY <2>1, <2>4, JobFacts DEF Sound, Pipeline
  <2> QED
    BY <2>2, <2>3, <2>4
<1>5. /\ Eldest(Len(queue)) \cup running \in SUBSET Ids
      /\ Cardinality(Eldest(Len(queue)) \cup running)
            <= Cardinality(Eldest(Len(queue))) + Cardinality(running)
  BY <1>2, <1>3, UnionCardinality
<1>6. Cardinality(Known \ Finished) <= Cardinality(Eldest(Len(queue)) \cup running)
  BY <1>4, <1>5, SubsetCardinality
<1>7. /\ Cardinality(Known \ Finished) \in Nat /\ Cardinality(running) \in Nat
      /\ Cardinality(Eldest(Len(queue)) \cup running) \in Nat
      /\ Cardinality(Eldest(Len(queue))) \in Nat /\ Len(queue) \in Nat /\ MaxParallel \in Nat
  <2>1. Known \ Finished \in SUBSET Ids
    BY DEF Known
  <2> QED
    BY <1>1, <1>2, <1>3, <1>5, <2>1, JobsFinite, QueueFacts, LimitsAssumption DEF Inv
<1> QED
  BY <1>2, <1>3, <1>5, <1>6, <1>7

LEMMA CreateIsBounded ==
  ASSUME Inv, MemoryIsBounded, NEW j \in Ids, Create(j)
  PROVE  MemoryIsBounded'
<1>1. PICK expired \in SUBSET Finished :
            LET kept == (Known \cup {j}) \ expired
                gone == expired \cup Overflow(kept)
            IN  /\ gone \in SUBSET Finished /\ j \notin gone
                /\ jobs' \in [Ids -> Jobs]
                /\ jobs'[j] = [Blank EXCEPT !.status = "queued"]
                /\ \A i \in Ids \ {j} : jobs'[i] = IF i \in gone THEN Forgotten ELSE jobs[i]
  BY CreateEffect
<1> DEFINE kept == (Known \cup {j}) \ expired
           fin == kept \cap Finished
           gone == expired \cup Overflow(kept)
<1>2. /\ jobs[j].status = "absent" /\ ~destroyed /\ Len(queue) < MaxQueued
      /\ queue' = Append(queue, j)
  BY DEF Create, HasRoom, Enqueued
<1>3. Forgotten.status = "forgotten" /\ ~Forgotten.result /\ ~jobs'[j].result
  BY <1>1 DEF Forgotten, Blank
<1>4. Known \in SUBSET Ids /\ kept \in SUBSET Ids /\ fin \in SUBSET kept
  BY DEF Known
<1>5. Known' \in SUBSET (kept \ Overflow(kept))
  <2>1. \A i \in Ids \ {j} : jobs'[i] = IF i \in gone THEN Forgotten ELSE jobs[i]
    BY <1>1
  <2>2. j \notin gone
    BY <1>1
  <2> SUFFICES ASSUME NEW i \in Known'
               PROVE  i \in kept /\ i \notin Overflow(kept)
    OBVIOUS
  <2>3. i \in Ids /\ jobs'[i].status \notin Gone
    BY DEF Known
  <2>4. CASE i = j
    BY <2>2, <2>4
  <2>5. CASE i # j
    <3>1. i \notin gone
      BY <1>3, <2>1, <2>3, <2>5 DEF Gone
    <3>2. jobs'[i] = jobs[i]
      BY <2>1, <2>3, <2>5, <3>1
    <3> QED
      BY <2>3, <3>1, <3>2 DEF Known
  <2> QED
    BY <2>4, <2>5
<1>6. Cardinality(kept) - Cardinality(fin) <= MaxJobs
  <2>1. Cardinality(kept) - Cardinality(fin) = Cardinality(kept \ fin)
    BY <1>4, DifferenceCardinality
  <2>2. kept \ fin \in SUBSET ((Known \ Finished) \cup {j})
    OBVIOUS
  <2>3. /\ Known \ Finished \in SUBSET Ids /\ {j} \in SUBSET Ids
        /\ (Known \ Finished) \cup {j} \in SUBSET Ids /\ kept \ fin \in SUBSET Ids
    BY <1>4
  <2>4. /\ Cardinality(kept \ fin) <= Cardinality((Known \ Finished) \cup {j})
        /\ Cardinality((Known \ Finished) \cup {j}) <= Cardinality(Known \ Finished) + 1
    <3>1. Cardinality({j}) = 1
      BY FS_Singleton
    <3>2. Cardinality((Known \ Finished) \cup {j}) <= Cardinality(Known \ Finished) + Cardinality({j})
      BY <2>3, UnionCardinality
    <3>3. Cardinality(kept \ fin) <= Cardinality((Known \ Finished) \cup {j})
      BY <2>2, <2>3, SubsetCardinality
    <3> QED
      BY <3>1, <3>2, <3>3
  <2>5. Cardinality(Known \ Finished) <= Len(queue) + MaxParallel
    BY <1>2, UnfinishedFit
  <2>6. /\ Cardinality(kept \ fin) \in Nat /\ Cardinality(Known \ Finished) \in Nat
        /\ Cardinality((Known \ Finished) \cup {j}) \in Nat
        /\ Len(queue) \in Nat
    BY <2>3, JobsFinite, QueueFacts DEF Inv
  <2> HIDE DEF kept, fin
  <2> QED
    BY <1>2, <2>1, <2>4, <2>5, <2>6, LimitsAssumption
<1>7. Cardinality(kept \ Overflow(kept)) <= MaxJobs
  <2>1. Overflow(kept) = Oldest(fin, Cardinality(kept) - MaxJobs)
    BY DEF Overflow
  <2>2. MaxJobs \in Nat
    BY LimitsAssumption
  <2> HIDE DEF kept, fin
  <2> QED
    BY <1>4, <1>6, <2>1, <2>2, RoomIsMade
<1>8. Cardinality(Known') <= MaxJobs
  <2>1. kept \ Overflow(kept) \in SUBSET Ids /\ Known' \in SUBSET Ids
    BY <1>4, <1>5
  <2>2. /\ Cardinality(Known') <= Cardinality(kept \ Overflow(kept))
        /\ Cardinality(Known') \in Nat /\ Cardinality(kept \ Overflow(kept)) \in Nat
    BY <1>5, <2>1, SubsetCardinality, JobsFinite
  <2> HIDE DEF kept
  <2> QED
    BY <1>7, <2>2, LimitsAssumption
<1>9. Cardinality(Holders') <= MaxRetained
  <2>1. Holders' \in SUBSET Holders
    <3>1. \A i \in Ids \ {j} : jobs'[i] = Forgotten \/ jobs'[i] = jobs[i]
      BY <1>1
    <3> QED
      BY <1>3, <3>1 DEF Holders
  <2>2. Holders \in SUBSET Ids /\ Holders' \in SUBSET Ids
    BY DEF Holders
  <2>3. Cardinality(Holders') <= Cardinality(Holders)
    BY <2>1, <2>2, SubsetCardinality
  <2>4. Cardinality(Holders) <= MaxRetained
    BY DEF MemoryIsBounded, Holders
  <2> QED
    BY <2>2, <2>3, <2>4, JobsFinite, LimitsAssumption
<1>10. Len(queue') <= MaxQueued
  <2>1. queue \in Seq(Ids)
    BY DEF Inv, TypeOK
  <2>2. Len(queue') = Len(queue) + 1 /\ Len(queue) \in Nat
    BY <1>2, <2>1, AppendProperties, LenProperties
  <2> QED
    BY <1>2, <2>2, LimitsAssumption
<1> QED
  BY <1>8, <1>9, <1>10 DEF MemoryIsBounded, Holders

LEMMA SettlesIsBounded ==
  ASSUME Inv, MemoryIsBounded, NEW j \in Ids, Settles(j)
  PROVE  MemoryIsBounded'
<1> DEFINE outcome == Outcome(j)
           holders == {i \in Known : jobs[i].result} \cup {j}
<1>1. jobs[j].status \in Stages /\ jobs \in [Ids -> Jobs]
  BY JobFacts DEF Settles, Inv, TypeOK
<1>2. queue' = queue
  BY DEF Settles
<1>3. outcome \in Terminal
  BY DEF Outcome, Terminal
<1>4. CASE outcome = "complete"
  <2> DEFINE R(i) == i \in WithResult(holders)
  <2>1. jobs' = [i \in Ids |-> [jobs[i] EXCEPT !.status = IF i = j THEN outcome ELSE @,
                                              !.result = R(i)]]
    BY <1>4 DEF Settles
  <2>2. \A i \in Ids : jobs'[i].result = R(i) /\ (i # j => jobs'[i].status = jobs[i].status)
    <3> HIDE DEF R, outcome, holders
    <3> QED
      BY <1>1, <2>1 DEF Jobs
  <2>3. jobs[j].status \notin Gone
    BY <1>1 DEF Stages, Gone
  <2>4. Known' \in SUBSET Known
    BY <2>2, <2>3 DEF Known
  <2>5. holders \in SUBSET Ids
    BY DEF Known
  <2>6. Holders' = holders \ Oldest(holders, Cardinality(holders) - MaxRetained)
    BY <2>2, <2>5 DEF Holders, WithResult
  <2>7. Cardinality(Holders') <= MaxRetained
    <3>1. MaxRetained \in Nat /\ holders \in SUBSET holders
      BY LimitsAssumption
    <3>2. Cardinality(holders) \in Nat
      BY <2>5, JobsFinite
    <3>3. Cardinality(holders) - Cardinality(holders) <= MaxRetained
      BY <3>1, <3>2
    <3> HIDE DEF holders
    <3> QED
      BY <2>5, <2>6, <3>1, <3>3, RoomIsMade
  <2>8. Cardinality(Known') <= MaxJobs
    <3>1. Known \in SUBSET Ids /\ Known' \in SUBSET Ids
      BY <2>4 DEF Known
    <3>2. Cardinality(Known') <= Cardinality(Known)
      BY <2>4, <3>1, SubsetCardinality
    <3>3. Cardinality(Known) <= MaxJobs
      BY DEF MemoryIsBounded
    <3> QED
      BY <3>1, <3>2, <3>3, JobsFinite, LimitsAssumption
  <2> QED
    BY <1>2, <2>7, <2>8 DEF MemoryIsBounded, Holders
<1>5. CASE outcome # "complete"
  <2>1. jobs' = [jobs EXCEPT ![j].status = outcome]
    BY <1>5 DEF Settles
  <2>2. \A i \in Ids : /\ jobs'[i].result = jobs[i].result
                       /\ i # j => jobs'[i].status = jobs[i].status
    <3> HIDE DEF outcome
    <3> QED
      BY <1>1, <2>1 DEF Jobs
  <2>3. jobs[j].status \notin Gone
    BY <1>1 DEF Stages, Gone
  <2>4. Len(queue') \in Nat /\ Len(queue') <= Len(queue)
    BY <1>2, QueueFacts DEF Inv
  <2> QED
    BY <2>2, <2>3, <2>4, NothingMore
<1> QED
  BY <1>4, <1>5

LEMMA DrainIsBounded ==
  ASSUME Inv, MemoryIsBounded, NEW R \in SUBSET running, Drain(R)
  PROVE  MemoryIsBounded'
<1> DEFINE D == running \ R
<1>1. TypeOK /\ SlotsTaken /\ QueueWaits /\ D \in SUBSET Ids
  BY DEF Inv, TypeOK
<1>2. PICK n \in 0 .. Len(queue) :
            /\ queue' = SubSeq(queue, n + 1, Len(queue))
            /\ jobs' = [j \in Ids |-> IF j \in Eldest(n) THEN Started(jobs[j])
                                      ELSE IF j \in D THEN Disarmed(jobs[j])
                                      ELSE jobs[j]]
  BY <1>1, DrainEffect
<1>3. Len(queue') \in Nat /\ Len(queue') <= Len(queue)
  <2>1. Len(queue) \in Nat /\ n \in Nat
    BY <1>1, QueueFacts
  <2>2. queue' \in Seq(Ids) /\ Len(queue') = Len(queue) - n
    BY <1>1, <1>2, RestFacts
  <2> QED
    BY <2>1, <2>2
<1>4. Eldest(n) \in SUBSET Ids /\ \A j \in Eldest(n) : jobs[j].status = "queued"
  BY <1>1, FrontFacts
<1> HIDE DEF D
<1>6. \A j \in Ids : /\ jobs'[j].status = IF j \in Eldest(n) THEN "preprocessing" ELSE jobs[j].status
                     /\ jobs'[j].result = jobs[j].result
  BY <1>1, <1>2, <1>4, DrainFields
<1>7. \A j \in Ids : jobs[j].status \in Gone => jobs'[j].status \in Gone
  BY <1>4, <1>6 DEF Gone
<1> QED
  BY <1>3, <1>6, <1>7, NothingMore

\* An action on one job that is in the books, which gives it no result.
LEMMA LocalIsBounded ==
  ASSUME Inv, MemoryIsBounded, NEW j \in Ids, jobs[j].status \notin Gone,
         NEW job \in Jobs, jobs' = [jobs EXCEPT ![j] = job], job.result => jobs[j].result,
         Len(queue') \in Nat, Len(queue') <= Len(queue)
  PROVE  MemoryIsBounded'
<1>1. jobs \in [Ids -> Jobs]
  BY DEF Inv, TypeOK
<1>2. jobs'[j] = job /\ \A i \in Ids \ {j} : jobs'[i] = jobs[i]
  BY <1>1
<1> QED
  BY <1>2, NothingMore

LEMMA CancelIsBounded ==
  ASSUME Inv, MemoryIsBounded, NEW j \in Ids, Cancel(j)
  PROVE  MemoryIsBounded'
<1>1. /\ jobs[j] \in Jobs /\ jobs \in [Ids -> Jobs] /\ queue \in Seq(Ids)
      /\ jobs[j].status \notin Gone
  BY DEF Inv, TypeOK, Cancel, Known
<1>2. Len(queue') \in Nat /\ Len(queue') <= Len(queue)
  <2>1. queue' = RemoveFirst(queue, j)
    BY DEF Cancel
  <2>2. CASE \E p \in 1 .. Len(queue) : queue[p] = j
    <3>1. PICK p \in 1 .. Len(queue) : queue[p] = j
      BY <2>2
    <3>2. \A i, k \in 1 .. Len(queue) : queue[k] = queue[i] => k = i
      BY QueueFacts DEF Inv
    <3>3. queue' = RemoveAt(queue, p)
      BY <1>1, <2>1, <3>1, <3>2, RemoveFirstFacts
    <3>4. Len(queue') = Len(queue) - 1
      BY <1>1, <3>3, RemoveAtFacts
    <3> QED
      BY <3>1, <3>4, QueueFacts DEF Inv
  <2>3. CASE ~ \E p \in 1 .. Len(queue) : queue[p] = j
    <3>1. queue' = queue
      BY <2>1, <2>3 DEF RemoveFirst
    <3> QED
      BY <3>1, QueueFacts DEF Inv
  <2> QED
    BY <2>2, <2>3
<1>3. CASE j \in running
  <2>1. jobs' = [jobs EXCEPT ![j] = [jobs[j] EXCEPT !.aborted = TRUE, !.stopped = TRUE]]
    BY <1>1, <1>3 DEF Cancel, AskToStop, Abort
  <2>2. /\ [jobs[j] EXCEPT !.aborted = TRUE, !.stopped = TRUE] \in Jobs
        /\ [jobs[j] EXCEPT !.aborted = TRUE, !.stopped = TRUE].result = jobs[j].result
    BY <1>1 DEF Jobs
  <2> QED
    BY <1>1, <1>2, <2>1, <2>2, LocalIsBounded
<1>4. CASE j \notin running
  <2> DEFINE job == [jobs[j] EXCEPT !.aborted = TRUE, !.status = "cancelled", !.stopped = TRUE]
  <2>1. jobs' = [jobs EXCEPT ![j] = job]
    BY <1>1, <1>4 DEF Cancel, AskToStop, SettleAtOnce, Abort
  <2>2. job \in Jobs /\ job.result = jobs[j].result
    BY <1>1 DEF Jobs, Terminal
  <2> HIDE DEF job
  <2> QED
    BY <1>1, <1>2, <2>1, <2>2, LocalIsBounded
<1> QED
  BY <1>3, <1>4

LEMMA WorkStepIsBounded ==
  ASSUME Inv, MemoryIsBounded, NEW j \in Ids, WorkStep(j)
  PROVE  MemoryIsBounded'
<1>1. jobs[j] \in Jobs /\ jobs \in [Ids -> Jobs] /\ Sound(j)
  BY DEF Inv, TypeOK
<1>2. Len(queue) \in Nat
  BY QueueFacts DEF Inv
<1>3. ASSUME NEW stage \in Stages, Enters(j, stage), work[j] \in Stages
      PROVE  MemoryIsBounded'
  <2>1. jobs[j].status \in Stages /\ j \notin Finished /\ jobs[j].status \notin Gone
    BY <1>3, JobFacts DEF Stages, Gone
  <2>2. jobs' = [jobs EXCEPT ![j].status = stage] /\ queue' = queue
    BY <1>3, <2>1 DEF Enters
  <2>3. jobs' = [jobs EXCEPT ![j] = [jobs[j] EXCEPT !.status = stage]]
    BY <1>1, <2>2
  <2>4. [jobs[j] EXCEPT !.status = stage] \in Jobs
        /\ [jobs[j] EXCEPT !.status = stage].result = jobs[j].result
    BY <1>1 DEF Jobs
  <2>5. Len(queue') \in Nat /\ Len(queue') <= Len(queue)
    BY <1>2, <2>2
  <2> QED
    BY <2>1, <2>3, <2>4, <2>5, LocalIsBounded
<1>4. ASSUME NEW end \in {"resolved", "rejected"}, NEW imported \in BOOLEAN,
             Reaches(j, end, imported), work[j] \in Stages
      PROVE  MemoryIsBounded'
  <2>1. jobs[j].status \notin Gone
    BY <1>4, JobFacts DEF Stages, Gone
  <2>2. jobs' = [jobs EXCEPT ![j].imported = imported] /\ queue' = queue
    BY <1>4 DEF Reaches
  <2>3. jobs' = [jobs EXCEPT ![j] = [jobs[j] EXCEPT !.imported = imported]]
    BY <1>1, <2>2
  <2>4. [jobs[j] EXCEPT !.imported = imported] \in Jobs
        /\ [jobs[j] EXCEPT !.imported = imported].result = jobs[j].result
    BY <1>1, <1>4 DEF Jobs
  <2>5. Len(queue') \in Nat /\ Len(queue') <= Len(queue)
    BY <1>2, <2>2
  <2> QED
    BY <2>1, <2>3, <2>4, <2>5, LocalIsBounded
<1>5. CASE Prepares(j)
  BY <1>3, <1>5 DEF Prepares, Stages
<1>6. CASE Transcribes(j)
  BY <1>3, <1>6 DEF Transcribes, Stages
<1>7. CASE Unwinds(j)
  BY <1>4, <1>7 DEF Unwinds, Stages
<1>8. CASE Breaks(j)
  BY <1>4, <1>8 DEF Breaks, Stages
<1>9. CASE Imports(j)
  BY <1>4, <1>9 DEF Imports, Stages
<1>10. CASE Settles(j)
  BY <1>10, SettlesIsBounded
<1>11. CASE Finishes(j)
  <2>1. Drain(running \ {j}) /\ running \ {j} \in SUBSET running
    BY <1>11 DEF Finishes
  <2> QED
    BY <2>1, DrainIsBounded
<1> QED
  BY <1>5, <1>6, <1>7, <1>8, <1>9, <1>10, <1>11 DEF WorkStep

LEMMA MemoryNext == Inv /\ MemoryIsBounded /\ [Next]_vars => MemoryIsBounded'
<1> SUFFICES ASSUME Inv, MemoryIsBounded, [Next]_vars
             PROVE  MemoryIsBounded'
  OBVIOUS
<1>1. ASSUME NEW j \in Ids, Create(j)
      PROVE  MemoryIsBounded'
  BY <1>1, CreateIsBounded
<1>2. ASSUME NEW j \in Ids, Cancel(j)
      PROVE  MemoryIsBounded'
  BY <1>2, CancelIsBounded
<1>3. ASSUME NEW j \in Ids, Delete(j)
      PROVE  MemoryIsBounded'
  <2>1. jobs[j].status \notin Gone /\ Forgotten \in Jobs /\ ~Forgotten.result
    BY <1>3 DEF Delete, Finished, Terminal, Gone, Forgotten, Blank, Jobs
  <2>2. jobs' = [jobs EXCEPT ![j] = Forgotten] /\ Len(queue') \in Nat /\ Len(queue') <= Len(queue)
    BY <1>3, QueueFacts DEF Delete, Inv
  <2> QED
    BY <2>1, <2>2, LocalIsBounded
<1>4. ASSUME NEW j \in Ids, TimesOut(j)
      PROVE  MemoryIsBounded'
  <2> DEFINE job == [jobs[j] EXCEPT !.aborted = TRUE, !.timedOut = TRUE, !.timer = FALSE]
  <2>1. jobs[j] \in Jobs /\ jobs[j].timer
    BY <1>4 DEF Inv, TypeOK, TimesOut
  <2>2. jobs' = [jobs EXCEPT ![j] = job] /\ queue' = queue
    BY <1>4, <2>1 DEF TimesOut, Abort, Jobs
  <2>3. job \in Jobs /\ job.result = jobs[j].result
    BY <2>1 DEF Jobs
  <2>4. jobs[j].status \notin Gone
    <3>1. j \in running
      BY <2>1 DEF Inv, SlotsTaken
    <3>2. work[j] \in Stages \cup {"resolved", "rejected"}
      BY <1>4, <3>1, JobFacts DEF TimesOut, Work, Stages
    <3> QED
      BY <3>2, JobFacts DEF Stages, Gone
  <2>5. Len(queue') \in Nat /\ Len(queue') <= Len(queue)
    BY <2>2, QueueFacts DEF Inv
  <2> HIDE DEF job
  <2> QED
    BY <2>2, <2>3, <2>4, <2>5, LocalIsBounded
<1>5. ASSUME NEW j \in Ids, WorkStep(j)
      PROVE  MemoryIsBounded'
  BY <1>5, WorkStepIsBounded
<1>6. CASE RunDrain
  BY <1>6, DrainIsBounded DEF RunDrain
<1>7. CASE Destroy
  <2>1. \A j \in Ids : /\ jobs'[j].status = jobs[j].status
                       /\ jobs'[j].result = jobs[j].result
    <3>1. jobs \in [Ids -> Jobs]
      BY DEF Inv, TypeOK
    <3> SUFFICES ASSUME NEW j \in Ids
                 PROVE  jobs'[j].status = jobs[j].status /\ jobs'[j].result = jobs[j].result
      OBVIOUS
    <3>2. jobs'[j] = jobs[j] \/ jobs'[j] = [jobs[j] EXCEPT !.aborted = TRUE, !.timer = FALSE, !.stopped = TRUE]
      BY <1>7, <3>1 DEF Destroy, Abort, Jobs
    <3> QED
      BY <3>1, <3>2 DEF Jobs
  <2>2. queue' = <<>>
    BY <1>7 DEF Destroy
  <2>3. Len(queue') \in Nat /\ Len(queue') <= Len(queue)
    BY <2>2, EmptySeq, QueueFacts DEF Inv
  <2> QED
    BY <2>1, <2>3, NothingMore
<1>8. CASE UNCHANGED vars
  BY <1>8 DEF vars, MemoryIsBounded, Known
<1> QED
  BY <1>1, <1>2, <1>3, <1>4, <1>5, <1>6, <1>7, <1>8 DEF Next

(* However long the server runs, the queue, the jobs in _jobs and the      *)
(* results they keep have their bounds (create, _prune, _forgetOldResults).*)
THEOREM MemoryHolds == Spec => []MemoryIsBounded
<1>1. Init => MemoryIsBounded
  <2> SUFFICES ASSUME Init
               PROVE  MemoryIsBounded
    OBVIOUS
  <2>1. Known = {} /\ Holders = {}
    BY DEF Init, Known, Holders, Blank, Gone
  <2>2. Cardinality(Known) = 0 /\ Cardinality(Holders) = 0 /\ Len(queue) = 0
    BY <2>1, FS_EmptySet, EmptySeq DEF Init
  <2> QED
    BY <2>2, LimitsAssumption DEF MemoryIsBounded, Holders
<1> QED
  BY <1>1, MemoryNext, InvHolds, PTL DEF Spec

-----------------------------------------------------------------------------
(* The manager implements JobLifecycle.                                    *)

\* The state of the abstract jobs.
Phases == [j \in Ids |-> Phase(jobs[j])]

LEMMA PhaseFacts ==
  ASSUME NEW job \in Jobs
  PROVE  /\ Phase(job) = "absent" <=> job.status = "absent"
         /\ Phase(job) = "waiting" <=> job.status = "queued"
         /\ Phase(job) = "working" <=> job.status \in Stages
         /\ Phase(job) \in Terminal <=> job.status \in Terminal
         /\ job.status \in Terminal \cup Gone => Phase(job) = job.status
  BY DEF Jobs, Phase, Stages, Terminal, Gone

\* What does not change the phase of any job is a stutter.
LEMMA StuttersWhen ==
  ASSUME \A j \in Ids : Phase(jobs'[j]) = Phase(jobs[j])
  PROVE  Phases' = Phases
  BY DEF Phases

LEMMA AcceptRefined ==
  ASSUME Inv, NEW j \in Ids, Create(j)
  PROVE  Lifecycle!Accept(j)
<1>1. PICK gone \in SUBSET Finished :
         /\ j \notin gone /\ jobs' \in [Ids -> Jobs]
         /\ jobs'[j] = [Blank EXCEPT !.status = "queued"]
         /\ \A i \in Ids \ {j} : jobs'[i] = IF i \in gone THEN Forgotten ELSE jobs[i]
  BY CreateEffect
<1>2. \A i \in Ids : jobs[i] \in Jobs /\ jobs'[i] \in Jobs
  BY <1>1 DEF Inv, TypeOK
<1>3. Phases[j] = "absent"
  BY <1>2, PhaseFacts DEF Phases, Create
<1>4. \A i \in {i \in Ids : Phases[i] = "absent"} : j <= i
  <2> SUFFICES ASSUME NEW i \in Ids, Phases[i] = "absent", ~(j <= i)
               PROVE  FALSE
    OBVIOUS
  <2>1. i < j
    BY IdsFinite
  <2>2. jobs[i].status # "absent"
    BY <2>1 DEF Create
  <2> QED
    BY <1>2, <2>2, PhaseFacts DEF Phases
<1>5. gone \in SUBSET {i \in Ids : Phases[i] \in Terminal}
  BY <1>2, PhaseFacts DEF Phases, Finished
<1>6. Phases' = [i \in Ids |-> IF i = j THEN "waiting"
                               ELSE IF i \in gone THEN "forgotten" ELSE Phases[i]]
  <2> SUFFICES ASSUME NEW i \in Ids
               PROVE  Phase(jobs'[i]) = IF i = j THEN "waiting"
                                        ELSE IF i \in gone THEN "forgotten" ELSE Phase(jobs[i])
    BY DEF Phases
  <2>1. CASE i = j
    <3>1. jobs'[j].status = "queued"
      <4>1. jobs'[j] = [Blank EXCEPT !.status = "queued"]
        BY <1>1
      <4> QED
        BY <4>1 DEF Blank
    <3>2. Phase(jobs'[j]) = "waiting"
      BY <3>1 DEF Phase, Stages
    <3> QED
      BY <2>1, <3>2
  <2>2. CASE i # j /\ i \in gone
    BY <1>1, <2>2 DEF Phase, Forgotten, Blank, Stages
  <2>3. CASE i # j /\ i \notin gone
    BY <1>1, <2>3
  <2> QED
    BY <2>1, <2>2, <2>3
<1> QED
  BY <1>3, <1>4, <1>5, <1>6 DEF Lifecycle!Accept, Lifecycle!In, Lifecycle!Outcomes, Phases, Terminal

LEMMA SameCardinality ==
  ASSUME NEW S
  PROVE  Lifecycle!Cardinality(S) = Cardinality(S)
  BY DEF Lifecycle!Cardinality, Cardinality

LEMMA BeginRefined ==
  ASSUME Inv, Inv', NEW R \in SUBSET running, Drain(R), \A j \in running \ R : work[j] = "settled"
  PROVE  Lifecycle!Begin \/ UNCHANGED Phases
<1> DEFINE D == running \ R
<1>1. TypeOK /\ SlotsTaken /\ QueueWaits /\ D \in SUBSET Ids
  BY DEF Inv, TypeOK
<1>2. PICK n \in 0 .. Len(queue) :
            /\ destroyed => n = 0
            /\ running' = R \cup Eldest(n)
            /\ jobs' = [j \in Ids |-> IF j \in Eldest(n) THEN Started(jobs[j])
                                      ELSE IF j \in D THEN Disarmed(jobs[j])
                                      ELSE jobs[j]]
  BY <1>1, DrainEffect
<1>3. Eldest(n) \in SUBSET Ids /\ \A j \in Eldest(n) : jobs[j].status = "queued"
  BY <1>1, FrontFacts
<1>4. \A j \in Ids : jobs'[j].status = IF j \in Eldest(n) THEN "preprocessing" ELSE jobs[j].status
  <2> HIDE DEF D
  <2> QED
    BY <1>1, <1>2, <1>3, DrainFields
<1>5. \A j \in Ids : Phase(jobs'[j]) = IF j \in Eldest(n) THEN "working" ELSE Phase(jobs[j])
  BY <1>4 DEF Phase, Stages
<1>6. CASE Eldest(n) = {}
  BY <1>5, <1>6, StuttersWhen
<1>7. CASE Eldest(n) # {}
  <2>1. \A j \in Ids : jobs[j] \in Jobs /\ jobs'[j] \in Jobs
    BY DEF Inv, TypeOK
  <2>2. ~destroyed
    <3>1. n # 0
      BY <1>7 DEF Eldest
    <3> QED
      BY <1>2, <3>1
  <2>3. Eldest(n) \in (SUBSET {j \in Ids : Phases[j] = "waiting"}) \ {{}}
    BY <1>3, <1>7, <2>1, PhaseFacts DEF Phases
  <2>4. \A i \in {j \in Ids : Phases[j] = "waiting"}, b \in Eldest(n) : i < b => i \in Eldest(n)
    <3> SUFFICES ASSUME NEW i \in Ids, Phases[i] = "waiting", NEW b \in Eldest(n), i < b
                 PROVE  i \in Eldest(n)
      OBVIOUS
    <3>1. jobs[i].status = "queued"
      BY <2>1, PhaseFacts DEF Phases
    <3> QED
      BY <1>1, <2>2, <3>1, FrontIsOldest
  <2>5. Cardinality({j \in Ids : Phases[j] = "working"} \cup Eldest(n)) <= MaxParallel
    <3>1. \A j \in Ids : Phases[j] = "working" => j \in running' /\ j \notin Eldest(n)
      <4> SUFFICES ASSUME NEW j \in Ids, Phases[j] = "working"
                   PROVE  j \in running' /\ j \notin Eldest(n)
        OBVIOUS
      <4>1. jobs[j].status \in Stages
        BY <2>1, PhaseFacts DEF Phases
      <4>2. j \notin Eldest(n)
        BY <1>3, <4>1 DEF Stages
      <4>3. jobs'[j].status \in Stages
        BY <1>4, <4>1, <4>2
      <4>4. Pipeline(jobs'[j], work'[j])
        BY DEF Inv, Sound
      <4>5. work'[j] # "none"
        BY <4>3, <4>4 DEF Pipeline
      <4> QED
        BY <4>2, <4>5 DEF Inv, SlotsTaken
    <3>2. {j \in Ids : Phases[j] = "working"} \cup Eldest(n) \in SUBSET running'
      BY <1>2, <3>1
    <3>3. running' \in SUBSET Ids /\ Cardinality(running') <= MaxParallel
      BY DEF Inv, TypeOK, SlotsTaken
    <3>4. {j \in Ids : Phases[j] = "working"} \cup Eldest(n) \in SUBSET Ids
      BY <1>3
    <3> HIDE DEF Phases
    <3> QED
      BY <3>2, <3>3, <3>4, JobsFinite, SubsetCardinality, LimitsAssumption
  <2>6. Phases' = [j \in Ids |-> IF j \in Eldest(n) THEN "working" ELSE Phases[j]]
    BY <1>5 DEF Phases
  <2> QED
    BY <2>3, <2>4, <2>5, <2>6, SameCardinality DEF Lifecycle!Begin, Lifecycle!In, Phases
<1> QED
  BY <1>6, <1>7

LEMMA EndRefined ==
  ASSUME Inv, Inv', NEW j \in Ids, NEW outcome \in Terminal,
         jobs'[j].status = outcome, \A i \in Ids \ {j} : jobs'[i].status = jobs[i].status,
         \/ jobs[j].status \in Stages
         \/ jobs[j].status = "queued" /\ outcome = "cancelled"
  PROVE  Lifecycle!End(j, outcome)
<1>1. \A i \in Ids : jobs[i] \in Jobs /\ jobs'[i] \in Jobs
  BY DEF Inv, TypeOK
<1>2. Phases' = [Phases EXCEPT ![j] = outcome]
  <2>1. Phase(jobs'[j]) = outcome
    BY <1>1, PhaseFacts
  <2>2. \A i \in Ids \ {j} : Phase(jobs'[i]) = Phase(jobs[i])
    BY DEF Phase
  <2> QED
    BY <2>1, <2>2 DEF Phases
<1>3. \/ Phases[j] = "working"
      \/ Phases[j] = "waiting" /\ outcome = "cancelled"
  BY <1>1, PhaseFacts DEF Phases
<1> QED
  BY <1>2, <1>3 DEF Lifecycle!End, Phases

LEMMA ForgetRefined ==
  ASSUME Inv, NEW j \in Ids, Delete(j)
  PROVE  Lifecycle!Forget(j)
<1>1. jobs[j] \in Jobs /\ jobs \in [Ids -> Jobs] /\ jobs[j].status \in Terminal
  BY DEF Inv, TypeOK, Delete, Finished
<1>2. jobs' = [jobs EXCEPT ![j] = Forgotten] /\ Phase(Forgotten) = "forgotten"
  BY DEF Delete, Phase, Forgotten, Blank, Stages
<1>3. Phases' = [Phases EXCEPT ![j] = "forgotten"]
  BY <1>1, <1>2 DEF Phases
<1>4. Phases[j] \in Terminal
  BY <1>1, PhaseFacts DEF Phases
<1> QED
  BY <1>3, <1>4 DEF Lifecycle!Forget, Lifecycle!Outcomes, Phases, Terminal

LEMMA CancelRefined ==
  ASSUME Inv, Inv', NEW j \in Ids, Cancel(j)
  PROVE  Lifecycle!End(j, "cancelled") \/ UNCHANGED Phases
<1>1. /\ jobs[j] \in Jobs /\ jobs \in [Ids -> Jobs] /\ work[j] \in Work
      /\ jobs[j].status \notin Gone \cup Terminal
  BY DEF Inv, TypeOK, Cancel, Known, Finished
<1>2. CASE j \in running
  <2>1. jobs' = [jobs EXCEPT ![j] = [jobs[j] EXCEPT !.aborted = TRUE, !.stopped = TRUE]]
    BY <1>1, <1>2 DEF Cancel, AskToStop, Abort
  <2>2. \A i \in Ids : jobs'[i].status = jobs[i].status
    BY <1>1, <2>1 DEF Jobs
  <2>3. \A i \in Ids : Phase(jobs'[i]) = Phase(jobs[i])
    BY <2>2 DEF Phase
  <2> QED
    BY <2>3, StuttersWhen
<1>3. CASE j \notin running
  <2>1. jobs' = [jobs EXCEPT ![j] = [jobs[j] EXCEPT !.aborted = TRUE, !.status = "cancelled",
                                                    !.stopped = TRUE]]
    BY <1>1, <1>3 DEF Cancel, AskToStop, SettleAtOnce, Abort
  <2>2. jobs'[j].status = "cancelled" /\ \A i \in Ids \ {j} : jobs'[i].status = jobs[i].status
    BY <1>1, <2>1 DEF Jobs
  <2>3. jobs[j].status \in Stages \/ jobs[j].status = "queued"
    BY <1>1 DEF Jobs
  <2> QED
    BY <2>2, <2>3, EndRefined DEF Terminal
<1> QED
  BY <1>2, <1>3

LEMMA WorkStepRefined ==
  ASSUME Inv, Inv', NEW j \in Ids, WorkStep(j)
  PROVE  \/ Lifecycle!Begin
         \/ \E outcome \in Terminal : Lifecycle!End(j, outcome)
         \/ UNCHANGED Phases
<1>1. jobs[j] \in Jobs /\ jobs \in [Ids -> Jobs]
  BY DEF Inv, TypeOK
<1>2. ASSUME NEW stage \in Stages, Enters(j, stage), work[j] \in Stages
      PROVE  UNCHANGED Phases
  <2>1. jobs[j].status \in Stages /\ j \notin Finished
    BY <1>2, JobFacts
  <2>2. jobs' = [jobs EXCEPT ![j].status = stage]
    BY <1>2, <2>1 DEF Enters
  <2>3. jobs'[j].status \in Stages /\ \A i \in Ids \ {j} : jobs'[i].status = jobs[i].status
    BY <1>1, <2>2 DEF Jobs
  <2>4. \A i \in Ids : Phase(jobs'[i]) = Phase(jobs[i])
    <3>1. Phase(jobs'[j]) = "working" /\ Phase(jobs[j]) = "working"
      BY <2>1, <2>3 DEF Phase, Stages
    <3>2. \A i \in Ids \ {j} : Phase(jobs'[i]) = Phase(jobs[i])
      BY <2>3 DEF Phase
    <3> QED
      BY <3>1, <3>2
  <2> QED
    BY <2>4, StuttersWhen
<1>3. ASSUME NEW end, NEW imported, Reaches(j, end, imported)
      PROVE  UNCHANGED Phases
  <2>1. jobs' = [jobs EXCEPT ![j].imported = imported]
    BY <1>3 DEF Reaches
  <2>2. \A i \in Ids : jobs'[i].status = jobs[i].status
    BY <1>1, <2>1 DEF Jobs
  <2>3. \A i \in Ids : Phase(jobs'[i]) = Phase(jobs[i])
    BY <2>2 DEF Phase
  <2> QED
    BY <2>3, StuttersWhen
<1>4. CASE Prepares(j)
  BY <1>2, <1>4 DEF Prepares, Stages
<1>5. CASE Transcribes(j)
  BY <1>2, <1>5 DEF Transcribes, Stages
<1>6. CASE Unwinds(j) \/ Breaks(j) \/ Imports(j)
  BY <1>3, <1>6 DEF Unwinds, Breaks, Imports
<1>7. CASE Settles(j)
  <2> DEFINE outcome == Outcome(j)
             holders == {i \in Known : jobs[i].result} \cup {j}
  <2>1. outcome \in Terminal /\ jobs[j].status \in Stages
    BY <1>7, JobFacts DEF Settles, Outcome, Terminal
  <2>2. jobs'[j].status = outcome /\ \A i \in Ids \ {j} : jobs'[i].status = jobs[i].status
    <3>1. CASE outcome = "complete"
      <4> DEFINE R(i) == i \in WithResult(holders)
      <4>1. jobs' = [i \in Ids |-> [jobs[i] EXCEPT !.status = IF i = j THEN outcome ELSE @,
                                                   !.result = R(i)]]
        BY <1>7, <3>1 DEF Settles
      <4> HIDE DEF R, outcome
      <4> QED
        BY <1>1, <4>1 DEF Jobs
    <3>2. CASE outcome # "complete"
      <4>1. jobs' = [jobs EXCEPT ![j].status = outcome]
        BY <1>7, <3>2 DEF Settles
      <4> HIDE DEF outcome
      <4> QED
        BY <1>1, <4>1 DEF Jobs
    <3> QED
      BY <3>1, <3>2
  <2>3. PICK end \in Terminal :
              jobs'[j].status = end /\ \A i \in Ids \ {j} : jobs'[i].status = jobs[i].status
    BY <2>1, <2>2
  <2>4. jobs[j].status \in Stages
    BY <1>7, JobFacts DEF Settles
  <2> HIDE DEF outcome, holders
  <2>5. Lifecycle!End(j, end)
    BY <2>3, <2>4, EndRefined
  <2> QED
    BY <2>5
<1>8. CASE Finishes(j)
  <2>1. /\ Drain(running \ {j}) /\ running \ {j} \in SUBSET running
        /\ \A i \in running \ (running \ {j}) : work[i] = "settled"
    BY <1>8 DEF Finishes
  <2> QED
    BY <2>1, BeginRefined
<1> QED
  BY <1>4, <1>5, <1>6, <1>7, <1>8 DEF WorkStep

LEMMA StepRefined == Inv /\ Inv' /\ [Next]_vars => [Lifecycle!Next]_Phases
<1> SUFFICES ASSUME Inv, Inv', [Next]_vars
             PROVE  Lifecycle!Next \/ UNCHANGED Phases
  OBVIOUS
<1>1. ASSUME NEW j \in Ids, Create(j)
      PROVE  Lifecycle!Next
  BY <1>1, AcceptRefined DEF Lifecycle!Next
<1>2. ASSUME NEW j \in Ids, Cancel(j)
      PROVE  Lifecycle!Next \/ UNCHANGED Phases
  BY <1>2, CancelRefined DEF Lifecycle!Next, Lifecycle!Outcomes
<1>3. ASSUME NEW j \in Ids, Delete(j)
      PROVE  Lifecycle!Next
  BY <1>3, ForgetRefined DEF Lifecycle!Next
<1>4. ASSUME NEW j \in Ids, TimesOut(j)
      PROVE  UNCHANGED Phases
  <2>1. jobs \in [Ids -> Jobs]
    BY DEF Inv, TypeOK
  <2>2. jobs' = [jobs EXCEPT ![j] = [jobs[j] EXCEPT !.aborted = TRUE, !.timedOut = TRUE,
                                                    !.timer = FALSE]]
    BY <1>4, <2>1 DEF TimesOut, Abort, Jobs
  <2>3. \A i \in Ids : jobs'[i].status = jobs[i].status
    BY <2>1, <2>2 DEF Jobs
  <2>4. \A i \in Ids : Phase(jobs'[i]) = Phase(jobs[i])
    BY <2>3 DEF Phase
  <2> QED
    BY <2>4, StuttersWhen
<1>5. ASSUME NEW j \in Ids, WorkStep(j)
      PROVE  Lifecycle!Next \/ UNCHANGED Phases
  BY <1>5, WorkStepRefined DEF Lifecycle!Next, Lifecycle!Outcomes, Terminal
<1>6. CASE RunDrain
  <2>1. /\ Drain(running) /\ running \in SUBSET running
        /\ \A i \in running \ running : work[i] = "settled"
    BY <1>6 DEF RunDrain
  <2> QED
    BY <2>1, BeginRefined DEF Lifecycle!Next
<1>7. CASE Destroy
  <2>1. jobs \in [Ids -> Jobs]
    BY DEF Inv, TypeOK
  <2>2. \A j \in Ids : jobs'[j] = jobs[j]
            \/ jobs'[j] = [jobs[j] EXCEPT !.aborted = TRUE, !.timer = FALSE, !.stopped = TRUE]
    BY <1>7, <2>1 DEF Destroy, Abort, Jobs
  <2>3. \A j \in Ids : jobs'[j].status = jobs[j].status
    BY <2>1, <2>2 DEF Jobs
  <2>4. \A j \in Ids : Phase(jobs'[j]) = Phase(jobs[j])
    BY <2>3 DEF Phase
  <2> QED
    BY <2>4, StuttersWhen
<1>8. CASE UNCHANGED vars
  BY <1>8 DEF vars, Phases
<1> QED
  BY <1>1, <1>2, <1>3, <1>4, <1>5, <1>6, <1>7, <1>8 DEF Next

(* The manager keeps the life cycle it promises: jobs start in the order   *)
(* of their creation, never more than maxParallelJobs at a time, and a     *)
(* terminal status is final (create, _drain, _settleComplete, _settleFailed*)
(* cancel, delete).                                                        *)
THEOREM LifecycleIsKept == Spec => KeepsLifecycle
<1>1. Init => Lifecycle!Init
  <2> SUFFICES ASSUME Init
               PROVE  [j \in Ids |-> Phase(jobs[j])] = [j \in Ids |-> "absent"]
    BY DEF Lifecycle!Init
  <2>1. \A j \in Ids : jobs[j].status = "absent"
    BY DEF Init, Blank
  <2> QED
    BY <2>1 DEF Phase, Stages
<1>2. Inv /\ Inv' /\ [Next]_vars => [Lifecycle!Next]_([j \in Ids |-> Phase(jobs[j])])
  BY StepRefined DEF Phases
<1> QED
  BY <1>1, <1>2, InvHolds, PTL DEF Spec, KeepsLifecycle, Lifecycle!Spec
================================================================================
