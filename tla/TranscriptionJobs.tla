--------------------------- MODULE TranscriptionJobs ---------------------------
(***************************************************************************)
(* TranscriptionJobManager and the pipeline AudioTranscriptionService gives*)
(* it to run: the FIFO queue with its parallelism, cancellation and timeout*)
(* through one AbortController per job, the settling of a job and its      *)
(* announcement, the bounded memory of finished jobs and results, shutdown.*)
(*                                                                         *)
(* A job is its creation number.  An action is one macrotask of the event  *)
(* loop, or a microtask of the promise chain of _start; what the pipeline  *)
(* awaits (FFmpeg, the engine, the library) answers when it likes.         *)
(***************************************************************************)
EXTENDS Integers, Sequences, FiniteSets, SequencesExt

CONSTANTS
    MaxCreated,   \* bound: jobs ever created
    MaxParallel,  \* maxParallelJobs
    MaxQueued,    \* maxQueued
    MaxJobs,      \* maxJobs
    MaxRetained   \* maxRetainedResults

ASSUME LimitsAssumption ==
    /\ MaxCreated \in Nat /\ MaxParallel \in Nat \ {0} /\ MaxQueued \in Nat \ {0}
    /\ MaxJobs \in Nat /\ MaxRetained \in Nat
    \* as in JOB_MANAGER_DEFAULTS with the largest parallelism TranscriptionConfig allows
    /\ MaxQueued + MaxParallel <= MaxJobs

Ids == 1..MaxCreated

VARIABLES
    jobs,       \* _jobs, and the closures that outlive a job's entry in it
    queue,      \* _queue
    running,    \* _running
    work,       \* where the run() of each job is
    draining,   \* a setImmediate(_drain) is pending
    destroyed,  \* _destroyed
    told        \* history: the terminal events announced for each job

vars == <<jobs, queue, running, work, draining, destroyed, told>>

-----------------------------------------------------------------------------
Terminal == {"complete", "failed", "cancelled"}
\* postprocessing and generating_midi come and go within one synchronous block.
Stages == {"preprocessing", "transcribing", "importing"}
Gone == {"absent", "forgotten"} \* not in _jobs: not yet, no more

Work == {"none", "preprocessing", "transcribing", "importing", "resolved",
         "rejected", "settled"}

Blank == [status |-> "absent", aborted |-> FALSE, timedOut |-> FALSE,
          timer |-> FALSE, result |-> FALSE,
          \* history: an operator asked to stop it; its MIDI is in the library
          stopped |-> FALSE, imported |-> FALSE]

\* What a job taken from _jobs still holds, nobody asks for any more.
Forgotten == [Blank EXCEPT !.status = "forgotten"]

Known == {j \in Ids : jobs[j].status \notin Gone}
Finished == {j \in Ids : jobs[j].status \in Terminal}

\* The oldest n members of a set of jobs.
Oldest(S, n) == {j \in S : Cardinality({i \in S : i < j}) < n}

Abort(job) == [job EXCEPT !.aborted = TRUE]

Announce(j, outcome) == told' = [told EXCEPT ![j] = Append(@, outcome)]

KeepEverything(S) == {} \* mutant: the cap on finished jobs is not enforced

\* The overflow half of _prune: the oldest finished jobs make room.
Overflow(S) == Oldest(S \cap Finished, Cardinality(S) - MaxJobs)

Unlimited == ~destroyed \* mutant: the queue depth is not checked

HasRoom == ~destroyed /\ Len(queue) < MaxQueued

Unshifted(j) == <<j>> \o queue \* mutant: the newest job goes first

Enqueued(j) == Append(queue, j)

\* _start.
StartWithoutTimer(job) == \* mutant: the wall clock is not armed
    [job EXCEPT !.status = "preprocessing"]

Started(job) == [job EXCEPT !.status = "preprocessing", !.timer = TRUE]

OneTooMany(R) == \* mutant: the limit is compared with <=
    {i \in DOMAIN queue :
        Cardinality(R) + Cardinality({k \in 1..(i - 1) : queue[k] \notin Finished})
            <= MaxParallel}

Disarmed(job) == [job EXCEPT !.timer = FALSE]

\* _drain: the elements of the queue its loop takes while R is running.
Taken(R) ==
    {i \in DOMAIN queue :
        Cardinality(R) + Cardinality({k \in 1..(i - 1) : queue[k] \notin Finished})
            < MaxParallel}

\* The jobs of running \ R, if any, have just released their slot.
Drain(R) ==
    LET take  == IF destroyed THEN {} ELSE Taken(R)
        start == {queue[i] : i \in take} \ Finished
    IN  /\ queue' = SubSeq(queue, Cardinality(take) + 1, Len(queue))
        /\ running' = R \cup start
        /\ jobs' = [j \in Ids |-> IF j \in start THEN Started(jobs[j])
                                  ELSE IF j \in running \ R THEN Disarmed(jobs[j])
                                  ELSE jobs[j]]
        /\ work' = [j \in Ids |-> IF j \in start THEN "preprocessing"
                                  ELSE IF j \in running \ R THEN "none" ELSE work[j]]

-----------------------------------------------------------------------------
Init ==
    /\ jobs = [j \in Ids |-> Blank]
    /\ queue = <<>>
    /\ running = {}
    /\ work = [j \in Ids |-> "none"]
    /\ draining = FALSE
    /\ destroyed = FALSE
    /\ told = [j \in Ids |-> <<>>]

\* create, with its _prune: what is past the retention window goes, be it
\* any of the finished jobs, then what exceeds the cap.
Create(j) ==
    /\ HasRoom
    /\ jobs[j].status = "absent" /\ \A i \in Ids : i < j => jobs[i].status # "absent"
    /\ \E expired \in SUBSET Finished :
          LET kept == (Known \cup {j}) \ expired
              gone == expired \cup Overflow(kept)
          IN  jobs' = [i \in Ids |->
                 IF i = j THEN [Blank EXCEPT !.status = "queued"]
                 ELSE IF i \in gone THEN Forgotten
                 ELSE jobs[i]]
    /\ queue' = Enqueued(j)
    /\ draining' = TRUE
    /\ UNCHANGED <<running, work, destroyed, told>>

\* The setImmediate of create.
RunDrain ==
    /\ draining
    /\ draining' = FALSE
    /\ Drain(running)
    /\ UNCHANGED <<destroyed, told>>

\* A job without work in flight ends here (mutant: any job does).
SettleAtOnce(j) ==
    /\ jobs' = [jobs EXCEPT ![j] = [Abort(@) EXCEPT !.status = "cancelled", !.stopped = TRUE]]
    /\ Announce(j, "cancelled")

\* A running job is only asked to stop; one that is not has nothing to unwind.
AskToStop(j) ==
    IF j \in running
    THEN /\ jobs' = [jobs EXCEPT ![j] = [Abort(@) EXCEPT !.stopped = TRUE]]
         /\ UNCHANGED told
    ELSE SettleAtOnce(j)

\* cancel.
Cancel(j) ==
    /\ j \in Known \ Finished
    /\ queue' = RemoveFirst(queue, j)
    /\ AskToStop(j)
    /\ UNCHANGED <<running, work, draining, destroyed>>

\* delete.
Delete(j) ==
    /\ j \in Finished
    /\ jobs' = [jobs EXCEPT ![j] = Forgotten]
    /\ UNCHANGED <<queue, running, work, draining, destroyed, told>>

\* destroy: abort what has not finished, disarm its timer, empty the queue.
Destroy ==
    /\ ~destroyed
    /\ destroyed' = TRUE
    /\ jobs' = [j \in Ids |-> IF j \in Known \ Finished
                              THEN [Abort(jobs[j]) EXCEPT !.timer = FALSE, !.stopped = TRUE]
                              ELSE jobs[j]]
    /\ queue' = <<>>
    /\ UNCHANGED <<running, work, draining, told>>

\* The wall-clock timer.  No timer runs between the microtasks of a settling.
TimesOut(j) ==
    /\ jobs[j].timer /\ work[j] # "settled"
    /\ jobs' = [jobs EXCEPT ![j] = [Abort(@) EXCEPT !.timedOut = TRUE, !.timer = FALSE]]
    /\ UNCHANGED <<queue, running, work, draining, destroyed, told>>

-----------------------------------------------------------------------------
(* The pipeline: _runJob, of which only the awaits can be interleaved.     *)

\* setStage.
Enters(j, stage) ==
    /\ work' = [work EXCEPT ![j] = stage]
    /\ jobs' = IF j \in Finished THEN jobs ELSE [jobs EXCEPT ![j].status = stage]
    /\ UNCHANGED <<queue, running, draining, destroyed, told>>

Reaches(j, end, imported) ==
    /\ work' = [work EXCEPT ![j] = end]
    /\ jobs' = [jobs EXCEPT ![j].imported = imported]
    /\ UNCHANGED <<queue, running, draining, destroyed, told>>

Prepares(j) == work[j] = "preprocessing" /\ Enters(j, "transcribing")

\* The engine has answered; the file is handed to the library unless the job
\* was aborted meanwhile.
Transcribes(j) ==
    /\ work[j] = "transcribing" /\ ~jobs[j].aborted
    /\ Enters(j, "importing")

\* FFmpeg and the engine give up when they are aborted ...
Unwinds(j) ==
    /\ work[j] \in {"preprocessing", "transcribing"} /\ jobs[j].aborted
    /\ Reaches(j, "rejected", FALSE)

\* ... or fail on their own account.
Breaks(j) ==
    /\ work[j] \in {"preprocessing", "transcribing"} /\ ~jobs[j].aborted
    /\ Reaches(j, "rejected", FALSE)

\* FileManager.handleUpload, which nothing aborts.
Imports(j) ==
    /\ work[j] = "importing"
    /\ \/ Reaches(j, "resolved", TRUE)
       \/ Reaches(j, "rejected", FALSE)

-----------------------------------------------------------------------------
OutcomeOfWork(j) == \* mutant: an abort that came too late is ignored
    CASE work[j] = "resolved" -> "complete"
      [] work[j] = "rejected" /\ jobs[j].aborted /\ ~jobs[j].timedOut -> "cancelled"
      [] OTHER -> "failed"

\* _settleComplete and _settleFailed: an abort decides, and then its reason,
\* unless the work went through regardless.
Outcome(j) ==
    CASE work[j] = "resolved" /\ jobs[j].aborted -> "cancelled"
      [] work[j] = "resolved" /\ ~jobs[j].aborted -> "complete"
      [] work[j] = "rejected" /\ jobs[j].aborted /\ ~jobs[j].timedOut -> "cancelled"
      [] OTHER -> "failed"

\* _forgetOldResults: the newest of the jobs that have one keep their result.
WithResult(S) == S \ Oldest(S, Cardinality(S) - MaxRetained)

Settles(j) ==
    /\ work[j] \in {"resolved", "rejected"}
    /\ work' = [work EXCEPT ![j] = "settled"]
    /\ LET outcome == Outcome(j)
           already == outcome = "cancelled" /\ j \in Finished
           holders == {i \in Known : jobs[i].result} \cup {j}
       IN  /\ jobs' = IF outcome = "complete"
                      THEN [i \in Ids |->
                              [jobs[i] EXCEPT !.status = IF i = j THEN outcome ELSE @,
                                              !.result = i \in WithResult(holders)]]
                      ELSE [jobs EXCEPT ![j].status = outcome]
           /\ IF already THEN UNCHANGED told ELSE Announce(j, outcome)
    /\ UNCHANGED <<queue, running, draining, destroyed>>

\* The finally of _start: the slot is free and the next job may have it.
Finishes(j) ==
    /\ work[j] = "settled"
    /\ Drain(running \ {j})
    /\ UNCHANGED <<draining, destroyed, told>>

WorkStep(j) ==
    \/ Prepares(j)
    \/ Transcribes(j)
    \/ Unwinds(j)
    \/ Breaks(j)
    \/ Imports(j)
    \/ Settles(j)
    \/ Finishes(j)

Next ==
    \/ \E j \in Ids : \/ Create(j)
                      \/ Cancel(j)
                      \/ Delete(j)
                      \/ TimesOut(j)
                      \/ WorkStep(j)
    \/ RunDrain
    \/ Destroy

Spec == Init /\ [][Next]_vars

\* The event loop runs what is due, the engine honours an abort, the library
\* answers; an engine that is left alone may hang for ever.
FairSpec ==
    /\ Spec
    /\ WF_vars(RunDrain)
    /\ \A j \in Ids : /\ WF_vars(TimesOut(j))
                      /\ WF_vars(Unwinds(j))
                      /\ WF_vars(Imports(j))
                      /\ WF_vars(Settles(j))
                      /\ WF_vars(Finishes(j))

-----------------------------------------------------------------------------
Jobs ==
    [status : {"queued"} \cup Stages \cup Terminal \cup Gone,
     aborted : BOOLEAN, timedOut : BOOLEAN, timer : BOOLEAN, result : BOOLEAN,
     stopped : BOOLEAN, imported : BOOLEAN]

TypeOK ==
    /\ jobs \in [Ids -> Jobs]
    /\ queue \in Seq(Ids)
    /\ running \subseteq Ids
    /\ work \in [Ids -> Work]
    /\ draining \in BOOLEAN /\ destroyed \in BOOLEAN
    /\ told \in [Ids -> Seq(Terminal)]

\* A slot is taken exactly while its job's FFmpeg, engine or import is not
\* through, cancelled and timed out or not, so the machine never runs more
\* than maxParallelJobs of them, and no clock runs on without one; a job waits in the queue, once, exactly
\* while it is queued (a shutdown drops the queue).
SlotsAreWork ==
    /\ running = {j \in Ids : work[j] # "none"}
    /\ Cardinality(running) <= MaxParallel
    /\ \A j \in Ids : jobs[j].timer => j \in running
    /\ \A i \in DOMAIN queue :
          /\ jobs[queue[i]].status = "queued"
          /\ \A k \in DOMAIN queue : k < i => queue[k] < queue[i]
    /\ ~destroyed => \A j \in Ids : jobs[j].status = "queued" =>
                        \E i \in DOMAIN queue : queue[i] = j

\* Each job that ended was announced once, as what its status says for good.
AnnouncedOnce ==
    \A j \in Ids :
        /\ Len(told[j]) <= 1
        /\ jobs[j].status \in Terminal => told[j] = <<jobs[j].status>>
        /\ told[j] # <<>> => jobs[j].status \in Terminal \cup {"forgotten"}

\* A job is complete only if its file is in the library and nobody asked it to
\* stop while it could still be stopped.
CompleteIsHonest ==
    \A j \in Ids :
        jobs[j].status = "complete" =>
            jobs[j].imported /\ ~jobs[j].stopped /\ ~jobs[j].timedOut

\* A week of uptime accumulates neither jobs nor results, and the queue has its
\* bound.
MemoryIsBounded ==
    /\ Len(queue) <= MaxQueued
    /\ Cardinality(Known) <= MaxJobs
    /\ Cardinality({j \in Ids : jobs[j].result}) <= MaxRetained

\* Every job ends, even if its engine hangs for ever, or the server does.
EveryJobEnds ==
    \A j \in Ids : jobs[j].status = "queued"
                   ~> jobs[j].status \in Terminal \cup {"forgotten"} \/ destroyed

\* The slots and the queue as JobLifecycle sees them.
Phase(job) ==
    CASE job.status = "queued" -> "waiting"
      [] job.status \in Stages -> "working"
      [] OTHER                 -> job.status

Lifecycle == INSTANCE JobLifecycle
    WITH Parallel <- MaxParallel, state <- [j \in Ids |-> Phase(jobs[j])]

\* The manager implements the life cycle it promises: jobs start in the order
\* of their creation, never too many, and a terminal status is final.
KeepsLifecycle == Lifecycle!Spec

-----------------------------------------------------------------------------
(* What the source says and the code does not do.                          *)

\* "A timeout is a failure, not a cancellation": a job that timed out while the
\* library was importing its file ends as cancelled, which nobody asked for.
TimeoutIsFailure ==
    \A j \in Ids : jobs[j].timedOut /\ ~jobs[j].stopped => jobs[j].status # "cancelled"

\* A running job that is cancelled "settles as `cancelled` when its work
\* unwinds": the timer of a cancelled job stays armed and makes it a failure.
CancelIsCancellation ==
    \A j \in Ids : jobs[j].stopped => jobs[j].status # "failed"
=============================================================================
