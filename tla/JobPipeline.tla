---------------------------- MODULE JobPipeline ----------------------------
(* Background jobs of one queue, from POST /jobs to the row the client       *)
(* polls: JobService.submitJob and updateJobStatus, JobQueueService.addJob,  *)
(* and the handler every processor of src/modules/job/processors runs        *)
(* (handleCodeExecution, handleFileProcessing and handleWorkspaceExport      *)
(* differ in validation and simulated work only).  Each await of a handler   *)
(* is a step, so that handlers, redeliveries, timeouts and crashes           *)
(* interleave.  Bull (Redis) and Postgres are external: they are modelled    *)
(* from the options of job-queue.config.ts and the calls made to them.       *)
(*                                                                           *)
(* Two systems keep the state of a job: Bull decides whether it is delivered *)
(* again, the row is what the client sees.  Which of the guarantees below    *)
(* hold depends on the faults met, hence the constant Faults.                *)
EXTENDS Integers

CONSTANTS Jobs,         \* ids of the jobs users may submit
          InvalidJobs,  \* those whose data the processor's validation rejects
          Workers,      \* application instances: each serves the API and consumes the queue
          MaxAttempts,  \* JOB_CONFIGS attempts of the queue
          MaxStalled,   \* settings.maxStalledCount of the queue
          Faults        \* the faults the environment may inject

(* "redis":   Bull's add rejects          "crash": an instance dies and restarts *)
(* "lock":    a live handler loses Bull's lock on its job (it is then stalled)   *)
(* "timeout": Bull's job timeout fires while the handler is still running        *)
(* "db":      an update of the row rejects without having been applied           *)
(* "ack":     an update of the row is applied and rejects all the same           *)
AllFaults == {"redis", "crash", "lock", "timeout", "db", "ack"}

ASSUME JobsAssumption == InvalidJobs \subseteq Jobs
ASSUME AttemptsAssumption == MaxAttempts \in Nat \ {0}
ASSUME StalledAssumption == MaxStalled \in Nat
ASSUME FaultsAssumption == Faults \subseteq AllFaults

(* A delivery hands a job to a worker once.  Its number counts the ends of   *)
(* earlier deliveries, so it is unique for the job and is the lock's token.  *)
Deliveries == 1 .. (MaxAttempts + MaxStalled)
NoToken == 0

VARIABLES row,            \* the jobs table: status, and whether completedAt is set
          submit,         \* where submitJob is, per job
          bull,           \* Bull's record of each job, in Redis
          processedJobs,  \* the processor's in-memory Set, per worker
          run,            \* the handler invocation of each delivery of each job
          executed,       \* history: deliveries whose work was started
          resolved        \* history: deliveries whose work resolved

vars == <<row, submit, bull, processedJobs, run, executed, resolved>>

PENDING == "pending"
PROCESSING == "processing"
COMPLETED == "completed"
FAILED == "failed"
Absent == "absent"
Terminal == {COMPLETED, FAILED}

Rows == [status : {Absent, PENDING, PROCESSING, COMPLETED, FAILED}, completedAt : BOOLEAN]

BullStates == {"none", "wait", "active", "delayed", "completed", "failed"}
BullJobs == [state : BullStates, attemptsMade : 0 .. MaxAttempts,
             stalledCount : 0 .. (MaxStalled + 1), token : Deliveries \union {NoToken}]

(* The pc names the await the handler is suspended at ("marking": the update *)
(* to PROCESSING is in flight; "marked": it was applied and the continuation *)
(* has not run yet).  held: Bull's worker loop still waits for this handler. *)
Live == {"marking", "marked", "executing", "completing", "completed",
         "failing", "failed", "throwing"}
Nobody == "nobody"
Invocations == [pc : Live \union {"none", "ended"}, worker : Workers \union {Nobody},
                held : BOOLEAN]
Idle(pc) == [pc |-> pc, worker |-> Nobody, held |-> FALSE]

Init ==
  /\ row = [j \in Jobs |-> [status |-> Absent, completedAt |-> FALSE]]
  /\ submit = [j \in Jobs |-> "idle"]
  /\ bull = [j \in Jobs |->
               [state |-> "none", attemptsMade |-> 0, stalledCount |-> 0, token |-> NoToken]]
  /\ processedJobs = [w \in Workers |-> {}]
  /\ run = [j \in Jobs |-> [d \in Deliveries |-> Idle("none")]]
  /\ executed = [j \in Jobs |-> {}]
  /\ resolved = [j \in Jobs |-> {}]

-----------------------------------------------------------------------------
(* JobService and JobQueueService                                            *)

(* submitJob up to its first await's effect: the row is saved PENDING.       *)
SubmitJob(j) ==
  /\ submit[j] = "idle"
  /\ submit' = [submit EXCEPT ![j] = "saved"]
  /\ row' = [row EXCEPT ![j].status = PENDING]
  /\ UNCHANGED <<bull, processedJobs, run, executed, resolved>>

(* addJob: the job enters the queue, or the rejection of Bull's add is       *)
(* swallowed with a warning; submitJob answers 201 either way.               *)
AddJob(j) ==
  /\ submit[j] = "saved"
  /\ submit' = [submit EXCEPT ![j] = "answered"]
  /\ \/ bull' = [bull EXCEPT ![j].state = "wait"]
     \/ "redis" \in Faults /\ UNCHANGED bull
  /\ UNCHANGED <<row, processedJobs, run, executed, resolved>>

(* updateJobStatus writes status, result and errorMessage together, whatever *)
(* the row holds (result and errorMessage are functions of the status); it   *)
(* sets completedAt for a terminal status and otherwise leaves it alone.     *)
UpdatedRow(old, status) ==
  [status |-> status, completedAt |-> old.completedAt \/ status \in Terminal]

updateJobStatus(j, status) == row' = [row EXCEPT ![j] = UpdatedRow(@, status)]

(* An awaited update of the row by delivery d, which then continues at ok or *)
(* at err.                                                                   *)
AwaitUpdate(j, d, status, ok, err) ==
  \/ /\ updateJobStatus(j, status)
     /\ run' = [run EXCEPT ![j][d].pc = ok]
  \/ /\ "db" \in Faults
     /\ run' = [run EXCEPT ![j][d].pc = err]
     /\ UNCHANGED row
  \/ /\ "ack" \in Faults
     /\ updateJobStatus(j, status)
     /\ run' = [run EXCEPT ![j][d].pc = err]

-----------------------------------------------------------------------------
(* Bull: delivery, retry with backoff, job timeout, stalled jobs             *)

Busy(w) == \E j \in Jobs, d \in Deliveries : run[j][d].held /\ run[j][d].worker = w

NextDelivery(j) == bull[j].attemptsMade + bull[j].stalledCount + 1

(* A waiting job is handed to a free worker, whose handler runs up to its    *)
(* first await: the idempotency guard throws into the catch block, or the    *)
(* update to PROCESSING is sent.                                             *)
Deliver(j, w) ==
  LET d == NextDelivery(j) IN
  /\ bull[j].state = "wait"
  /\ ~Busy(w)
  /\ bull' = [bull EXCEPT ![j].state = "active", ![j].token = d]
  /\ run' = [run EXCEPT ![j][d] =
               [pc |-> IF j \in processedJobs[w] THEN "failing" ELSE "marking",
                worker |-> w, held |-> TRUE]]
  /\ UNCHANGED <<row, submit, processedJobs, executed, resolved>>

(* Mutants: one attempt too many; attempts that are never counted.           *)
AfterFailureOffByOne(b) ==
  [state |-> IF b.attemptsMade < MaxAttempts THEN "delayed" ELSE "failed",
   attemptsMade |-> b.attemptsMade + 1, stalledCount |-> b.stalledCount, token |-> NoToken]
AfterFailureUncounted(b) == [b EXCEPT !.state = "delayed", !.token = NoToken]

(* The attempt counts as failed: back to the queue after a delay, or failed  *)
(* for good once the attempts are used up.                                   *)
AfterFailure(b) ==
  [state |-> IF b.attemptsMade + 1 < MaxAttempts THEN "delayed" ELSE "failed",
   attemptsMade |-> b.attemptsMade + 1, stalledCount |-> b.stalledCount, token |-> NoToken]

FailAttempt(j) == bull' = [bull EXCEPT ![j] = AfterFailure(@)]

(* The backoff delay of a failed attempt is over.                            *)
Promote(j) ==
  /\ bull[j].state = "delayed"
  /\ bull' = [bull EXCEPT ![j].state = "wait"]
  /\ UNCHANGED <<row, submit, processedJobs, run, executed, resolved>>

(* The job's timeout option: Bull fails the attempt and stops waiting, the   *)
(* handler is not cancelled.                                                 *)
Timeout(j, d) ==
  /\ "timeout" \in Faults
  /\ run[j][d].held
  /\ run' = [run EXCEPT ![j][d].held = FALSE]
  /\ IF bull[j].token = d THEN FailAttempt(j) ELSE UNCHANGED bull
  /\ UNCHANGED <<row, submit, processedJobs, executed, resolved>>

(* The lock of a running handler is not renewed in time (blocked event loop, *)
(* Redis unreachable).                                                       *)
LoseLock(j) ==
  /\ "lock" \in Faults
  /\ bull[j].state = "active"
  /\ bull[j].token # NoToken
  /\ bull' = [bull EXCEPT ![j].token = NoToken]
  /\ UNCHANGED <<row, submit, processedJobs, run, executed, resolved>>

(* The stalled-job check: an active job without a lock is queued again, or   *)
(* failed when it stalled more than maxStalledCount times.                   *)
AfterStall(b) ==
  [state |-> IF b.stalledCount < MaxStalled THEN "wait" ELSE "failed",
   attemptsMade |-> b.attemptsMade, stalledCount |-> b.stalledCount + 1, token |-> NoToken]

RecoverStalled(j) ==
  /\ bull[j].state = "active"
  /\ bull[j].token = NoToken
  /\ bull' = [bull EXCEPT ![j] = AfterStall(@)]
  /\ UNCHANGED <<row, submit, processedJobs, run, executed, resolved>>

-----------------------------------------------------------------------------
(* The handler, from await to await                                          *)

(* Mutant: the update is not awaited, its rejection is lost.                 *)
MarkProcessingUnawaited(j, d) ==
  /\ run[j][d].pc = "marking"
  /\ AwaitUpdate(j, d, PROCESSING, "marked", "marked")
  /\ UNCHANGED <<submit, bull, processedJobs, executed, resolved>>

(* await updateJobStatus(jobId, PROCESSING): applied or rejected.            *)
MarkProcessing(j, d) ==
  /\ run[j][d].pc = "marking"
  /\ AwaitUpdate(j, d, PROCESSING, "marked", "failing")
  /\ UNCHANGED <<submit, bull, processedJobs, executed, resolved>>

(* Mutant: the outcome of the validation is not looked at.                   *)
StartWorkUnvalidated(j, d) ==
  /\ run[j][d].pc = "marked"
  /\ processedJobs' = [processedJobs EXCEPT ![run[j][d].worker] = @ \union {j}]
  /\ run' = [run EXCEPT ![j][d].pc = "executing"]
  /\ executed' = [executed EXCEPT ![j] = @ \union {d}]
  /\ UNCHANGED <<row, submit, bull, resolved>>

(* The continuation: the job enters processedJobs, the data are validated,   *)
(* and the work is started if they are valid.                                *)
StartWork(j, d) ==
  /\ run[j][d].pc = "marked"
  /\ processedJobs' = [processedJobs EXCEPT ![run[j][d].worker] = @ \union {j}]
  /\ IF j \in InvalidJobs
       THEN /\ run' = [run EXCEPT ![j][d].pc = "failing"]
            /\ UNCHANGED executed
       ELSE /\ run' = [run EXCEPT ![j][d].pc = "executing"]
            /\ executed' = [executed EXCEPT ![j] = @ \union {d}]
  /\ UNCHANGED <<row, submit, bull, resolved>>

(* Mutant: a rejection of the work is reported as its result.                *)
WorkEndsSwallowed(j, d) ==
  /\ run[j][d].pc = "executing"
  /\ run' = [run EXCEPT ![j][d].pc = "completing"]
  /\ \/ resolved' = [resolved EXCEPT ![j] = @ \union {d}]
     \/ UNCHANGED resolved
  /\ UNCHANGED <<row, submit, bull, processedJobs, executed>>

(* The work (executeCode, processFile or exportWorkspace) resolves in time.  *)
WorkResolves(j, d) ==
  /\ run[j][d].pc = "executing"
  /\ run' = [run EXCEPT ![j][d].pc = "completing"]
  /\ resolved' = [resolved EXCEPT ![j] = @ \union {d}]
  /\ UNCHANGED <<row, submit, bull, processedJobs, executed>>

(* It rejects, or the handler's own timer rejects first; what the work still *)
(* returns after that is dropped.                                            *)
WorkRejects(j, d) ==
  /\ run[j][d].pc = "executing"
  /\ run' = [run EXCEPT ![j][d].pc = "failing"]
  /\ UNCHANGED <<row, submit, bull, processedJobs, executed, resolved>>

WorkEnds(j, d) == WorkResolves(j, d) \/ WorkRejects(j, d)

(* Mutants: the update's rejection is ignored; the try block throws after    *)
(* the update.                                                               *)
MarkCompletedUnchecked(j, d) ==
  /\ run[j][d].pc = "completing"
  /\ AwaitUpdate(j, d, COMPLETED, "completed", "completed")
  /\ UNCHANGED <<submit, bull, processedJobs, executed, resolved>>
MarkCompletedThenThrow(j, d) ==
  /\ run[j][d].pc = "completing"
  /\ AwaitUpdate(j, d, COMPLETED, "failing", "failing")
  /\ UNCHANGED <<submit, bull, processedJobs, executed, resolved>>

(* await updateJobStatus(jobId, COMPLETED, result): a rejection is caught by *)
(* the same catch block as a failure of the work.                            *)
MarkCompleted(j, d) ==
  /\ run[j][d].pc = "completing"
  /\ AwaitUpdate(j, d, COMPLETED, "completed", "failing")
  /\ UNCHANGED <<submit, bull, processedJobs, executed, resolved>>

(* Mutants: rethrown before the update is over; no update at all.            *)
MarkFailedUnawaited(j, d) ==
  /\ run[j][d].pc = "failing"
  /\ AwaitUpdate(j, d, FAILED, "failed", "throwing")
  /\ IF bull[j].token = d THEN FailAttempt(j) ELSE UNCHANGED bull
  /\ UNCHANGED <<submit, processedJobs, executed, resolved>>
MarkFailedSkipped(j, d) ==
  /\ run[j][d].pc = "failing"
  /\ run' = [run EXCEPT ![j][d].pc = "failed"]
  /\ UNCHANGED <<row, submit, bull, processedJobs, executed, resolved>>

(* await updateJobStatus(jobId, FAILED, ...) in the catch block: when it     *)
(* rejects, the handler leaves without processedJobs.delete.                 *)
MarkFailed(j, d) ==
  /\ run[j][d].pc = "failing"
  /\ AwaitUpdate(j, d, FAILED, "failed", "throwing")
  /\ UNCHANGED <<submit, bull, processedJobs, executed, resolved>>

(* Mutant: the job stays in processedJobs after a failure.                   *)
AllowRetryForgotten(j, d) ==
  /\ run[j][d].pc = "failed"
  /\ run' = [run EXCEPT ![j][d].pc = "throwing"]
  /\ UNCHANGED <<row, submit, bull, processedJobs, executed, resolved>>

(* processedJobs.delete(jobId), and the error is rethrown.                   *)
AllowRetry(j, d) ==
  /\ run[j][d].pc = "failed"
  /\ processedJobs' = [processedJobs EXCEPT ![run[j][d].worker] = @ \ {j}]
  /\ run' = [run EXCEPT ![j][d].pc = "throwing"]
  /\ UNCHANGED <<row, submit, bull, executed, resolved>>

(* The handler's promise settles and Bull records the outcome, unless the    *)
(* delivery no longer holds the lock.                                        *)
Return(j, d) ==
  /\ run[j][d].pc = "completed"
  /\ run' = [run EXCEPT ![j][d] = Idle("ended")]
  /\ bull' = IF bull[j].token = d
               THEN [bull EXCEPT ![j].state = "completed", ![j].token = NoToken]
               ELSE bull
  /\ UNCHANGED <<row, submit, processedJobs, executed, resolved>>

(* Mutant: the catch block does not rethrow, the handler resolves.           *)
ThrowSwallowed(j, d) ==
  /\ run[j][d].pc = "throwing"
  /\ run' = [run EXCEPT ![j][d] = Idle("ended")]
  /\ bull' = IF bull[j].token = d
               THEN [bull EXCEPT ![j].state = "completed", ![j].token = NoToken]
               ELSE bull
  /\ UNCHANGED <<row, submit, processedJobs, executed, resolved>>

Throw(j, d) ==
  /\ run[j][d].pc = "throwing"
  /\ run' = [run EXCEPT ![j][d] = Idle("ended")]
  /\ IF bull[j].token = d THEN FailAttempt(j) ELSE UNCHANGED bull
  /\ UNCHANGED <<row, submit, processedJobs, executed, resolved>>

HandlerStep(j, d) ==
  \/ MarkProcessing(j, d)
  \/ StartWork(j, d)
  \/ WorkEnds(j, d)
  \/ MarkCompleted(j, d)
  \/ MarkFailed(j, d)
  \/ AllowRetry(j, d)
  \/ Return(j, d)
  \/ Throw(j, d)

(* An instance dies and is restarted: its handlers vanish, the locks they    *)
(* held are no longer renewed, its processedJobs starts empty.               *)
Crash(w) ==
  LET Dies(j, d) == run[j][d].pc \in Live /\ run[j][d].worker = w IN
  /\ "crash" \in Faults
  /\ processedJobs' = [processedJobs EXCEPT ![w] = {}]
  /\ run' = [j \in Jobs |-> [d \in Deliveries |->
               IF Dies(j, d) THEN Idle("ended") ELSE run[j][d]]]
  /\ bull' = [j \in Jobs |->
               IF bull[j].token # NoToken /\ Dies(j, bull[j].token)
                 THEN [bull[j] EXCEPT !.token = NoToken] ELSE bull[j]]
  /\ UNCHANGED <<row, submit, executed, resolved>>

(* The instance serving the request dies between the save and addJob: the    *)
(* row stays behind and nothing will ever enqueue it.                        *)
CrashInSubmit(j) ==
  /\ "crash" \in Faults
  /\ submit[j] = "saved"
  /\ submit' = [submit EXCEPT ![j] = "lost"]
  /\ UNCHANGED <<row, bull, processedJobs, run, executed, resolved>>

JobStep(j) ==
  \/ SubmitJob(j)
  \/ AddJob(j)
  \/ CrashInSubmit(j)
  \/ \E w \in Workers : Deliver(j, w)
  \/ Promote(j)
  \/ LoseLock(j)
  \/ RecoverStalled(j)
  \/ \E d \in Deliveries : HandlerStep(j, d) \/ Timeout(j, d)

Next ==
  \/ \E j \in Jobs : JobStep(j)
  \/ \E w \in Workers : Crash(w)

Spec == Init /\ [][Next]_vars

(* What the runtime guarantees: a submission in progress continues, Bull     *)
(* delivers, promotes and recovers, and a handler that waits is resumed      *)
(* (every await is a database call that answers or rejects, or work bounded  *)
(* by the handler's timer).  Submitting and the faults are not fair.         *)
Fairness ==
  \A j \in Jobs :
    /\ WF_vars(AddJob(j))
    /\ WF_vars(\E w \in Workers : Deliver(j, w))
    /\ WF_vars(Promote(j))
    /\ WF_vars(RecoverStalled(j))
    /\ \A d \in Deliveries : WF_vars(HandlerStep(j, d))

FairSpec == Spec /\ Fairness

-----------------------------------------------------------------------------
(* Every variable stays in its set: in particular a delivery's number, the   *)
(* sum of the attempts made and the stalls so far, never passes              *)
(* MaxAttempts + MaxStalled, so a submission starts its work at most so many *)
(* times (JOB_CONFIGS attempts, settings.maxStalledCount).                   *)
TypeOK ==
  /\ row \in [Jobs -> Rows]
  /\ submit \in [Jobs -> {"idle", "saved", "answered", "lost"}]
  /\ bull \in [Jobs -> BullJobs]
  /\ processedJobs \in [Workers -> SUBSET Jobs]
  /\ run \in [Jobs -> [Deliveries -> Invocations]]
  /\ executed \in [Jobs -> SUBSET Deliveries]
  /\ resolved \in [Jobs -> SUBSET Deliveries]

LiveRuns(j) == {d \in Deliveries : run[j][d].pc \in Live}

(* Whatever fails: a client is shown COMPLETED only for work that resolved   *)
(* in some delivery, never for a submission whose data were rejected.        *)
CompletedWasEarned ==
  \A j \in Jobs : row[j].status = COMPLETED => resolved[j] # {} /\ j \notin InvalidJobs

(* Whatever fails: no work is under way, or was ever started, for a job that *)
(* its owner still sees as PENDING (the update to PROCESSING is awaited      *)
(* before the work).                                                         *)
NoWorkWhilePending ==
  \A j \in Jobs : row[j].status \in {Absent, PENDING} => executed[j] = {}

(* Whatever fails: when Bull records a job as completed, its work resolved   *)
(* and the row left PENDING; Bull never completes what the guard rejected.   *)
BullCompletesResolvedWork ==
  \A j \in Jobs : bull[j].state = "completed" =>
                    resolved[j] # {} /\ row[j].status \notin {Absent, PENDING}

(* Without "db" and "ack": processedJobs keeps a job only while a handler of *)
(* that worker runs it or once its work has resolved, so the retry of a      *)
(* failed attempt is never turned away by the guard.  This is what the catch *)
(* block means by "Remove from processed jobs on failure to allow retry".    *)
GuardForgetsFailures ==
  \A w \in Workers : \A j \in processedJobs[w] :
    \/ resolved[j] # {}
    \/ \E d \in LiveRuns(j) : run[j][d].worker = w

(* Without "lock" and "timeout": a job never has two live handlers, on any   *)
(* of the workers, although processedJobs is local to each.                  *)
OneHandlerPerJob ==
  \A j \in Jobs : \A d, e \in LiveRuns(j) : d = e

(* With "redis" and "db" only: a job shown as COMPLETED is never touched     *)
(* again; no handler, retry or duplicate overwrites its row.                 *)
CompletedIsFinal ==
  [][\A j \in Jobs : row[j].status = COMPLETED => row'[j] = row[j]]_vars

(* With "redis" and "db" only, the two records agree: Bull's completed jobs  *)
(* are COMPLETED in the table, and a COMPLETED row is never due for another  *)
(* delivery.                                                                 *)
RecordsAgree ==
  \A j \in Jobs :
    /\ bull[j].state = "completed" => row[j].status = COMPLETED
    /\ row[j].status = COMPLETED => bull[j].state \in {"active", "completed"}

(* With "redis" and "db" only, the pipeline implements JobLifecycle: one     *)
(* attempt at a time, COMPLETED only for the result of the attempt under     *)
(* way, and final.                                                           *)
Lifecycle == INSTANCE JobLifecycle WITH
  status <- [j \in Jobs |-> row[j].status],
  worked <- [j \in Jobs |-> \E d \in Deliveries : run[j][d].pc = "completing"]

ImplementsLifecycle == Lifecycle!Spec

(* Every fault allowed: Bull never retries forever; a job that entered the   *)
(* queue ends up completed or failed there.                                  *)
QueueDrains ==
  \A j \in Jobs : bull[j].state = "wait" ~> bull[j].state \in {"completed", "failed"}

(* With "lock" and "timeout" only: the row of every answered submission ends *)
(* up COMPLETED or FAILED and stays so, whatever handlers run side by side.  *)
EventuallySettled ==
  \A j \in Jobs : <>[](submit[j] = "answered" => row[j].status \in Terminal)

-----------------------------------------------------------------------------
(* What a comment or a message of the code says, and the code does not do.   *)

(* "prevent duplicate processing", "skipping duplicate execution": a         *)
(* duplicate delivery leaves the row of a completed job COMPLETED.           *)
DuplicateIsSkipped ==
  [][\A j \in Jobs : row[j].status = COMPLETED => row'[j].status # FAILED]_vars
=============================================================================
