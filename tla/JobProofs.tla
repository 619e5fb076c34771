----------------------------- MODULE JobProofs -----------------------------
(* Theorems about JobPipeline, for any jobs, workers, attempts and stalls.   *)
EXTENDS JobPipeline, TLAPS

-----------------------------------------------------------------------------
(* Type correctness.  The bound on a delivery's number is not inductive: it  *)
(* needs what Bull's counters may be while the job can still be delivered.   *)

InRange(b) ==
  /\ b.state = "none" => b.attemptsMade = 0 /\ b.stalledCount = 0
  /\ b.state \in {"wait", "active", "delayed"} =>
       b.attemptsMade < MaxAttempts /\ b.stalledCount <= MaxStalled
  /\ b.token # NoToken => b.state = "active"

CountersInRange ==
  \A j \in Jobs : InRange(bull[j]) /\ (submit[j] # "answered" => bull[j].state = "none")

TypeInv == TypeOK /\ CountersInRange

USE AttemptsAssumption, StalledAssumption

LEMMA TypeInit == Init => TypeInv
  BY DEF Init, TypeInv, TypeOK, CountersInRange, InRange, Rows, BullJobs, BullStates, Invocations,
         Idle, Nobody, Absent, NoToken

LEMMA RecordTypes ==
  ASSUME TypeInv, NEW j \in Jobs
  PROVE  /\ row[j] \in Rows
         /\ bull[j] \in BullJobs
         /\ InRange(bull[j])
  BY DEF TypeInv, TypeOK, CountersInRange

LEMMA NextDeliveryInRange ==
  ASSUME TypeInv, NEW j \in Jobs, bull[j].state = "wait"
  PROVE  NextDelivery(j) \in Deliveries
  BY DEF TypeInv, TypeOK, CountersInRange, InRange, BullJobs, NextDelivery, Deliveries

-----------------------------------------------------------------------------
(* What the step of one handler does to run and row, pointwise.              *)

SetRun(j, d, r) == run' = [run EXCEPT ![j][d] = r]

LEMMA SetRunEffect ==
  ASSUME TypeInv, NEW j \in Jobs, NEW d \in Deliveries, NEW r \in Invocations, SetRun(j, d, r)
  PROVE  /\ run' \in [Jobs -> [Deliveries -> Invocations]]
         /\ run'[j][d] = r
         /\ \A i \in Jobs, e \in Deliveries : i # j \/ e # d => run'[i][e] = run[i][e]
  <1>1. run \in [Jobs -> [Deliveries -> Invocations]]
    BY DEF TypeInv, TypeOK
  <1>2. run[j] \in [Deliveries -> Invocations]
    BY <1>1
  <1>3. [run[j] EXCEPT ![d] = r] \in [Deliveries -> Invocations]
    BY <1>2
  <1>4. run' = [run EXCEPT ![j] = [run[j] EXCEPT ![d] = r]]
    BY DEF SetRun
  <1>5. run' \in [Jobs -> [Deliveries -> Invocations]]
    BY <1>1, <1>3, <1>4
  <1>6. run'[j][d] = r
    BY <1>1, <1>2, <1>4
  <1>7. \A i \in Jobs, e \in Deliveries : i # j \/ e # d => run'[i][e] = run[i][e]
    BY <1>1, <1>2, <1>4
  <1> QED BY <1>5, <1>6, <1>7

SetPc(j, d, pc) == run' = [run EXCEPT ![j][d].pc = pc]

LEMMA SetPcEffect ==
  ASSUME TypeInv, NEW j \in Jobs, NEW d \in Deliveries, NEW pc \in Live, SetPc(j, d, pc)
  PROVE  /\ run' \in [Jobs -> [Deliveries -> Invocations]]
         /\ run'[j][d].pc = pc
         /\ run'[j][d].worker = run[j][d].worker
         /\ \A i \in Jobs, e \in Deliveries : i # j \/ e # d => run'[i][e] = run[i][e]
  <1> DEFINE r == [run[j][d] EXCEPT !.pc = pc]
  <1>1. run[j][d] \in Invocations
    BY DEF TypeInv, TypeOK
  <1>2. r \in Invocations /\ r.pc = pc /\ r.worker = run[j][d].worker
    BY <1>1 DEF Invocations
  <1>3. SetRun(j, d, r)
    BY DEF SetPc, SetRun
  <1> HIDE DEF r
  <1> QED BY <1>2, <1>3, SetRunEffect

LEMMA UpdateEffect ==
  ASSUME TypeInv, NEW j \in Jobs, NEW s \in {PROCESSING, COMPLETED, FAILED},
         updateJobStatus(j, s)
  PROVE  /\ row' \in [Jobs -> Rows]
         /\ row'[j].status = s
         /\ \A i \in Jobs : i # j => row'[i] = row[i]
  <1>1. UpdatedRow(row[j], s) \in Rows /\ UpdatedRow(row[j], s).status = s
    BY DEF TypeInv, TypeOK, Rows, UpdatedRow
  <1>2. row \in [Jobs -> Rows]
    BY DEF TypeInv, TypeOK
  <1> QED BY <1>1, <1>2 DEF updateJobStatus

(* An awaited update is applied or not, and the handler goes on at ok or err.*)
LEMMA AwaitUpdateCases ==
  ASSUME NEW j \in Jobs, NEW d \in Deliveries, NEW s, NEW ok, NEW err,
         AwaitUpdate(j, d, s, ok, err)
  PROVE  \/ updateJobStatus(j, s) /\ SetPc(j, d, ok)
         \/ "db" \in Faults /\ row' = row /\ SetPc(j, d, err)
         \/ "ack" \in Faults /\ updateJobStatus(j, s) /\ SetPc(j, d, err)
  BY DEF AwaitUpdate, SetPc

LEMMA AwaitUpdateType ==
  ASSUME TypeInv, NEW j \in Jobs, NEW d \in Deliveries,
         NEW s \in {PROCESSING, COMPLETED, FAILED}, NEW ok \in Live, NEW err \in Live,
         AwaitUpdate(j, d, s, ok, err)
  PROVE  /\ row' \in [Jobs -> Rows]
         /\ run' \in [Jobs -> [Deliveries -> Invocations]]
  <1>1. row \in [Jobs -> Rows]
    BY DEF TypeInv, TypeOK
  <1>2. CASE updateJobStatus(j, s) /\ SetPc(j, d, ok)
    BY <1>2, UpdateEffect, SetPcEffect
  <1>3. CASE row' = row /\ SetPc(j, d, err)
    BY <1>1, <1>3, SetPcEffect
  <1>4. CASE updateJobStatus(j, s) /\ SetPc(j, d, err)
    BY <1>4, UpdateEffect, SetPcEffect
  <1> QED BY <1>2, <1>3, <1>4, AwaitUpdateCases

-----------------------------------------------------------------------------
(* An operation of the queue replaces the record of one job.                 *)

LEMMA SetBull ==
  ASSUME TypeInv, NEW j \in Jobs, NEW b \in BullJobs, InRange(b),
         submit'[j] = "answered", \A i \in Jobs : i # j => submit'[i] = submit[i],
         bull' = [bull EXCEPT ![j] = b]
  PROVE  /\ bull' \in [Jobs -> BullJobs]
         /\ CountersInRange'
         /\ bull'[j] = b
         /\ \A i \in Jobs : i # j => bull'[i] = bull[i]
  BY DEF TypeInv, TypeOK, CountersInRange, InRange

LEMMA Answered ==
  ASSUME TypeInv, NEW j \in Jobs, bull[j].state # "none"
  PROVE  submit[j] = "answered"
  BY DEF TypeInv, CountersInRange

LEMMA AfterFailureInRange ==
  ASSUME NEW b \in BullJobs, InRange(b), b.state = "active"
  PROVE  AfterFailure(b) \in BullJobs /\ InRange(AfterFailure(b))
  <1> DEFINE made == b.attemptsMade + 1
             st == IF made < MaxAttempts THEN "delayed" ELSE "failed"
  <1>1. b.stalledCount \in 0 .. (MaxStalled + 1) /\ b.stalledCount <= MaxStalled
    BY DEF BullJobs, InRange
  <1>2. made \in 0 .. MaxAttempts /\ made >= 1
    BY DEF BullJobs, InRange
  <1>3. st \in BullStates /\ (st = "delayed" => made < MaxAttempts)
                          /\ st \in {"delayed", "failed"}
    BY DEF BullStates
  <1>4. AfterFailure(b) = [state |-> st, attemptsMade |-> made,
                           stalledCount |-> b.stalledCount, token |-> NoToken]
    BY DEF AfterFailure
  <1> HIDE DEF made, st
  <1> QED BY <1>1, <1>2, <1>3, <1>4 DEF BullJobs, InRange

LEMMA AfterStallInRange ==
  ASSUME NEW b \in BullJobs, InRange(b), b.state = "active"
  PROVE  AfterStall(b) \in BullJobs /\ InRange(AfterStall(b))
  <1> DEFINE stalls == b.stalledCount + 1
             st == IF b.stalledCount < MaxStalled THEN "wait" ELSE "failed"
  <1>1. b.attemptsMade \in 0 .. MaxAttempts /\ b.attemptsMade < MaxAttempts
    BY DEF BullJobs, InRange
  <1>2. stalls \in 0 .. (MaxStalled + 1)
    BY DEF BullJobs, InRange
  <1>3. st \in BullStates /\ (st = "wait" => stalls <= MaxStalled) /\ st \in {"wait", "failed"}
    BY DEF BullStates, BullJobs
  <1>4. AfterStall(b) = [state |-> st, attemptsMade |-> b.attemptsMade,
                         stalledCount |-> stalls, token |-> NoToken]
    BY DEF AfterStall
  <1> HIDE DEF stalls, st
  <1> QED BY <1>1, <1>2, <1>3, <1>4 DEF BullJobs, InRange

-----------------------------------------------------------------------------
(* The invariant's step, one lemma per group of operations.                  *)

LEMMA IdleType == Idle("none") \in Invocations /\ Idle("ended") \in Invocations
  BY DEF Idle, Invocations

LEMMA SubmitJobType == \A j \in Jobs : TypeInv /\ SubmitJob(j) => TypeInv'
  <1> SUFFICES ASSUME NEW j \in Jobs, TypeInv, SubmitJob(j) PROVE TypeInv'
    OBVIOUS
  <1>1. [row[j] EXCEPT !.status = PENDING] \in Rows
    BY RecordTypes DEF Rows
  <1>2. row' \in [Jobs -> Rows]
    BY <1>1 DEF SubmitJob, TypeInv, TypeOK
  <1>3. submit' \in [Jobs -> {"idle", "saved", "answered", "lost"}]
    BY DEF SubmitJob, TypeInv, TypeOK
  <1>4. CountersInRange'
    BY DEF SubmitJob, TypeInv, TypeOK, CountersInRange, InRange
  <1> QED BY <1>2, <1>3, <1>4 DEF SubmitJob, TypeInv, TypeOK

LEMMA AddJobType == \A j \in Jobs : TypeInv /\ AddJob(j) => TypeInv'
  <1> SUFFICES ASSUME NEW j \in Jobs, TypeInv, AddJob(j) PROVE TypeInv'
    OBVIOUS
  <1>1. submit' \in [Jobs -> {"idle", "saved", "answered", "lost"}]
    BY DEF AddJob, TypeInv, TypeOK
  <1>2. CASE bull' = [bull EXCEPT ![j].state = "wait"]
    <2> DEFINE b == [bull[j] EXCEPT !.state = "wait"]
    <2>1. b \in BullJobs /\ InRange(b)
      BY RecordTypes DEF AddJob, TypeInv, CountersInRange, InRange, BullJobs, BullStates, NoToken
    <2>2. bull' = [bull EXCEPT ![j] = b]
      BY <1>2
    <2>3. submit'[j] = "answered" /\ \A i \in Jobs : i # j => submit'[i] = submit[i]
      BY DEF AddJob, TypeInv, TypeOK
    <2> HIDE DEF b
    <2> QED BY <1>1, <2>1, <2>2, <2>3, SetBull DEF AddJob, TypeInv, TypeOK
  <1>3. CASE UNCHANGED bull
    BY <1>1, <1>3 DEF AddJob, TypeInv, TypeOK, CountersInRange, InRange
  <1> QED BY <1>2, <1>3 DEF AddJob

LEMMA CrashInSubmitType == \A j \in Jobs : TypeInv /\ CrashInSubmit(j) => TypeInv'
  BY DEF CrashInSubmit, TypeInv, TypeOK, CountersInRange, InRange

LEMMA DeliverType == \A j \in Jobs, w \in Workers : TypeInv /\ Deliver(j, w) => TypeInv'
  <1> SUFFICES ASSUME NEW j \in Jobs, NEW w \in Workers, TypeInv, Deliver(j, w) PROVE TypeInv'
    OBVIOUS
  <1> DEFINE d == NextDelivery(j)
             r == [pc |-> IF j \in processedJobs[w] THEN "failing" ELSE "marking",
                   worker |-> w, held |-> TRUE]
             b == [bull[j] EXCEPT !.state = "active", !.token = d]
  <1>1. d \in Deliveries
    BY NextDeliveryInRange DEF Deliver
  <1>2. r \in Invocations
    BY DEF Invocations, Live
  <1>3. b \in BullJobs /\ InRange(b)
    BY <1>1, RecordTypes DEF Deliver, InRange, BullJobs, BullStates
  <1>4. bull' = [bull EXCEPT ![j] = b] /\ SetRun(j, d, r)
    BY DEF Deliver, SetRun
  <1>5. submit'[j] = "answered" /\ submit' = submit
    BY Answered DEF Deliver
  <1> HIDE DEF d, r, b
  <1>6. run' \in [Jobs -> [Deliveries -> Invocations]]
    BY <1>1, <1>2, <1>4, SetRunEffect
  <1>7. bull' \in [Jobs -> BullJobs] /\ CountersInRange'
    BY <1>3, <1>4, <1>5, SetBull
  <1> QED BY <1>6, <1>7 DEF Deliver, TypeInv, TypeOK

LEMMA PromoteType == \A j \in Jobs : TypeInv /\ Promote(j) => TypeInv'
  <1> SUFFICES ASSUME NEW j \in Jobs, TypeInv, Promote(j) PROVE TypeInv'
    OBVIOUS
  <1> DEFINE b == [bull[j] EXCEPT !.state = "wait"]
  <1>1. b \in BullJobs /\ InRange(b)
    BY RecordTypes DEF Promote, InRange, BullJobs, BullStates, NoToken
  <1>2. bull' = [bull EXCEPT ![j] = b] /\ submit'[j] = "answered" /\ submit' = submit
    BY Answered DEF Promote
  <1> HIDE DEF b
  <1> QED BY <1>1, <1>2, SetBull DEF Promote, TypeInv, TypeOK

LEMMA LoseLockType == \A j \in Jobs : TypeInv /\ LoseLock(j) => TypeInv'
  <1> SUFFICES ASSUME NEW j \in Jobs, TypeInv, LoseLock(j) PROVE TypeInv'
    OBVIOUS
  <1> DEFINE b == [bull[j] EXCEPT !.token = NoToken]
  <1>1. b \in BullJobs /\ InRange(b)
    BY RecordTypes DEF LoseLock, InRange, BullJobs, BullStates
  <1>2. bull' = [bull EXCEPT ![j] = b] /\ submit'[j] = "answered" /\ submit' = submit
    BY Answered DEF LoseLock
  <1> HIDE DEF b
  <1> QED BY <1>1, <1>2, SetBull DEF LoseLock, TypeInv, TypeOK

LEMMA RecoverStalledType == \A j \in Jobs : TypeInv /\ RecoverStalled(j) => TypeInv'
  <1> SUFFICES ASSUME NEW j \in Jobs, TypeInv, RecoverStalled(j) PROVE TypeInv'
    OBVIOUS
  <1>1. AfterStall(bull[j]) \in BullJobs /\ InRange(AfterStall(bull[j]))
    BY AfterStallInRange DEF RecoverStalled, TypeInv, TypeOK, CountersInRange
  <1>2. submit'[j] = "answered" /\ submit' = submit
    BY Answered DEF RecoverStalled
  <1>3. bull' = [bull EXCEPT ![j] = AfterStall(bull[j])]
    BY DEF RecoverStalled
  <1> QED BY <1>1, <1>2, <1>3, SetBull DEF RecoverStalled, TypeInv, TypeOK

(* The end of a handler, or Bull giving up on it, where its token decides.   *)
LEMMA FailIfHeldType ==
  ASSUME TypeInv, NEW j \in Jobs, NEW d \in Deliveries, submit' = submit,
         IF bull[j].token = d THEN FailAttempt(j) ELSE UNCHANGED bull
  PROVE  bull' \in [Jobs -> BullJobs] /\ CountersInRange'
  <1>1. CASE bull[j].token = d
    <2>1. bull[j].state = "active"
      BY <1>1, RecordTypes DEF InRange, Deliveries, NoToken
    <2>2. AfterFailure(bull[j]) \in BullJobs /\ InRange(AfterFailure(bull[j]))
      BY <2>1, RecordTypes, AfterFailureInRange
    <2>3. bull' = [bull EXCEPT ![j] = AfterFailure(bull[j])]
      BY <1>1 DEF FailAttempt
    <2>4. submit'[j] = "answered"
      BY <2>1, Answered
    <2> QED BY <2>2, <2>3, <2>4, SetBull
  <1>2. CASE UNCHANGED bull
    BY <1>2 DEF TypeInv, TypeOK, CountersInRange, InRange
  <1> QED BY <1>1, <1>2

LEMMA TimeoutType == \A j \in Jobs, d \in Deliveries : TypeInv /\ Timeout(j, d) => TypeInv'
  <1> SUFFICES ASSUME NEW j \in Jobs, NEW d \in Deliveries, TypeInv, Timeout(j, d)
               PROVE  TypeInv'
    OBVIOUS
  <1> DEFINE r == [run[j][d] EXCEPT !.held = FALSE]
  <1>1. run[j][d] \in Invocations
    BY DEF TypeInv, TypeOK
  <1>2. r \in Invocations /\ SetRun(j, d, r)
    BY <1>1 DEF Timeout, SetRun, Invocations
  <1> HIDE DEF r
  <1>3. run' \in [Jobs -> [Deliveries -> Invocations]]
    BY <1>2, SetRunEffect
  <1>4. bull' \in [Jobs -> BullJobs] /\ CountersInRange'
    BY FailIfHeldType DEF Timeout
  <1> QED BY <1>3, <1>4 DEF Timeout, TypeInv, TypeOK

(* A step that leaves submit and bull alone keeps the counters in range.     *)
LEMMA CountersUnchanged ==
  ASSUME TypeInv, UNCHANGED <<submit, bull>>
  PROVE  bull' \in [Jobs -> BullJobs] /\ CountersInRange'
  BY DEF TypeInv, TypeOK, CountersInRange, InRange

LEMMA HandlerStepType ==
  \A j \in Jobs, d \in Deliveries : TypeInv /\ HandlerStep(j, d) => TypeInv'
  <1> SUFFICES ASSUME NEW j \in Jobs, NEW d \in Deliveries, TypeInv, HandlerStep(j, d)
               PROVE  TypeInv'
    OBVIOUS
  <1>1. CASE MarkProcessing(j, d)
    <2>1. row' \in [Jobs -> Rows] /\ run' \in [Jobs -> [Deliveries -> Invocations]]
      BY <1>1, AwaitUpdateType DEF MarkProcessing, Live
    <2> QED BY <1>1, <2>1, CountersUnchanged DEF MarkProcessing, TypeInv, TypeOK
  <1>2. CASE StartWork(j, d)
    <2>1. run[j][d] \in Invocations
      BY DEF TypeInv, TypeOK
    <2>2. processedJobs' \in [Workers -> SUBSET Jobs]
      BY <1>2, <2>1 DEF StartWork, TypeInv, TypeOK
    <2>3. SetPc(j, d, "failing") \/ SetPc(j, d, "executing")
      BY <1>2 DEF StartWork, SetPc
    <2>4. run' \in [Jobs -> [Deliveries -> Invocations]]
      BY <2>3, SetPcEffect DEF Live
    <2>5. executed' \in [Jobs -> SUBSET Deliveries]
      BY <1>2 DEF StartWork, TypeInv, TypeOK
    <2> QED BY <1>2, <2>2, <2>4, <2>5, CountersUnchanged DEF StartWork, TypeInv, TypeOK
  <1>3. CASE WorkEnds(j, d)
    <2>1. SetPc(j, d, "completing") \/ SetPc(j, d, "failing")
      BY <1>3 DEF WorkEnds, WorkResolves, WorkRejects, SetPc
    <2>2. run' \in [Jobs -> [Deliveries -> Invocations]]
      BY <2>1, SetPcEffect DEF Live
    <2>3. resolved' \in [Jobs -> SUBSET Deliveries]
      BY <1>3 DEF WorkEnds, WorkResolves, WorkRejects, TypeInv, TypeOK
    <2> QED BY <1>3, <2>2, <2>3, CountersUnchanged DEF WorkEnds, WorkResolves, WorkRejects, TypeInv, TypeOK
  <1>4. CASE MarkCompleted(j, d)
    <2>1. row' \in [Jobs -> Rows] /\ run' \in [Jobs -> [Deliveries -> Invocations]]
      BY <1>4, AwaitUpdateType DEF MarkCompleted, Live
    <2> QED BY <1>4, <2>1, CountersUnchanged DEF MarkCompleted, TypeInv, TypeOK
  <1>5. CASE MarkFailed(j, d)
    <2>1. row' \in [Jobs -> Rows] /\ run' \in [Jobs -> [Deliveries -> Invocations]]
      BY <1>5, AwaitUpdateType DEF MarkFailed, Live
    <2> QED BY <1>5, <2>1, CountersUnchanged DEF MarkFailed, TypeInv, TypeOK
  <1>6. CASE AllowRetry(j, d)
    <2>1. processedJobs' \in [Workers -> SUBSET Jobs]
      BY <1>6 DEF AllowRetry, TypeInv, TypeOK
    <2>2. run' \in [Jobs -> [Deliveries -> Invocations]]
      BY <1>6, SetPcEffect DEF AllowRetry, SetPc, Live
    <2> QED BY <1>6, <2>1, <2>2, CountersUnchanged DEF AllowRetry, TypeInv, TypeOK
  <1>7. CASE Return(j, d)
    <2> DEFINE b == [bull[j] EXCEPT !.state = "completed", !.token = NoToken]
    <2>0. SetRun(j, d, Idle("ended"))
      BY <1>7 DEF Return, SetRun
    <2>1. run' \in [Jobs -> [Deliveries -> Invocations]]
      BY <2>0, SetRunEffect, IdleType
    <2>2. ASSUME bull[j].token = d
          PROVE  bull' \in [Jobs -> BullJobs] /\ CountersInRange'
      <3>1. b \in BullJobs /\ InRange(b)
        BY RecordTypes DEF InRange, BullJobs, BullStates
      <3>2. bull' = [bull EXCEPT ![j] = b]
        BY <1>7, <2>2 DEF Return
      <3>3. bull[j].state = "active"
        BY <2>2, RecordTypes DEF InRange, Deliveries, NoToken
      <3>4. submit' = submit /\ submit'[j] = "answered"
        BY <1>7, <3>3, Answered DEF Return
      <3> HIDE DEF b
      <3> QED BY <3>1, <3>2, <3>4, SetBull
    <2>3. ASSUME bull[j].token # d
          PROVE  bull' \in [Jobs -> BullJobs] /\ CountersInRange'
      BY <1>7, <2>3, CountersUnchanged DEF Return
    <2> HIDE DEF b
    <2>4. bull' \in [Jobs -> BullJobs] /\ CountersInRange'
      BY <2>2, <2>3
    <2> QED BY <1>7, <2>1, <2>4 DEF Return, TypeInv, TypeOK
  <1>8. CASE Throw(j, d)
    <2>0. SetRun(j, d, Idle("ended"))
      BY <1>8 DEF Throw, SetRun
    <2>1. run' \in [Jobs -> [Deliveries -> Invocations]]
      BY <2>0, SetRunEffect, IdleType
    <2>2. bull' \in [Jobs -> BullJobs] /\ CountersInRange'
      BY <1>8, FailIfHeldType DEF Throw
    <2> QED BY <1>8, <2>1, <2>2 DEF Throw, TypeInv, TypeOK
  <1> QED BY <1>1, <1>2, <1>3, <1>4, <1>5, <1>6, <1>7, <1>8 DEF HandlerStep

LEMMA CrashType == \A w \in Workers : TypeInv /\ Crash(w) => TypeInv'
  <1> SUFFICES ASSUME NEW w \in Workers, TypeInv, Crash(w) PROVE TypeInv'
    OBVIOUS
  <1>1. run' \in [Jobs -> [Deliveries -> Invocations]]
    BY IdleType DEF Crash, TypeInv, TypeOK
  <1>2. \A j \in Jobs : bull'[j] = bull[j] \/ bull'[j] = [bull[j] EXCEPT !.token = NoToken]
    BY DEF Crash
  <1>3. ASSUME NEW j \in Jobs
        PROVE  bull'[j] \in BullJobs /\ InRange(bull'[j]) /\ bull'[j].state = bull[j].state
    <2> DEFINE b == [bull[j] EXCEPT !.token = NoToken]
    <2>1. bull[j] \in BullJobs /\ InRange(bull[j])
      BY RecordTypes
    <2>2. b \in BullJobs
      BY <2>1 DEF BullJobs
    <2>3. /\ b.state = bull[j].state /\ b.attemptsMade = bull[j].attemptsMade
          /\ b.stalledCount = bull[j].stalledCount /\ b.token = NoToken
      BY <2>1 DEF BullJobs
    <2> HIDE DEF b
    <2>4. InRange(b)
      BY <2>1, <2>3 DEF InRange
    <2>5. bull'[j] = bull[j] \/ bull'[j] = b
      BY <1>2 DEF b
    <2> QED BY <2>1, <2>2, <2>3, <2>4, <2>5
  <1>4. bull' \in [Jobs -> BullJobs]
    BY <1>3 DEF Crash
  <1>5. CountersInRange'
    BY <1>3 DEF Crash, TypeInv, CountersInRange, InRange
  <1>6. processedJobs' \in [Workers -> SUBSET Jobs]
    BY DEF Crash, TypeInv, TypeOK
  <1> QED BY <1>1, <1>4, <1>5, <1>6 DEF Crash, TypeInv, TypeOK

LEMMA TypeStep == TypeInv /\ [Next]_vars => TypeInv'
  <1> SUFFICES ASSUME TypeInv, [Next]_vars PROVE TypeInv'
    OBVIOUS
  <1>1. CASE UNCHANGED vars
    BY <1>1 DEF vars, TypeInv, TypeOK, CountersInRange, InRange
  <1>2. ASSUME NEW j \in Jobs, JobStep(j) PROVE TypeInv'
    BY <1>2, SubmitJobType, AddJobType, CrashInSubmitType, DeliverType, PromoteType,
       LoseLockType, RecoverStalledType, HandlerStepType, TimeoutType DEF JobStep
  <1>3. ASSUME NEW w \in Workers, Crash(w) PROVE TypeInv'
    BY <1>3, CrashType
  <1> QED BY <1>1, <1>2, <1>3 DEF Next

(* Whatever faults occur, the state stays typed; in particular a submission  *)
(* is delivered at most MaxAttempts + MaxStalled times.                      *)
THEOREM TypeCorrect == Spec => []TypeOK
  <1>1. TypeInv => TypeOK
    BY DEF TypeInv
  <1> QED BY TypeInit, TypeStep, <1>1, PTL DEF Spec

-----------------------------------------------------------------------------
(* What holds whatever faults occur.  WorkInv relates, for one job, where    *)
(* its handlers are to its row, to its record in the queue and to the        *)
(* history of its work.                                                      *)

WorkInv(j) ==
  /\ row[j].status = COMPLETED => resolved[j] # {} /\ j \notin InvalidJobs
  /\ row[j].status \in {Absent, PENDING} => executed[j] = {}
  /\ bull[j].state = "completed" =>
       resolved[j] # {} /\ row[j].status \notin {Absent, PENDING}
  /\ bull[j].state = "none" => executed[j] = {}
  /\ \A d \in Deliveries :
       /\ run[j][d].pc = "executing" => j \notin InvalidJobs
       /\ run[j][d].pc \in {"completing", "completed"} =>
            resolved[j] # {} /\ j \notin InvalidJobs
       /\ run[j][d].pc \in {"marked", "executing", "completing", "completed"} =>
            row[j].status \notin {Absent, PENDING}
       /\ bull[j].state = "none" => run[j][d].pc = "none"

WorkAll == TypeInv /\ \A j \in Jobs : WorkInv(j)

LEMMA WorkInit == Init => \A j \in Jobs : WorkInv(j)
  <1> SUFFICES ASSUME Init, NEW j \in Jobs PROVE WorkInv(j)
    OBVIOUS
  <1>1. row[j].status = Absent /\ bull[j].state = "none" /\ executed[j] = {}
    BY DEF Init
  <1>2. \A d \in Deliveries : run[j][d].pc = "none"
    BY DEF Init, Idle
  <1> QED BY <1>1, <1>2 DEF WorkInv, Absent, COMPLETED

(* A job none of whose state changes keeps its invariant.                    *)
LEMMA WorkFrame ==
  ASSUME NEW i \in Jobs, WorkInv(i), row'[i] = row[i], bull'[i].state = bull[i].state,
         executed'[i] = executed[i], resolved'[i] = resolved[i],
         \A e \in Deliveries : run'[i][e].pc \in {run[i][e].pc, "ended"},
         bull[i].state = "none" => \A e \in Deliveries : run'[i][e] = run[i][e]
  PROVE  WorkInv(i)'
  BY DEF WorkInv

(* Submission and the queue's own operations.                                *)
LEMMA WorkQueueStep ==
  ASSUME WorkAll, NEW j \in Jobs,
         \/ SubmitJob(j) \/ AddJob(j) \/ CrashInSubmit(j) \/ Promote(j) \/ LoseLock(j)
         \/ RecoverStalled(j)
  PROVE  \A i \in Jobs : WorkInv(i)'
  <1>1. \A i \in Jobs : run'[i] = run[i] /\ executed'[i] = executed[i] /\ resolved'[i] = resolved[i]
    BY DEF SubmitJob, AddJob, CrashInSubmit, Promote, LoseLock, RecoverStalled
  <1>2. \A i \in Jobs : i # j => row'[i] = row[i] /\ bull'[i] = bull[i]
    BY DEF WorkAll, TypeInv, TypeOK, SubmitJob, AddJob, CrashInSubmit, Promote, LoseLock,
           RecoverStalled
  <1>3. ASSUME NEW i \in Jobs, i # j PROVE WorkInv(i)'
    BY <1>1, <1>2, <1>3, WorkFrame DEF WorkAll
  <1>4. CASE SubmitJob(j)
    <2>1. bull[j].state = "none" /\ bull' = bull
      BY <1>4 DEF SubmitJob, WorkAll, TypeInv, CountersInRange
    <2>2. row'[j].status = PENDING
      BY <1>4, RecordTypes DEF SubmitJob, WorkAll, TypeInv, TypeOK, Rows
    <2>3. WorkInv(j)'
      BY <1>1, <2>1, <2>2 DEF WorkAll, WorkInv, PENDING, COMPLETED
    <2> QED BY <1>3, <2>3
  <1>5. CASE AddJob(j) \/ Promote(j) \/ LoseLock(j) \/ RecoverStalled(j) \/ CrashInSubmit(j)
    <2>1. row' = row
      BY <1>5 DEF AddJob, Promote, LoseLock, RecoverStalled, CrashInSubmit
    <2>2. bull'[j].state = bull[j].state \/ bull'[j].state \in {"wait", "failed"}
      BY <1>5, RecordTypes
      DEF AddJob, Promote, LoseLock, RecoverStalled, CrashInSubmit, AfterStall, WorkAll,
          TypeInv, TypeOK, BullJobs
    <2>3. WorkInv(j)'
      BY <1>1, <2>1, <2>2 DEF WorkAll, WorkInv
    <2> QED BY <1>3, <2>3
  <1> QED BY <1>4, <1>5

LEMMA WorkDeliver ==
  ASSUME WorkAll, NEW j \in Jobs, NEW w \in Workers, Deliver(j, w)
  PROVE  \A i \in Jobs : WorkInv(i)'
  <1> DEFINE d == NextDelivery(j)
             r == [pc |-> IF j \in processedJobs[w] THEN "failing" ELSE "marking",
                   worker |-> w, held |-> TRUE]
  <1>1. d \in Deliveries
    BY NextDeliveryInRange DEF Deliver, WorkAll
  <1>2. r \in Invocations /\ r.pc \in {"failing", "marking"}
    BY DEF Invocations, Live
  <1>3. SetRun(j, d, r)
    BY DEF Deliver, SetRun
  <1>4. bull'[j].state = "active" /\ \A i \in Jobs : i # j => bull'[i] = bull[i]
    BY RecordTypes DEF Deliver, WorkAll, TypeInv, TypeOK, BullJobs
  <1> HIDE DEF d, r
  <1>5. /\ run'[j][d] = r
        /\ \A i \in Jobs, e \in Deliveries : i # j \/ e # d => run'[i][e] = run[i][e]
    BY <1>1, <1>2, <1>3, SetRunEffect DEF WorkAll
  <1>6. ASSUME NEW i \in Jobs, i # j PROVE WorkInv(i)'
    BY <1>4, <1>5, <1>6, WorkFrame DEF WorkAll, Deliver
  <1>7. WorkInv(j)'
    BY <1>2, <1>4, <1>5 DEF WorkAll, WorkInv, Deliver
  <1> QED BY <1>6, <1>7

LEMMA FailIfHeldEffect ==
  ASSUME TypeInv, NEW j \in Jobs, NEW d \in Deliveries,
         IF bull[j].token = d THEN FailAttempt(j) ELSE UNCHANGED bull
  PROVE  /\ \A i \in Jobs : i # j => bull'[i] = bull[i]
         /\ bull'[j] = IF bull[j].token = d THEN AfterFailure(bull[j]) ELSE bull[j]
         /\ bull'[j].state \in {bull[j].state, "delayed", "failed"}
         /\ bull[j].token = d => bull[j].state = "active"
  <1>1. bull \in [Jobs -> BullJobs] /\ bull[j] \in BullJobs
    BY DEF TypeInv, TypeOK
  <1>2. bull[j].token = d => bull[j].state = "active"
    BY RecordTypes DEF InRange, Deliveries, NoToken
  <1>3. bull' = IF bull[j].token = d THEN [bull EXCEPT ![j] = AfterFailure(bull[j])] ELSE bull
    BY DEF FailAttempt
  <1>4. AfterFailure(bull[j]).state \in {"delayed", "failed"}
    BY DEF AfterFailure
  <1> QED BY <1>1, <1>2, <1>3, <1>4

LEMMA WorkTimeout ==
  ASSUME WorkAll, NEW j \in Jobs, NEW d \in Deliveries, Timeout(j, d)
  PROVE  \A i \in Jobs : WorkInv(i)'
  <1>1. \A i \in Jobs, e \in Deliveries : run'[i][e].pc = run[i][e].pc
    BY DEF Timeout, WorkAll, TypeInv, TypeOK, Invocations
  <1>2. /\ bull'[j].state \in {bull[j].state, "delayed", "failed"}
        /\ \A i \in Jobs : i # j => bull'[i] = bull[i]
        /\ bull[j].state = "none" => bull'[j] = bull[j]
    BY FailIfHeldEffect DEF Timeout, WorkAll
  <1>3. ASSUME NEW i \in Jobs PROVE WorkInv(i)'
    BY <1>1, <1>2 DEF Timeout, WorkAll, WorkInv
  <1> QED BY <1>3

LEMMA WorkCrash ==
  ASSUME WorkAll, NEW w \in Workers, Crash(w)
  PROVE  \A i \in Jobs : WorkInv(i)'
  <1> SUFFICES ASSUME NEW i \in Jobs PROVE WorkInv(i)'
    OBVIOUS
  <1>1. bull'[i].state = bull[i].state
    BY RecordTypes DEF Crash, WorkAll, BullJobs
  <1>2. \A e \in Deliveries : run'[i][e] = run[i][e] \/ run'[i][e].pc = "ended"
    BY DEF Crash, Idle
  <1>3. bull[i].state = "none" => \A e \in Deliveries : run'[i][e] = run[i][e]
    <2>1. SUFFICES ASSUME bull[i].state = "none", NEW e \in Deliveries
                   PROVE  run'[i][e] = run[i][e]
      OBVIOUS
    <2>2. run[i][e].pc \notin Live
      BY <2>1 DEF WorkAll, WorkInv, Live
    <2> QED BY <2>2 DEF Crash
  <1> QED BY <1>1, <1>2, <1>3, WorkFrame DEF Crash, WorkAll

(* What an awaited update does to its job, when it leaves the rest alone.    *)
LEMMA AwaitUpdateEffect ==
  ASSUME TypeInv, NEW j \in Jobs, NEW d \in Deliveries,
         NEW s \in {PROCESSING, COMPLETED, FAILED}, NEW ok \in Live, NEW err \in Live,
         AwaitUpdate(j, d, s, ok, err)
  PROVE  /\ \A i \in Jobs : i # j => row'[i] = row[i]
         /\ \A i \in Jobs, e \in Deliveries : i # j \/ e # d => run'[i][e] = run[i][e]
         /\ \/ row'[j].status = s /\ run'[j][d].pc = ok
            \/ row'[j] = row[j] /\ run'[j][d].pc = err /\ "db" \in Faults
            \/ row'[j].status = s /\ run'[j][d].pc = err /\ "ack" \in Faults
  <1>1. CASE updateJobStatus(j, s) /\ SetPc(j, d, ok)
    BY <1>1, UpdateEffect, SetPcEffect
  <1>2. CASE "db" \in Faults /\ row' = row /\ SetPc(j, d, err)
    BY <1>2, SetPcEffect
  <1>3. CASE "ack" \in Faults /\ updateJobStatus(j, s) /\ SetPc(j, d, err)
    BY <1>3, UpdateEffect, SetPcEffect
  <1> QED BY <1>1, <1>2, <1>3, AwaitUpdateCases

LEMMA EndEffect ==
  ASSUME TypeInv, NEW j \in Jobs, NEW d \in Deliveries,
         SetRun(j, d, Idle("ended"))
  PROVE  /\ run'[j][d].pc = "ended"
         /\ \A i \in Jobs, e \in Deliveries : i # j \/ e # d => run'[i][e] = run[i][e]
  <1>1. Idle("ended").pc = "ended"
    BY DEF Idle
  <1> QED BY <1>1, SetRunEffect, IdleType

LEMMA WorkHandlerStep ==
  ASSUME WorkAll, NEW j \in Jobs, NEW d \in Deliveries, HandlerStep(j, d)
  PROVE  \A i \in Jobs : WorkInv(i)'
  <1> USE DEF PENDING, PROCESSING, COMPLETED, FAILED, Absent
  <1>1. TypeInv /\ WorkInv(j)
    BY DEF WorkAll
  <1>2. ASSUME \A i \in Jobs : i # j => /\ row'[i] = row[i]
                                        /\ bull'[i] = bull[i]
                                        /\ executed'[i] = executed[i]
                                        /\ resolved'[i] = resolved[i]
                                        /\ \A e \in Deliveries : run'[i][e] = run[i][e],
               WorkInv(j)'
        PROVE  \A i \in Jobs : WorkInv(i)'
    BY <1>2, WorkFrame DEF WorkAll
  <1>3. CASE MarkProcessing(j, d)
    <2>1. AwaitUpdate(j, d, PROCESSING, "marked", "failing")
      BY <1>3 DEF MarkProcessing
    <2>2. /\ \A i \in Jobs : i # j => row'[i] = row[i]
          /\ \A i \in Jobs, e \in Deliveries : i # j \/ e # d => run'[i][e] = run[i][e]
          /\ \/ row'[j].status = PROCESSING /\ run'[j][d].pc \in {"marked", "failing"}
             \/ row'[j] = row[j] /\ run'[j][d].pc = "failing"
      BY <1>1, <2>1, AwaitUpdateEffect DEF Live
    <2>3. /\ bull' = bull /\ executed' = executed /\ resolved' = resolved
          /\ run[j][d].pc = "marking"
      BY <1>3 DEF MarkProcessing
    <2>4. WorkInv(j)'
      BY <1>1, <2>2, <2>3 DEF WorkInv
    <2> QED BY <1>2, <2>2, <2>3, <2>4
  <1>4. CASE MarkCompleted(j, d)
    <2>1. AwaitUpdate(j, d, COMPLETED, "completed", "failing")
      BY <1>4 DEF MarkCompleted
    <2>2. /\ \A i \in Jobs : i # j => row'[i] = row[i]
          /\ \A i \in Jobs, e \in Deliveries : i # j \/ e # d => run'[i][e] = run[i][e]
          /\ \/ row'[j].status = COMPLETED /\ run'[j][d].pc \in {"completed", "failing"}
             \/ row'[j] = row[j] /\ run'[j][d].pc = "failing"
      BY <1>1, <2>1, AwaitUpdateEffect DEF Live
    <2>3. /\ bull' = bull /\ executed' = executed /\ resolved' = resolved
          /\ run[j][d].pc = "completing"
      BY <1>4 DEF MarkCompleted
    <2>4. WorkInv(j)'
      BY <1>1, <2>2, <2>3 DEF WorkInv
    <2> QED BY <1>2, <2>2, <2>3, <2>4
  <1>5. CASE MarkFailed(j, d)
    <2>1. AwaitUpdate(j, d, FAILED, "failed", "throwing")
      BY <1>5 DEF MarkFailed
    <2>2. /\ \A i \in Jobs : i # j => row'[i] = row[i]
          /\ \A i \in Jobs, e \in Deliveries : i # j \/ e # d => run'[i][e] = run[i][e]
          /\ \/ row'[j].status = FAILED /\ run'[j][d].pc \in {"failed", "throwing"}
             \/ row'[j] = row[j] /\ run'[j][d].pc = "throwing"
      BY <1>1, <2>1, AwaitUpdateEffect DEF Live
    <2>3. /\ bull' = bull /\ executed' = executed /\ resolved' = resolved
          /\ run[j][d].pc = "failing"
      BY <1>5 DEF MarkFailed
    <2>4. WorkInv(j)'
      BY <1>1, <2>2, <2>3 DEF WorkInv
    <2> QED BY <1>2, <2>2, <2>3, <2>4
  <1>6. CASE StartWork(j, d)
    <2>1. \/ j \in InvalidJobs /\ executed' = executed /\ SetPc(j, d, "failing")
          \/ j \notin InvalidJobs /\ SetPc(j, d, "executing")
      BY <1>6 DEF StartWork, SetPc
    <2>2. \A i \in Jobs : i # j => executed'[i] = executed[i]
      BY <1>6 DEF StartWork, WorkAll, TypeInv, TypeOK
    <2>3. WorkInv(j)'
      BY <1>1, <1>6, <2>1, SetPcEffect DEF StartWork, WorkInv, Live
    <2> QED BY <1>1, <1>2, <1>6, <2>1, <2>2, <2>3, SetPcEffect DEF StartWork, Live
  <1>7. CASE WorkEnds(j, d)
    <2> DEFINE added == [resolved EXCEPT ![j] = @ \union {d}]
    <2>0. resolved \in [Jobs -> SUBSET Deliveries] /\ added[j] # {}
      BY DEF WorkAll, TypeInv, TypeOK
    <2> HIDE DEF added
    <2>1. \/ resolved'[j] # {} /\ SetPc(j, d, "completing")
          \/ resolved'[j] = resolved[j] /\ SetPc(j, d, "failing")
      <3>1. \/ resolved' = added /\ SetPc(j, d, "completing")
            \/ resolved' = resolved /\ SetPc(j, d, "failing")
        BY <1>7 DEF WorkEnds, WorkResolves, WorkRejects, SetPc, added
      <3> QED BY <3>1, <2>0
    <2>2. \A i \in Jobs : i # j => resolved'[i] = resolved[i]
      BY <1>7 DEF WorkEnds, WorkResolves, WorkRejects, WorkAll, TypeInv, TypeOK
    <2>3. row' = row /\ submit' = submit /\ bull' = bull /\ executed' = executed
      BY <1>7 DEF WorkEnds, WorkResolves, WorkRejects
    <2>4. run[j][d].pc = "executing"
      BY <1>7 DEF WorkEnds, WorkResolves, WorkRejects
    <2>5. WorkInv(j)'
      BY <1>1, <2>1, <2>3, <2>4, SetPcEffect DEF WorkInv, Live
    <2> QED BY <1>1, <1>2, <2>1, <2>2, <2>3, <2>4, <2>5, SetPcEffect DEF Live
  <1>8. CASE AllowRetry(j, d)
    <2>1. SetPc(j, d, "throwing")
      BY <1>8 DEF AllowRetry, SetPc
    <2>2. WorkInv(j)'
      BY <1>1, <1>8, <2>1, SetPcEffect DEF AllowRetry, WorkInv, Live
    <2> QED BY <1>1, <1>2, <1>8, <2>1, <2>2, SetPcEffect DEF AllowRetry, Live
  <1>9. CASE Return(j, d)
    <2>1. /\ run'[j][d].pc = "ended"
          /\ \A i \in Jobs, e \in Deliveries : i # j \/ e # d => run'[i][e] = run[i][e]
      BY <1>1, <1>9, EndEffect DEF Return, SetRun
    <2>2. /\ bull'[j].state \in {bull[j].state, "completed"}
          /\ \A i \in Jobs : i # j => bull'[i] = bull[i]
      BY <1>9, RecordTypes DEF Return, WorkAll, TypeInv, TypeOK, BullJobs
    <2>3. WorkInv(j)'
      BY <1>1, <1>9, <2>1, <2>2 DEF Return, WorkInv
    <2> QED BY <1>2, <1>9, <2>1, <2>2, <2>3 DEF Return
  <1>10. CASE Throw(j, d)
    <2>1. /\ run'[j][d].pc = "ended"
          /\ \A i \in Jobs, e \in Deliveries : i # j \/ e # d => run'[i][e] = run[i][e]
      BY <1>1, <1>10, EndEffect DEF Throw, SetRun
    <2>2. /\ bull'[j].state \in {bull[j].state, "delayed", "failed"}
          /\ \A i \in Jobs : i # j => bull'[i] = bull[i]
      BY <1>1, <1>10, FailIfHeldEffect DEF Throw
    <2>3. WorkInv(j)'
      BY <1>1, <1>10, <2>1, <2>2 DEF Throw, WorkInv
    <2> QED BY <1>2, <1>10, <2>1, <2>2, <2>3 DEF Throw
  <1> QED BY <1>3, <1>4, <1>5, <1>6, <1>7, <1>8, <1>9, <1>10 DEF HandlerStep

LEMMA WorkStep == WorkAll /\ [Next]_vars => WorkAll'
  <1> SUFFICES ASSUME WorkAll, [Next]_vars PROVE \A i \in Jobs : WorkInv(i)'
    BY TypeStep DEF WorkAll
  <1>1. CASE UNCHANGED vars
    BY <1>1 DEF vars, WorkAll, WorkInv
  <1>2. ASSUME NEW j \in Jobs, JobStep(j) PROVE \A i \in Jobs : WorkInv(i)'
    BY <1>2, WorkQueueStep, WorkDeliver, WorkHandlerStep, WorkTimeout DEF JobStep
  <1>3. ASSUME NEW w \in Workers, Crash(w) PROVE \A i \in Jobs : WorkInv(i)'
    BY <1>3, WorkCrash
  <1> QED BY <1>1, <1>2, <1>3 DEF Next

LEMMA WorkInvariance == Spec => []WorkAll
  <1>1. Init => WorkAll
    BY TypeInit, WorkInit DEF WorkAll
  <1> QED BY <1>1, WorkStep, PTL DEF Spec

(* Whatever faults occur, a client is shown COMPLETED only for valid data    *)
(* and work that resolved.                                                   *)
THEOREM CompletionIsEarned == Spec => []CompletedWasEarned
  <1>1. WorkAll => CompletedWasEarned
    BY DEF WorkAll, WorkInv, CompletedWasEarned
  <1> QED BY <1>1, WorkInvariance, PTL

(* Whatever faults occur, work never starts behind a PENDING row: an update  *)
(* to PROCESSING that was rejected keeps the handler from working.           *)
THEOREM WorkIsVisible == Spec => []NoWorkWhilePending
  <1>1. WorkAll => NoWorkWhilePending
    BY DEF WorkAll, WorkInv, NoWorkWhilePending
  <1> QED BY <1>1, WorkInvariance, PTL

(* Whatever faults occur, Bull completes no job but those whose work         *)
(* resolved and whose row says so or has failed since.                       *)
THEOREM QueueCompletesResolvedWork == Spec => []BullCompletesResolvedWork
  <1>1. WorkAll => BullCompletesResolvedWork
    BY DEF WorkAll, WorkInv, BullCompletesResolvedWork
  <1> QED BY <1>1, WorkInvariance, PTL
=============================================================================
