--------------------------- MODULE JobFinalProofs --------------------------
(* Theorems about JobPipeline that hold of some faults only.  LocksKept: one *)
(* handler at a time.  OnlyCleanFaults (in addition no instance crashes and  *)
(* no acknowledgement is lost): COMPLETED is final, row and queue agree, and *)
(* the pipeline implements JobLifecycle.  NoRejections: the duplicate guard  *)
(* never holds a job that failed.                                            *)
EXTENDS JobProofs

-----------------------------------------------------------------------------
(* Without "lock" and "timeout", a live handler holds the lock of its job.   *)

LocksKept == "lock" \notin Faults /\ "timeout" \notin Faults

LockInv(j) == \A d \in Deliveries : run[j][d].pc \in Live => bull[j].token = d

LockAll == TypeInv /\ \A j \in Jobs : LockInv(j)

LEMMA LockInit == Init => \A j \in Jobs : LockInv(j)
  <1> SUFFICES ASSUME Init, NEW j \in Jobs PROVE LockInv(j)
    OBVIOUS
  <1>1. \A d \in Deliveries : run[j][d].pc = "none"
    BY DEF Init, Idle
  <1> QED BY <1>1 DEF LockInv, Live

LEMMA LockFrame ==
  ASSUME NEW i \in Jobs, LockInv(i), bull'[i].token = bull[i].token,
         \A e \in Deliveries : run'[i][e].pc \in Live => run[i][e].pc \in Live
  PROVE  LockInv(i)'
  BY DEF LockInv

(* The operations of the queue move no lock that a live handler holds.       *)
LEMMA LockQueueStep ==
  ASSUME LockAll, NEW j \in Jobs,
         SubmitJob(j) \/ AddJob(j) \/ CrashInSubmit(j) \/ Promote(j) \/ RecoverStalled(j)
  PROVE  \A i \in Jobs : LockInv(i)'
  <1> SUFFICES ASSUME NEW i \in Jobs PROVE LockInv(i)'
    OBVIOUS
  <1>1. run' = run
    BY DEF SubmitJob, AddJob, CrashInSubmit, Promote, RecoverStalled
  <1>2. bull'[i].token = bull[i].token
    <2>1. CASE RecoverStalled(j)
      <3>1. bull' = [bull EXCEPT ![j] = AfterStall(bull[j])] /\ bull[j].token = NoToken
        BY <2>1 DEF RecoverStalled
      <3>2. AfterStall(bull[j]).token = NoToken
        BY DEF AfterStall
      <3> QED BY <3>1, <3>2 DEF LockAll, TypeInv, TypeOK
    <2>2. CASE ~RecoverStalled(j)
      BY <2>2, RecordTypes
      DEF SubmitJob, AddJob, CrashInSubmit, Promote, LockAll, TypeInv, TypeOK, BullJobs
    <2> QED BY <2>1, <2>2
  <1> QED BY <1>1, <1>2, LockFrame DEF LockAll

(* Delivery: the lock was free, so no handler of the job is live.            *)
LEMMA DeliverEffect ==
  ASSUME TypeInv, NEW j \in Jobs, NEW w \in Workers, Deliver(j, w)
  PROVE  LET d == NextDelivery(j) IN
         /\ d \in Deliveries
         /\ bull[j].token = NoToken
         /\ bull'[j].token = d /\ bull'[j].state = "active"
         /\ run'[j][d].pc \in {"failing", "marking"}
         /\ \A i \in Jobs : i # j => bull'[i] = bull[i]
         /\ \A i \in Jobs, e \in Deliveries : i # j \/ e # d => run'[i][e] = run[i][e]
  <1> DEFINE d == NextDelivery(j)
             r == [pc |-> IF j \in processedJobs[w] THEN "failing" ELSE "marking",
                   worker |-> w, held |-> TRUE]
  <1>1. d \in Deliveries
    BY NextDeliveryInRange DEF Deliver
  <1>2. r \in Invocations /\ r.pc \in {"failing", "marking"}
    BY DEF Invocations, Live
  <1>3. SetRun(j, d, r)
    BY DEF Deliver, SetRun
  <1>4. bull[j].token = NoToken
    BY RecordTypes DEF Deliver, InRange
  <1>5. /\ bull'[j].token = d /\ bull'[j].state = "active"
        /\ \A i \in Jobs : i # j => bull'[i] = bull[i]
    BY RecordTypes DEF Deliver, TypeInv, TypeOK, BullJobs
  <1> HIDE DEF d, r
  <1>6. /\ run'[j][d] = r
        /\ \A i \in Jobs, e \in Deliveries : i # j \/ e # d => run'[i][e] = run[i][e]
    BY <1>1, <1>2, <1>3, SetRunEffect
  <1> QED BY <1>1, <1>2, <1>4, <1>5, <1>6 DEF d

LEMMA LockDeliver ==
  ASSUME LockAll, NEW j \in Jobs, NEW w \in Workers, Deliver(j, w)
  PROVE  \A i \in Jobs : LockInv(i)'
  <1> DEFINE d == NextDelivery(j)
  <1>1. TypeInv
    BY DEF LockAll
  <1>2. /\ d \in Deliveries
        /\ bull[j].token = NoToken
        /\ bull'[j].token = d
        /\ \A i \in Jobs : i # j => bull'[i] = bull[i]
        /\ \A i \in Jobs, e \in Deliveries : i # j \/ e # d => run'[i][e] = run[i][e]
    BY <1>1, DeliverEffect
  <1>3. \A e \in Deliveries : run[j][e].pc \notin Live
    BY <1>2 DEF LockAll, LockInv, Deliveries, NoToken
  <1> HIDE DEF d
  <1>4. ASSUME NEW i \in Jobs PROVE LockInv(i)'
    BY <1>2, <1>3 DEF LockAll, LockInv
  <1> QED BY <1>4

(* The steps of a handler that goes on leave the queue alone.                *)
GoesOn(j, d) ==
  \/ MarkProcessing(j, d) \/ StartWork(j, d) \/ WorkEnds(j, d) \/ MarkCompleted(j, d)
  \/ MarkFailed(j, d) \/ AllowRetry(j, d)

LEMMA GoesOnEffect ==
  ASSUME TypeInv, NEW j \in Jobs, NEW d \in Deliveries, GoesOn(j, d)
  PROVE  /\ bull' = bull
         /\ run[j][d].pc \in Live /\ run'[j][d].pc \in Live
         /\ \A i \in Jobs, e \in Deliveries : i # j \/ e # d => run'[i][e] = run[i][e]
  <1> USE DEF Live, PENDING, PROCESSING, COMPLETED, FAILED
  <1>1. CASE MarkProcessing(j, d)
    BY <1>1, AwaitUpdateEffect DEF MarkProcessing
  <1>2. CASE MarkCompleted(j, d)
    BY <1>2, AwaitUpdateEffect DEF MarkCompleted
  <1>3. CASE MarkFailed(j, d)
    BY <1>3, AwaitUpdateEffect DEF MarkFailed
  <1>4. CASE StartWork(j, d)
    <2>1. SetPc(j, d, "failing") \/ SetPc(j, d, "executing")
      BY <1>4 DEF StartWork, SetPc
    <2> QED BY <1>4, <2>1, SetPcEffect DEF StartWork
  <1>5. CASE WorkEnds(j, d)
    <2>1. SetPc(j, d, "completing") \/ SetPc(j, d, "failing")
      BY <1>5 DEF WorkEnds, WorkResolves, WorkRejects, SetPc
    <2> QED BY <1>5, <2>1, SetPcEffect DEF WorkEnds, WorkResolves, WorkRejects
  <1>6. CASE AllowRetry(j, d)
    <2>1. SetPc(j, d, "throwing")
      BY <1>6 DEF AllowRetry, SetPc
    <2> QED BY <1>6, <2>1, SetPcEffect DEF AllowRetry
  <1> QED BY <1>1, <1>2, <1>3, <1>4, <1>5, <1>6 DEF GoesOn

(* The end of a handler that holds the lock releases it.                     *)
LEMMA LockEnd ==
  ASSUME LockAll, NEW j \in Jobs, NEW d \in Deliveries, Return(j, d) \/ Throw(j, d)
  PROVE  \A i \in Jobs : LockInv(i)'
  <1>1. TypeInv /\ run[j][d].pc \in Live
    BY DEF LockAll, Return, Throw, Live
  <1>2. bull[j].token = d
    BY <1>1 DEF LockAll, LockInv
  <1>3. /\ run'[j][d].pc = "ended"
        /\ \A i \in Jobs, e \in Deliveries : i # j \/ e # d => run'[i][e] = run[i][e]
    BY <1>1, EndEffect DEF Return, Throw, SetRun
  <1>4. \A e \in Deliveries : e # d => run[j][e].pc \notin Live
    BY <1>2 DEF LockAll, LockInv
  <1>5. \A e \in Deliveries : run'[j][e].pc \notin Live
    BY <1>3, <1>4 DEF Live
  <1>6. \A i \in Jobs : i # j => bull'[i] = bull[i]
    <2>1. CASE Return(j, d)
      BY <2>1 DEF Return, LockAll, TypeInv, TypeOK
    <2>2. CASE Throw(j, d)
      BY <1>1, <2>2, FailIfHeldEffect DEF Throw
    <2> QED BY <2>1, <2>2
  <1>7. ASSUME NEW i \in Jobs PROVE LockInv(i)'
    BY <1>3, <1>5, <1>6 DEF LockAll, LockInv
  <1> QED BY <1>7

LEMMA LockCrash ==
  ASSUME LockAll, NEW w \in Workers, Crash(w)
  PROVE  \A i \in Jobs : LockInv(i)'
  <1> SUFFICES ASSUME NEW i \in Jobs, NEW e \in Deliveries, run'[i][e].pc \in Live
               PROVE  bull'[i].token = e
    BY DEF LockInv
  <1>1. ~(run[i][e].pc \in Live /\ run[i][e].worker = w) /\ run'[i][e] = run[i][e]
    BY DEF Crash, Idle, Live
  <1>2. bull[i].token = e
    BY <1>1 DEF LockAll, LockInv
  <1> QED BY <1>1, <1>2 DEF Crash

LEMMA LockStep == LocksKept /\ LockAll /\ [Next]_vars => LockAll'
  <1> SUFFICES ASSUME LocksKept, LockAll, [Next]_vars PROVE \A i \in Jobs : LockInv(i)'
    BY TypeStep DEF LockAll
  <1>1. CASE UNCHANGED vars
    BY <1>1 DEF vars, LockAll, LockInv
  <1>2. ASSUME NEW j \in Jobs, JobStep(j) PROVE \A i \in Jobs : LockInv(i)'
    <2>1. ASSUME NEW d \in Deliveries, HandlerStep(j, d) PROVE \A i \in Jobs : LockInv(i)'
      <3>1. CASE Return(j, d) \/ Throw(j, d)
        BY <3>1, LockEnd
      <3>2. CASE GoesOn(j, d)
        <4>1. TypeInv
          BY DEF LockAll
        <4> QED BY <3>2, <4>1, GoesOnEffect DEF LockAll, LockInv
      <3> QED BY <2>1, <3>1, <3>2 DEF HandlerStep, GoesOn
    <2>2. ~LoseLock(j) /\ \A d \in Deliveries : ~Timeout(j, d)
      BY DEF LocksKept, LoseLock, Timeout
    <2> QED BY <1>2, <2>1, <2>2, LockQueueStep, LockDeliver DEF JobStep
  <1>3. ASSUME NEW w \in Workers, Crash(w) PROVE \A i \in Jobs : LockInv(i)'
    BY <1>3, LockCrash
  <1> QED BY <1>1, <1>2, <1>3 DEF Next

(* As long as locks are kept, crashes and failing databases included, no two *)
(* handlers of one job are ever live, on whichever instances.                *)
THEOREM HandlersAreSequential ==
  ASSUME LocksKept PROVE Spec => []OneHandlerPerJob
  <1>1. Init => LockAll
    BY TypeInit, LockInit DEF LockAll
  <1>2. LockAll /\ [Next]_vars => LockAll'
    BY LockStep
  <1>3. LockAll => OneHandlerPerJob
    BY DEF LockAll, LockInv, OneHandlerPerJob, LiveRuns
  <1> QED BY <1>1, <1>2, <1>3, PTL DEF Spec

-----------------------------------------------------------------------------
(* With "redis" and "db" only, COMPLETED is final.  The invariant says who   *)
(* may have written it: the delivery that holds the lock and is about to     *)
(* return, or the one Bull recorded as completed.                            *)

OnlyCleanFaults == LocksKept /\ "crash" \notin Faults /\ "ack" \notin Faults

FinalInv(j) ==
  /\ row[j].status = COMPLETED =>
       \/ bull[j].state = "completed"
       \/ bull[j].token \in Deliveries /\ run[j][bull[j].token].pc = "completed"
  /\ bull[j].state = "completed" => row[j].status = COMPLETED
  /\ \A d \in Deliveries : run[j][d].pc = "completed" => row[j].status = COMPLETED

FinalAll == LockAll /\ \A j \in Jobs : FinalInv(j)

RowIsFinal(j) == row[j].status = COMPLETED => row'[j] = row[j]

LEMMA FinalInit == Init => \A j \in Jobs : FinalInv(j)
  <1> SUFFICES ASSUME Init, NEW j \in Jobs PROVE FinalInv(j)
    OBVIOUS
  <1>1. row[j].status = Absent /\ bull[j].state = "none"
    BY DEF Init
  <1>2. \A d \in Deliveries : run[j][d].pc = "none"
    BY DEF Init, Idle
  <1> QED BY <1>1, <1>2 DEF FinalInv, Absent, COMPLETED

LEMMA FinalFrame ==
  ASSUME NEW i \in Jobs, FinalInv(i), row'[i] = row[i], bull'[i] = bull[i],
         \A e \in Deliveries : run'[i][e] = run[i][e]
  PROVE  FinalInv(i)'
  BY DEF FinalInv

(* A delivery that is live and has not completed has a row to write.         *)
LEMMA LiveMeansOpen ==
  ASSUME FinalAll, NEW j \in Jobs, NEW d \in Deliveries,
         run[j][d].pc \in Live, run[j][d].pc # "completed"
  PROVE  /\ row[j].status # COMPLETED
         /\ bull[j].token = d /\ bull[j].state = "active"
         /\ \A e \in Deliveries : e # d => run[j][e].pc \notin Live
  <1>1. bull[j].token = d /\ \A e \in Deliveries : e # d => run[j][e].pc \notin Live
    BY DEF FinalAll, LockAll, LockInv
  <1>2. bull[j].state = "active"
    BY <1>1, RecordTypes DEF FinalAll, LockAll, InRange, Deliveries, NoToken
  <1> QED BY <1>1, <1>2 DEF FinalAll, FinalInv

LEMMA FinalQueueStep ==
  ASSUME FinalAll, NEW j \in Jobs,
         SubmitJob(j) \/ AddJob(j) \/ Promote(j) \/ RecoverStalled(j)
  PROVE  \A i \in Jobs : FinalInv(i)' /\ RowIsFinal(i)
  <1>1. TypeInv /\ run' = run
    BY DEF FinalAll, LockAll, SubmitJob, AddJob, Promote, RecoverStalled
  <1>2. \A i \in Jobs : i # j => row'[i] = row[i] /\ bull'[i] = bull[i]
    BY <1>1 DEF TypeInv, TypeOK, SubmitJob, AddJob, Promote, RecoverStalled
  <1>3. \A i \in Jobs : i # j => FinalInv(i)' /\ RowIsFinal(i)
    BY <1>1, <1>2, FinalFrame DEF FinalAll, RowIsFinal
  <1>4. bull[j].token = NoToken /\ bull[j].state # "completed"
    <2>1. bull[j].state \in {"none", "wait", "delayed"} \/ bull[j].token = NoToken
      BY <1>1 DEF TypeInv, CountersInRange, SubmitJob, AddJob, Promote, RecoverStalled
    <2>2. bull[j].state # "completed"
      BY <1>1 DEF TypeInv, CountersInRange, SubmitJob, AddJob, Promote, RecoverStalled
    <2> QED BY <1>1, <2>1, <2>2, RecordTypes DEF InRange
  <1>5. row[j].status # COMPLETED /\ \A d \in Deliveries : run[j][d].pc # "completed"
    BY <1>4 DEF FinalAll, FinalInv, Deliveries, NoToken
  <1>6. row'[j].status # COMPLETED
    <2>1. CASE SubmitJob(j)
      <3>1. row'[j].status = PENDING
        BY <1>1, <2>1, RecordTypes DEF SubmitJob, TypeInv, TypeOK, Rows
      <3> QED BY <3>1 DEF PENDING, COMPLETED
    <2>2. CASE ~SubmitJob(j)
      BY <1>5, <2>2 DEF AddJob, Promote, RecoverStalled
    <2> QED BY <2>1, <2>2
  <1>7. bull'[j].state # "completed"
    <2>1. CASE RecoverStalled(j)
      <3>1. bull'[j] = AfterStall(bull[j])
        BY <1>1, <2>1 DEF RecoverStalled, TypeInv, TypeOK
      <3> QED BY <3>1 DEF AfterStall
    <2>2. CASE ~RecoverStalled(j)
      BY <1>1, <1>4, <2>2, RecordTypes DEF SubmitJob, AddJob, Promote, TypeInv, TypeOK, BullJobs
    <2> QED BY <2>1, <2>2
  <1>8. FinalInv(j)' /\ RowIsFinal(j)
    BY <1>1, <1>5, <1>6, <1>7 DEF FinalInv, RowIsFinal
  <1> QED BY <1>3, <1>8

LEMMA FinalDeliver ==
  ASSUME FinalAll, NEW j \in Jobs, NEW w \in Workers, Deliver(j, w)
  PROVE  \A i \in Jobs : FinalInv(i)' /\ RowIsFinal(i)
  <1> DEFINE d == NextDelivery(j)
  <1>1. TypeInv
    BY DEF FinalAll, LockAll
  <1>2. /\ d \in Deliveries
        /\ bull[j].token = NoToken
        /\ bull'[j].state = "active"
        /\ run'[j][d].pc \in {"failing", "marking"}
        /\ \A i \in Jobs : i # j => bull'[i] = bull[i]
        /\ \A i \in Jobs, e \in Deliveries : i # j \/ e # d => run'[i][e] = run[i][e]
    BY <1>1, DeliverEffect
  <1> HIDE DEF d
  <1>3. row' = row /\ bull[j].state = "wait"
    BY DEF Deliver
  <1>4. row[j].status # COMPLETED
    BY <1>2, <1>3 DEF FinalAll, FinalInv, Deliveries, NoToken
  <1>5. FinalInv(j)'
    BY <1>2, <1>3, <1>4 DEF FinalAll, FinalInv
  <1>6. \A i \in Jobs : i # j => FinalInv(i)'
    BY <1>2, <1>3, FinalFrame DEF FinalAll
  <1> QED BY <1>3, <1>5, <1>6 DEF RowIsFinal

(* The steps of a handler between its awaits.                                *)
LEMMA FinalGoesOn ==
  ASSUME OnlyCleanFaults, FinalAll, NEW j \in Jobs, NEW d \in Deliveries, GoesOn(j, d)
  PROVE  \A i \in Jobs : FinalInv(i)' /\ RowIsFinal(i)
  <1> USE DEF PENDING, PROCESSING, COMPLETED, FAILED
  <1>1. TypeInv
    BY DEF FinalAll, LockAll
  <1>2. /\ bull' = bull
        /\ run[j][d].pc \in Live
        /\ \A i \in Jobs, e \in Deliveries : i # j \/ e # d => run'[i][e] = run[i][e]
    BY <1>1, GoesOnEffect
  <1>3. run[j][d].pc # "completed"
    BY DEF GoesOn, MarkProcessing, StartWork, WorkEnds, WorkResolves, WorkRejects, MarkCompleted,
           MarkFailed, AllowRetry
  <1>4. /\ row[j].status # COMPLETED
        /\ bull[j].token = d /\ bull[j].state = "active"
        /\ \A e \in Deliveries : e # d => run[j][e].pc \notin Live
    BY <1>2, <1>3, LiveMeansOpen
  <1>5. \A e \in Deliveries : e # d => run'[j][e].pc # "completed"
    BY <1>2, <1>4 DEF Live
  <1>6. /\ \A i \in Jobs : i # j => row'[i] = row[i]
        /\ row'[j].status = COMPLETED <=> run'[j][d].pc = "completed"
    <2>1. CASE MarkProcessing(j, d)
      BY <1>1, <1>4, <2>1, AwaitUpdateEffect DEF MarkProcessing, Live
    <2>2. CASE MarkFailed(j, d)
      BY <1>1, <1>4, <2>2, AwaitUpdateEffect DEF MarkFailed, Live
    <2>3. CASE MarkCompleted(j, d)
      <3>1. AwaitUpdate(j, d, COMPLETED, "completed", "failing")
        BY <2>3 DEF MarkCompleted
      <3>2. /\ \A i \in Jobs : i # j => row'[i] = row[i]
            /\ \/ row'[j].status = COMPLETED /\ run'[j][d].pc = "completed"
               \/ row'[j] = row[j] /\ run'[j][d].pc = "failing"
        BY <1>1, <3>1, AwaitUpdateEffect DEF OnlyCleanFaults, Live
      <3> QED BY <1>4, <3>2
    <2>4. CASE StartWork(j, d)
      <3>1. SetPc(j, d, "failing") \/ SetPc(j, d, "executing")
        BY <2>4 DEF StartWork, SetPc
      <3> QED BY <1>1, <1>4, <2>4, <3>1, SetPcEffect DEF StartWork, Live
    <2>5. CASE WorkEnds(j, d)
      <3>1. SetPc(j, d, "completing") \/ SetPc(j, d, "failing")
        BY <2>5 DEF WorkEnds, WorkResolves, WorkRejects, SetPc
      <3> QED BY <1>1, <1>4, <2>5, <3>1, SetPcEffect DEF WorkEnds, WorkResolves, WorkRejects, Live
    <2>6. CASE AllowRetry(j, d)
      <3>1. SetPc(j, d, "throwing")
        BY <2>6 DEF AllowRetry, SetPc
      <3> QED BY <1>1, <1>4, <2>6, <3>1, SetPcEffect DEF AllowRetry, Live
    <2> QED BY <2>1, <2>2, <2>3, <2>4, <2>5, <2>6 DEF GoesOn
  <1>7. FinalInv(j)' /\ RowIsFinal(j)
    BY <1>2, <1>4, <1>5, <1>6 DEF FinalInv, RowIsFinal
  <1>8. \A i \in Jobs : i # j => FinalInv(i)' /\ RowIsFinal(i)
    BY <1>2, <1>6, FinalFrame DEF FinalAll, RowIsFinal
  <1> QED BY <1>7, <1>8

LEMMA FinalEnd ==
  ASSUME FinalAll, NEW j \in Jobs, NEW d \in Deliveries, Return(j, d) \/ Throw(j, d)
  PROVE  \A i \in Jobs : FinalInv(i)' /\ RowIsFinal(i)
  <1>1. TypeInv /\ row' = row
    BY DEF FinalAll, LockAll, Return, Throw
  <1>2. /\ run'[j][d].pc = "ended"
        /\ \A i \in Jobs, e \in Deliveries : i # j \/ e # d => run'[i][e] = run[i][e]
    BY <1>1, EndEffect DEF Return, Throw, SetRun
  <1>3. CASE Return(j, d)
    <2>1. bull[j].token = d /\ row[j].status = COMPLETED
      BY <1>3 DEF Return, FinalAll, FinalInv, LockAll, LockInv, Live
    <2>2. bull'[j].state = "completed" /\ \A i \in Jobs : i # j => bull'[i] = bull[i]
      BY <1>1, <1>3, <2>1, RecordTypes DEF Return, TypeInv, TypeOK, BullJobs
    <2>3. FinalInv(j)'
      BY <1>1, <1>2, <2>1, <2>2 DEF FinalInv
    <2>4. \A i \in Jobs : i # j => FinalInv(i)'
      BY <1>1, <1>2, <2>2, FinalFrame DEF FinalAll
    <2> QED BY <1>1, <2>3, <2>4 DEF RowIsFinal
  <1>4. CASE Throw(j, d)
    <2>1. /\ row[j].status # COMPLETED
          /\ bull[j].token = d
          /\ \A e \in Deliveries : e # d => run[j][e].pc \notin Live
      BY <1>4, LiveMeansOpen DEF Throw, Live
    <2>2. bull'[j] = AfterFailure(bull[j]) /\ \A i \in Jobs : i # j => bull'[i] = bull[i]
      BY <1>1, <1>4, <2>1, FailIfHeldEffect DEF Throw
    <2>3. bull'[j].state # "completed"
      BY <2>2 DEF AfterFailure
    <2>4. \A e \in Deliveries : run'[j][e].pc # "completed"
      BY <1>2, <2>1 DEF Live
    <2>5. FinalInv(j)'
      BY <1>1, <2>1, <2>3, <2>4 DEF FinalInv
    <2>6. \A i \in Jobs : i # j => FinalInv(i)'
      BY <1>1, <1>2, <2>2, FinalFrame DEF FinalAll
    <2> QED BY <1>1, <2>5, <2>6 DEF RowIsFinal
  <1> QED BY <1>3, <1>4

LEMMA FinalStep ==
  ASSUME OnlyCleanFaults
  PROVE  FinalAll /\ [Next]_vars => FinalAll' /\ \A j \in Jobs : RowIsFinal(j)
  <1> SUFFICES ASSUME FinalAll, [Next]_vars
               PROVE  \A i \in Jobs : FinalInv(i)' /\ RowIsFinal(i)
    BY LockStep DEF FinalAll, OnlyCleanFaults
  <1>1. CASE UNCHANGED vars
    BY <1>1, FinalFrame DEF vars, FinalAll, RowIsFinal
  <1>2. ASSUME NEW j \in Jobs, JobStep(j)
        PROVE  \A i \in Jobs : FinalInv(i)' /\ RowIsFinal(i)
    <2>1. ASSUME NEW d \in Deliveries, HandlerStep(j, d)
          PROVE  \A i \in Jobs : FinalInv(i)' /\ RowIsFinal(i)
      BY <2>1, FinalGoesOn, FinalEnd DEF HandlerStep, GoesOn
    <2>2. /\ ~CrashInSubmit(j)
          /\ ~LoseLock(j)
          /\ \A d \in Deliveries : ~Timeout(j, d)
      BY DEF OnlyCleanFaults, LocksKept, CrashInSubmit, LoseLock, Timeout
    <2> QED BY <1>2, <2>1, <2>2, FinalQueueStep, FinalDeliver DEF JobStep
  <1>3. ASSUME NEW w \in Workers, Crash(w) PROVE FALSE
    BY <1>3 DEF Crash, OnlyCleanFaults
  <1> QED BY <1>1, <1>2, <1>3 DEF Next

LEMMA FinalInvariance ==
  ASSUME OnlyCleanFaults PROVE Spec => []FinalAll
  <1>1. Init => FinalAll
    BY TypeInit, LockInit, FinalInit DEF FinalAll, LockAll
  <1>2. FinalAll /\ [Next]_vars => FinalAll'
    BY FinalStep
  <1> QED BY <1>1, <1>2, PTL DEF Spec

(* If the only faults are a queue or a database that rejects, a COMPLETED    *)
(* row is never written again.                                               *)
THEOREM CompletedStaysCompleted ==
  ASSUME OnlyCleanFaults PROVE Spec => CompletedIsFinal
  <1>1. FinalAll /\ [Next]_vars =>
          [\A j \in Jobs : row[j].status = COMPLETED => row'[j] = row[j]]_vars
    BY FinalStep DEF RowIsFinal
  <1> QED BY <1>1, FinalInvariance, PTL DEF Spec, CompletedIsFinal

(* Under the same faults the queue and the table agree on which jobs are     *)
(* completed, but for the moment between the update and Bull's record.       *)
THEOREM RecordsStayInAgreement ==
  ASSUME OnlyCleanFaults PROVE Spec => []RecordsAgree
  <1>1. FinalAll => RecordsAgree
    <2> SUFFICES ASSUME FinalAll, NEW j \in Jobs
                 PROVE  /\ bull[j].state = "completed" => row[j].status = COMPLETED
                        /\ row[j].status = COMPLETED => bull[j].state \in {"active", "completed"}
      BY DEF RecordsAgree
    <2> QED BY RecordTypes DEF FinalAll, LockAll, FinalInv, InRange, Deliveries, NoToken
  <1> QED BY <1>1, FinalInvariance, PTL

-----------------------------------------------------------------------------
(* Without "db" and "ack", a failed attempt leaves processedJobs.  A handler *)
(* that has not resolved its work will still delete the job, unless it has   *)
(* deleted it already and is about to throw; and a delivery takes a slot of  *)
(* its own, so that no other delivery takes such a handler's place.          *)

NoRejections == "db" \notin Faults /\ "ack" \notin Faults

Unused(j) == \A d \in Deliveries :
  /\ bull[j].state \in {"none", "wait", "delayed"} /\ d >= NextDelivery(j) => run[j][d].pc = "none"
  /\ bull[j].state = "active" /\ d > NextDelivery(j) => run[j][d].pc = "none"

Keeps(w, j, d) == run[j][d].worker = w /\ run[j][d].pc \in Live \ {"throwing"}

Forgets(w, j) == j \in processedJobs[w] => resolved[j] # {} \/ \E d \in Deliveries : Keeps(w, j, d)

GuardAll ==
  /\ WorkAll
  /\ \A j \in Jobs : Unused(j)
  /\ \A w \in Workers, j \in Jobs : Forgets(w, j)

LEMMA GuardInit == Init => GuardAll
  <1> SUFFICES ASSUME Init PROVE GuardAll
    OBVIOUS
  <1>1. \A j \in Jobs, d \in Deliveries : run[j][d].pc = "none"
    BY DEF Init, Idle
  <1>2. \A w \in Workers : processedJobs[w] = {}
    BY DEF Init
  <1> QED BY <1>1, <1>2, TypeInit, WorkInit DEF GuardAll, WorkAll, Unused, Forgets

LEMMA NumbersOf ==
  ASSUME TypeInv, NEW j \in Jobs
  PROVE  bull[j].attemptsMade \in Nat /\ bull[j].stalledCount \in Nat /\ NextDelivery(j) \in Nat
  BY RecordTypes DEF BullJobs, NextDelivery

LEMMA UnusedFrame ==
  ASSUME NEW i \in Jobs, Unused(i), NextDelivery(i) \in Nat, NextDelivery(i)' \in Nat,
         \A e \in Deliveries : run[i][e].pc = "none" => run'[i][e].pc = "none",
         \/ NextDelivery(i)' = NextDelivery(i)
            /\ \/ bull'[i].state = bull[i].state
               \/ {bull[i].state, bull'[i].state} \subseteq {"none", "wait", "delayed"}
         \/ NextDelivery(i)' = NextDelivery(i) + 1 /\ bull[i].state = "active" /\ bull'[i].state # "active"
         \/ bull'[i].state \in {"completed", "failed"}
  PROVE  Unused(i)'
  BY DEF Unused, Deliveries

LEMMA SameRecord ==
  ASSUME NEW i \in Jobs, bull'[i] = bull[i]
  PROVE  NextDelivery(i)' = NextDelivery(i) /\ bull'[i].state = bull[i].state
  BY DEF NextDelivery

(* Bull counts the attempt, or the stall.                                    *)
LEMMA CountsUp ==
  ASSUME TypeInv, NEW j \in Jobs, bull[j].state = "active",
         bull'[j] = AfterFailure(bull[j]) \/ bull'[j] = AfterStall(bull[j])
  PROVE  NextDelivery(j)' = NextDelivery(j) + 1 /\ bull'[j].state # "active"
  BY NumbersOf DEF AfterFailure, AfterStall, NextDelivery

LEMMA UnusedStep ==
  ASSUME TypeInv, \A j \in Jobs : Unused(j), [Next]_vars, NEW i \in Jobs
  PROVE  Unused(i)'
  <1>0. NextDelivery(i) \in Nat /\ NextDelivery(i)' \in Nat
    BY NumbersOf, TypeStep DEF TypeInv, TypeOK, BullJobs, NextDelivery
  <1>1. ASSUME bull'[i] = bull[i], \A e \in Deliveries : run[i][e].pc = "none" => run'[i][e].pc = "none"
        PROVE  Unused(i)'
    BY <1>0, <1>1, SameRecord, UnusedFrame
  <1>2. ASSUME NEW j \in Jobs, SubmitJob(j) \/ AddJob(j) \/ CrashInSubmit(j) \/ Promote(j) \/ LoseLock(j)
        PROVE  Unused(i)'
    <2>1. run' = run
      BY <1>2 DEF SubmitJob, AddJob, CrashInSubmit, Promote, LoseLock
    <2>2. AddJob(j) => bull[j].state = "none"
      BY DEF AddJob, TypeInv, CountersInRange
    <2>3. /\ bull'[i].attemptsMade = bull[i].attemptsMade /\ bull'[i].stalledCount = bull[i].stalledCount
          /\ \/ bull'[i].state = bull[i].state
             \/ bull[i].state \in {"none", "delayed"} /\ bull'[i].state = "wait"
      <3>0. bull \in [Jobs -> BullJobs] /\ bull[i] \in BullJobs
        BY DEF TypeInv, TypeOK
      <3>1. CASE SubmitJob(j) \/ CrashInSubmit(j)
        BY <3>1 DEF SubmitJob, CrashInSubmit
      <3>2. CASE AddJob(j)
        BY <2>2, <3>0, <3>2 DEF AddJob, BullJobs
      <3>3. CASE Promote(j)
        BY <3>0, <3>3 DEF Promote, BullJobs
      <3>4. CASE LoseLock(j)
        BY <3>0, <3>4 DEF LoseLock, BullJobs
      <3> QED BY <1>2, <3>1, <3>2, <3>3, <3>4
    <2>4. NextDelivery(i)' = NextDelivery(i)
      BY <2>3 DEF NextDelivery
    <2> QED BY <1>0, <2>1, <2>3, <2>4, UnusedFrame
  <1>3. ASSUME NEW j \in Jobs, RecoverStalled(j) PROVE Unused(i)'
    <2>1. run' = run /\ bull[j].state = "active" /\ bull' = [bull EXCEPT ![j] = AfterStall(bull[j])]
      BY <1>3 DEF RecoverStalled
    <2>2. CASE i # j
      BY <1>1, <2>1, <2>2 DEF TypeInv, TypeOK
    <2>3. CASE i = j
      <3>1. NextDelivery(i)' = NextDelivery(i) + 1 /\ bull[i].state = "active" /\ bull'[i].state # "active"
        BY <2>1, <2>3, CountsUp DEF TypeInv, TypeOK
      <3> QED BY <1>0, <2>1, <3>1, UnusedFrame
    <2> QED BY <2>2, <2>3
  <1>4. ASSUME NEW j \in Jobs, NEW w \in Workers, Deliver(j, w) PROVE Unused(i)'
    <2>1. LET d == NextDelivery(j) IN
          /\ d \in Deliveries /\ bull'[j].state = "active"
          /\ \A k \in Jobs : k # j => bull'[k] = bull[k]
          /\ \A k \in Jobs, e \in Deliveries : k # j \/ e # d => run'[k][e] = run[k][e]
      BY <1>4, DeliverEffect
    <2>2. CASE i # j
      BY <1>1, <2>1, <2>2
    <2>3. CASE i = j
      <3>1. NextDelivery(i)' = NextDelivery(i) /\ bull[i].state = "wait"
        BY <1>4, <2>3, RecordTypes DEF Deliver, NextDelivery, TypeInv, TypeOK, BullJobs
      <3> QED BY <1>0, <2>1, <2>3, <3>1 DEF Unused, Deliveries
    <2> QED BY <2>2, <2>3
  <1>5. ASSUME NEW j \in Jobs, NEW d \in Deliveries, GoesOn(j, d) PROVE Unused(i)'
    BY <1>1, <1>5, GoesOnEffect DEF Live
  <1>6. ASSUME NEW j \in Jobs, NEW d \in Deliveries,
               IF bull[j].token = d THEN FailAttempt(j) ELSE UNCHANGED bull,
               \A k \in Jobs, e \in Deliveries : run[k][e].pc = "none" => run'[k][e].pc = "none"
        PROVE  Unused(i)'
    <2>1. /\ \A k \in Jobs : k # j => bull'[k] = bull[k]
          /\ bull'[j] = IF bull[j].token = d THEN AfterFailure(bull[j]) ELSE bull[j]
          /\ bull[j].token = d => bull[j].state = "active"
      BY <1>6, FailIfHeldEffect
    <2>2. CASE i # j \/ bull[j].token # d
      BY <1>1, <1>6, <2>1, <2>2
    <2>3. CASE i = j /\ bull[j].token = d
      <3>1. NextDelivery(i)' = NextDelivery(i) + 1 /\ bull[i].state = "active" /\ bull'[i].state # "active"
        BY <2>1, <2>3, CountsUp
      <3> QED BY <1>0, <1>6, <3>1, UnusedFrame
    <2> QED BY <2>2, <2>3
  <1>7. ASSUME NEW j \in Jobs, NEW d \in Deliveries, Throw(j, d) \/ Timeout(j, d) PROVE Unused(i)'
    <2>1. \A k \in Jobs, e \in Deliveries : run[k][e].pc = "none" => run'[k][e].pc = "none"
      <3>1. CASE Throw(j, d)
        BY <3>1, EndEffect DEF Throw, SetRun
      <3>2. CASE Timeout(j, d)
        BY <3>2 DEF Timeout, TypeInv, TypeOK, Invocations
      <3> QED BY <1>7, <3>1, <3>2
    <2> QED BY <1>6, <1>7, <2>1 DEF Throw, Timeout
  <1>8. ASSUME NEW j \in Jobs, NEW d \in Deliveries, Return(j, d) PROVE Unused(i)'
    <2>1. \A k \in Jobs, e \in Deliveries : run[k][e].pc = "none" => run'[k][e].pc = "none"
      BY <1>8, EndEffect DEF Return, SetRun
    <2>2. bull'[i] = bull[i] \/ bull'[i].state = "completed"
      BY <1>8, RecordTypes DEF Return, TypeInv, TypeOK, BullJobs
    <2> QED BY <1>0, <1>1, <2>1, <2>2, UnusedFrame
  <1>9. ASSUME NEW w \in Workers, Crash(w) PROVE Unused(i)'
    <2>1. \A e \in Deliveries : run[i][e].pc = "none" => run'[i][e].pc = "none"
      BY <1>9 DEF Crash, Live
    <2>2. NextDelivery(i)' = NextDelivery(i) /\ bull'[i].state = bull[i].state
      BY <1>9, RecordTypes DEF Crash, BullJobs, NextDelivery
    <2> QED BY <1>0, <2>1, <2>2, UnusedFrame
  <1>10. CASE UNCHANGED vars
    BY <1>1, <1>10 DEF vars
  <1> QED BY <1>2, <1>3, <1>4, <1>5, <1>7, <1>8, <1>9, <1>10 DEF Next, JobStep, HandlerStep, GoesOn

(* A handler that goes on, when no update of the row is rejected.            *)
LEMMA GuardMoves ==
  ASSUME NoRejections, TypeInv, NEW j \in Jobs, NEW d \in Deliveries, GoesOn(j, d), ~AllowRetry(j, d)
  PROVE  /\ run[j][d].pc # "throwing" /\ run'[j][d].pc \in Live \ {"throwing"}
         /\ run'[j][d].worker = run[j][d].worker
         /\ \A i \in Jobs, e \in Deliveries : i # j \/ e # d => run'[i][e] = run[i][e]
  <1> USE DEF PENDING, PROCESSING, COMPLETED, FAILED
  <1>1. \E pc \in Live \ {"throwing"} : SetPc(j, d, pc)
    <2>1. CASE MarkProcessing(j, d)
      BY <2>1, AwaitUpdateCases DEF MarkProcessing, NoRejections, Live
    <2>2. CASE MarkCompleted(j, d)
      BY <2>2, AwaitUpdateCases DEF MarkCompleted, NoRejections, Live
    <2>3. CASE MarkFailed(j, d)
      BY <2>3, AwaitUpdateCases DEF MarkFailed, NoRejections, Live
    <2>4. CASE StartWork(j, d)
      BY <2>4 DEF StartWork, SetPc, Live
    <2>5. CASE WorkEnds(j, d)
      BY <2>5 DEF WorkEnds, WorkResolves, WorkRejects, SetPc, Live
    <2> QED BY <2>1, <2>2, <2>3, <2>4, <2>5 DEF GoesOn
  <1>2. run[j][d].pc # "throwing"
    BY DEF GoesOn, MarkProcessing, StartWork, WorkEnds, WorkResolves, WorkRejects, MarkCompleted, MarkFailed
  <1> QED BY <1>1, <1>2, SetPcEffect

LEMMA ForgetsFrame ==
  ASSUME NEW w \in Workers, NEW j \in Jobs, Forgets(w, j),
         j \in processedJobs'[w] => j \in processedJobs[w],
         resolved[j] # {} => resolved'[j] # {},
         \A d \in Deliveries : Keeps(w, j, d) => Keeps(w, j, d)' \/ resolved'[j] # {}
  PROVE  Forgets(w, j)'
  BY DEF Forgets

LEMMA ForgetsStep ==
  ASSUME NoRejections, GuardAll, [Next]_vars, NEW w \in Workers, NEW i \in Jobs
  PROVE  Forgets(w, i)'
  <1>0. TypeInv /\ WorkAll /\ Forgets(w, i) /\ processedJobs \in [Workers -> SUBSET Jobs]
        /\ resolved \in [Jobs -> SUBSET Deliveries]
    BY DEF GuardAll, WorkAll, TypeInv, TypeOK
  <1>1. ASSUME UNCHANGED <<processedJobs, resolved>>,
               \A e \in Deliveries : /\ run'[i][e].worker = run[i][e].worker
                                     /\ run'[i][e].pc = run[i][e].pc
        PROVE  Forgets(w, i)'
    BY <1>0, <1>1, ForgetsFrame DEF Keeps
  <1>2. ASSUME NEW j \in Jobs,
               SubmitJob(j) \/ AddJob(j) \/ CrashInSubmit(j) \/ Promote(j) \/ LoseLock(j) \/ RecoverStalled(j)
        PROVE  Forgets(w, i)'
    BY <1>1, <1>2 DEF SubmitJob, AddJob, CrashInSubmit, Promote, LoseLock, RecoverStalled
  <1>3. ASSUME NEW j \in Jobs, NEW v \in Workers, Deliver(j, v) PROVE Forgets(w, i)'
    <2> DEFINE d == NextDelivery(j)
    <2>1. /\ d \in Deliveries
          /\ \A k \in Jobs, e \in Deliveries : k # j \/ e # d => run'[k][e] = run[k][e]
      BY <1>0, <1>3, DeliverEffect
    <2>2. run[j][d].pc = "none"
      BY <1>0, <1>3, <2>1, NumbersOf DEF GuardAll, Unused, Deliver
    <2> HIDE DEF d
    <2>3. \A e \in Deliveries : Keeps(w, i, e) => run'[i][e] = run[i][e]
      BY <2>1, <2>2 DEF Keeps, Live
    <2> QED BY <1>0, <1>3, <2>3, ForgetsFrame DEF Deliver, Keeps
  <1>4. ASSUME NEW j \in Jobs, NEW d \in Deliveries, GoesOn(j, d), ~AllowRetry(j, d) PROVE Forgets(w, i)'
    <2>1. /\ run[j][d].pc # "throwing" /\ run'[j][d].pc \in Live \ {"throwing"}
          /\ run'[j][d].worker = run[j][d].worker
          /\ \A k \in Jobs, e \in Deliveries : k # j \/ e # d => run'[k][e] = run[k][e]
      BY <1>0, <1>4, GuardMoves
    <2>2. \A e \in Deliveries : Keeps(w, i, e) => Keeps(w, i, e)'
      BY <2>1 DEF Keeps
    <2>3. resolved[i] # {} => resolved'[i] # {}
      BY <1>0, <1>4
      DEF GoesOn, MarkProcessing, StartWork, WorkEnds, WorkResolves, WorkRejects, MarkCompleted, MarkFailed
    <2>4. CASE StartWork(j, d)
      <3>1. CASE i = j /\ run[j][d].worker = w
        BY <2>1, <3>1 DEF Forgets, Keeps
      <3>2. CASE ~(i = j /\ run[j][d].worker = w)
        <4>1. i \in processedJobs'[w] => i \in processedJobs[w]
          BY <1>0, <2>4, <3>2 DEF StartWork
        <4> QED BY <1>0, <2>2, <2>3, <4>1, ForgetsFrame
      <3> QED BY <3>1, <3>2
    <2>5. CASE ~StartWork(j, d)
      <3>1. processedJobs' = processedJobs
        BY <1>4, <2>5 DEF GoesOn, MarkProcessing, WorkEnds, WorkResolves, WorkRejects, MarkCompleted, MarkFailed
      <3> QED BY <1>0, <2>2, <2>3, <3>1, ForgetsFrame
    <2> QED BY <2>4, <2>5
  <1>5. ASSUME NEW j \in Jobs, NEW d \in Deliveries, AllowRetry(j, d) PROVE Forgets(w, i)'
    <2>1. /\ run'[j][d].worker = run[j][d].worker
          /\ \A k \in Jobs, e \in Deliveries : k # j \/ e # d => run'[k][e] = run[k][e]
      <3>1. SetPc(j, d, "throwing") /\ "throwing" \in Live
        BY <1>5 DEF AllowRetry, SetPc, Live
      <3> QED BY <1>0, <3>1, SetPcEffect
    <2>2. processedJobs' = [processedJobs EXCEPT ![run[j][d].worker] = @ \ {j}] /\ resolved' = resolved
      BY <1>5 DEF AllowRetry
    <2>3. CASE i = j /\ run[j][d].worker = w
      BY <1>0, <2>2, <2>3 DEF Forgets
    <2>4. CASE ~(i = j /\ run[j][d].worker = w)
      <3>1. \A e \in Deliveries : Keeps(w, i, e) => Keeps(w, i, e)'
        BY <2>1, <2>4 DEF Keeps
      <3>2. i \in processedJobs'[w] => i \in processedJobs[w]
        BY <1>0, <2>2
      <3> QED BY <1>0, <2>2, <3>1, <3>2, ForgetsFrame
    <2> QED BY <2>3, <2>4
  <1>6. ASSUME NEW j \in Jobs, NEW d \in Deliveries, Return(j, d) \/ Throw(j, d) PROVE Forgets(w, i)'
    <2>1. /\ UNCHANGED <<processedJobs, resolved>>
          /\ \A k \in Jobs, e \in Deliveries : k # j \/ e # d => run'[k][e] = run[k][e]
      BY <1>0, <1>6, EndEffect DEF Return, Throw, SetRun
    <2>2. Return(j, d) => resolved[j] # {}
      BY <1>0 DEF Return, WorkAll, WorkInv
    <2>3. \A e \in Deliveries : Keeps(w, i, e) => Keeps(w, i, e)' \/ resolved'[i] # {}
      BY <1>6, <2>1, <2>2 DEF Keeps, Throw
    <2> QED BY <1>0, <2>1, <2>3, ForgetsFrame
  <1>7. ASSUME NEW j \in Jobs, NEW d \in Deliveries, Timeout(j, d) PROVE Forgets(w, i)'
    <2>1. \A e \in Deliveries : run'[i][e].worker = run[i][e].worker /\ run'[i][e].pc = run[i][e].pc
      BY <1>0, <1>7 DEF Timeout, TypeInv, TypeOK, Invocations
    <2> QED BY <1>1, <1>7, <2>1 DEF Timeout
  <1>8. ASSUME NEW v \in Workers, Crash(v) PROVE Forgets(w, i)'
    <2>1. CASE w = v
      BY <1>0, <1>8, <2>1 DEF Crash, Forgets
    <2>2. CASE w # v
      <3>1. \A e \in Deliveries : Keeps(w, i, e) => run'[i][e] = run[i][e]
        BY <1>8, <2>2 DEF Crash, Keeps
      <3> QED BY <1>0, <1>8, <2>2, <3>1, ForgetsFrame DEF Crash, Keeps
    <2> QED BY <2>1, <2>2
  <1>9. CASE UNCHANGED vars
    BY <1>1, <1>9 DEF vars
  <1> QED BY <1>2, <1>3, <1>4, <1>5, <1>6, <1>7, <1>8, <1>9 DEF Next, JobStep, HandlerStep, GoesOn

(* As long as no update of a row is rejected, crashes, lost locks and        *)
(* timeouts included, the guard of no instance holds a job whose work never  *)
(* resolved and that no handler there is running: its retry is not refused.  *)
THEOREM GuardNeverBlocksRetries ==
  ASSUME NoRejections PROVE Spec => []GuardForgetsFailures
  <1>1. GuardAll /\ [Next]_vars => GuardAll'
    BY UnusedStep, ForgetsStep, WorkStep DEF GuardAll, WorkAll
  <1>2. GuardAll => GuardForgetsFailures
    BY DEF GuardAll, Forgets, Keeps, GuardForgetsFailures, LiveRuns, WorkAll, TypeInv, TypeOK
  <1> QED BY <1>1, <1>2, GuardInit, PTL DEF Spec

-----------------------------------------------------------------------------
(* With "redis" and "db" only, the pipeline implements JobLifecycle.  The    *)
(* row says PROCESSING as long as the one live handler works.                *)

InProgress == {"marked", "executing", "completing"}

LifeInv(j) ==
  /\ row[j].status = Absent <=> submit[j] = "idle"
  /\ \A d \in Deliveries : run[j][d].pc \in InProgress => row[j].status = PROCESSING

LifeAll == FinalAll /\ WorkAll /\ \A j \in Jobs : LifeInv(j)

WorkedOn(j) == \E d \in Deliveries : run[j][d].pc = "completing"

(* What a handler that goes on does to its row, and to its result.           *)
LEMMA GoesOnKinds ==
  ASSUME OnlyCleanFaults, LifeAll, NEW j \in Jobs, NEW d \in Deliveries, GoesOn(j, d)
  PROVE  /\ submit' = submit
         /\ \A i \in Jobs : i # j => row'[i] = row[i]
         /\ \A i \in Jobs, e \in Deliveries : i # j \/ e # d => run'[i][e] = run[i][e]
         /\ \/ /\ row'[j] = row[j] /\ run[j][d].pc # "completing"
               /\ run'[j][d].pc \notin {"marked", "completing"}
               /\ run'[j][d].pc = "executing" => run[j][d].pc = "marked"
            \/ run[j][d].pc = "marking" /\ run'[j][d].pc = "marked" /\ row'[j].status = PROCESSING
            \/ run[j][d].pc = "executing" /\ run'[j][d].pc = "completing" /\ row'[j] = row[j]
            \/ run[j][d].pc = "completing" /\ run'[j][d].pc = "completed" /\ row'[j].status = COMPLETED
            \/ run[j][d].pc = "completing" /\ run'[j][d].pc = "failing" /\ row'[j] = row[j]
            \/ run[j][d].pc = "failing" /\ run'[j][d].pc = "failed" /\ row'[j].status = FAILED
  <1>0. TypeInv /\ "ack" \notin Faults
    BY DEF LifeAll, WorkAll, OnlyCleanFaults
  <1>1. CASE MarkProcessing(j, d)
    <2>1. /\ \A i \in Jobs : i # j => row'[i] = row[i]
          /\ \A i \in Jobs, e \in Deliveries : i # j \/ e # d => run'[i][e] = run[i][e]
          /\ \/ row'[j].status = PROCESSING /\ run'[j][d].pc = "marked"
             \/ row'[j] = row[j] /\ run'[j][d].pc = "failing"
      BY <1>0, <1>1, AwaitUpdateEffect DEF MarkProcessing, Live
    <2> QED BY <1>1, <2>1 DEF MarkProcessing
  <1>2. CASE MarkCompleted(j, d)
    <2>1. /\ \A i \in Jobs : i # j => row'[i] = row[i]
          /\ \A i \in Jobs, e \in Deliveries : i # j \/ e # d => run'[i][e] = run[i][e]
          /\ \/ row'[j].status = COMPLETED /\ run'[j][d].pc = "completed"
             \/ row'[j] = row[j] /\ run'[j][d].pc = "failing"
      BY <1>0, <1>2, AwaitUpdateEffect DEF MarkCompleted, Live
    <2> QED BY <1>2, <2>1 DEF MarkCompleted
  <1>3. CASE MarkFailed(j, d)
    <2>1. /\ \A i \in Jobs : i # j => row'[i] = row[i]
          /\ \A i \in Jobs, e \in Deliveries : i # j \/ e # d => run'[i][e] = run[i][e]
          /\ \/ row'[j].status = FAILED /\ run'[j][d].pc = "failed"
             \/ row'[j] = row[j] /\ run'[j][d].pc = "throwing"
      BY <1>0, <1>3, AwaitUpdateEffect DEF MarkFailed, Live
    <2> QED BY <1>3, <2>1 DEF MarkFailed
  <1>4. CASE StartWork(j, d)
    <2>1. SetPc(j, d, "failing") \/ SetPc(j, d, "executing")
      BY <1>4 DEF StartWork, SetPc
    <2> QED BY <1>0, <1>4, <2>1, SetPcEffect DEF StartWork, Live
  <1>5. CASE WorkEnds(j, d)
    <2>1. SetPc(j, d, "completing") \/ SetPc(j, d, "failing")
      BY <1>5 DEF WorkEnds, WorkResolves, WorkRejects, SetPc
    <2> QED BY <1>0, <1>5, <2>1, SetPcEffect DEF WorkEnds, WorkResolves, WorkRejects, Live
  <1>6. CASE AllowRetry(j, d)
    <2>1. SetPc(j, d, "throwing")
      BY <1>6 DEF AllowRetry, SetPc
    <2> QED BY <1>0, <1>6, <2>1, SetPcEffect DEF AllowRetry, Live
  <1> QED BY <1>1, <1>2, <1>3, <1>4, <1>5, <1>6 DEF GoesOn

(* Every other step leaves the rows and the results alone, but submitJob.    *)
LEMMA QuietSteps ==
  ASSUME OnlyCleanFaults, LifeAll, [Next]_vars,
         ~\E j \in Jobs : SubmitJob(j) \/ \E d \in Deliveries : GoesOn(j, d)
  PROVE  /\ row' = row
         /\ \A i \in Jobs : submit'[i] = "idle" <=> submit[i] = "idle"
         /\ \A i \in Jobs, e \in Deliveries :
              \/ run'[i][e].pc = run[i][e].pc
              \/ {run[i][e].pc, run'[i][e].pc} \cap InProgress = {}
  <1> USE DEF InProgress
  <1>0. TypeInv /\ submit \in [Jobs -> {"idle", "saved", "answered", "lost"}]
    BY DEF LifeAll, WorkAll, TypeInv, TypeOK
  <1>1. CASE UNCHANGED vars
    BY <1>1 DEF vars
  <1>2. ASSUME NEW w \in Workers, Crash(w) PROVE FALSE
    BY <1>2 DEF OnlyCleanFaults, Crash
  <1>3. ASSUME NEW j \in Jobs, AddJob(j) \/ CrashInSubmit(j) \/ Promote(j) \/ LoseLock(j) \/ RecoverStalled(j)
        PROVE  row' = row /\ run' = run /\ \A i \in Jobs : submit'[i] = "idle" <=> submit[i] = "idle"
    BY <1>0, <1>3 DEF AddJob, CrashInSubmit, Promote, LoseLock, RecoverStalled
  <1>4. ASSUME NEW j \in Jobs, NEW w \in Workers, Deliver(j, w)
        PROVE  /\ row' = row /\ submit' = submit
               /\ \A i \in Jobs, e \in Deliveries :
                    \/ run'[i][e].pc = run[i][e].pc
                    \/ {run[i][e].pc, run'[i][e].pc} \cap InProgress = {}
    <2> DEFINE d == NextDelivery(j)
    <2>1. /\ d \in Deliveries /\ run'[j][d].pc \in {"failing", "marking"} /\ bull[j].token = NoToken
          /\ \A i \in Jobs, e \in Deliveries : i # j \/ e # d => run'[i][e] = run[i][e]
      BY <1>0, <1>4, DeliverEffect
    <2>2. run[j][d].pc \notin Live
      BY <2>1 DEF LifeAll, FinalAll, LockAll, LockInv, Deliveries, NoToken
    <2> HIDE DEF d
    <2>3. \A i \in Jobs, e \in Deliveries :
            \/ run'[i][e].pc = run[i][e].pc
            \/ {run[i][e].pc, run'[i][e].pc} \cap InProgress = {}
      BY <2>1, <2>2 DEF Live
    <2> QED BY <1>4, <2>3 DEF Deliver
  <1>5. ASSUME NEW j \in Jobs, NEW d \in Deliveries, Timeout(j, d) PROVE FALSE
    BY <1>5 DEF Timeout, OnlyCleanFaults, LocksKept
  <1>6. ASSUME NEW j \in Jobs, NEW d \in Deliveries, Return(j, d) \/ Throw(j, d)
        PROVE  /\ row' = row /\ submit' = submit
               /\ \A i \in Jobs, e \in Deliveries :
                    \/ run'[i][e].pc = run[i][e].pc
                    \/ {run[i][e].pc, run'[i][e].pc} \cap InProgress = {}
    <2>1. /\ run'[j][d].pc = "ended" /\ run[j][d].pc \in {"completed", "throwing"}
          /\ \A i \in Jobs, e \in Deliveries : i # j \/ e # d => run'[i][e] = run[i][e]
      BY <1>0, <1>6, EndEffect DEF Return, Throw, SetRun
    <2> QED BY <1>6, <2>1 DEF Return, Throw
  <1> QED BY <1>1, <1>2, <1>3, <1>4, <1>5, <1>6 DEF Next, JobStep, HandlerStep, GoesOn

LEMMA SubmitEffect ==
  ASSUME TypeInv, NEW j \in Jobs, SubmitJob(j)
  PROVE  /\ submit[j] = "idle" /\ submit'[j] = "saved" /\ row'[j].status = PENDING /\ run' = run
         /\ \A i \in Jobs : i # j => row'[i] = row[i] /\ submit'[i] = submit[i]
  BY RecordTypes DEF SubmitJob, TypeInv, TypeOK, Rows

LEMMA LifeStep ==
  ASSUME OnlyCleanFaults, LifeAll, [Next]_vars
  PROVE  LifeAll'
  <1> USE DEF Absent, PENDING, PROCESSING, COMPLETED, FAILED, InProgress
  <1>0. FinalAll' /\ WorkAll'
    BY FinalStep, WorkStep DEF LifeAll
  <1>1. ASSUME NEW j \in Jobs, SubmitJob(j) PROVE \A i \in Jobs : LifeInv(i)'
    <2>1. /\ submit[j] = "idle" /\ submit'[j] = "saved" /\ row'[j].status = PENDING /\ run' = run
          /\ \A i \in Jobs : i # j => row'[i] = row[i] /\ submit'[i] = submit[i]
      BY <1>1, SubmitEffect DEF LifeAll, WorkAll
    <2>2. \A d \in Deliveries : run[j][d].pc \notin InProgress
      BY <2>1 DEF LifeAll, LifeInv
    <2>3. LifeInv(j)'
      BY <2>1, <2>2 DEF LifeInv
    <2>4. \A i \in Jobs : i # j => LifeInv(i)'
      BY <2>1 DEF LifeAll, LifeInv
    <2> QED BY <2>3, <2>4
  <1>2. ASSUME NEW j \in Jobs, NEW d \in Deliveries, GoesOn(j, d) PROVE \A i \in Jobs : LifeInv(i)'
    <2>1. \A i \in Jobs : i # j => LifeInv(i)'
      BY <1>2, GoesOnKinds DEF LifeAll, LifeInv
    <2>2. run[j][d].pc \in Live /\ \A e \in Deliveries : e # d => run[j][e].pc \notin Live
      BY <1>2, GoesOnEffect DEF LifeAll, FinalAll, LockAll, LockInv
    <2>3. row[j].status # Absent /\ submit[j] # "idle"
      BY <2>2 DEF LifeAll, LifeInv, WorkAll, WorkInv, TypeInv, CountersInRange, Live
    <2>4. \A e \in Deliveries : e # d => run'[j][e].pc \notin Live
      BY <1>2, <2>2, GoesOnKinds
    <2>5. LifeInv(j)'
      BY <1>2, <2>3, <2>4, GoesOnKinds DEF LifeAll, LifeInv, Live
    <2> QED BY <2>1, <2>5
  <1>3. ASSUME ~\E j \in Jobs : SubmitJob(j) \/ \E d \in Deliveries : GoesOn(j, d)
        PROVE  \A i \in Jobs : LifeInv(i)'
    BY <1>3, QuietSteps DEF LifeAll, LifeInv
  <1> QED BY <1>0, <1>1, <1>2, <1>3 DEF LifeAll

(* The mapped variables after a step of job j.                               *)
Status == [j \in Jobs |-> row[j].status]
Worked == [j \in Jobs |-> \E d \in Deliveries : run[j][d].pc = "completing"]

LEMMA StatusMaps ==
  ASSUME NEW j \in Jobs, \A i \in Jobs : i # j => row'[i] = row[i]
  PROVE  /\ Status' = [Status EXCEPT ![j] = row'[j].status]
         /\ row'[j] = row[j] => Status' = Status
         /\ Status[j] = row[j].status
  BY DEF Status

LEMMA WorkedMaps ==
  ASSUME NEW j \in Jobs, \A i \in Jobs, e \in Deliveries : i # j => run'[i][e] = run[i][e]
  PROVE  /\ WorkedOn(j)' => Worked' = [Worked EXCEPT ![j] = TRUE]
         /\ ~WorkedOn(j)' => Worked' = [Worked EXCEPT ![j] = FALSE]
         /\ (WorkedOn(j)' <=> WorkedOn(j)) => Worked' = Worked
         /\ Worked[j] <=> WorkedOn(j)
  BY DEF Worked, WorkedOn

LEMMA SubmitImplements ==
  ASSUME LifeAll, NEW j \in Jobs, SubmitJob(j)
  PROVE  Lifecycle!Submit(j)
  <1>1. /\ submit[j] = "idle" /\ row'[j].status = "pending" /\ run' = run
        /\ \A i \in Jobs : i # j => row'[i] = row[i]
    BY SubmitEffect DEF LifeAll, WorkAll, PENDING
  <1>2. Status[j] = "absent" /\ Status' = [Status EXCEPT ![j] = "pending"]
    BY <1>1, StatusMaps DEF LifeAll, LifeInv, Absent
  <1>3. Worked' = Worked
    BY <1>1 DEF Worked
  <1> QED BY <1>2, <1>3 DEF Lifecycle!Submit, Status, Worked

LEMMA HandlerImplements ==
  ASSUME OnlyCleanFaults, LifeAll, NEW j \in Jobs, NEW d \in Deliveries, GoesOn(j, d)
  PROVE  Lifecycle!Next \/ UNCHANGED Lifecycle!vars
  <1> USE DEF Absent, PENDING, PROCESSING, COMPLETED, FAILED, InProgress
  <1>0. /\ \A i \in Jobs : i # j => row'[i] = row[i]
        /\ \A i \in Jobs, e \in Deliveries : i # j \/ e # d => run'[i][e] = run[i][e]
    BY GoesOnKinds
  <1>1. run[j][d].pc \in Live /\ \A e \in Deliveries : e # d => run[j][e].pc \notin Live
    BY GoesOnEffect DEF LifeAll, FinalAll, LockAll, LockInv
  <1>2. /\ WorkedOn(j) <=> run[j][d].pc = "completing"
        /\ WorkedOn(j)' <=> run'[j][d].pc = "completing"
    <2>1. \A e \in Deliveries : e # d => run[j][e].pc # "completing" /\ run'[j][e].pc # "completing"
      BY <1>0, <1>1 DEF Live
    <2> QED BY <2>1 DEF WorkedOn
  <1>3. run[j][d].pc # "completed" => row[j].status \in {"pending", "processing", "failed"}
    <2>1. row[j] \in Rows
      BY RecordTypes DEF LifeAll, WorkAll
    <2>2. row[j].status # Absent
      BY <1>1 DEF LifeAll, LifeInv, WorkAll, WorkInv, TypeInv, CountersInRange, Live
    <2>3. run[j][d].pc # "completed" => row[j].status # COMPLETED
      BY <1>1, LiveMeansOpen DEF LifeAll
    <2> QED BY <2>1, <2>2, <2>3 DEF Rows
  <1>4. Status[j] = row[j].status /\ (Worked[j] <=> run[j][d].pc = "completing")
    BY <1>0, <1>2, StatusMaps, WorkedMaps
  <1>5. CASE /\ row'[j] = row[j]
             /\ run[j][d].pc # "completing" /\ run'[j][d].pc \notin {"marked", "completing"}
    <2>1. Status' = Status /\ Worked' = Worked
      BY <1>0, <1>2, <1>5, StatusMaps, WorkedMaps
    <2> QED BY <2>1 DEF Lifecycle!vars, Status, Worked
  <1>6. CASE run[j][d].pc = "marking" /\ run'[j][d].pc = "marked" /\ row'[j].status = PROCESSING
    <2>1. Status' = [Status EXCEPT ![j] = "processing"] /\ Worked' = Worked /\ ~Worked[j]
      BY <1>0, <1>2, <1>4, <1>6, StatusMaps, WorkedMaps
    <2>2. Lifecycle!Start(j)
      BY <1>3, <1>4, <1>6, <2>1 DEF Lifecycle!Start, Status, Worked
    <2> QED BY <2>2 DEF Lifecycle!Next
  <1>7. CASE run[j][d].pc = "executing" /\ run'[j][d].pc = "completing" /\ row'[j] = row[j]
    <2>1. Status' = Status /\ Worked' = [Worked EXCEPT ![j] = TRUE] /\ ~Worked[j]
      BY <1>0, <1>2, <1>4, <1>7, StatusMaps, WorkedMaps
    <2>2. Status[j] = "processing"
      BY <1>4, <1>7 DEF LifeAll, LifeInv
    <2>3. Lifecycle!Work(j)
      BY <2>1, <2>2 DEF Lifecycle!Work, Status, Worked
    <2> QED BY <2>3 DEF Lifecycle!Next
  <1>8. CASE run[j][d].pc = "completing" /\ run'[j][d].pc = "completed" /\ row'[j].status = COMPLETED
    <2>1. Status' = [Status EXCEPT ![j] = "completed"] /\ Worked' = [Worked EXCEPT ![j] = FALSE] /\ Worked[j]
      BY <1>0, <1>2, <1>4, <1>8, StatusMaps, WorkedMaps
    <2>2. Lifecycle!Succeed(j)
      BY <2>1 DEF Lifecycle!Succeed, Status, Worked
    <2> QED BY <2>2 DEF Lifecycle!Next
  <1>9. CASE run[j][d].pc = "completing" /\ run'[j][d].pc = "failing" /\ row'[j] = row[j]
    <2>1. Status' = Status /\ Worked' = [Worked EXCEPT ![j] = FALSE] /\ Worked[j]
      BY <1>0, <1>2, <1>4, <1>9, StatusMaps, WorkedMaps
    <2>2. Lifecycle!Discard(j)
      BY <2>1 DEF Lifecycle!Discard, Status, Worked
    <2> QED BY <2>2 DEF Lifecycle!Next
  <1>10. CASE run[j][d].pc = "failing" /\ run'[j][d].pc = "failed" /\ row'[j].status = FAILED
    <2>1. Status' = [Status EXCEPT ![j] = "failed"] /\ Worked' = Worked /\ ~Worked[j]
      BY <1>0, <1>2, <1>4, <1>10, StatusMaps, WorkedMaps
    <2>2. Lifecycle!Fail(j)
      BY <1>3, <1>4, <1>10, <2>1 DEF Lifecycle!Fail, Status, Worked
    <2> QED BY <2>2 DEF Lifecycle!Next
  <1> QED BY <1>5, <1>6, <1>7, <1>8, <1>9, <1>10, GoesOnKinds

LEMMA LifecycleStep ==
  ASSUME OnlyCleanFaults, LifeAll, [Next]_vars
  PROVE  [Lifecycle!Next]_(Lifecycle!vars)
  <1>1. ASSUME NEW j \in Jobs, SubmitJob(j) PROVE Lifecycle!Next
    BY <1>1, SubmitImplements DEF Lifecycle!Next
  <1>2. ASSUME NEW j \in Jobs, NEW d \in Deliveries, GoesOn(j, d)
        PROVE  Lifecycle!Next \/ UNCHANGED Lifecycle!vars
    BY <1>2, HandlerImplements
  <1>3. CASE ~\E j \in Jobs : SubmitJob(j) \/ \E d \in Deliveries : GoesOn(j, d)
    <2>1. Status' = Status
      BY <1>3, QuietSteps DEF Status
    <2>2. \A j \in Jobs, e \in Deliveries : run'[j][e].pc = "completing" <=> run[j][e].pc = "completing"
      BY <1>3, QuietSteps DEF InProgress
    <2>3. Worked' = Worked
      <3>1. Worked' = [j \in Jobs |-> \E e \in Deliveries : run'[j][e].pc = "completing"]
        BY DEF Worked
      <3>2. \A j \in Jobs : (\E e \in Deliveries : run'[j][e].pc = "completing")
                             = (\E e \in Deliveries : run[j][e].pc = "completing")
        BY <2>2
      <3> QED BY <3>1, <3>2 DEF Worked
    <2> QED BY <2>1, <2>3 DEF Lifecycle!vars, Status, Worked
  <1> QED BY <1>1, <1>2, <1>3

(* ImplementsLifecycle: if the only faults are a queue or a database that    *)
(* rejects, the handlers, redeliveries and retries of any number of workers  *)
(* do to the status of a job what the atomic operations of JobLifecycle may. *)
THEOREM PipelineRefinesLifecycle ==
  ASSUME OnlyCleanFaults PROVE Spec => ImplementsLifecycle
  <1>1. Init => LifeAll
    <2>1. ASSUME Init, NEW j \in Jobs PROVE LifeInv(j)
      <3>1. row[j].status = Absent /\ submit[j] = "idle"
        BY <2>1 DEF Init
      <3>2. \A d \in Deliveries : run[j][d].pc = "none"
        BY <2>1 DEF Init, Idle
      <3> QED BY <3>1, <3>2 DEF LifeInv, InProgress
    <2> QED BY <2>1, TypeInit, LockInit, FinalInit, WorkInit DEF LifeAll, FinalAll, LockAll, WorkAll
  <1>2. LifeAll /\ [Next]_vars => LifeAll' /\ [Lifecycle!Next]_(Lifecycle!vars)
    BY LifeStep, LifecycleStep
  <1>3. Init => Lifecycle!Init
    BY DEF Init, Lifecycle!Init, Absent, Idle
  <1> QED BY <1>1, <1>2, <1>3, PTL DEF Spec, ImplementsLifecycle, Lifecycle!Spec
=============================================================================
