---------------------------- MODULE JobLifecycle ---------------------------
(* What the jobs API promises of the status it reports (JobStatus and        *)
(* JobService): a submission is pending, is processed by one worker at a     *)
(* time, possibly again after a failure, and once completed it is final,     *)
(* with a result the processing attempt under way produced.                  *)
CONSTANT Jobs

VARIABLES status,   \* the status the client is shown
          worked    \* the attempt under way has a result it has not reported

vars == <<status, worked>>

Init ==
  /\ status = [j \in Jobs |-> "absent"]
  /\ worked = [j \in Jobs |-> FALSE]

Submit(j) ==
  /\ status[j] = "absent"
  /\ status' = [status EXCEPT ![j] = "pending"]
  /\ UNCHANGED worked

(* First attempt, retry of a failed one, or of one whose failure could not   *)
(* be reported.                                                              *)
Start(j) ==
  /\ status[j] \in {"pending", "processing", "failed"}
  /\ ~worked[j]
  /\ status' = [status EXCEPT ![j] = "processing"]
  /\ UNCHANGED worked

Work(j) ==
  /\ status[j] = "processing"
  /\ ~worked[j]
  /\ worked' = [worked EXCEPT ![j] = TRUE]
  /\ UNCHANGED status

Succeed(j) ==
  /\ worked[j]
  /\ status' = [status EXCEPT ![j] = "completed"]
  /\ worked' = [worked EXCEPT ![j] = FALSE]

Fail(j) ==
  /\ status[j] \in {"pending", "processing", "failed"}
  /\ ~worked[j]
  /\ status' = [status EXCEPT ![j] = "failed"]
  /\ UNCHANGED worked

(* The result is given up: it could not be stored.                           *)
Discard(j) ==
  /\ worked[j]
  /\ worked' = [worked EXCEPT ![j] = FALSE]
  /\ UNCHANGED status

Next == \E j \in Jobs : \/ Submit(j) \/ Start(j) \/ Work(j)
                        \/ Succeed(j) \/ Fail(j) \/ Discard(j)

Spec == Init /\ [][Next]_vars
=============================================================================
