------------------------------ MODULE EvalJobs ------------------------------
(***************************************************************************)
(* What the evaluation queue promises about one EvalJob row, without the   *)
(* slots, the messages, the threads and the pairs (eval/models.py):        *)
(*   - a contest never has two active jobs;                                *)
(*   - a job is queued, then running, then final; it is cancelled from     *)
(*     either, and it is done or failed only after it ran;                 *)
(*   - an orchestrator claims a job only while the job is active, and only *)
(*     its claim can change the status of a job that is already final: the *)
(*     code's two UPDATEs without a condition (running at the start of the *)
(*     actor, failed in its handler) override a cancellation that arrives  *)
(*     between the claim and the UPDATE.                                   *)
(***************************************************************************)
EXTENDS Naturals

CONSTANTS Contests, NoContest, MaxJobs

Jobs == 1 .. MaxJobs
ActiveStatus == {"queued", "running"}
FinalStatus == {"done", "failed", "cancelled"}

VARIABLES
  created,   \* number of jobs
  status,    \* status of each job
  contest,   \* contest of each job
  claimed    \* jobs that an orchestrator works on

vars == <<created, status, contest, claimed>>

Active(j) == status[j] \in ActiveStatus

Init ==
  /\ created = 0
  /\ status = [j \in Jobs |-> "none"]
  /\ contest = [j \in Jobs |-> NoContest]
  /\ claimed = {}

Enqueue(c) ==
  /\ created < MaxJobs
  /\ \A j \in Jobs : contest[j] = c => ~Active(j)
  /\ created' = created + 1
  /\ status' = [status EXCEPT ![created'] = "queued"]
  /\ contest' = [contest EXCEPT ![created'] = c]
  /\ UNCHANGED claimed

Become(j, s) == status' = [status EXCEPT ![j] = s] /\ UNCHANGED <<created, contest>>

Admit(j) == status[j] = "queued" /\ Become(j, "running") /\ UNCHANGED claimed

Cancel(j) == Active(j) /\ Become(j, "cancelled") /\ UNCHANGED claimed

\* The work of a running job ends, with success or not.
Settle(j) ==
  /\ status[j] = "running"
  /\ \E s \in {"done", "failed"} : Become(j, s)
  /\ UNCHANGED claimed

Claim(j) ==
  /\ status[j] = "running"
  /\ claimed' = claimed \cup {j}
  /\ UNCHANGED <<created, status, contest>>

Release(j) ==
  /\ claimed' = claimed \ {j}
  /\ UNCHANGED <<created, status, contest>>

\* The claim takes a final job back, unless its contest has a new job.
Resume(j) ==
  /\ j \in claimed
  /\ \A k \in Jobs \ {j} : contest[k] = contest[j] => ~Active(k)
  /\ Become(j, "running")
  /\ UNCHANGED claimed

\* The claim ends in an error, whatever became of the job meanwhile.
Abort(j) ==
  /\ j \in claimed
  /\ Become(j, "failed")
  /\ claimed' \in {claimed, claimed \ {j}}

Next ==
  \/ \E c \in Contests : Enqueue(c)
  \/ \E j \in Jobs : \/ Admit(j) \/ Cancel(j) \/ Settle(j) \/ Claim(j)
                     \/ Release(j) \/ Resume(j) \/ Abort(j)

Spec == Init /\ [][Next]_vars
=============================================================================
