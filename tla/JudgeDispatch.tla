---------------------------- MODULE JudgeDispatch ----------------------------
(***************************************************************************)
(* Dispatching submissions to judge servers: judge/dispatcher.py with its  *)
(* callers (the submission view, the judge_task actor, the rejudge view)   *)
(* and the judge server registry of conf/ (heartbeats, disabling,          *)
(* deleting).                                                              *)
(*                                                                         *)
(* A thread is a web request or a dramatiq worker thread; its steps are    *)
(* its transactions, its calls of Redis and of the judge server.  What a   *)
(* judgement adds to statistics and ranks is one step here (Account).      *)
(***************************************************************************)
EXTENDS Integers, Sequences, FiniteSets

CONSTANTS
  Subs,        \* submissions
  Threads,     \* bound: threads at work at a time
  Servers,     \* hostnames of judge servers
  None,        \* no submission, no server
  Cores,       \* cpu_core of every judge server
  MaxRejudges, \* bound: rejudge requests
  MaxAdmin,    \* bound: servers disabled or deleted, heartbeats that stop
  MaxFaults    \* bound: crashes and exceptions

ASSUME NoneAssumption == None \notin Subs \cup Servers
ASSUME ThreadAssumption == IsFiniteSet(Threads)
ASSUME BoundAssumption ==
  Cores \in Nat \ {0} /\ MaxRejudges \in Nat /\ MaxAdmin \in Nat /\ MaxFaults \in Nat

Waits == {"pending", "judging"}
Verdicts == {"judged"}   \* a result other than SYSTEM_ERROR
ThreadPc == {"idle", "choose", "enqueue", "mark", "request", "error", "save",
             "account", "next", "send", "ack", "rejudge", "resend"}

VARIABLES
  result,     \* Submission.result, "none" before the row exists
  disabled,   \* User.is_disabled of a submission's author
  queue,      \* waiting_queue in Redis: pushed in front, popped at the end
  broker,     \* number of judge_task messages of a submission
  pc,         \* where a thread stands
  sub,        \* the submission it works on
  server,     \* the judge server whose task_number it raised
  verdict,    \* the answer, or the stale result that a rejudge writes back
  msg,        \* the submission of the judge_task message it runs
  known,      \* hostnames with a JudgeServer row
  fresh,      \* those with a heartbeat in the last 6 seconds
  off,        \* JudgeServer.is_disabled
  load,       \* JudgeServer.task_number
  rejudges, admin, faults,  \* how many so far
  leaked,     \* history: raises of task_number by threads that died
  extra,      \* history: messages of a submission sent again
  lost        \* history: submissions whose judgement was lost

rows == <<result, disabled>>
queues == <<queue, broker>>
threadVars == <<pc, sub, server, verdict, msg>>
registry == <<known, fresh, off, load, leaked>>
bounds == <<rejudges, admin, faults>>
history == <<extra, lost>>
vars == <<rows, queues, threadVars, registry, bounds, history>>

-----------------------------------------------------------------------------

Init ==
  /\ result = [s \in Subs |-> "none"] /\ disabled = {}
  /\ queue = <<>> /\ broker = [s \in Subs |-> 0]
  /\ pc = [t \in Threads |-> "idle"] /\ sub = [t \in Threads |-> None]
  /\ server = [t \in Threads |-> None] /\ verdict = [t \in Threads |-> "none"]
  /\ msg = [t \in Threads |-> None]
  /\ known = {} /\ fresh = {} /\ off = {} /\ load = [v \in Servers |-> 0]
  /\ rejudges = 0 /\ admin = 0 /\ faults = 0
  /\ leaked = [v \in Servers |-> 0]
  /\ extra = [s \in Subs |-> 0] /\ lost = {}

Goto(t, p) == pc' = [pc EXCEPT ![t] = p]

Clear(t) ==
  /\ sub' = [sub EXCEPT ![t] = None]
  /\ server' = [server EXCEPT ![t] = None]
  /\ verdict' = [verdict EXCEPT ![t] = "none"]

\* The thread ends ...
End(t) == Goto(t, "idle") /\ Clear(t) /\ msg' = [msg EXCEPT ![t] = None]

\* ... or, in a worker, comes back from judge_task.
Finish(t) == Goto(t, IF msg[t] = None THEN "idle" ELSE "ack") /\ Clear(t) /\ UNCHANGED msg

-----------------------------------------------------------------------------
(* Where judgements begin.                                                 *)

\* SubmissionAPI.post stores the submission and judges it in the request.
Submit(t, s) ==
  /\ pc[t] = "idle" /\ result[s] = "none"
  /\ result' = [result EXCEPT ![s] = "pending"]
  /\ sub' = [sub EXCEPT ![t] = s] /\ Goto(t, "choose")
  /\ UNCHANGED <<disabled, queues, server, verdict, msg, registry, bounds, history>>

\* judge_task drops the submission of a disabled user.
Deliver(t, s) ==
  /\ pc[t] = "idle" /\ broker[s] > 0
  /\ broker' = [broker EXCEPT ![s] = @ - 1]
  /\ \/ /\ s \in disabled
        /\ lost' = lost \cup {s}
        /\ UNCHANGED threadVars
     \/ /\ s \notin disabled
        /\ sub' = [sub EXCEPT ![t] = s] /\ Goto(t, "choose")
        /\ msg' = [msg EXCEPT ![t] = s]
        /\ UNCHANGED <<server, verdict, lost>>
  /\ UNCHANGED <<rows, queue, registry, bounds, extra>>

\* SubmissionRejudgeAPI reads the row, ...
ReadRejudge(t, s) ==
  /\ pc[t] = "idle" /\ result[s] # "none" /\ rejudges < MaxRejudges
  /\ rejudges' = rejudges + 1
  /\ verdict' = [verdict EXCEPT ![t] = result[s]]
  /\ sub' = [sub EXCEPT ![t] = s] /\ Goto(t, "rejudge")
  /\ UNCHANGED <<rows, queues, server, msg, registry, admin, faults, history>>

\* ... saves every field of it ...
SaveRejudge(t) ==
  /\ pc[t] = "rejudge"
  /\ result' = [result EXCEPT ![sub[t]] = verdict[t]]
  /\ Goto(t, "resend")
  /\ UNCHANGED <<disabled, queues, sub, server, verdict, msg, registry, bounds, history>>

\* ... and sends a message.
SendRejudge(t) ==
  /\ pc[t] = "resend"
  /\ broker' = [broker EXCEPT ![sub[t]] = @ + 1]
  /\ extra' = [extra EXCEPT ![sub[t]] = @ + 1]
  /\ End(t)
  /\ UNCHANGED <<rows, queue, registry, bounds, lost>>

\* An administrator disables an author (account/views/admin.py).
DisableUser(s) ==
  /\ admin < MaxAdmin /\ admin' = admin + 1
  /\ s \notin disabled /\ disabled' = disabled \cup {s}
  /\ UNCHANGED <<result, queues, threadVars, registry, rejudges, faults, history>>

-----------------------------------------------------------------------------
(* JudgeDispatcher.judge.                                                  *)

Usable == {v \in known : v \in fresh /\ v \notin off /\ load[v] <= Cores * 2}

\* ChooseJudgeServer.__enter__: the usable server with the lowest task_number.
Choose(t) ==
  /\ pc[t] = "choose"
  /\ \/ Usable = {} /\ Goto(t, "enqueue") /\ UNCHANGED <<server, load>>
     \/ \E v \in Usable :
          /\ \A w \in Usable : load[v] <= load[w]
          /\ load' = [load EXCEPT ![v] = @ + 1]
          /\ server' = [server EXCEPT ![t] = v]
          /\ Goto(t, "mark")
  /\ UNCHANGED <<rows, queues, sub, verdict, msg, known, fresh, off, leaked, bounds, history>>

\* Mutant: The waiting queue holds what was enqueued last.
EnqueueOverwrites(t) ==
  /\ pc[t] = "enqueue"
  /\ queue' = <<sub[t]>>
  /\ Finish(t)
  /\ UNCHANGED <<rows, broker, registry, bounds, history>>

Enqueue(t) ==
  /\ pc[t] = "enqueue"
  /\ queue' = <<sub[t]>> \o queue
  /\ Finish(t)
  /\ UNCHANGED <<rows, broker, registry, bounds, history>>

Mark(t) ==
  /\ pc[t] = "mark"
  /\ result' = [result EXCEPT ![sub[t]] = "judging"]
  /\ Goto(t, "request")
  /\ UNCHANGED <<disabled, queues, sub, server, verdict, msg, registry, bounds, history>>

\* ChooseJudgeServer.__exit__; the row may have been deleted meanwhile.
LeaveServer(t) ==
  /\ server' = [server EXCEPT ![t] = None]
  /\ load' = IF server[t] = None THEN load ELSE [load EXCEPT ![server[t]] = @ - 1]

\* The judge server answers with a verdict, or the call fails ("none").
Respond(t, r) ==
  /\ pc[t] = "request"
  /\ LeaveServer(t)
  /\ verdict' = [verdict EXCEPT ![t] = r]
  /\ Goto(t, IF r = "none" THEN "error" ELSE "save")
  /\ UNCHANGED <<rows, queues, sub, msg, known, fresh, off, leaked, bounds, history>>

\* A failed call ends here: the waiting queue is not looked at.
SystemError(t) ==
  /\ pc[t] = "error"
  /\ result' = [result EXCEPT ![sub[t]] = "system_error"]
  /\ Finish(t)
  /\ UNCHANGED <<disabled, queues, registry, bounds, history>>

Save(t) ==
  /\ pc[t] = "save"
  /\ result' = [result EXCEPT ![sub[t]] = verdict[t]]
  /\ Goto(t, "account")
  /\ UNCHANGED <<disabled, queues, sub, server, verdict, msg, registry, bounds, history>>

\* The statistics; in the debug mode of a contest there are none, and judge
\* returns without a look at the waiting queue.
Account(t) ==
  /\ pc[t] = "account"
  /\ Clear(t)
  /\ UNCHANGED msg
  /\ \/ Goto(t, "next")
     \/ Goto(t, IF msg[t] = None THEN "idle" ELSE "ack")
  /\ UNCHANGED <<rows, queues, registry, bounds, history>>

-----------------------------------------------------------------------------
(* process_pending_task.                                                   *)

\* Mutant: The oldest submission is read and stays in the queue.
PopWithoutRemoving(t) ==
  /\ pc[t] = "next"
  /\ \/ queue = <<>> /\ Finish(t)
     \/ /\ queue # <<>>
        /\ sub' = [sub EXCEPT ![t] = queue[Len(queue)]]
        /\ Goto(t, "send")
        /\ UNCHANGED <<server, verdict, msg>>
  /\ UNCHANGED <<rows, queues, registry, bounds, history>>

\* The oldest waiting submission is popped, ...
Pop(t) ==
  /\ pc[t] = "next"
  /\ \/ queue = <<>> /\ Finish(t) /\ UNCHANGED queue
     \/ /\ queue # <<>>
        /\ queue' = SubSeq(queue, 1, Len(queue) - 1)
        /\ sub' = [sub EXCEPT ![t] = queue[Len(queue)]]
        /\ Goto(t, "send")
        /\ UNCHANGED <<server, verdict, msg>>
  /\ UNCHANGED <<rows, broker, registry, bounds, history>>

\* ... then a judge_task message is sent for it.
Send(t) ==
  /\ pc[t] = "send"
  /\ broker' = [broker EXCEPT ![sub[t]] = @ + 1]
  /\ Finish(t)
  /\ UNCHANGED <<rows, queue, registry, bounds, history>>

\* dramatiq acknowledges the message of a worker that has returned.
Ack(t) ==
  /\ pc[t] = "ack" /\ End(t)
  /\ UNCHANGED <<rows, queues, registry, bounds, history>>

-----------------------------------------------------------------------------
(* The registry of judge servers.                                          *)

\* Mutant: A heartbeat does not look at the queue.
HeartbeatOnly(t, v) ==
  /\ pc[t] = "idle" /\ v \notin fresh
  /\ known' = known \cup {v} /\ fresh' = fresh \cup {v}
  /\ UNCHANGED <<rows, queues, threadVars, off, load, leaked, bounds, history>>

\* A heartbeat registers or refreshes a server, then looks at the queue.
Heartbeat(t, v) ==
  /\ pc[t] = "idle" /\ (v \notin fresh \/ queue # <<>>)
  /\ known' = known \cup {v} /\ fresh' = fresh \cup {v}
  /\ Goto(t, "next")
  /\ UNCHANGED <<rows, queues, sub, server, verdict, msg, off, load, leaked, bounds, history>>

Administer == admin < MaxAdmin /\ admin' = admin + 1 /\ UNCHANGED <<rejudges, faults>>

\* More than 6 seconds without a heartbeat.
Expire(v) ==
  /\ v \in fresh /\ fresh' = fresh \ {v} /\ Administer
  /\ UNCHANGED <<rows, queues, threadVars, known, off, load, leaked, history>>

\* JudgeServerAPI.put; enabling a server looks at the queue.
Disable(v) ==
  /\ v \in known \ off /\ off' = off \cup {v} /\ Administer
  /\ UNCHANGED <<rows, queues, threadVars, known, fresh, load, leaked, history>>

Enable(t, v) ==
  /\ pc[t] = "idle" /\ v \in off
  /\ off' = off \ {v} /\ Goto(t, "next")
  /\ UNCHANGED <<rows, queues, sub, server, verdict, msg, known, fresh, load, leaked,
                 bounds, history>>

\* JudgeServerAPI.delete: the next heartbeat makes a new row.
Delete(v) ==
  /\ v \in known /\ Administer
  /\ known' = known \ {v} /\ fresh' = fresh \ {v} /\ off' = off \ {v}
  /\ load' = [load EXCEPT ![v] = 0] /\ leaked' = [leaked EXCEPT ![v] = 0]
  /\ server' = [t \in Threads |-> IF server[t] = v THEN None ELSE server[t]]
  /\ UNCHANGED <<rows, queues, pc, sub, verdict, msg, history>>

-----------------------------------------------------------------------------
(* Failures.                                                               *)

Fault == faults < MaxFaults /\ faults' = faults + 1 /\ UNCHANGED <<rejudges, admin>>

\* What the thread was judging or about to send is judged by nobody else, unless
\* it is redelivered.
Drop(t, redelivered) ==
  lost' = IF sub[t] \in {None, redelivered} \/ pc[t] \in {"account", "rejudge"}
            THEN lost ELSE lost \cup {sub[t]}

\* The process dies.  Its task_number stays raised; the message of a worker is
\* delivered again.
Crash(t) ==
  /\ Fault
  /\ pc[t] # "idle"
  /\ leaked' = IF server[t] = None THEN leaked ELSE [leaked EXCEPT ![server[t]] = @ + 1]
  /\ Drop(t, msg[t])
  /\ IF msg[t] = None
       THEN UNCHANGED <<broker, extra>>
       ELSE /\ broker' = [broker EXCEPT ![msg[t]] = @ + 1]
            /\ extra' = [extra EXCEPT ![msg[t]] = @ + 1]
  /\ End(t)
  /\ UNCHANGED <<rows, queue, known, fresh, off, load>>

\* Mutant: No with statement around the request: an exception leaves task_number raised.
RaiseKeepsLoad(t) ==
  /\ Fault
  /\ pc[t] \notin {"idle", "ack"}
  /\ Drop(t, None) /\ End(t)
  /\ UNCHANGED <<rows, queues, registry, extra>>

\* An exception: the with statement lowers task_number, the submission keeps the
\* result it has, and nobody tries again (max_retries is 0).
Raise(t) ==
  /\ Fault
  /\ pc[t] \notin {"idle", "ack"}
  /\ load' = IF server[t] = None THEN load ELSE [load EXCEPT ![server[t]] = @ - 1]
  /\ Drop(t, None) /\ End(t)
  /\ UNCHANGED <<rows, queues, known, fresh, off, leaked, extra>>

-----------------------------------------------------------------------------

Judge(t) ==
  \/ Choose(t) \/ Enqueue(t) \/ Mark(t)
  \/ (\E r \in Verdicts \cup {"none"} : Respond(t, r))
  \/ SystemError(t) \/ Save(t) \/ Account(t) \/ Pop(t) \/ Send(t)
  \/ Ack(t) \/ SaveRejudge(t) \/ SendRejudge(t)

Next ==
  \/ \E t \in Threads : Judge(t) \/ Crash(t) \/ Raise(t)
  \/ \E t \in Threads, s \in Subs : Submit(t, s) \/ Deliver(t, s) \/ ReadRejudge(t, s)
  \/ \E s \in Subs : DisableUser(s)
  \/ \E t \in Threads, v \in Servers : Heartbeat(t, v) \/ Enable(t, v)
  \/ \E v \in Servers : Expire(v) \/ Disable(v) \/ Delete(v)

Spec == Init /\ [][Next]_vars

\* Threads proceed and the judge server answers or the call fails (the request
\* has no timeout of its own); messages are delivered and heartbeats arrive
\* whenever a thread is there for them.
FairSpec ==
  /\ Spec
  /\ \A t \in Threads : WF_vars(Judge(t))
  /\ \A s \in Subs : SF_vars(\E t \in Threads : Deliver(t, s))
  /\ \A v \in Servers : SF_vars(\E t \in Threads : Heartbeat(t, v))

-----------------------------------------------------------------------------
(* Properties.                                                             *)

\* Every variable has its type.
TypeOK ==
  /\ result \in [Subs -> Verdicts \cup Waits \cup {"none", "system_error"}]
  /\ disabled \subseteq Subs
  /\ queue \in Seq(Subs) /\ broker \in [Subs -> Nat]
  /\ pc \in [Threads -> ThreadPc]
  /\ sub \in [Threads -> Subs \cup {None}]
  /\ server \in [Threads -> Servers \cup {None}]
  /\ verdict \in [Threads -> Verdicts \cup Waits \cup {"none", "system_error"}]
  /\ msg \in [Threads -> Subs \cup {None}]
  /\ known \subseteq Servers /\ fresh \subseteq known /\ off \subseteq known
  /\ load \in [Servers -> Nat] /\ leaked \in [Servers -> Nat]
  /\ rejudges \in Nat /\ admin \in Nat /\ faults \in Nat
  /\ extra \in [Subs -> Nat] /\ lost \subseteq Subs

Queued(s) == {i \in DOMAIN queue : queue[i] = s}
Judges(s) == {t \in Threads : sub[t] = s /\ pc[t] \notin {"account", "rejudge"}}

\* task_number counts the threads that use the server, and those that died
\* while they did, whatever is deleted and registered again meanwhile: the
\* decrement of ChooseJudgeServer.__exit__ goes to the row that was raised.
LoadIsExact ==
  \A v \in Servers : load[v] = Cardinality({t \in Threads : server[t] = v}) + leaked[v]

\* A submission shown as pending or judging is being judged, waits in the queue
\* or has a message, unless a failure or a disabled author lost it.
NoStranded ==
  \A s \in Subs : result[s] \in Waits /\ s \notin lost =>
    Queued(s) # {} \/ Judges(s) # {} \/ broker[s] > 0

\* A submission is judged as often as was asked for: it is in one place at a
\* time, plus one for each rejudge and each redelivery.
NoDuplicate ==
  \A s \in Subs :
    Cardinality(Queued(s)) + broker[s]
      + Cardinality({t \in Judges(s) : pc[t] # "resend"}) <= 1 + extra[s]

\* If no server stays disabled, every submission gets a result or is lost: the
\* queue is looked at by the heartbeat when no judgement is there to do it.
EveryoneIsJudged ==
  <>[](off = {}) =>
    \A s \in Subs : result[s] \in Waits ~> result[s] \notin Waits \/ s \in lost
=============================================================================
