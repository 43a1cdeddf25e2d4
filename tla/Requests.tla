---- MODULE Requests ----
(***************************************************************************)
(* The threads of the web workers.  A request is one step when the code    *)
(* does a single statement; otherwise job[t] holds what the thread has     *)
(* read, and any other request may come in between: the settings have no   *)
(* ATOMIC_REQUESTS, so that every statement commits alone.                 *)
(***************************************************************************)
EXTENDS Naturals, FiniteSets

CONSTANTS
  Threads,
  MaxRequests, \* bound on the requests of a behaviour
  None

VARIABLES
  job,         \* what each thread has read and goes on with; None when idle
  requests,    \* requests begun
  overlapped   \* history: two requests have been in progress together

Busy(t) == job[t] # None
Quiet == \A t \in Threads : ~Busy(t)

RequestsInit ==
  /\ job = [t \in Threads |-> None]
  /\ requests = 0
  /\ overlapped = FALSE

Arrive ==
  /\ requests < MaxRequests
  /\ requests' = requests + 1
  /\ overlapped' = (overlapped \/ ~Quiet)

\* A request that is done in one step.
AtOnce == Arrive /\ UNCHANGED job

\* A request that goes on with "work".
Begin(t, work) ==
  /\ ~Busy(t)
  /\ Arrive
  /\ job' = [job EXCEPT ![t] = work]

Continue(t, work) ==
  /\ job' = [job EXCEPT ![t] = work]
  /\ UNCHANGED <<requests, overlapped>>

Respond(t) == Continue(t, None)
\* One request is in progress at most, and every thread has an entry.
Alone == \A t, u \in Threads : Busy(t) /\ Busy(u) => t = u
JobTable == job = [t \in Threads |-> job[t]]
====
