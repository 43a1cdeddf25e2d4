------------------------- MODULE JudgeDispatchProofs -------------------------
(***************************************************************************)
(* Proofs about JudgeDispatch for every number of submissions, threads,    *)
(* servers, cores, rejudges and failures.                                  *)
(***************************************************************************)
EXTENDS JudgeDispatch, FiniteSetTheorems, TLAPS

USE DEF Waits, Verdicts, ThreadPc

-----------------------------------------------------------------------------
(* What a thread holds at each step.                                       *)

Idle == {"idle", "next", "ack"}

\* Except between two tasks a thread has a submission; it holds a server only
\* inside the with statement; what it saves is a verdict, or what a submission
\* had that was there.
ThreadInv ==
  /\ \A t \in Threads : pc[t] \in Idle <=> sub[t] = None
  /\ \A t \in Threads : server[t] # None => pc[t] \in {"mark", "request"}
  /\ \A t \in Threads : pc[t] = "save" => verdict[t] \in Verdicts
  /\ \A t \in Threads : pc[t] = "rejudge" => verdict[t] # "none"

\* TypeOK without the lower bound of task_number, which the count of its users
\* gives.
LooseTypes ==
  /\ result \in [Subs -> Verdicts \cup Waits \cup {"none", "system_error"}]
  /\ disabled \subseteq Subs
  /\ queue \in Seq(Subs) /\ broker \in [Subs -> Nat]
  /\ pc \in [Threads -> ThreadPc]
  /\ sub \in [Threads -> Subs \cup {None}]
  /\ server \in [Threads -> Servers \cup {None}]
  /\ verdict \in [Threads -> Verdicts \cup Waits \cup {"none", "system_error"}]
  /\ msg \in [Threads -> Subs \cup {None}]
  /\ known \subseteq Servers /\ fresh \subseteq known /\ off \subseteq known
  /\ load \in [Servers -> Int] /\ leaked \in [Servers -> Nat]
  /\ rejudges \in Nat /\ admin \in Nat /\ faults \in Nat
  /\ extra \in [Subs -> Nat] /\ lost \subseteq Subs

\* The front of a sequence with one more element, and its last element.
LEMMA QueueEnds ==
  ASSUME NEW q \in Seq(Subs)
  PROVE  /\ \A s \in Subs : <<s>> \o q \in Seq(Subs)
         /\ q # <<>> => /\ Len(q) \in DOMAIN q /\ q[Len(q)] \in Subs
                        /\ SubSeq(q, 1, Len(q) - 1) \in Seq(Subs)
<1>1. \A s \in Subs : <<s>> \o q \in Seq(Subs)
  OBVIOUS
<1>2. ASSUME q # <<>>
      PROVE  /\ Len(q) \in DOMAIN q /\ q[Len(q)] \in Subs
             /\ SubSeq(q, 1, Len(q) - 1) \in Seq(Subs)
  BY <1>2
<1>3. QED
  BY <1>1, <1>2

\* Both are invariant: the work of a thread goes with its step.
LEMMA ThreadInductive == Spec => [](LooseTypes /\ ThreadInv)
<1>1. Init => LooseTypes /\ ThreadInv
  BY BoundAssumption DEF Init, LooseTypes, ThreadInv, Idle
<1>2. LooseTypes /\ ThreadInv /\ [Next]_vars => LooseTypes' /\ ThreadInv'
  <2> SUFFICES ASSUME LooseTypes, ThreadInv, [Next]_vars
               PROVE  (LooseTypes /\ ThreadInv)'
    OBVIOUS
  <2> USE DEF rows, queues, threadVars, registry, bounds, history
  <2>1. ASSUME NEW t \in Threads, Choose(t)
        PROVE  (LooseTypes /\ ThreadInv)'
    <3>1. CASE Goto(t, "enqueue") /\ UNCHANGED <<server, load>>
      BY <2>1, <3>1, NoneAssumption DEF Choose, Goto, LooseTypes, ThreadInv, Idle
    <3>2. ASSUME NEW v \in Usable, load' = [load EXCEPT ![v] = @ + 1],
                 server' = [server EXCEPT ![t] = v], Goto(t, "mark")
          PROVE  (LooseTypes /\ ThreadInv)'
      <4>1. v \in Servers /\ load' \in [Servers -> Int]
        BY <3>2 DEF Usable, LooseTypes
      <4>2. LooseTypes'
        BY <2>1, <3>2, <4>1 DEF Choose, Goto, LooseTypes
      <4>3. ThreadInv'
        BY <2>1, <3>2, NoneAssumption DEF Choose, Goto, LooseTypes, ThreadInv, Idle
      <4>4. QED
        BY <4>2, <4>3
    <3>3. QED
      BY <2>1, <3>1, <3>2 DEF Choose
  <2>2. ASSUME NEW t \in Threads, Enqueue(t)
        PROVE  (LooseTypes /\ ThreadInv)'
    <3>1. sub[t] \in Subs /\ <<sub[t]>> \o queue \in Seq(Subs)
      BY <2>2, QueueEnds DEF Enqueue, LooseTypes, ThreadInv, Idle
    <3>2. QED
      BY <2>2, <3>1, NoneAssumption DEF Enqueue, Finish, Clear, Goto, LooseTypes, ThreadInv, Idle
  <2>3. ASSUME NEW t \in Threads, Mark(t)
        PROVE  (LooseTypes /\ ThreadInv)'
    BY <2>3, NoneAssumption DEF Mark, Goto, LooseTypes, ThreadInv, Idle
  <2>4. ASSUME NEW t \in Threads, NEW r \in Verdicts \cup {"none"}, Respond(t, r)
        PROVE  (LooseTypes /\ ThreadInv)'
    BY <2>4, NoneAssumption DEF Respond, LeaveServer, Goto, LooseTypes, ThreadInv, Idle
  <2>5. ASSUME NEW t \in Threads, SystemError(t)
        PROVE  (LooseTypes /\ ThreadInv)'
    <3>a. LooseTypes'
      BY <2>5, NoneAssumption DEF SystemError, Finish, Clear, Goto, LooseTypes
    <3>b. ThreadInv'
      BY <2>5, NoneAssumption DEF SystemError, Finish, Clear, Goto, LooseTypes, ThreadInv, Idle
    <3> QED
      BY <3>a, <3>b
  <2>6. ASSUME NEW t \in Threads, Save(t)
        PROVE  (LooseTypes /\ ThreadInv)'
    BY <2>6, NoneAssumption DEF Save, Goto, LooseTypes, ThreadInv, Idle
  <2>7. ASSUME NEW t \in Threads, Account(t)
        PROVE  (LooseTypes /\ ThreadInv)'
    <3>a. LooseTypes'
      BY <2>7, NoneAssumption DEF Account, Clear, Goto, LooseTypes
    <3>b. ThreadInv'
      BY <2>7, NoneAssumption DEF Account, Clear, Goto, LooseTypes, ThreadInv, Idle
    <3> QED
      BY <3>a, <3>b
  <2>8. ASSUME NEW t \in Threads, Pop(t)
        PROVE  (LooseTypes /\ ThreadInv)'
    <3>1. CASE queue = <<>> /\ Finish(t) /\ UNCHANGED queue
      BY <2>8, <3>1 DEF Pop, Finish, Clear, Goto, LooseTypes, ThreadInv, Idle
    <3>2. CASE /\ queue # <<>> /\ queue' = SubSeq(queue, 1, Len(queue) - 1)
               /\ sub' = [sub EXCEPT ![t] = queue[Len(queue)]]
               /\ Goto(t, "send") /\ UNCHANGED <<server, verdict, msg>>
      <4>1. queue[Len(queue)] \in Subs /\ queue' \in Seq(Subs)
        BY <3>2, QueueEnds DEF LooseTypes
      <4>a. LooseTypes'
        BY <2>8, <3>2, <4>1, NoneAssumption DEF Pop, Goto, LooseTypes
      <4>b. ThreadInv'
        BY <2>8, <3>2, <4>1, NoneAssumption DEF Pop, Goto, LooseTypes, ThreadInv, Idle
      <4> QED
        BY <4>a, <4>b
    <3>3. QED
      BY <2>8, <3>1, <3>2 DEF Pop
  <2>9. ASSUME NEW t \in Threads, Send(t)
        PROVE  (LooseTypes /\ ThreadInv)'
    <3>1. sub[t] \in Subs /\ pc[t] \notin Idle
      BY <2>9 DEF Send, LooseTypes, ThreadInv, Idle
    <3>2. broker' \in [Subs -> Nat]
      BY <2>9, <3>1 DEF Send, LooseTypes
    <3>a. LooseTypes'
      BY <2>9, <3>2, NoneAssumption DEF Send, Finish, Clear, Goto, LooseTypes
    <3>b. ThreadInv'
      BY <2>9, NoneAssumption DEF Send, Finish, Clear, Goto, LooseTypes, ThreadInv, Idle
    <3> QED
      BY <3>a, <3>b
  <2>10. ASSUME NEW t \in Threads, Ack(t)
        PROVE  (LooseTypes /\ ThreadInv)'
    <3>a. LooseTypes'
      BY <2>10, NoneAssumption DEF Ack, End, Clear, Goto, LooseTypes
    <3>b. ThreadInv'
      BY <2>10, NoneAssumption DEF Ack, End, Clear, Goto, LooseTypes, ThreadInv, Idle
    <3> QED
      BY <3>a, <3>b
  <2>11. ASSUME NEW t \in Threads, SaveRejudge(t)
        PROVE  (LooseTypes /\ ThreadInv)'
    BY <2>11, NoneAssumption DEF SaveRejudge, Goto, LooseTypes, ThreadInv, Idle
  <2>12. ASSUME NEW t \in Threads, SendRejudge(t)
        PROVE  (LooseTypes /\ ThreadInv)'
    <3>1. sub[t] \in Subs /\ pc[t] \notin Idle
      BY <2>12 DEF SendRejudge, LooseTypes, ThreadInv, Idle
    <3>2. broker' \in [Subs -> Nat] /\ extra' \in [Subs -> Nat]
      BY <2>12, <3>1 DEF SendRejudge, LooseTypes
    <3>a. LooseTypes'
      BY <2>12, <3>2, NoneAssumption DEF SendRejudge, End, Clear, Goto, LooseTypes
    <3>b. ThreadInv'
      BY <2>12, NoneAssumption DEF SendRejudge, End, Clear, Goto, LooseTypes, ThreadInv, Idle
    <3> QED
      BY <3>a, <3>b
  <2>13. ASSUME NEW t \in Threads, Crash(t)
        PROVE  (LooseTypes /\ ThreadInv)'
    <3>1. leaked' \in [Servers -> Nat]
      BY <2>13, NoneAssumption DEF Crash, LooseTypes
    <3>2. broker' \in [Subs -> Nat] /\ extra' \in [Subs -> Nat]
      <4>1. CASE msg[t] = None
        BY <2>13, <4>1 DEF Crash, LooseTypes
      <4>2. CASE msg[t] # None
        <5>1. msg[t] \in Subs
          BY <4>2 DEF LooseTypes
        <5>2. /\ broker' = [broker EXCEPT ![msg[t]] = @ + 1]
              /\ extra' = [extra EXCEPT ![msg[t]] = @ + 1]
          BY <2>13, <4>2 DEF Crash
        <5>3. broker \in [Subs -> Nat] /\ extra \in [Subs -> Nat]
          BY DEF LooseTypes
        <5>4. QED
          BY <5>1, <5>2, <5>3
      <4>3. QED
        BY <4>1, <4>2
    <3>3. lost' \subseteq Subs
      BY <2>13, NoneAssumption DEF Crash, Drop, LooseTypes
    <3>4. faults' \in Nat /\ UNCHANGED <<rejudges, admin>>
      BY <2>13 DEF Crash, Fault, LooseTypes
    <3>a. LooseTypes'
      BY <2>13, <3>1, <3>2, <3>3, <3>4 DEF Crash, End, Clear, Goto, LooseTypes
    <3>b. ThreadInv'
      BY <2>13, NoneAssumption DEF Crash, Fault, Drop, End, Clear, Goto, LooseTypes, ThreadInv, Idle
    <3> QED
      BY <3>a, <3>b
  <2>14. ASSUME NEW t \in Threads, Raise(t)
        PROVE  (LooseTypes /\ ThreadInv)'
    <3>a. LooseTypes'
      BY <2>14, NoneAssumption DEF Raise, Fault, Drop, End, Clear, Goto, LooseTypes
    <3>b. ThreadInv'
      BY <2>14, NoneAssumption DEF Raise, Fault, Drop, End, Clear, Goto, LooseTypes, ThreadInv, Idle
    <3> QED
      BY <3>a, <3>b
  <2>15. ASSUME NEW t \in Threads, NEW s \in Subs, Submit(t, s)
        PROVE  (LooseTypes /\ ThreadInv)'
    BY <2>15, NoneAssumption DEF Submit, Goto, LooseTypes, ThreadInv, Idle
  <2>16. ASSUME NEW t \in Threads, NEW s \in Subs, Deliver(t, s)
        PROVE  (LooseTypes /\ ThreadInv)'
    <3>1. broker' \in [Subs -> Nat]
      BY <2>16 DEF Deliver, LooseTypes
    <3>2. CASE lost' = lost \cup {s} /\ UNCHANGED threadVars
      BY <2>16, <3>1, <3>2 DEF Deliver, LooseTypes, ThreadInv, Idle
    <3>3. CASE /\ sub' = [sub EXCEPT ![t] = s] /\ Goto(t, "choose")
               /\ msg' = [msg EXCEPT ![t] = s] /\ UNCHANGED <<server, verdict, lost>>
      <4>1. LooseTypes'
        BY <2>16, <3>1, <3>3 DEF Deliver, Goto, LooseTypes
      <4>2. ThreadInv'
        BY <2>16, <3>3, NoneAssumption DEF Deliver, Goto, LooseTypes, ThreadInv, Idle
      <4>3. QED
        BY <4>1, <4>2
    <3>4. QED
      BY <2>16, <3>2, <3>3 DEF Deliver
  <2>17. ASSUME NEW t \in Threads, NEW s \in Subs, ReadRejudge(t, s)
        PROVE  (LooseTypes /\ ThreadInv)'
    BY <2>17, NoneAssumption DEF ReadRejudge, Goto, LooseTypes, ThreadInv, Idle
  <2>18. ASSUME NEW s \in Subs, DisableUser(s)
        PROVE  (LooseTypes /\ ThreadInv)'
    BY <2>18, NoneAssumption DEF DisableUser, LooseTypes, ThreadInv, Idle
  <2>19. ASSUME NEW t \in Threads, NEW v \in Servers, Heartbeat(t, v)
        PROVE  (LooseTypes /\ ThreadInv)'
    BY <2>19, NoneAssumption DEF Heartbeat, Goto, LooseTypes, ThreadInv, Idle
  <2>20. ASSUME NEW t \in Threads, NEW v \in Servers, Enable(t, v)
        PROVE  (LooseTypes /\ ThreadInv)'
    BY <2>20, NoneAssumption DEF Enable, Goto, LooseTypes, ThreadInv, Idle
  <2>21. ASSUME NEW v \in Servers, Expire(v)
        PROVE  (LooseTypes /\ ThreadInv)'
    BY <2>21, NoneAssumption DEF Expire, Administer, LooseTypes, ThreadInv, Idle
  <2>22. ASSUME NEW v \in Servers, Disable(v)
        PROVE  (LooseTypes /\ ThreadInv)'
    BY <2>22, NoneAssumption DEF Disable, Administer, LooseTypes, ThreadInv, Idle
  <2>23. ASSUME NEW v \in Servers, Delete(v)
        PROVE  (LooseTypes /\ ThreadInv)'
    BY <2>23, NoneAssumption DEF Delete, Administer, LooseTypes, ThreadInv, Idle
  <2>24. CASE UNCHANGED vars
    BY <2>24 DEF vars, LooseTypes, ThreadInv, Idle
  <2> QED
    BY <2>1, <2>2, <2>3, <2>4, <2>5, <2>6, <2>7, <2>8, <2>9, <2>10, <2>11, <2>12, <2>13, <2>14,
       <2>15, <2>16, <2>17, <2>18, <2>19, <2>20, <2>21, <2>22, <2>23, <2>24 DEF Next, Judge
<1>3. QED
  BY <1>1, <1>2, PTL DEF Spec

-----------------------------------------------------------------------------
(* task_number.                                                            *)

Users(f, v) == Cardinality({x \in Threads : f[x] = v})

\* LoadIsExact in terms of Users.
LEMMA ExactUsers == LoadIsExact <=> \A v \in Servers : load[v] = Users(server, v) + leaked[v]
  BY DEF LoadIsExact, Users

Moved(f, g, t, u) == g = [f EXCEPT ![t] = u]

\* One thread more or less at a server.
LEMMA UsersCount ==
  ASSUME NEW f \in [Threads -> Servers \cup {None}], NEW t \in Threads,
         NEW u \in Servers \cup {None}, NEW v \in Servers,
         NEW g \in [Threads -> Servers \cup {None}], Moved(f, g, t, u)
  PROVE  /\ Users(f, v) \in Nat
         /\ f[t] = v => Users(f, v) >= 1
         /\ Users(g, v) =
              Users(f, v) - (IF f[t] = v THEN 1 ELSE 0) + (IF u = v THEN 1 ELSE 0)
<1> DEFINE F == {x \in Threads : f[x] = v}
           G == {x \in Threads : g[x] = v}
<1>1. IsFiniteSet(F) /\ Cardinality(F) \in Nat
  <2>1. F \in SUBSET Threads
    OBVIOUS
  <2>2. IsFiniteSet(F)
    BY <2>1, ThreadAssumption, FS_Subset
  <2> QED
    BY <2>2, FS_CardinalityType
<1>2. /\ IsFiniteSet(F \ {t})
      /\ Cardinality(F \ {t}) = IF t \in F THEN Cardinality(F) - 1 ELSE Cardinality(F)
  BY <1>1, FS_RemoveElement
<1>3. Cardinality(F \ {t}) \in Nat
  BY <1>2, FS_CardinalityType
<1>4. t \in F <=> f[t] = v
  OBVIOUS
<1>5. Cardinality(G) = Cardinality(F \ {t}) + (IF u = v THEN 1 ELSE 0)
  <2>1. CASE u = v
    <3>1. G = (F \ {t}) \cup {t}
      BY <2>1 DEF Moved
    <3>2. QED
      BY <1>2, <1>3, <2>1, <3>1, FS_AddElement
  <2>2. CASE u # v
    <3>1. G = F \ {t}
      BY <2>2 DEF Moved
    <3>2. Cardinality(G) = Cardinality(F \ {t})
      BY <3>1
    <3> HIDE DEF F, G
    <3>3. QED
      BY <1>3, <2>2, <3>2
  <2>3. QED
    BY <2>1, <2>2
<1>6. Cardinality(F) \in Nat /\ (f[t] = v => Cardinality(F) >= 1)
  BY <1>1, <1>2, <1>3, <1>4
<1>7. Cardinality(G) = Cardinality(F) - (IF f[t] = v THEN 1 ELSE 0) + (IF u = v THEN 1 ELSE 0)
  BY <1>1, <1>2, <1>3, <1>4, <1>5
<1>8. QED
  BY <1>6, <1>7 DEF Users

\* The same of a step that moves one thread to a server or away from it.
LEMMA ServerMove ==
  ASSUME NEW t \in Threads, NEW u \in Servers \cup {None}, NEW w \in Servers,
         LooseTypes, LooseTypes', Moved(server, server', t, u)
  PROVE  /\ Users(server, w) \in Nat
         /\ Users(server', w) = Users(server, w) - (IF server[t] = w THEN 1 ELSE 0)
                                 + (IF u = w THEN 1 ELSE 0)
<1>1. /\ server \in [Threads -> Servers \cup {None}]
      /\ server' \in [Threads -> Servers \cup {None}]
  BY DEF LooseTypes
<1>2. QED
  BY <1>1, UsersCount

\* task_number is exactly the number of threads that use the server and of those
\* that died while they did.
THEOREM LoadCountsUsers == Spec => []LoadIsExact
<1>1. Init => LoadIsExact
  <2> SUFFICES ASSUME Init, NEW v \in Servers
               PROVE  load[v] = Users(server, v) + leaked[v]
    BY ExactUsers
  <2>1. {x \in Threads : server[x] = v} = {}
    BY NoneAssumption DEF Init
  <2>2. Users(server, v) = 0
    BY <2>1, FS_EmptySet DEF Users
  <2>3. QED
    BY <2>2 DEF Init
<1>2. LoadIsExact /\ LooseTypes /\ ThreadInv /\ LooseTypes' /\ [Next]_vars => LoadIsExact'
  <2> SUFFICES ASSUME LoadIsExact, LooseTypes, ThreadInv, LooseTypes', [Next]_vars,
                      NEW w \in Servers
               PROVE  load'[w] = Users(server', w) + leaked'[w]
    <3>1. LoadIsExact' <=> \A v \in Servers : load'[v] = Users(server', v) + leaked'[v]
      BY DEF LoadIsExact, Users
    <3>2. QED
      BY <3>1
  <2> USE DEF rows, queues, threadVars, registry, bounds, history
  <2>a. load[w] = Users(server, w) + leaked[w]
    BY ExactUsers
  <2>c. ASSUME UNCHANGED <<server, load, leaked>>
        PROVE  load'[w] = Users(server', w) + leaked'[w]
    BY <2>a, <2>c
  <2>d. ASSUME NEW t \in Threads, server[t] = None, server' = [server EXCEPT ![t] = None]
        PROVE  UNCHANGED server
    BY <2>d DEF LooseTypes
  <2>1. ASSUME NEW t \in Threads, Choose(t)
        PROVE  load'[w] = Users(server', w) + leaked'[w]
    <3>1. CASE UNCHANGED <<server, load>>
      BY <2>1, <2>c, <3>1 DEF Choose
    <3>2. ASSUME NEW v \in Usable, server' = [server EXCEPT ![t] = v],
                 load' = [load EXCEPT ![v] = @ + 1]
          PROVE  load'[w] = Users(server', w) + leaked'[w]
      <4>1. v \in Servers /\ server[t] = None
        BY <2>1, <3>2 DEF Choose, Usable, LooseTypes, ThreadInv
      <4>2. /\ Users(server, w) \in Nat
            /\ Users(server', w) = Users(server, w) + (IF v = w THEN 1 ELSE 0)
        <5>1. Moved(server, server', t, v)
          BY <3>2 DEF Moved
        <5>2. server[t] # w
          BY <4>1, NoneAssumption
        <5>3. /\ Users(server, w) \in Nat
              /\ Users(server', w) = Users(server, w) - (IF server[t] = w THEN 1 ELSE 0)
                                      + (IF v = w THEN 1 ELSE 0)
          BY ServerMove, <4>1, <5>1
        <5>4. QED
          BY <5>2, <5>3
      <4>3. UNCHANGED leaked
        BY <2>1 DEF Choose
      <4>4. QED
        BY <2>a, <3>2, <4>1, <4>2, <4>3 DEF LooseTypes
    <3>3. QED
      BY <2>1, <3>1, <3>2 DEF Choose
  <2>2. ASSUME NEW t \in Threads, Enqueue(t)
        PROVE  load'[w] = Users(server', w) + leaked'[w]
    <3>1. server[t] = None
      BY <2>2 DEF Enqueue, ThreadInv
    <3>2. UNCHANGED <<server, load, leaked>>
      BY <2>2, <2>d, <3>1 DEF Enqueue, Finish, Clear, Goto
    <3>3. QED
      BY <2>c, <3>2
  <2>3. ASSUME NEW t \in Threads, Mark(t)
        PROVE  load'[w] = Users(server', w) + leaked'[w]
    BY <2>3, <2>c DEF Mark, Goto
  <2>4. ASSUME NEW t \in Threads, NEW r \in Verdicts \cup {"none"}, Respond(t, r)
        PROVE  load'[w] = Users(server', w) + leaked'[w]
    <3>1. /\ server' = [server EXCEPT ![t] = None] /\ UNCHANGED leaked
          /\ load' = IF server[t] = None THEN load ELSE [load EXCEPT ![server[t]] = @ - 1]
      BY <2>4 DEF Respond, LeaveServer
    <3>2. /\ Users(server, w) \in Nat
          /\ Users(server', w) = Users(server, w) - (IF server[t] = w THEN 1 ELSE 0)
      <4>1. Moved(server, server', t, None)
        BY <3>1 DEF Moved
      <4>2. /\ Users(server, w) \in Nat
            /\ Users(server', w) = Users(server, w) - (IF server[t] = w THEN 1 ELSE 0)
                                    + (IF None = w THEN 1 ELSE 0)
        BY ServerMove, <4>1
      <4>3. QED
        BY <4>2, NoneAssumption
    <3>3. QED
      BY <2>a, <3>1, <3>2, NoneAssumption DEF LooseTypes
  <2>5. ASSUME NEW t \in Threads, SystemError(t)
        PROVE  load'[w] = Users(server', w) + leaked'[w]
    <3>1. server[t] = None
      BY <2>5 DEF SystemError, ThreadInv
    <3>2. UNCHANGED <<server, load, leaked>>
      BY <2>5, <2>d, <3>1 DEF SystemError, Finish, Clear, Goto
    <3>3. QED
      BY <2>c, <3>2
  <2>6. ASSUME NEW t \in Threads, Save(t)
        PROVE  load'[w] = Users(server', w) + leaked'[w]
    BY <2>6, <2>c DEF Save, Goto
  <2>7. ASSUME NEW t \in Threads, Account(t)
        PROVE  load'[w] = Users(server', w) + leaked'[w]
    <3>1. server[t] = None
      BY <2>7 DEF Account, ThreadInv
    <3>2. UNCHANGED <<server, load, leaked>>
      BY <2>7, <2>d, <3>1 DEF Account, Clear, Goto
    <3>3. QED
      BY <2>c, <3>2
  <2>8. ASSUME NEW t \in Threads, Pop(t)
        PROVE  load'[w] = Users(server', w) + leaked'[w]
    <3>1. server[t] = None
      BY <2>8 DEF Pop, ThreadInv
    <3>2. UNCHANGED <<server, load, leaked>>
      BY <2>8, <2>d, <3>1 DEF Pop, Finish, Clear
    <3>3. QED
      BY <2>c, <3>2
  <2>9. ASSUME NEW t \in Threads, Send(t)
        PROVE  load'[w] = Users(server', w) + leaked'[w]
    <3>1. server[t] = None
      BY <2>9 DEF Send, ThreadInv
    <3>2. UNCHANGED <<server, load, leaked>>
      BY <2>9, <2>d, <3>1 DEF Send, Finish, Clear, Goto
    <3>3. QED
      BY <2>c, <3>2
  <2>10. ASSUME NEW t \in Threads, Ack(t)
        PROVE  load'[w] = Users(server', w) + leaked'[w]
    <3>1. server[t] = None
      BY <2>10 DEF Ack, ThreadInv
    <3>2. UNCHANGED <<server, load, leaked>>
      BY <2>10, <2>d, <3>1 DEF Ack, End, Clear, Goto
    <3>3. QED
      BY <2>c, <3>2
  <2>11. ASSUME NEW t \in Threads, SaveRejudge(t)
        PROVE  load'[w] = Users(server', w) + leaked'[w]
    BY <2>11, <2>c DEF SaveRejudge, Goto
  <2>12. ASSUME NEW t \in Threads, SendRejudge(t)
        PROVE  load'[w] = Users(server', w) + leaked'[w]
    <3>1. server[t] = None
      BY <2>12 DEF SendRejudge, ThreadInv
    <3>2. UNCHANGED <<server, load, leaked>>
      BY <2>12, <2>d, <3>1 DEF SendRejudge, End, Clear, Goto
    <3>3. QED
      BY <2>c, <3>2
  <2>13. ASSUME NEW t \in Threads, Crash(t)
        PROVE  load'[w] = Users(server', w) + leaked'[w]
    <3>1. /\ server' = [server EXCEPT ![t] = None] /\ UNCHANGED load
          /\ leaked' = IF server[t] = None THEN leaked ELSE [leaked EXCEPT ![server[t]] = @ + 1]
      BY <2>13 DEF Crash, End, Clear
    <3>2. /\ Users(server, w) \in Nat
          /\ Users(server', w) = Users(server, w) - (IF server[t] = w THEN 1 ELSE 0)
      <4>1. Moved(server, server', t, None)
        BY <3>1 DEF Moved
      <4>2. /\ Users(server, w) \in Nat
            /\ Users(server', w) = Users(server, w) - (IF server[t] = w THEN 1 ELSE 0)
                                    + (IF None = w THEN 1 ELSE 0)
        BY ServerMove, <4>1
      <4>3. QED
        BY <4>2, NoneAssumption
    <3>3. QED
      BY <2>a, <3>1, <3>2, NoneAssumption DEF LooseTypes
  <2>14. ASSUME NEW t \in Threads, Raise(t)
        PROVE  load'[w] = Users(server', w) + leaked'[w]
    <3>1. /\ server' = [server EXCEPT ![t] = None] /\ UNCHANGED leaked
          /\ load' = IF server[t] = None THEN load ELSE [load EXCEPT ![server[t]] = @ - 1]
      BY <2>14 DEF Raise, End, Clear
    <3>2. /\ Users(server, w) \in Nat
          /\ Users(server', w) = Users(server, w) - (IF server[t] = w THEN 1 ELSE 0)
      <4>1. Moved(server, server', t, None)
        BY <3>1 DEF Moved
      <4>2. /\ Users(server, w) \in Nat
            /\ Users(server', w) = Users(server, w) - (IF server[t] = w THEN 1 ELSE 0)
                                    + (IF None = w THEN 1 ELSE 0)
        BY ServerMove, <4>1
      <4>3. QED
        BY <4>2, NoneAssumption
    <3>3. QED
      BY <2>a, <3>1, <3>2, NoneAssumption DEF LooseTypes
  <2>15. ASSUME NEW t \in Threads, NEW s \in Subs, Submit(t, s)
        PROVE  load'[w] = Users(server', w) + leaked'[w]
    BY <2>15, <2>c DEF Submit, Goto
  <2>16. ASSUME NEW t \in Threads, NEW s \in Subs, Deliver(t, s)
        PROVE  load'[w] = Users(server', w) + leaked'[w]
    BY <2>16, <2>c DEF Deliver, Goto
  <2>17. ASSUME NEW t \in Threads, NEW s \in Subs, ReadRejudge(t, s)
        PROVE  load'[w] = Users(server', w) + leaked'[w]
    BY <2>17, <2>c DEF ReadRejudge, Goto
  <2>18. ASSUME NEW s \in Subs, DisableUser(s)
        PROVE  load'[w] = Users(server', w) + leaked'[w]
    BY <2>18, <2>c DEF DisableUser
  <2>19. ASSUME NEW t \in Threads, NEW v \in Servers, Heartbeat(t, v)
        PROVE  load'[w] = Users(server', w) + leaked'[w]
    BY <2>19, <2>c DEF Heartbeat, Goto
  <2>20. ASSUME NEW t \in Threads, NEW v \in Servers, Enable(t, v)
        PROVE  load'[w] = Users(server', w) + leaked'[w]
    BY <2>20, <2>c DEF Enable, Goto
  <2>21. ASSUME NEW v \in Servers, Expire(v)
        PROVE  load'[w] = Users(server', w) + leaked'[w]
    BY <2>21, <2>c DEF Expire, Administer
  <2>22. ASSUME NEW v \in Servers, Disable(v)
        PROVE  load'[w] = Users(server', w) + leaked'[w]
    BY <2>22, <2>c DEF Disable, Administer
  <2>23. ASSUME NEW v \in Servers, Delete(v)
        PROVE  load'[w] = Users(server', w) + leaked'[w]
    <3>1. CASE w = v
      <4>1. {x \in Threads : server'[x] = w} = {}
        BY <2>23, <3>1, NoneAssumption DEF Delete
      <4>2. Users(server', w) = 0
        BY <4>1, FS_EmptySet DEF Users
      <4>3. QED
        BY <2>23, <3>1, <4>2 DEF Delete, LooseTypes
    <3>2. CASE w # v
      <4>1. Users(server', w) = Users(server, w)
        <5>1. {x \in Threads : server'[x] = w} = {x \in Threads : server[x] = w}
          BY <2>23, <3>2, NoneAssumption DEF Delete
        <5>2. QED
          BY <5>1 DEF Users
      <4>2. load'[w] = load[w] /\ leaked'[w] = leaked[w]
        BY <2>23, <3>2 DEF Delete, LooseTypes
      <4>3. QED
        BY <2>a, <4>1, <4>2
    <3>3. QED
      BY <3>1, <3>2
  <2>24. CASE UNCHANGED vars
    BY <2>24, <2>c DEF vars
  <2> QED
    BY <2>1, <2>2, <2>3, <2>4, <2>5, <2>6, <2>7, <2>8, <2>9, <2>10, <2>11, <2>12, <2>13, <2>14,
       <2>15, <2>16, <2>17, <2>18, <2>19, <2>20, <2>21, <2>22, <2>23, <2>24 DEF Next, Judge
<1>3. QED
  BY <1>1, <1>2, ThreadInductive, PTL DEF Spec

\* Every variable has its type; that task_number is never negative is a
\* consequence of LoadIsExact.
THEOREM TypeCorrect == Spec => []TypeOK
<1>1. LooseTypes /\ LoadIsExact => load \in [Servers -> Nat]
  <2> SUFFICES ASSUME LooseTypes, LoadIsExact, NEW v \in Servers
               PROVE  load[v] \in Nat
    BY DEF LooseTypes
  <2>1. {x \in Threads : server[x] = v} \in SUBSET Threads
    OBVIOUS
  <2>2. Users(server, v) \in Nat
    BY <2>1, ThreadAssumption, FS_Subset, FS_CardinalityType DEF Users
  <2>3. QED
    BY <2>2, ExactUsers DEF LooseTypes
<1>2. LooseTypes /\ LoadIsExact => TypeOK
  BY <1>1 DEF LooseTypes, TypeOK
<1>3. QED
  BY <1>2, ThreadInductive, LoadCountsUsers, PTL

-----------------------------------------------------------------------------
(* No submission is forgotten.                                             *)

InQueue(q, s) == \E i \in DOMAIN q : q[i] = s

\* What is pushed in front of the queue is in it, and what was in it stays.
LEMMA Pushed ==
  ASSUME NEW q \in Seq(Subs), NEW s \in Subs, NEW w \in Subs, w = s \/ InQueue(q, w)
  PROVE  InQueue(<<s>> \o q, w)
<1>1. CASE w = s
  BY <1>1 DEF InQueue
<1>2. CASE InQueue(q, w)
  <2>1. PICK i \in DOMAIN q : q[i] = w
    BY <1>2 DEF InQueue
  <2>2. i + 1 \in DOMAIN (<<s>> \o q) /\ (<<s>> \o q)[i + 1] = w
    BY <2>1
  <2>3. QED
    BY <2>2 DEF InQueue
<1>3. QED
  BY <1>1, <1>2

\* Popping removes one place of the last submission only.
LEMMA Popped ==
  ASSUME NEW q \in Seq(Subs), q # <<>>, NEW w \in Subs, InQueue(q, w), w # q[Len(q)]
  PROVE  InQueue(SubSeq(q, 1, Len(q) - 1), w)
<1>1. PICK i \in DOMAIN q : q[i] = w
  BY DEF InQueue
<1>2. i \in 1 .. Len(q) - 1
  BY <1>1
<1>3. /\ i \in DOMAIN SubSeq(q, 1, Len(q) - 1)
      /\ SubSeq(q, 1, Len(q) - 1)[i] = w
  BY <1>1, <1>2
<1>4. QED
  BY <1>3 DEF InQueue

\* Where a submission is, for the provers.
Working(t, s) == sub[t] = s /\ pc[t] \notin {"account", "rejudge"}
Somewhere(s) == InQueue(queue, s) \/ broker[s] > 0 \/ \E t \in Threads : Working(t, s)

\* NoStranded in terms of Somewhere.
LEMMA StrandedMeans ==
  NoStranded <=> \A s \in Subs : result[s] \in Waits /\ s \notin lost => Somewhere(s)
<1>1. ASSUME NEW s \in Subs
      PROVE  (Queued(s) # {} <=> InQueue(queue, s))
             /\ (Judges(s) # {} <=> \E t \in Threads : Working(t, s))
  BY DEF Queued, InQueue, Judges, Working
<1>2. QED
  BY <1>1 DEF NoStranded, Somewhere

\* A submission that waits for a judgement is in the queue, has a message or is
\* worked on, whatever fails or crashes, unless its judgement is known as lost.
THEOREM NobodyStranded == Spec => []NoStranded
<1>1. Init => NoStranded
  BY DEF Init, NoStranded
<1>2. NoStranded' <=>
        \A s \in Subs : result'[s] \in Waits /\ s \notin lost' => Somewhere(s)'
  <2>1. ASSUME NEW s \in Subs
        PROVE  (Queued(s)' # {} <=> InQueue(queue, s)')
               /\ (Judges(s)' # {} <=> \E t \in Threads : Working(t, s)')
    BY DEF Queued, InQueue, Judges, Working
  <2>2. QED
    BY <2>1 DEF NoStranded, Somewhere
<1>3. NoStranded /\ LooseTypes /\ ThreadInv /\ LooseTypes' /\ [Next]_vars => NoStranded'
  <2> SUFFICES ASSUME NoStranded, LooseTypes, ThreadInv, LooseTypes', [Next]_vars,
                      NEW w \in Subs, result'[w] \in Waits, w \notin lost'
               PROVE  Somewhere(w)'
    BY <1>2
  <2> USE DEF rows, queues, threadVars, registry, bounds, history
  <2>a. result[w] \in Waits /\ w \notin lost => Somewhere(w)
    BY StrandedMeans
  <2>b. ASSUME NEW t \in Threads, w # sub[t] \/ pc[t] \in {"account", "rejudge"},
               broker[w] > 0 => broker'[w] > 0,
               InQueue(queue, w) => InQueue(queue', w),
               \A x \in Threads \ {t} : sub'[x] = sub[x] /\ pc'[x] = pc[x],
               result[w] \in Waits, w \notin lost
        PROVE  Somewhere(w)'
    BY <2>a, <2>b DEF Somewhere, Working
  <2>c. ASSUME NEW t \in Threads, sub'[t] = w, pc'[t] \notin {"account", "rejudge"}
        PROVE  Somewhere(w)'
    BY <2>c DEF Somewhere, Working
  <2>d. ASSUME NEW t \in Threads, UNCHANGED <<broker, queue>>,
               \A x \in Threads \ {t} : sub'[x] = sub[x] /\ pc'[x] = pc[x],
               \/ sub'[t] = w /\ pc'[t] \notin {"account", "rejudge"}
               \/ /\ result[w] \in Waits /\ w \notin lost
                  /\ w # sub[t] \/ pc[t] \in {"account", "rejudge"}
        PROVE  Somewhere(w)'
    BY <2>b, <2>c, <2>d
  <2>1. ASSUME NEW t \in Threads, Choose(t)
        PROVE  Somewhere(w)'
    <3>1. /\ UNCHANGED <<broker, queue>>
          /\ \A x \in Threads \ {t} : sub'[x] = sub[x] /\ pc'[x] = pc[x]
      BY <2>1 DEF Choose, Goto, LooseTypes
    <3>2. \/ sub'[t] = w /\ pc'[t] \notin {"account", "rejudge"}
          \/ /\ result[w] \in Waits /\ w \notin lost
             /\ w # sub[t] \/ pc[t] \in {"account", "rejudge"}
      BY <2>1, NoneAssumption DEF Choose, Goto, LooseTypes, ThreadInv, Idle
    <3>3. QED
      BY <2>d, <3>1, <3>2
  <2>2. ASSUME NEW t \in Threads, Enqueue(t)
        PROVE  Somewhere(w)'
    <3>1. sub[t] \in Subs /\ queue' = <<sub[t]>> \o queue /\ queue \in Seq(Subs)
      BY <2>2 DEF Enqueue, LooseTypes, ThreadInv, Idle
    <3>2. w = sub[t] \/ InQueue(queue, w) => InQueue(queue', w)
      BY <3>1, Pushed
    <3>3. CASE w = sub[t]
      BY <3>2, <3>3 DEF Somewhere
    <3>4. CASE w # sub[t]
      BY <2>2, <2>b, <3>2, <3>4 DEF Enqueue, Finish, Clear, Goto, LooseTypes
    <3>5. QED
      BY <3>3, <3>4
  <2>3. ASSUME NEW t \in Threads, Mark(t)
        PROVE  Somewhere(w)'
    <3>1. /\ UNCHANGED <<broker, queue>>
          /\ \A x \in Threads \ {t} : sub'[x] = sub[x] /\ pc'[x] = pc[x]
      BY <2>3 DEF Mark, Goto, LooseTypes
    <3>2. \/ sub'[t] = w /\ pc'[t] \notin {"account", "rejudge"}
          \/ /\ result[w] \in Waits /\ w \notin lost
             /\ w # sub[t] \/ pc[t] \in {"account", "rejudge"}
      BY <2>3, NoneAssumption DEF Mark, Goto, LooseTypes, ThreadInv, Idle
    <3>3. QED
      BY <2>d, <3>1, <3>2
  <2>4. ASSUME NEW t \in Threads, NEW r \in Verdicts \cup {"none"}, Respond(t, r)
        PROVE  Somewhere(w)'
    <3>1. /\ UNCHANGED <<broker, queue>>
          /\ \A x \in Threads \ {t} : sub'[x] = sub[x] /\ pc'[x] = pc[x]
      BY <2>4 DEF Respond, LeaveServer, Goto, LooseTypes
    <3>2. \/ sub'[t] = w /\ pc'[t] \notin {"account", "rejudge"}
          \/ /\ result[w] \in Waits /\ w \notin lost
             /\ w # sub[t] \/ pc[t] \in {"account", "rejudge"}
      BY <2>4, NoneAssumption DEF Respond, LeaveServer, Goto, LooseTypes, ThreadInv, Idle
    <3>3. QED
      BY <2>d, <3>1, <3>2
  <2>5. ASSUME NEW t \in Threads, SystemError(t)
        PROVE  Somewhere(w)'
    <3>1. /\ UNCHANGED <<broker, queue>>
          /\ \A x \in Threads \ {t} : sub'[x] = sub[x] /\ pc'[x] = pc[x]
      BY <2>5 DEF SystemError, Finish, Clear, Goto, LooseTypes
    <3>2. \/ sub'[t] = w /\ pc'[t] \notin {"account", "rejudge"}
          \/ /\ result[w] \in Waits /\ w \notin lost
             /\ w # sub[t] \/ pc[t] \in {"account", "rejudge"}
      BY <2>5, NoneAssumption DEF SystemError, Finish, Clear, Goto, LooseTypes, ThreadInv, Idle
    <3>3. QED
      BY <2>d, <3>1, <3>2
  <2>6. ASSUME NEW t \in Threads, Save(t)
        PROVE  Somewhere(w)'
    <3>1. /\ UNCHANGED <<broker, queue>>
          /\ \A x \in Threads \ {t} : sub'[x] = sub[x] /\ pc'[x] = pc[x]
      BY <2>6 DEF Save, Goto, LooseTypes
    <3>2. \/ sub'[t] = w /\ pc'[t] \notin {"account", "rejudge"}
          \/ /\ result[w] \in Waits /\ w \notin lost
             /\ w # sub[t] \/ pc[t] \in {"account", "rejudge"}
      BY <2>6, NoneAssumption DEF Save, Goto, LooseTypes, ThreadInv, Idle
    <3>3. QED
      BY <2>d, <3>1, <3>2
  <2>7. ASSUME NEW t \in Threads, Account(t)
        PROVE  Somewhere(w)'
    BY <2>7, <2>b DEF Account, Clear, Goto, LooseTypes
  <2>8. ASSUME NEW t \in Threads, Pop(t)
        PROVE  Somewhere(w)'
    <3>1. CASE queue = <<>> /\ Finish(t) /\ UNCHANGED queue
      BY <2>8, <2>b, <3>1, NoneAssumption DEF Pop, Finish, Clear, Goto, LooseTypes, ThreadInv, Idle
    <3>2. CASE /\ queue # <<>> /\ queue' = SubSeq(queue, 1, Len(queue) - 1)
               /\ sub' = [sub EXCEPT ![t] = queue[Len(queue)]]
               /\ Goto(t, "send")
      <4>1. CASE w = queue[Len(queue)]
        BY <2>c, <3>2, <4>1 DEF Goto, LooseTypes
      <4>2. CASE w # queue[Len(queue)]
        <5>1. InQueue(queue, w) => InQueue(queue', w)
          BY <3>2, <4>2, Popped DEF LooseTypes
        <5>2. w # sub[t]
          BY <2>8, NoneAssumption DEF Pop, LooseTypes, ThreadInv, Idle
        <5>3. QED
          BY <2>8, <2>b, <3>2, <5>1, <5>2 DEF Pop, Goto, LooseTypes
      <4>3. QED
        BY <4>1, <4>2
    <3>3. QED
      BY <2>8, <3>1, <3>2 DEF Pop
  <2>9. ASSUME NEW t \in Threads, Send(t)
        PROVE  Somewhere(w)'
    <3>1. sub[t] \in Subs /\ broker' = [broker EXCEPT ![sub[t]] = @ + 1]
      BY <2>9 DEF Send, LooseTypes, ThreadInv, Idle
    <3>2. CASE w = sub[t]
      <4>1. broker'[w] > 0
        BY <3>1, <3>2 DEF LooseTypes
      <4>2. QED
        BY <4>1 DEF Somewhere
    <3>3. CASE w # sub[t]
      <4>1. broker'[w] = broker[w]
        BY <3>1, <3>3 DEF LooseTypes
      <4>2. QED
        BY <2>9, <2>b, <3>3, <4>1 DEF Send, Finish, Clear, Goto, LooseTypes
    <3>4. QED
      BY <3>2, <3>3
  <2>10. ASSUME NEW t \in Threads, Ack(t)
        PROVE  Somewhere(w)'
    <3>1. /\ UNCHANGED <<broker, queue>>
          /\ \A x \in Threads \ {t} : sub'[x] = sub[x] /\ pc'[x] = pc[x]
      BY <2>10 DEF Ack, End, Clear, Goto, LooseTypes
    <3>2. \/ sub'[t] = w /\ pc'[t] \notin {"account", "rejudge"}
          \/ /\ result[w] \in Waits /\ w \notin lost
             /\ w # sub[t] \/ pc[t] \in {"account", "rejudge"}
      BY <2>10, NoneAssumption DEF Ack, End, Clear, Goto, LooseTypes, ThreadInv, Idle
    <3>3. QED
      BY <2>d, <3>1, <3>2
  <2>11. ASSUME NEW t \in Threads, SaveRejudge(t)
        PROVE  Somewhere(w)'
    <3>1. /\ UNCHANGED <<broker, queue>>
          /\ \A x \in Threads \ {t} : sub'[x] = sub[x] /\ pc'[x] = pc[x]
      BY <2>11 DEF SaveRejudge, Goto, LooseTypes
    <3>2. \/ sub'[t] = w /\ pc'[t] \notin {"account", "rejudge"}
          \/ /\ result[w] \in Waits /\ w \notin lost
             /\ w # sub[t] \/ pc[t] \in {"account", "rejudge"}
      BY <2>11, NoneAssumption DEF SaveRejudge, Goto, LooseTypes, ThreadInv, Idle
    <3>3. QED
      BY <2>d, <3>1, <3>2
  <2>12. ASSUME NEW t \in Threads, SendRejudge(t)
        PROVE  Somewhere(w)'
    <3>1. sub[t] \in Subs /\ broker' = [broker EXCEPT ![sub[t]] = @ + 1]
      BY <2>12 DEF SendRejudge, LooseTypes, ThreadInv, Idle
    <3>2. CASE w = sub[t]
      <4>1. broker'[w] > 0
        BY <3>1, <3>2 DEF LooseTypes
      <4>2. QED
        BY <4>1 DEF Somewhere
    <3>3. CASE w # sub[t]
      <4>1. broker'[w] = broker[w]
        BY <3>1, <3>3 DEF LooseTypes
      <4>2. QED
        BY <2>12, <2>b, <3>3, <4>1 DEF SendRejudge, End, Clear, Goto, LooseTypes
    <3>4. QED
      BY <3>2, <3>3
  <2>13. ASSUME NEW t \in Threads, Crash(t)
        PROVE  Somewhere(w)'
    <3>1. /\ UNCHANGED <<result, queue>>
          /\ lost' = IF sub[t] \in {None, msg[t]} \/ pc[t] \in {"account", "rejudge"}
                       THEN lost ELSE lost \cup {sub[t]}
          /\ \A x \in Threads \ {t} : sub'[x] = sub[x] /\ pc'[x] = pc[x]
      BY <2>13 DEF Crash, Drop, End, Clear, Goto, LooseTypes
    <3>2. broker[w] > 0 \/ msg[t] = w => broker'[w] > 0
      <4>1. CASE msg[t] = None
        BY <2>13, <4>1, NoneAssumption DEF Crash
      <4>2. CASE msg[t] # None
        <5>1. broker' = [broker EXCEPT ![msg[t]] = @ + 1]
          BY <2>13, <4>2 DEF Crash
        <5>2. broker \in [Subs -> Nat]
          BY DEF LooseTypes
        <5>3. QED
          BY <5>1, <5>2
      <4>3. QED
        BY <4>1, <4>2
    <3>3. CASE msg[t] = w
      BY <3>2, <3>3 DEF Somewhere
    <3>4. CASE msg[t] # w
      <4>1. w # sub[t] \/ pc[t] \in {"account", "rejudge"}
        BY <3>1, <3>4, NoneAssumption
      <4>2. QED
        BY <2>b, <3>1, <3>2, <4>1
    <3>5. QED
      BY <3>3, <3>4
  <2>14. ASSUME NEW t \in Threads, Raise(t)
        PROVE  Somewhere(w)'
    <3>1. /\ UNCHANGED <<result, queue, broker>>
          /\ lost' = IF sub[t] = None \/ pc[t] \in {"account", "rejudge"}
                       THEN lost ELSE lost \cup {sub[t]}
          /\ \A x \in Threads \ {t} : sub'[x] = sub[x] /\ pc'[x] = pc[x]
      BY <2>14 DEF Raise, Drop, End, Clear, Goto, LooseTypes
    <3>2. w # sub[t] \/ pc[t] \in {"account", "rejudge"}
      BY <3>1, NoneAssumption
    <3>3. QED
      BY <2>b, <3>1, <3>2
  <2>15. ASSUME NEW t \in Threads, NEW s \in Subs, Submit(t, s)
        PROVE  Somewhere(w)'
    <3>1. /\ UNCHANGED <<broker, queue>>
          /\ \A x \in Threads \ {t} : sub'[x] = sub[x] /\ pc'[x] = pc[x]
      BY <2>15 DEF Submit, Goto, LooseTypes
    <3>2. \/ sub'[t] = w /\ pc'[t] \notin {"account", "rejudge"}
          \/ /\ result[w] \in Waits /\ w \notin lost
             /\ w # sub[t] \/ pc[t] \in {"account", "rejudge"}
      BY <2>15, NoneAssumption DEF Submit, Goto, LooseTypes, ThreadInv, Idle
    <3>3. QED
      BY <2>d, <3>1, <3>2
  <2>16. ASSUME NEW t \in Threads, NEW s \in Subs, Deliver(t, s)
        PROVE  Somewhere(w)'
    <3>1. CASE lost' = lost \cup {s} /\ UNCHANGED threadVars
      BY <2>16, <2>a, <3>1 DEF Deliver, Somewhere, Working, LooseTypes
    <3>2. CASE sub' = [sub EXCEPT ![t] = s] /\ Goto(t, "choose") /\ UNCHANGED lost
      <4>1. CASE w = s
        BY <2>c, <3>2, <4>1 DEF Goto, LooseTypes
      <4>2. CASE w # s
        <5>1. w # sub[t]
          BY <2>16, NoneAssumption DEF Deliver, LooseTypes, ThreadInv, Idle
        <5>2. UNCHANGED <<result, queue>> /\ broker'[w] = broker[w]
          BY <2>16, <4>2 DEF Deliver, LooseTypes
        <5>3. \A x \in Threads \ {t} : sub'[x] = sub[x] /\ pc'[x] = pc[x]
          BY <3>2 DEF Goto, LooseTypes
        <5>4. QED
          BY <2>b, <3>2, <5>1, <5>2, <5>3
      <4>3. QED
        BY <4>1, <4>2
    <3>3. QED
      BY <2>16, <3>1, <3>2 DEF Deliver
  <2>17. ASSUME NEW t \in Threads, NEW s \in Subs, ReadRejudge(t, s)
        PROVE  Somewhere(w)'
    <3>1. /\ UNCHANGED <<broker, queue>>
          /\ \A x \in Threads \ {t} : sub'[x] = sub[x] /\ pc'[x] = pc[x]
      BY <2>17 DEF ReadRejudge, Goto, LooseTypes
    <3>2. \/ sub'[t] = w /\ pc'[t] \notin {"account", "rejudge"}
          \/ /\ result[w] \in Waits /\ w \notin lost
             /\ w # sub[t] \/ pc[t] \in {"account", "rejudge"}
      BY <2>17, NoneAssumption DEF ReadRejudge, Goto, LooseTypes, ThreadInv, Idle
    <3>3. QED
      BY <2>d, <3>1, <3>2
  <2>18. ASSUME NEW s \in Subs, DisableUser(s)
        PROVE  Somewhere(w)'
    BY <2>18, <2>a DEF DisableUser, Somewhere, Working
  <2>19. ASSUME NEW t \in Threads, NEW v \in Servers, Heartbeat(t, v)
        PROVE  Somewhere(w)'
    <3>1. /\ UNCHANGED <<broker, queue>>
          /\ \A x \in Threads \ {t} : sub'[x] = sub[x] /\ pc'[x] = pc[x]
      BY <2>19 DEF Heartbeat, Goto, LooseTypes
    <3>2. \/ sub'[t] = w /\ pc'[t] \notin {"account", "rejudge"}
          \/ /\ result[w] \in Waits /\ w \notin lost
             /\ w # sub[t] \/ pc[t] \in {"account", "rejudge"}
      BY <2>19, NoneAssumption DEF Heartbeat, Goto, LooseTypes, ThreadInv, Idle
    <3>3. QED
      BY <2>d, <3>1, <3>2
  <2>20. ASSUME NEW t \in Threads, NEW v \in Servers, Enable(t, v)
        PROVE  Somewhere(w)'
    <3>1. /\ UNCHANGED <<broker, queue>>
          /\ \A x \in Threads \ {t} : sub'[x] = sub[x] /\ pc'[x] = pc[x]
      BY <2>20 DEF Enable, Goto, LooseTypes
    <3>2. \/ sub'[t] = w /\ pc'[t] \notin {"account", "rejudge"}
          \/ /\ result[w] \in Waits /\ w \notin lost
             /\ w # sub[t] \/ pc[t] \in {"account", "rejudge"}
      BY <2>20, NoneAssumption DEF Enable, Goto, LooseTypes, ThreadInv, Idle
    <3>3. QED
      BY <2>d, <3>1, <3>2
  <2>21. ASSUME NEW v \in Servers, Expire(v)
        PROVE  Somewhere(w)'
    BY <2>21, <2>a DEF Expire, Somewhere, Working
  <2>22. ASSUME NEW v \in Servers, Disable(v)
        PROVE  Somewhere(w)'
    BY <2>22, <2>a DEF Disable, Somewhere, Working
  <2>23. ASSUME NEW v \in Servers, Delete(v)
        PROVE  Somewhere(w)'
    BY <2>23, <2>a DEF Delete, Somewhere, Working
  <2>24. CASE UNCHANGED vars
    BY <2>24, <2>a DEF vars, Somewhere, Working
  <2> QED
    BY <2>1, <2>2, <2>3, <2>4, <2>5, <2>6, <2>7, <2>8, <2>9, <2>10, <2>11, <2>12, <2>13, <2>14,
       <2>15, <2>16, <2>17, <2>18, <2>19, <2>20, <2>21, <2>22, <2>23, <2>24 DEF Next, Judge
<1>4. QED
  BY <1>1, <1>3, ThreadInductive, PTL DEF Spec

-----------------------------------------------------------------------------
(* How often a submission is on its way to a judgement.                    *)

At(q, w) == {i \in DOMAIN q : q[i] = w}
Times(q, w) == Cardinality(At(q, w))

\* A submission occurs finitely often in a queue.
LEMMA TimesIsNat ==
  ASSUME NEW q \in Seq(Subs), NEW w \in Subs
  PROVE  IsFiniteSet(At(q, w)) /\ Times(q, w) \in Nat
<1>1. At(q, w) \in SUBSET (1 .. Len(q)) /\ Len(q) \in Nat
  BY DEF At
<1>2. IsFiniteSet(1 .. Len(q))
  BY <1>1, FS_Interval
<1> QED
  BY <1>1, <1>2, FS_Subset, FS_CardinalityType DEF Times

\* One more in front: the others move by one place.
LEMMA TimesPushed ==
  ASSUME NEW q \in Seq(Subs), NEW s \in Subs, NEW w \in Subs
  PROVE  Times(<<s>> \o q, w) = Times(q, w) + (IF w = s THEN 1 ELSE 0)
<1> DEFINE f == [i \in At(q, w) |-> i + 1]
           T == {i \in 2 .. Len(q) + 1 : q[i - 1] = w}
<1>1. f \in Bijection(At(q, w), T)
  <2>1. f \in [At(q, w) -> T]
    BY DEF At
  <2>2. \A i, j \in At(q, w) : f[i] = f[j] => i = j
    BY DEF At
  <2>3. \A k \in T : \E i \in At(q, w) : f[i] = k
    <3> TAKE k \in T
    <3>1. k - 1 \in At(q, w) /\ f[k - 1] = k
      BY DEF At
    <3> QED
      BY <3>1
  <2> QED
    BY <2>1, <2>2, <2>3 DEF Bijection, Injection, Surjection, IsInjective
<1>2. IsFiniteSet(T) /\ Cardinality(T) = Times(q, w)
  <2>1. ExistsBijection(At(q, w), T)
    BY <1>1 DEF ExistsBijection
  <2> HIDE DEF T
  <2> QED
    BY <2>1, TimesIsNat, FS_Bijection DEF Times
<1>3. 1 \notin T
  OBVIOUS
<1>4. At(<<s>> \o q, w) = IF w = s THEN T \cup {1} ELSE T
  <2>1. DOMAIN (<<s>> \o q) = 1 .. Len(q) + 1
    OBVIOUS
  <2>2. (<<s>> \o q)[1] = s /\ \A i \in 2 .. Len(q) + 1 : (<<s>> \o q)[i] = q[i - 1]
    OBVIOUS
  <2> QED
    BY <2>1, <2>2 DEF At
<1>5. Times(q, w) \in Nat
  BY TimesIsNat
<1> HIDE DEF T
<1>6. Cardinality(T \cup {1}) = Cardinality(T) + 1
  BY <1>2, <1>3, FS_AddElement
<1> QED
  BY <1>2, <1>4, <1>5, <1>6 DEF Times

\* The last one less.
LEMMA TimesPopped ==
  ASSUME NEW q \in Seq(Subs), q # <<>>, NEW w \in Subs
  PROVE  Times(SubSeq(q, 1, Len(q) - 1), w) = Times(q, w) - (IF w = q[Len(q)] THEN 1 ELSE 0)
<1>1. Len(q) \in Nat \ {0} /\ DOMAIN q = 1 .. Len(q)
  OBVIOUS
<1>2. /\ DOMAIN SubSeq(q, 1, Len(q) - 1) = 1 .. Len(q) - 1
      /\ \A i \in 1 .. Len(q) - 1 : SubSeq(q, 1, Len(q) - 1)[i] = q[i]
  BY <1>1
<1>3. At(SubSeq(q, 1, Len(q) - 1), w) = At(q, w) \ {Len(q)}
  BY <1>1, <1>2 DEF At
<1>4. Len(q) \in At(q, w) <=> w = q[Len(q)]
  BY <1>1 DEF At
<1>5. IsFiniteSet(At(q, w)) /\ Times(q, w) \in Nat
  BY TimesIsNat
<1>6. Cardinality(At(q, w) \ {Len(q)})
        = IF Len(q) \in At(q, w) THEN Cardinality(At(q, w)) - 1 ELSE Cardinality(At(q, w))
  BY <1>5, FS_RemoveElement
<1>7. Times(SubSeq(q, 1, Len(q) - 1), w) = Cardinality(At(q, w) \ {Len(q)})
  BY <1>3 DEF Times
<1>8. CASE w = q[Len(q)]
  BY <1>4, <1>5, <1>6, <1>7, <1>8 DEF Times
<1>9. CASE w # q[Len(q)]
  BY <1>4, <1>5, <1>6, <1>7, <1>9 DEF Times
<1> QED
  BY <1>8, <1>9

\* Sets of threads that differ in one thread at most.
LEMMA OneThread ==
  ASSUME NEW F \in SUBSET Threads, NEW G \in SUBSET Threads, NEW t \in Threads,
         F \ {t} = G \ {t}
  PROVE  /\ Cardinality(F) \in Nat /\ Cardinality(G) \in Nat
         /\ Cardinality(G) = Cardinality(F) - (IF t \in F THEN 1 ELSE 0)
                                            + (IF t \in G THEN 1 ELSE 0)
<1>1. IsFiniteSet(F) /\ IsFiniteSet(G)
  BY ThreadAssumption, FS_Subset
<1>2. Cardinality(F) \in Nat /\ Cardinality(G) \in Nat
  BY <1>1, FS_CardinalityType
<1>3. /\ Cardinality(F \ {t}) = IF t \in F THEN Cardinality(F) - 1 ELSE Cardinality(F)
      /\ Cardinality(G \ {t}) = IF t \in G THEN Cardinality(G) - 1 ELSE Cardinality(G)
  BY <1>1, FS_RemoveElement
<1>4. Cardinality(F \ {t}) = Cardinality(G \ {t})
  OBVIOUS
<1> QED
  BY <1>2, <1>3, <1>4

\* A thread that carries a submission towards a judgement, or judges it.
Carries(t, w) == sub[t] = w /\ pc[t] \notin {"account", "rejudge", "resend"}
Carriers(w) == {t \in Threads : Carries(t, w)}

\* Nothing is on its way before it is submitted, and once it is, one.
Once(w) ==
  Times(queue, w) + broker[w] + Cardinality(Carriers(w))
    <= extra[w] + (IF result[w] = "none" THEN 0 ELSE 1)

OnceInv == \A w \in Subs : Once(w)

\* A step of one thread that moves the submission, or drops it.
LEMMA MoveKeeps ==
  ASSUME LooseTypes, LooseTypes', NEW w \in Subs, Once(w), NEW t \in Threads,
         \A x \in Threads \ {t} : sub'[x] = sub[x] /\ pc'[x] = pc[x],
         result[w] # "none" => result'[w] # "none",
         Times(queue, w)' + broker'[w] + (IF Carries(t, w)' THEN 1 ELSE 0) - extra'[w]
           <= Times(queue, w) + broker[w] + (IF Carries(t, w) THEN 1 ELSE 0) - extra[w]
  PROVE  Once(w)'
<1>1. Carriers(w) \in SUBSET Threads /\ Carriers(w)' \in SUBSET Threads
  BY DEF Carriers
<1>2. Carriers(w) \ {t} = Carriers(w)' \ {t}
  BY DEF Carriers, Carries
<1>3. (t \in Carriers(w) <=> Carries(t, w)) /\ (t \in Carriers(w)' <=> Carries(t, w)')
  BY DEF Carriers
<1>4. /\ Cardinality(Carriers(w)) \in Nat /\ Cardinality(Carriers(w)') \in Nat
      /\ Cardinality(Carriers(w)') = Cardinality(Carriers(w))
           - (IF Carries(t, w) THEN 1 ELSE 0) + (IF Carries(t, w)' THEN 1 ELSE 0)
  BY <1>1, <1>2, <1>3, OneThread
<1>5. Times(queue, w) \in Nat /\ Times(queue, w)' \in Nat
  BY TimesIsNat DEF LooseTypes
<1>6. /\ broker[w] \in Nat /\ broker'[w] \in Nat /\ extra[w] \in Nat /\ extra'[w] \in Nat
  BY DEF LooseTypes
<1> QED
  BY <1>4, <1>5, <1>6 DEF Once

\* No step sends a submission on its way twice without being asked to.
LEMMA OnceInductive == Spec => []OnceInv
<1>1. Init => OnceInv
  <2> SUFFICES ASSUME Init, NEW w \in Subs
               PROVE  Once(w)
    BY DEF OnceInv, Init
  <2>1. At(queue, w) = {} /\ Carriers(w) = {}
    BY NoneAssumption DEF Init, At, Carriers, Carries
  <2>2. Times(queue, w) = 0 /\ Cardinality(Carriers(w)) = 0
    BY <2>1, FS_EmptySet DEF Times
  <2> QED
    BY <2>2 DEF Init, Once
<1>2. LooseTypes /\ ThreadInv /\ OnceInv /\ LooseTypes' /\ [Next]_vars => OnceInv'
  <2> SUFFICES ASSUME LooseTypes, ThreadInv, OnceInv, LooseTypes', [Next]_vars
               PROVE  OnceInv'
    OBVIOUS
  <2> USE DEF rows, queues, threadVars, registry, bounds, history
  <2> SUFFICES ASSUME NEW w \in Subs
               PROVE  Once(w)'
    BY DEF OnceInv
  <2>b. Once(w) /\ Times(queue, w) \in Nat /\ broker[w] \in Nat /\ extra[w] \in Nat
    BY TimesIsNat DEF OnceInv, LooseTypes
  <2>1. ASSUME NEW t \in Threads, Choose(t)
        PROVE  Once(w)'
    <3>1. /\ UNCHANGED <<queue, broker, extra>>
          /\ \A x \in Threads \ {t} : sub'[x] = sub[x] /\ pc'[x] = pc[x]
      BY <2>1 DEF Choose, Goto, LooseTypes
    <3>2. /\ Carries(t, w)' => Carries(t, w)
          /\ result[w] # "none" => result'[w] # "none"
      BY <2>1, NoneAssumption DEF Choose, Goto, Carries, LooseTypes, ThreadInv, Idle, OnceInv
    <3> QED
      BY <2>b, <3>1, <3>2, MoveKeeps
  <2>2. ASSUME NEW t \in Threads, Enqueue(t)
        PROVE  Once(w)'
    <3>1. /\ sub[t] \in Subs /\ queue \in Seq(Subs) /\ queue' = <<sub[t]>> \o queue
          /\ pc[t] = "enqueue" /\ sub'[t] = None
          /\ UNCHANGED <<broker, extra, result>>
          /\ \A x \in Threads \ {t} : sub'[x] = sub[x] /\ pc'[x] = pc[x]
      BY <2>2 DEF Enqueue, Finish, Clear, Goto, LooseTypes, ThreadInv, Idle
    <3>2. Times(queue', w) = Times(queue, w) + (IF w = sub[t] THEN 1 ELSE 0)
      BY <3>1, TimesPushed
    <3>3. ~Carries(t, w)' /\ (w = sub[t] => Carries(t, w))
      BY <3>1, NoneAssumption DEF Carries
    <3> QED
      BY <2>b, <3>1, <3>2, <3>3, MoveKeeps
  <2>3. ASSUME NEW t \in Threads, Mark(t)
        PROVE  Once(w)'
    <3>1. /\ UNCHANGED <<queue, broker, extra>>
          /\ \A x \in Threads \ {t} : sub'[x] = sub[x] /\ pc'[x] = pc[x]
      BY <2>3 DEF Mark, Goto, LooseTypes
    <3>2. /\ Carries(t, w)' => Carries(t, w)
          /\ result[w] # "none" => result'[w] # "none"
      BY <2>3, NoneAssumption DEF Mark, Goto, Carries, LooseTypes, ThreadInv, Idle, OnceInv
    <3> QED
      BY <2>b, <3>1, <3>2, MoveKeeps
  <2>4. ASSUME NEW t \in Threads, NEW r \in Verdicts \cup {"none"}, Respond(t, r)
        PROVE  Once(w)'
    <3>1. /\ UNCHANGED <<queue, broker, extra>>
          /\ \A x \in Threads \ {t} : sub'[x] = sub[x] /\ pc'[x] = pc[x]
      BY <2>4 DEF Respond, LeaveServer, Goto, LooseTypes
    <3>2. /\ Carries(t, w)' => Carries(t, w)
          /\ result[w] # "none" => result'[w] # "none"
      BY <2>4, NoneAssumption DEF Respond, LeaveServer, Goto, Carries, LooseTypes,
         ThreadInv, Idle, OnceInv
    <3> QED
      BY <2>b, <3>1, <3>2, MoveKeeps
  <2>5. ASSUME NEW t \in Threads, SystemError(t)
        PROVE  Once(w)'
    <3>1. /\ UNCHANGED <<queue, broker, extra>>
          /\ \A x \in Threads \ {t} : sub'[x] = sub[x] /\ pc'[x] = pc[x]
      BY <2>5 DEF SystemError, Finish, Clear, Goto, LooseTypes
    <3>2. /\ Carries(t, w)' => Carries(t, w)
          /\ result[w] # "none" => result'[w] # "none"
      BY <2>5, NoneAssumption DEF SystemError, Finish, Clear, Goto, Carries, LooseTypes,
         ThreadInv, Idle, OnceInv
    <3> QED
      BY <2>b, <3>1, <3>2, MoveKeeps
  <2>6. ASSUME NEW t \in Threads, Save(t)
        PROVE  Once(w)'
    <3>1. /\ UNCHANGED <<queue, broker, extra>>
          /\ \A x \in Threads \ {t} : sub'[x] = sub[x] /\ pc'[x] = pc[x]
      BY <2>6 DEF Save, Goto, LooseTypes
    <3>2. Carries(t, w)' => Carries(t, w)
      BY <2>6 DEF Save, Goto, Carries, LooseTypes
    <3>3. verdict[t] # "none" /\ result' = [result EXCEPT ![sub[t]] = verdict[t]]
      BY <2>6 DEF Save, ThreadInv, Verdicts
    <3>4. result[w] # "none" => result'[w] # "none"
      BY <3>3 DEF LooseTypes
    <3> QED
      BY <2>b, <3>1, <3>2, <3>4, MoveKeeps
  <2>7. ASSUME NEW t \in Threads, Account(t)
        PROVE  Once(w)'
    <3>1. /\ UNCHANGED <<queue, broker, extra>>
          /\ \A x \in Threads \ {t} : sub'[x] = sub[x] /\ pc'[x] = pc[x]
      BY <2>7 DEF Account, Clear, Goto, LooseTypes
    <3>2. /\ Carries(t, w)' => Carries(t, w)
          /\ result[w] # "none" => result'[w] # "none"
      BY <2>7, NoneAssumption DEF Account, Clear, Goto, Carries, LooseTypes, ThreadInv,
         Idle, OnceInv
    <3> QED
      BY <2>b, <3>1, <3>2, MoveKeeps
  <2>8. ASSUME NEW t \in Threads, Pop(t)
        PROVE  Once(w)'
    <3>1. /\ UNCHANGED <<broker, extra, result>> /\ pc[t] = "next" /\ sub[t] = None
          /\ \A x \in Threads \ {t} : sub'[x] = sub[x] /\ pc'[x] = pc[x]
      <4>1. UNCHANGED <<broker, extra, result>> /\ pc[t] = "next" /\ sub[t] = None
        BY <2>8 DEF Pop, ThreadInv, Idle
      <4>2. CASE Finish(t)
        BY <4>1, <4>2 DEF Finish, Clear, Goto, LooseTypes
      <4>3. CASE sub' = [sub EXCEPT ![t] = queue[Len(queue)]] /\ Goto(t, "send")
        BY <4>1, <4>3 DEF Goto, LooseTypes
      <4> QED
        BY <2>8, <4>2, <4>3 DEF Pop
    <3>2. ~Carries(t, w)
      BY <3>1, NoneAssumption DEF Carries
    <3>3. CASE Finish(t) /\ UNCHANGED queue
      <4>1. ~Carries(t, w)'
        BY <3>3, NoneAssumption DEF Finish, Clear, Carries, LooseTypes
      <4> QED
        BY <2>b, <3>1, <3>2, <3>3, <4>1, MoveKeeps
    <3>4. CASE /\ queue # <<>> /\ queue' = SubSeq(queue, 1, Len(queue) - 1)
               /\ sub' = [sub EXCEPT ![t] = queue[Len(queue)]] /\ Goto(t, "send")
      <4>1. Times(queue', w) = Times(queue, w) - (IF w = queue[Len(queue)] THEN 1 ELSE 0)
        BY <3>4, TimesPopped DEF LooseTypes
      <4>2. Carries(t, w)' => w = queue[Len(queue)]
        BY <3>4 DEF Carries, LooseTypes
      <4> QED
        BY SMTT(60), <2>b, <3>1, <3>2, <4>1, <4>2, MoveKeeps
    <3> QED
      BY <2>8, <3>3, <3>4 DEF Pop
  <2>9. ASSUME NEW t \in Threads, Send(t)
        PROVE  Once(w)'
    <3>1. /\ sub[t] \in Subs /\ broker' = [broker EXCEPT ![sub[t]] = @ + 1]
          /\ pc[t] = "send" /\ sub'[t] = None
          /\ UNCHANGED <<queue, extra, result>>
          /\ \A x \in Threads \ {t} : sub'[x] = sub[x] /\ pc'[x] = pc[x]
      BY <2>9 DEF Send, Finish, Clear, Goto, LooseTypes, ThreadInv, Idle
    <3>2. ~Carries(t, w)' /\ (w = sub[t] => Carries(t, w))
      BY <3>1, NoneAssumption DEF Carries
    <3>3. broker'[w] = broker[w] + (IF w = sub[t] THEN 1 ELSE 0)
      BY <3>1 DEF LooseTypes
    <3> QED
      BY <2>b, <3>1, <3>2, <3>3, MoveKeeps
  <2>10. ASSUME NEW t \in Threads, Ack(t)
        PROVE  Once(w)'
    <3>1. /\ UNCHANGED <<queue, broker, extra>>
          /\ \A x \in Threads \ {t} : sub'[x] = sub[x] /\ pc'[x] = pc[x]
      BY <2>10 DEF Ack, End, Clear, Goto, LooseTypes
    <3>2. /\ Carries(t, w)' => Carries(t, w)
          /\ result[w] # "none" => result'[w] # "none"
      BY <2>10, NoneAssumption DEF Ack, End, Clear, Goto, Carries, LooseTypes, ThreadInv,
         Idle, OnceInv
    <3> QED
      BY <2>b, <3>1, <3>2, MoveKeeps
  <2>11. ASSUME NEW t \in Threads, SaveRejudge(t)
        PROVE  Once(w)'
    <3>1. /\ UNCHANGED <<queue, broker, extra>>
          /\ \A x \in Threads \ {t} : sub'[x] = sub[x] /\ pc'[x] = pc[x]
      BY <2>11 DEF SaveRejudge, Goto, LooseTypes
    <3>2. /\ Carries(t, w)' => Carries(t, w)
          /\ result[w] # "none" => result'[w] # "none"
      BY <2>11, NoneAssumption DEF SaveRejudge, Goto, Carries, LooseTypes, ThreadInv, Idle,
         OnceInv
    <3> QED
      BY <2>b, <3>1, <3>2, MoveKeeps
  <2>12. ASSUME NEW t \in Threads, SendRejudge(t)
        PROVE  Once(w)'
    <3>1. /\ sub[t] \in Subs /\ broker' = [broker EXCEPT ![sub[t]] = @ + 1]
          /\ extra' = [extra EXCEPT ![sub[t]] = @ + 1] /\ sub'[t] = None
          /\ UNCHANGED <<queue, result>>
          /\ \A x \in Threads \ {t} : sub'[x] = sub[x] /\ pc'[x] = pc[x]
      BY <2>12 DEF SendRejudge, End, Clear, Goto, LooseTypes, ThreadInv, Idle
    <3>2. ~Carries(t, w)'
      BY <3>1, NoneAssumption DEF Carries
    <3>3. broker'[w] - extra'[w] = broker[w] - extra[w]
      BY <3>1 DEF LooseTypes
    <3> QED
      BY <2>b, <3>1, <3>2, <3>3, MoveKeeps
  <2>13. ASSUME NEW t \in Threads, Crash(t)
        PROVE  Once(w)'
    <3>1. /\ UNCHANGED <<queue, result>> /\ sub'[t] = None
          /\ \A x \in Threads \ {t} : sub'[x] = sub[x] /\ pc'[x] = pc[x]
      BY <2>13 DEF Crash, End, Clear, Goto, LooseTypes
    <3>2. ~Carries(t, w)'
      BY <3>1, NoneAssumption DEF Carries
    <3>3. broker'[w] - extra'[w] = broker[w] - extra[w]
      <4>1. CASE msg[t] = None
        BY <2>13, <4>1 DEF Crash
      <4>2. CASE msg[t] # None
        <5>1. /\ broker' = [broker EXCEPT ![msg[t]] = @ + 1]
              /\ extra' = [extra EXCEPT ![msg[t]] = @ + 1]
          BY <2>13, <4>2 DEF Crash
        <5> QED
          BY <5>1, <2>b DEF LooseTypes
      <4> QED
        BY <4>1, <4>2
    <3>4. broker'[w] \in Nat /\ extra'[w] \in Nat
      BY DEF LooseTypes
    <3> QED
      BY <2>b, <3>1, <3>2, <3>3, <3>4, MoveKeeps
  <2>14. ASSUME NEW t \in Threads, Raise(t)
        PROVE  Once(w)'
    <3>1. /\ UNCHANGED <<queue, broker, extra>>
          /\ \A x \in Threads \ {t} : sub'[x] = sub[x] /\ pc'[x] = pc[x]
      BY <2>14 DEF Raise, End, Clear, Goto, LooseTypes
    <3>2. /\ Carries(t, w)' => Carries(t, w)
          /\ result[w] # "none" => result'[w] # "none"
      BY <2>14, NoneAssumption DEF Raise, End, Clear, Goto, Carries, LooseTypes, ThreadInv,
         Idle, OnceInv
    <3> QED
      BY <2>b, <3>1, <3>2, MoveKeeps
  <2>15. ASSUME NEW t \in Threads, NEW s \in Subs, Submit(t, s)
        PROVE  Once(w)'
    <3>1. /\ UNCHANGED <<queue, broker, extra>> /\ sub[t] = None
          /\ sub'[t] = s /\ result[s] = "none" /\ result' = [result EXCEPT ![s] = "pending"]
          /\ \A x \in Threads \ {t} : sub'[x] = sub[x] /\ pc'[x] = pc[x]
      BY <2>15 DEF Submit, Goto, LooseTypes, ThreadInv, Idle
    <3>2. CASE w # s
      <4>1. ~Carries(t, w)'
        BY <3>1, <3>2 DEF Carries
      <4>2. result'[w] = result[w]
        BY <3>1, <3>2 DEF LooseTypes
      <4> QED
        BY <2>b, <3>1, <4>1, <4>2, MoveKeeps
    <3>3. CASE w = s
      <4>1. Carriers(w) \in SUBSET Threads /\ Carriers(w)' = Carriers(w) \cup {t}
        BY <2>15, <3>1, <3>3 DEF Carriers, Carries, Submit, Goto, LooseTypes
      <4>2. IsFiniteSet(Carriers(w)) /\ Cardinality(Carriers(w)) \in Nat
        BY <4>1, ThreadAssumption, FS_Subset, FS_CardinalityType
      <4>3. Cardinality(Carriers(w)') <= Cardinality(Carriers(w)) + 1
        BY SMTT(60), <4>1, <4>2, FS_AddElement
      <4>4. result[w] = "none" /\ result'[w] = "pending"
        BY <3>1, <3>3 DEF LooseTypes
      <4>5. Cardinality(Carriers(w)') \in Nat
        <5>1. Carriers(w)' \in SUBSET Threads
          BY <4>1
        <5> QED
          BY <5>1, ThreadAssumption, FS_Subset, FS_CardinalityType
      <4> QED
        BY <2>b, <3>1, <4>2, <4>3, <4>4, <4>5 DEF Once
    <3> QED
      BY <3>2, <3>3
  <2>16. ASSUME NEW t \in Threads, NEW s \in Subs, Deliver(t, s)
        PROVE  Once(w)'
    <3>1. /\ UNCHANGED <<queue, extra, result>> /\ sub[t] = None
          /\ broker[s] > 0 /\ broker' = [broker EXCEPT ![s] = @ - 1]
      BY <2>16 DEF Deliver, ThreadInv, Idle
    <3>2. broker'[w] = broker[w] - (IF w = s THEN 1 ELSE 0)
      BY <3>1 DEF LooseTypes
    <3>3. ~Carries(t, w)
      BY <3>1, NoneAssumption DEF Carries
    <3>4. CASE UNCHANGED threadVars
      <4>1. ~Carries(t, w)'
        BY <3>3, <3>4 DEF Carries
      <4> QED
        BY <2>b, <3>1, <3>2, <3>3, <3>4, <4>1, MoveKeeps
    <3>5. CASE sub' = [sub EXCEPT ![t] = s] /\ Goto(t, "choose")
      <4>1. \A x \in Threads \ {t} : sub'[x] = sub[x] /\ pc'[x] = pc[x]
        BY <3>5 DEF Goto, LooseTypes
      <4>2. Carries(t, w)' => w = s
        BY <3>5 DEF Carries, LooseTypes
      <4> QED
        BY <2>b, <3>1, <3>2, <3>3, <4>1, <4>2, MoveKeeps
    <3> QED
      BY <2>16, <3>4, <3>5 DEF Deliver
  <2>17. ASSUME NEW t \in Threads, NEW s \in Subs, ReadRejudge(t, s)
        PROVE  Once(w)'
    <3>1. /\ UNCHANGED <<queue, broker, extra>>
          /\ \A x \in Threads \ {t} : sub'[x] = sub[x] /\ pc'[x] = pc[x]
      BY <2>17 DEF ReadRejudge, Goto, LooseTypes
    <3>2. /\ Carries(t, w)' => Carries(t, w)
          /\ result[w] # "none" => result'[w] # "none"
      BY <2>17, NoneAssumption DEF ReadRejudge, Goto, Carries, LooseTypes, ThreadInv, Idle,
         OnceInv
    <3> QED
      BY <2>b, <3>1, <3>2, MoveKeeps
  <2>18. ASSUME NEW s \in Subs, DisableUser(s)
        PROVE  Once(w)'
    BY <2>18, <2>b DEF DisableUser, Once, Carriers, Carries
  <2>19. ASSUME NEW t \in Threads, NEW v \in Servers, Heartbeat(t, v)
        PROVE  Once(w)'
    <3>1. /\ UNCHANGED <<queue, broker, extra>>
          /\ \A x \in Threads \ {t} : sub'[x] = sub[x] /\ pc'[x] = pc[x]
      BY <2>19 DEF Heartbeat, Goto, LooseTypes
    <3>2. /\ Carries(t, w)' => Carries(t, w)
          /\ result[w] # "none" => result'[w] # "none"
      BY <2>19, NoneAssumption DEF Heartbeat, Goto, Carries, LooseTypes, ThreadInv, Idle,
         OnceInv
    <3> QED
      BY <2>b, <3>1, <3>2, MoveKeeps
  <2>20. ASSUME NEW t \in Threads, NEW v \in Servers, Enable(t, v)
        PROVE  Once(w)'
    <3>1. /\ UNCHANGED <<queue, broker, extra>>
          /\ \A x \in Threads \ {t} : sub'[x] = sub[x] /\ pc'[x] = pc[x]
      BY <2>20 DEF Enable, Goto, LooseTypes
    <3>2. /\ Carries(t, w)' => Carries(t, w)
          /\ result[w] # "none" => result'[w] # "none"
      BY <2>20, NoneAssumption DEF Enable, Goto, Carries, LooseTypes, ThreadInv, Idle, OnceInv
    <3> QED
      BY <2>b, <3>1, <3>2, MoveKeeps
  <2>21. ASSUME NEW v \in Servers, Expire(v)
        PROVE  Once(w)'
    BY <2>21, <2>b DEF Expire, Once, Carriers, Carries
  <2>22. ASSUME NEW v \in Servers, Disable(v)
        PROVE  Once(w)'
    BY <2>22, <2>b DEF Disable, Once, Carriers, Carries
  <2>23. ASSUME NEW v \in Servers, Delete(v)
        PROVE  Once(w)'
    BY <2>23, <2>b DEF Delete, Once, Carriers, Carries
  <2>24. CASE UNCHANGED vars
    BY <2>24, <2>b DEF vars, Once, Carriers, Carries
  <2> QED
    BY <2>1, <2>2, <2>3, <2>4, <2>5, <2>6, <2>7, <2>8, <2>9, <2>10, <2>11, <2>12, <2>13,
       <2>14, <2>15, <2>16, <2>17, <2>18, <2>19, <2>20, <2>21, <2>22, <2>23,
          <2>24 DEF Next, Judge
<1>3. QED
  BY <1>1, <1>2, ThreadInductive, PTL DEF Spec

\* A submission is judged as often as was asked for, whatever overlaps: it is
\* in one place at a time, plus one for each rejudge and each redelivery.
THEOREM JudgedOnce == Spec => []NoDuplicate
<1>1. LooseTypes /\ OnceInv => NoDuplicate
  <2> SUFFICES ASSUME LooseTypes, OnceInv, NEW s \in Subs
               PROVE  Cardinality(Queued(s)) + broker[s]
                        + Cardinality({t \in Judges(s) : pc[t] # "resend"}) <= 1 + extra[s]
    BY DEF NoDuplicate
  <2>1. Queued(s) = At(queue, s) /\ {t \in Judges(s) : pc[t] # "resend"} = Carriers(s)
    BY DEF Queued, At, Judges, Carriers, Carries
  <2>2. Times(queue, s) \in Nat /\ broker[s] \in Nat /\ extra[s] \in Nat
    BY TimesIsNat DEF LooseTypes
  <2>3. Cardinality(Carriers(s)) \in Nat
    <3>1. Carriers(s) \in SUBSET Threads
      BY DEF Carriers
    <3> QED
      BY <3>1, ThreadAssumption, FS_Subset, FS_CardinalityType
  <2>4. Once(s)
    BY DEF OnceInv
  <2>5. Cardinality(Queued(s)) = Times(queue, s)
    BY <2>1 DEF Times
  <2>6. Times(queue, s) + broker[s] + Cardinality(Carriers(s)) <= 1 + extra[s]
    BY <2>2, <2>3, <2>4 DEF Once
  <2> QED
    BY <2>1, <2>5, <2>6
<1> QED
  BY <1>1, ThreadInductive, OnceInductive, PTL

=============================================================================
