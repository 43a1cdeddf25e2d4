-------------------------- MODULE EvalSnapshotProofs --------------------------
(***************************************************************************)
(* Proofs about EvalSnapshot for every number of pairs, codes, jobs, pool  *)
(* threads, retries and failures.                                          *)
(***************************************************************************)
EXTENDS EvalSnapshot, FiniteSetTheorems, TLAPS

CodeOrNone == Codes \cup {NoCode}
Evaluations == CodeOrNone \cup {"none", "error"}
Stages == {"idle", "load", "qual", "ai", "count"}

\* The types of the variables that the proofs need.
Types ==
  /\ final \in [Pairs -> CodeOrNone] /\ snap \in [Pairs -> CodeOrNone]
  /\ qual \in [Pairs -> Evaluations] /\ ai \in [Pairs -> Evaluations]
  /\ status \in [Jobs -> {"none", "running", "done", "failed", "cancelled"}]
  /\ mode \in [Jobs -> Modes]
  /\ opc \in [Jobs -> {"idle", "start", "freeze", "pending", "work"}]
  /\ finals \in [Jobs -> [Pairs -> CodeOrNone]]
  /\ existing \in [Jobs -> [Pairs -> CodeOrNone]]
  /\ todo \in [Jobs -> SUBSET Pairs] /\ failing \in [Jobs -> SUBSET Pairs]
  /\ ev \in [Jobs -> [Pairs -> Stages]]
  /\ code \in [Jobs -> [Pairs -> CodeOrNone]]
  /\ nTotal \in [Jobs -> Nat]
  /\ done \in [Jobs -> SUBSET Pairs] /\ failed \in [Jobs -> SUBSET Pairs]

\* An evaluation that waits for the LLM is of the code that its snapshot shows.
FreshPair(k) ==
  /\ Matches(k)
  /\ \A j \in Jobs : ev[j][k] \in {"qual", "ai"} => code[j][k] = snap[k]

FreshInv == \A k \in Pairs \ stale : FreshPair(k)

\* Jobs come one after the other.
OrderInv ==
  /\ \A i, j \in Jobs : i < j /\ status[j] # "none" => status[i] # "none"
  /\ \A j \in Jobs : status[j] = "none" => opc[j] = "idle"
  /\ \A j \in Jobs : opc[j] # "work" => \A k \in Pairs : ev[j][k] = "idle"
  /\ \A j \in Jobs : status[j] = "done" => opc[j] \in {"work", "start", "idle"}
  /\ \A j \in Jobs \ overlap : Last(j) => \A i \in Jobs \ {j} : opc[i] = "idle"

\* What has a snapshot had a final submission.
FrozenInv ==
  /\ \A k \in Pairs : snap[k] # NoCode => final[k] # NoCode
  /\ \A j \in Jobs, k \in Pairs : finals[j][k] # NoCode => final[k] # NoCode
  /\ \A k \in Pairs : qual[k] = "error" \/ ai[k] = "error" => snap[k] # NoCode
  /\ \A j \in Jobs, k \in Pairs : k \in todo[j] \/ ev[j][k] # "idle" => snap[k] # NoCode

\* The last job, which started with no other at work, moves each of its pairs
\* from todo through the stages of ev to done or to failed.
PairInv(j, k) ==
  /\ ev[j][k] # "idle" => k \notin todo[j]
  /\ mode[j] = "pending" /\ (k \in todo[j] \/ ev[j][k] = "load") =>
       qual[k] = "none" /\ ai[k] = "none"
  /\ ev[j][k] \in {"qual", "ai"} => code[j][k] = snap[k]
  /\ ev[j][k] = "ai" /\ k \notin failing[j] => qual[k] = snap[k]
  /\ ev[j][k] = "count" /\ k \notin failing[j] => qual[k] = snap[k] /\ ai[k] = snap[k]
  /\ (opc[j] = "work" \/ status[j] = "done") /\ k \in done[j] =>
       qual[k] = snap[k] /\ ai[k] = snap[k]
  /\ opc[j] = "work" /\ k \in done[j] \cup failed[j] => k \notin todo[j] /\ ev[j][k] = "idle"

\* Its pairs: those to come, those being evaluated, and those counted.
JobPairs(j) == todo[j] \cup Working(j) \cup done[j] \cup failed[j]

\* While it runs it forgets none, and a forced job misses no error.
CountInv(j) ==
  /\ opc[j] = "work" => done[j] \cap failed[j] = {}
  /\ opc[j] = "work" /\ status[j] = "running" => nTotal[j] = Cardinality(JobPairs(j))
  /\ status[j] = "done" => todo[j] = {} /\ Working(j) = {}

IsError(k) == qual[k] = "error" \/ ai[k] = "error"

ErrorInv(j) ==
  /\ opc[j] = "freeze" => \A k \in Pairs : snap[k] # NoCode => finals[j][k] # NoCode
  /\ opc[j] = "pending" /\ mode[j] = "all" => \A k \in Pairs : ~IsError(k)
  /\ Forced(j) /\ ((opc[j] = "work" /\ status[j] = "running") \/ status[j] = "done") =>
       \A k \in Pairs : IsError(k) => k \in todo[j] \cup Working(j) \cup failed[j]

\* The last job, triggered when no earlier one was at work.
Alone(j) == j \notin overlap /\ Last(j)

\* The inductive invariants, about a job that nothing overlaps.
PairsInv == \A j \in Jobs : Alone(j) => \A k \in Pairs : PairInv(j, k)
CountsInv == \A j \in Jobs : Alone(j) => CountInv(j)
ErrorsInv == \A j \in Jobs : Alone(j) => ErrorInv(j)

\* A job that was not triggered has nothing.
UnusedInv ==
  \A j \in Jobs : status[j] = "none" => todo[j] = {} /\ done[j] = {} /\ failed[j] = {}

\* When the last job started alone, nothing of another one is at work.
LEMMA OnlyLast ==
  ASSUME Types, OrderInv, NEW j \in Jobs, Alone(j), NEW i \in Jobs,
         opc[i] # "idle" \/ \E k \in Pairs : ev[i][k] # "idle"
  PROVE  i = j
  BY DEF OrderInv, Alone

\* The variables have their types.
LEMMA TypesInductive == Spec => []Types
<1>1. Init => Types
  BY DEF Init, Types, Modes, Stages, CodeOrNone, Evaluations, NoCodes
<1>2. Types /\ [Next]_vars => Types'
  <2> SUFFICES ASSUME Types, [Next]_vars
               PROVE  Types'
    OBVIOUS
  <2> USE DEF store, jobVars, readVars, pairVars, counters, bounds
  <2>1. ASSUME NEW q \in Pairs, NEW c \in Codes, Submit(q, c)
        PROVE  Types'
    BY <2>1 DEF Submit, Types, CodeOrNone
  <2>2. ASSUME NEW i \in Jobs, NEW m \in Modes, Trigger(i, m)
        PROVE  Types'
    BY <2>2 DEF Trigger, Types, Modes
  <2>3. ASSUME NEW i \in Jobs, Cancel(i)
        PROVE  Types'
    BY <2>3 DEF Cancel, Types
  <2>4. ASSUME NEW i \in Jobs, Begin(i)
        PROVE  Types'
    <3>1. opc' \in [Jobs -> {"idle", "start", "freeze", "pending", "work"}]
      BY <2>4 DEF Begin, Goto, Types
    <3>2. /\ finals' \in [Jobs -> [Pairs -> CodeOrNone]]
          /\ existing' \in [Jobs -> [Pairs -> CodeOrNone]]
      <4>1. CASE UNCHANGED readVars
        BY <4>1 DEF Types
      <4>2. CASE /\ finals' = [finals EXCEPT ![i] = final]
                 /\ existing' = [existing EXCEPT ![i] = snap]
        BY <4>2 DEF Types
      <4> QED
        BY <2>4, <4>1, <4>2 DEF Begin
    <3> QED
      BY <2>4, <3>1, <3>2 DEF Begin, Types
  <2>5. ASSUME NEW i \in Jobs, Freeze(i)
        PROVE  Types'
    <3>1. Refresh(i) \subseteq Pairs /\ \A k \in Refresh(i) : finals[i][k] \in CodeOrNone
      BY DEF Refresh, Types
    <3>2. snap' \in [Pairs -> CodeOrNone]
      BY <2>5, <3>1 DEF Freeze, Types
    <3>3. qual' \in [Pairs -> Evaluations] /\ ai' \in [Pairs -> Evaluations]
      BY <2>5 DEF Freeze, Types, Evaluations
    <3>4. /\ opc' \in [Jobs -> {"idle", "start", "freeze", "pending", "work"}]
          /\ todo' \in [Jobs -> SUBSET Pairs]
      BY <2>5, <3>1 DEF Freeze, Goto, Types
    <3>5. NoCodes \in [Pairs -> CodeOrNone]
      BY DEF NoCodes, CodeOrNone
    <3>6. /\ finals' \in [Jobs -> [Pairs -> CodeOrNone]]
          /\ existing' \in [Jobs -> [Pairs -> CodeOrNone]]
      BY <2>5, <3>5 DEF Freeze, Reread, Types
    <3> QED
      BY <2>5, <3>2, <3>3, <3>4, <3>6 DEF Freeze, Types
  <2>6. ASSUME NEW i \in Jobs, FreezeConflict(i)
        PROVE  Types'
    BY <2>6 DEF FreezeConflict, Goto, Reread, Types, CodeOrNone, NoCodes
  <2>7. ASSUME NEW i \in Jobs, BuildPending(i)
        PROVE  Types'
    <3>1. Pending(i) \subseteq Pairs
      BY DEF Pending, Types, Modes
    <3>2. Cardinality(Pending(i)) \in Nat
      BY <3>1, PairAssumption, FS_Subset, FS_CardinalityType
    <3>3. opc' \in [Jobs -> {"idle", "start", "freeze", "pending", "work"}]
      BY <2>7 DEF BuildPending, Goto, Types
    <3>4. status' \in [Jobs -> {"none", "running", "done", "failed", "cancelled"}]
      BY <2>7 DEF BuildPending, Types
    <3>5. /\ todo' \in [Jobs -> SUBSET Pairs] /\ nTotal' \in [Jobs -> Nat]
          /\ done' \in [Jobs -> SUBSET Pairs] /\ failed' \in [Jobs -> SUBSET Pairs]
      BY <2>7, <3>1, <3>2 DEF BuildPending, Types
    <3> QED
      BY <2>7, <3>3, <3>4, <3>5 DEF BuildPending, Types
  <2>8. ASSUME NEW i \in Jobs, Return(i)
        PROVE  Types'
    BY <2>8 DEF Return, Goto, Types
  <2>9. ASSUME NEW i \in Jobs, Crash(i)
        PROVE  Types'
    BY <2>9 DEF Crash, Goto, Reread, Fault, Types, Stages, CodeOrNone, NoCodes
  <2>10. ASSUME NEW i \in Jobs, NEW q \in Pairs, StartPair(i, q)
        PROVE  Types'
    BY <2>10 DEF StartPair, Step, Types, Stages
  <2>11. ASSUME NEW i \in Jobs, NEW q \in Pairs, LoadPair(i, q)
        PROVE  Types'
    BY <2>11 DEF LoadPair, Step, Types, Stages, CodeOrNone
  <2>12. ASSUME NEW i \in Jobs, NEW q \in Pairs, PairRaises(i, q)
        PROVE  Types'
    BY <2>12 DEF PairRaises, Raised, Step, Fault, Types, Stages
  <2>13. ASSUME NEW i \in Jobs, NEW q \in Pairs, CountPair(i, q)
        PROVE  Types'
    BY <2>13 DEF CountPair, Step, Types, Stages, CodeOrNone
  <2>14. ASSUME NEW i \in Jobs, NEW q \in Pairs, NEW r \in Replies, CallAgain(i, q, r)
        PROVE  Types'
    BY <2>14 DEF CallAgain, Call, Types
  <2>15. ASSUME NEW i \in Jobs, NEW q \in Pairs, NEW r \in Replies, ParserRaises(i, q, r)
        PROVE  Types'
    BY <2>15 DEF ParserRaises, Raised, Call, Step, Fault, Types, Stages
  <2>16. ASSUME NEW i \in Jobs, NEW q \in Pairs, NEW r \in Replies, NEW ok \in BOOLEAN,
                WriteQual(i, q, r, ok)
        PROVE  Types'
    BY <2>16 DEF WriteQual, Step, Outcome, Judged, Types, Stages, CodeOrNone, Evaluations
  <2>17. ASSUME NEW i \in Jobs, NEW q \in Pairs, NEW r \in Replies, NEW ok \in BOOLEAN,
                WriteAI(i, q, r, ok)
        PROVE  Types'
    BY <2>17 DEF WriteAI, Step, Outcome, Judged, Types, Stages, CodeOrNone, Evaluations
  <2>18. CASE UNCHANGED vars
    BY <2>18 DEF vars, Types
  <2> QED
    BY <2>1, <2>2, <2>3, <2>4, <2>5, <2>6, <2>7, <2>8, <2>9, <2>10, <2>11, <2>12,
       <2>13, <2>14, <2>15, <2>16, <2>17, <2>18 DEF Next
<1>3. QED
  BY <1>1, <1>2, PTL DEF Spec

\* A pair that was not frozen again under an evaluation stays fresh.
LEMMA FreshInductive == Spec => []FreshInv
<1>1. Init => FreshInv
  BY DEF Init, FreshInv, FreshPair, Matches, NoCodes
<1>2. Types /\ FreshInv /\ [Next]_vars => FreshInv'
  <2> SUFFICES ASSUME Types, FreshInv, [Next]_vars
               PROVE  FreshInv'
    OBVIOUS
  <2> USE DEF store, jobVars, readVars, pairVars, counters, bounds
  <2>1. ASSUME NEW q \in Pairs, NEW c \in Codes, Submit(q, c)
        PROVE  FreshInv'
    BY <2>1 DEF Submit, Types, FreshInv, FreshPair, Matches
  <2>2. ASSUME NEW i \in Jobs, NEW m \in Modes, Trigger(i, m)
        PROVE  FreshInv'
    BY <2>2 DEF Trigger, Types, FreshInv, FreshPair, Matches
  <2>3. ASSUME NEW i \in Jobs, Cancel(i)
        PROVE  FreshInv'
    BY <2>3 DEF Cancel, Types, FreshInv, FreshPair, Matches
  <2>4. ASSUME NEW i \in Jobs, Begin(i)
        PROVE  FreshInv'
    BY <2>4 DEF Begin, Goto, Types, FreshInv, FreshPair, Matches
  <2>5. ASSUME NEW i \in Jobs, Freeze(i)
        PROVE  FreshInv'
    BY <2>5 DEF Freeze, Goto, Reread, Types, FreshInv, FreshPair, Matches, NoCodes
  <2>6. ASSUME NEW i \in Jobs, FreezeConflict(i)
        PROVE  FreshInv'
    BY <2>6 DEF FreezeConflict, Goto, Reread, Types, FreshInv, FreshPair, Matches, NoCodes
  <2>7. ASSUME NEW i \in Jobs, BuildPending(i)
        PROVE  FreshInv'
    BY <2>7 DEF BuildPending, Goto, Types, FreshInv, FreshPair, Matches
  <2>8. ASSUME NEW i \in Jobs, Return(i)
        PROVE  FreshInv'
    BY <2>8 DEF Return, Goto, Types, FreshInv, FreshPair, Matches
  <2>9. ASSUME NEW i \in Jobs, Crash(i)
        PROVE  FreshInv'
    BY <2>9 DEF Crash, Goto, Reread, Fault, Types, FreshInv, FreshPair, Matches, NoCodes
  <2>10. ASSUME NEW i \in Jobs, NEW q \in Pairs, StartPair(i, q)
        PROVE  FreshInv'
    BY <2>10 DEF StartPair, Step, Types, FreshInv, FreshPair, Matches
  <2>11. ASSUME NEW i \in Jobs, NEW q \in Pairs, LoadPair(i, q)
        PROVE  FreshInv'
    BY <2>11 DEF LoadPair, Step, Types, FreshInv, FreshPair, Matches
  <2>12. ASSUME NEW i \in Jobs, NEW q \in Pairs, PairRaises(i, q)
        PROVE  FreshInv'
    BY <2>12 DEF PairRaises, Raised, Step, Fault, Types, FreshInv, FreshPair, Matches
  <2>13. ASSUME NEW i \in Jobs, NEW q \in Pairs, CountPair(i, q)
        PROVE  FreshInv'
    BY <2>13 DEF CountPair, Step, Types, FreshInv, FreshPair, Matches
  <2>14. ASSUME NEW i \in Jobs, NEW q \in Pairs, NEW r \in Replies, CallAgain(i, q, r)
        PROVE  FreshInv'
    BY <2>14 DEF CallAgain, Call, Types, FreshInv, FreshPair, Matches
  <2>15. ASSUME NEW i \in Jobs, NEW q \in Pairs, NEW r \in Replies, ParserRaises(i, q, r)
        PROVE  FreshInv'
    BY <2>15 DEF ParserRaises, Raised, Call, Step, Fault, Types, FreshInv, FreshPair,
       Matches
  <2>16. ASSUME NEW i \in Jobs, NEW q \in Pairs, NEW r \in Replies, NEW ok \in BOOLEAN,
                WriteQual(i, q, r, ok)
        PROVE  FreshInv'
    BY <2>16 DEF WriteQual, Step, Outcome, Judged, Types, FreshInv, FreshPair, Matches
  <2>17. ASSUME NEW i \in Jobs, NEW q \in Pairs, NEW r \in Replies, NEW ok \in BOOLEAN,
                WriteAI(i, q, r, ok)
        PROVE  FreshInv'
    BY <2>17 DEF WriteAI, Step, Outcome, Judged, Types, FreshInv, FreshPair, Matches
  <2>18. CASE UNCHANGED vars
    BY <2>18 DEF vars, FreshInv, FreshPair, Matches
  <2> QED
    BY <2>1, <2>2, <2>3, <2>4, <2>5, <2>6, <2>7, <2>8, <2>9, <2>10, <2>11, <2>12,
       <2>13, <2>14, <2>15, <2>16, <2>17, <2>18 DEF Next
<1>3. QED
  BY <1>1, <1>2, TypesInductive, PTL DEF Spec

\* Jobs run in the order of their triggers.
LEMMA OrderInductive == Spec => []OrderInv
<1>1. Init => OrderInv
  BY DEF Init, OrderInv, Last, Jobs
<1>2. Types /\ OrderInv /\ [Next]_vars => OrderInv'
  <2> SUFFICES ASSUME Types, OrderInv, [Next]_vars
               PROVE  OrderInv'
    OBVIOUS
  <2> USE DEF store, jobVars, readVars, pairVars, counters, bounds
  <2>1. ASSUME NEW q \in Pairs, NEW c \in Codes, Submit(q, c)
        PROVE  OrderInv'
    BY <2>1 DEF Submit, Types, OrderInv, Last, Jobs
  <2>2. ASSUME NEW i \in Jobs, NEW m \in Modes, Trigger(i, m)
        PROVE  OrderInv'
    BY <2>2 DEF Trigger, Types, OrderInv, Last, AtWork, Working, Active, Jobs
  <2>3. ASSUME NEW i \in Jobs, Cancel(i)
        PROVE  OrderInv'
    BY <2>3 DEF Cancel, Types, OrderInv, Last, Active, Jobs
  <2>4. ASSUME NEW i \in Jobs, Begin(i)
        PROVE  OrderInv'
    <3>1. \A j \in Jobs : j # i => opc'[j] = opc[j]
      BY <2>4 DEF Begin, Goto, Types
    <3>2. opc[i] = "start" /\ opc'[i] \in {"idle", "freeze", "pending"}
      BY <2>4 DEF Begin, Goto, Types
    <3>3. UNCHANGED <<status, ev, overlap>>
      BY <2>4 DEF Begin
    <3>4. status[i] # "none" /\ (status[i] = "done" => opc'[i] = "idle")
      BY <2>4, <3>2 DEF OrderInv, Begin, Active, Goto, Types
    <3>5. \A j \in Jobs \ overlap' : Last(j)' => \A l \in Jobs \ {j} : opc'[l] = "idle"
      <4>1. \A j \in Jobs : Last(j)' = Last(j)
        BY <3>3 DEF Last
      <4> QED
        BY <4>1, <3>1, <3>2, <3>3 DEF OrderInv
    <3>6. \A j \in Jobs : opc'[j] # "work" => \A k \in Pairs : ev[j][k] = "idle"
      BY <3>1, <3>2 DEF OrderInv
    <3>7. \A j \in Jobs : /\ status[j] = "none" => opc'[j] = "idle"
                          /\ status[j] = "done" => opc'[j] \in {"work", "start", "idle"}
      BY <3>1, <3>2, <3>4 DEF OrderInv
    <3>8. \A l, j \in Jobs : l < j /\ status'[j] # "none" => status'[l] # "none"
      BY <3>3 DEF OrderInv
    <3> QED
      BY <3>3, <3>5, <3>6, <3>7, <3>8 DEF OrderInv
  <2>5. ASSUME NEW i \in Jobs, Freeze(i)
        PROVE  OrderInv'
    BY <2>5 DEF Freeze, Goto, Reread, Types, OrderInv, Last, Jobs
  <2>6. ASSUME NEW i \in Jobs, FreezeConflict(i)
        PROVE  OrderInv'
    BY <2>6 DEF FreezeConflict, Goto, Reread, Types, OrderInv, Last, Jobs
  <2>7. ASSUME NEW i \in Jobs, BuildPending(i)
        PROVE  OrderInv'
    BY <2>7 DEF BuildPending, Goto, Types, OrderInv, Last, Jobs
  <2>8. ASSUME NEW i \in Jobs, Return(i)
        PROVE  OrderInv'
    BY <2>8 DEF Return, Goto, Types, OrderInv, Last, Working, Jobs
  <2>9. ASSUME NEW i \in Jobs, Crash(i)
        PROVE  OrderInv'
    BY <2>9 DEF Crash, Goto, Reread, Fault, Types, OrderInv, Last, Working, Jobs
  <2>10. ASSUME NEW i \in Jobs, NEW q \in Pairs, StartPair(i, q)
        PROVE  OrderInv'
    BY <2>10 DEF StartPair, Step, Types, OrderInv, Last, Jobs
  <2>11. ASSUME NEW i \in Jobs, NEW q \in Pairs, LoadPair(i, q)
        PROVE  OrderInv'
    BY <2>11 DEF LoadPair, Step, Types, OrderInv, Last, Jobs
  <2>12. ASSUME NEW i \in Jobs, NEW q \in Pairs, PairRaises(i, q)
        PROVE  OrderInv'
    BY <2>12 DEF PairRaises, Raised, Step, Fault, Types, OrderInv, Last, Jobs
  <2>13. ASSUME NEW i \in Jobs, NEW q \in Pairs, CountPair(i, q)
        PROVE  OrderInv'
    BY <2>13 DEF CountPair, Step, Types, OrderInv, Last, Working, Jobs
  <2>14. ASSUME NEW i \in Jobs, NEW q \in Pairs, NEW r \in Replies, CallAgain(i, q, r)
        PROVE  OrderInv'
    BY <2>14 DEF CallAgain, Call, Types, OrderInv, Last, Jobs
  <2>15. ASSUME NEW i \in Jobs, NEW q \in Pairs, NEW r \in Replies, ParserRaises(i, q, r)
        PROVE  OrderInv'
    BY <2>15 DEF ParserRaises, Raised, Call, Step, Fault, Types, OrderInv, Last, Jobs
  <2>16. ASSUME NEW i \in Jobs, NEW q \in Pairs, NEW r \in Replies, NEW ok \in BOOLEAN,
                WriteQual(i, q, r, ok)
        PROVE  OrderInv'
    BY <2>16 DEF WriteQual, Step, Outcome, Judged, Types, OrderInv, Last, Jobs
  <2>17. ASSUME NEW i \in Jobs, NEW q \in Pairs, NEW r \in Replies, NEW ok \in BOOLEAN,
                WriteAI(i, q, r, ok)
        PROVE  OrderInv'
    BY <2>17 DEF WriteAI, Step, Outcome, Judged, Types, OrderInv, Last, Jobs
  <2>18. CASE UNCHANGED vars
    BY <2>18 DEF vars, OrderInv, Last, Jobs
  <2> QED
    BY <2>1, <2>2, <2>3, <2>4, <2>5, <2>6, <2>7, <2>8, <2>9, <2>10, <2>11, <2>12,
       <2>13, <2>14, <2>15, <2>16, <2>17, <2>18 DEF Next
<1>3. QED
  BY <1>1, <1>2, TypesInductive, PTL DEF Spec

\* Only pairs with a final submission are frozen, evaluated or failed.
LEMMA FrozenInductive == Spec => []FrozenInv
<1>1. Init => FrozenInv
  BY DEF Init, FrozenInv, NoCodes
<1>2. Types /\ FrozenInv /\ [Next]_vars => FrozenInv'
  <2> SUFFICES ASSUME Types, FrozenInv, [Next]_vars
               PROVE  FrozenInv'
    OBVIOUS
  <2> USE DEF store, jobVars, readVars, pairVars, counters, bounds
  <2>1. ASSUME NEW q \in Pairs, NEW c \in Codes, Submit(q, c)
        PROVE  FrozenInv'
    BY <2>1, CodeAssumption DEF Submit, FrozenInv, Types, CodeOrNone
  <2>2. ASSUME NEW i \in Jobs, NEW m \in Modes, Trigger(i, m)
        PROVE  FrozenInv'
    BY <2>2 DEF Trigger, Types, FrozenInv
  <2>3. ASSUME NEW i \in Jobs, Cancel(i)
        PROVE  FrozenInv'
    BY <2>3 DEF Cancel, Types, FrozenInv
  <2>4. ASSUME NEW i \in Jobs, Begin(i)
        PROVE  FrozenInv'
    <3>1. \A j \in Jobs, k \in Pairs : finals'[j][k] \in {finals[j][k], final[k]}
      <4>1. CASE UNCHANGED readVars
        BY <4>1
      <4>2. CASE finals' = [finals EXCEPT ![i] = final]
        BY <4>2 DEF Types
      <4> QED
        BY <2>4, <4>1, <4>2 DEF Begin
    <3>2. UNCHANGED <<final, store, todo, ev>>
      BY <2>4 DEF Begin
    <3> QED
      BY <3>1, <3>2 DEF FrozenInv
  <2>5. ASSUME NEW i \in Jobs, Freeze(i)
        PROVE  FrozenInv'
    <3>1. Refresh(i) \subseteq Pairs
      BY DEF Refresh
    <3>2. \A k \in Refresh(i) :
            /\ snap'[k] = finals[i][k] /\ finals[i][k] # NoCode
            /\ qual'[k] = "none" /\ ai'[k] = "none"
      BY <2>5 DEF Freeze, Refresh, Types
    <3>3. \A k \in Pairs \ Refresh(i) : UNCHANGED <<snap[k], qual[k], ai[k]>>
      BY <2>5 DEF Freeze, Types
    <3>4. \A j \in Jobs : todo'[j] = IF j = i THEN Refresh(i) ELSE todo[j]
      BY <2>5 DEF Freeze, Types
    <3>5. \A j \in Jobs, k \in Pairs : finals'[j][k] # NoCode => finals[j][k] # NoCode
      BY <2>5 DEF Freeze, Reread, NoCodes, Types
    <3>6. UNCHANGED <<final, ev>>
      BY <2>5 DEF Freeze
    <3>7. \A k \in Pairs : snap[k] # NoCode => snap'[k] # NoCode
      BY <3>2, <3>3
    <3>8. \A k \in Pairs : snap'[k] # NoCode => final'[k] # NoCode
      BY <3>2, <3>3, <3>6 DEF FrozenInv
    <3>9. \A k \in Pairs : qual'[k] = "error" \/ ai'[k] = "error" => snap'[k] # NoCode
      BY <3>2, <3>3 DEF FrozenInv
    <3>10. \A j \in Jobs, k \in Pairs :
             k \in todo'[j] \/ ev'[j][k] # "idle" => snap'[k] # NoCode
      BY <3>1, <3>2, <3>4, <3>6, <3>7 DEF FrozenInv
    <3> QED
      BY <3>5, <3>6, <3>8, <3>9, <3>10 DEF FrozenInv
  <2>6. ASSUME NEW i \in Jobs, FreezeConflict(i)
        PROVE  FrozenInv'
    BY <2>6 DEF FreezeConflict, Goto, Reread, Types, FrozenInv, NoCodes
  <2>7. ASSUME NEW i \in Jobs, BuildPending(i)
        PROVE  FrozenInv'
    <3>1. \A k \in Pending(i) : snap[k] # NoCode
      BY DEF Pending, FrozenInv, Types, Modes
    <3>2. \A j \in Jobs : todo'[j] = IF j = i THEN Pending(i) ELSE todo[j]
      BY <2>7 DEF BuildPending, Types
    <3>3. UNCHANGED <<final, snap, qual, ai, finals, ev>>
      BY <2>7 DEF BuildPending
    <3> QED
      BY <3>1, <3>2, <3>3 DEF FrozenInv
  <2>8. ASSUME NEW i \in Jobs, Return(i)
        PROVE  FrozenInv'
    BY <2>8 DEF Return, Goto, Types, FrozenInv
  <2>9. ASSUME NEW i \in Jobs, Crash(i)
        PROVE  FrozenInv'
    BY <2>9 DEF Crash, Goto, Reread, Fault, Types, FrozenInv, NoCodes
  <2>10. ASSUME NEW i \in Jobs, NEW q \in Pairs, StartPair(i, q)
        PROVE  FrozenInv'
    BY <2>10 DEF StartPair, Step, Types, FrozenInv
  <2>11. ASSUME NEW i \in Jobs, NEW q \in Pairs, LoadPair(i, q)
        PROVE  FrozenInv'
    BY <2>11 DEF LoadPair, Step, Types, FrozenInv
  <2>12. ASSUME NEW i \in Jobs, NEW q \in Pairs, PairRaises(i, q)
        PROVE  FrozenInv'
    BY <2>12 DEF PairRaises, Raised, Step, Fault, Types, FrozenInv
  <2>13. ASSUME NEW i \in Jobs, NEW q \in Pairs, CountPair(i, q)
        PROVE  FrozenInv'
    BY <2>13 DEF CountPair, Step, Types, FrozenInv
  <2>14. ASSUME NEW i \in Jobs, NEW q \in Pairs, NEW r \in Replies, CallAgain(i, q, r)
        PROVE  FrozenInv'
    BY <2>14 DEF CallAgain, Call, Types, FrozenInv
  <2>15. ASSUME NEW i \in Jobs, NEW q \in Pairs, NEW r \in Replies, ParserRaises(i, q, r)
        PROVE  FrozenInv'
    BY <2>15 DEF ParserRaises, Raised, Call, Step, Fault, Types, FrozenInv
  <2>16. ASSUME NEW i \in Jobs, NEW q \in Pairs, NEW r \in Replies, NEW ok \in BOOLEAN,
                WriteQual(i, q, r, ok)
        PROVE  FrozenInv'
    BY <2>16 DEF WriteQual, Step, Outcome, Judged, Types, FrozenInv
  <2>17. ASSUME NEW i \in Jobs, NEW q \in Pairs, NEW r \in Replies, NEW ok \in BOOLEAN,
                WriteAI(i, q, r, ok)
        PROVE  FrozenInv'
    BY <2>17 DEF WriteAI, Step, Outcome, Judged, Types, FrozenInv
  <2>18. CASE UNCHANGED vars
    BY <2>18 DEF vars, FrozenInv
  <2> QED
    BY <2>1, <2>2, <2>3, <2>4, <2>5, <2>6, <2>7, <2>8, <2>9, <2>10, <2>11, <2>12,
       <2>13, <2>14, <2>15, <2>16, <2>17, <2>18 DEF Next
<1>3. QED
  BY <1>1, <1>2, TypesInductive, PTL DEF Spec

\* Before its trigger a job has no pair.
LEMMA UnusedInductive == Spec => []UnusedInv
<1>1. Init => UnusedInv
  BY DEF Init, UnusedInv
<1>2. Types /\ OrderInv /\ UnusedInv /\ [Next]_vars => UnusedInv'
  <2> SUFFICES ASSUME Types, OrderInv, UnusedInv, [Next]_vars
               PROVE  UnusedInv'
    OBVIOUS
  <2> USE DEF store, jobVars, readVars, pairVars, counters, bounds
  <2>1. ASSUME NEW q \in Pairs, NEW c \in Codes, Submit(q, c)
        PROVE  UnusedInv'
    BY <2>1 DEF Submit, Types, OrderInv, UnusedInv
  <2>2. ASSUME NEW i \in Jobs, NEW m \in Modes, Trigger(i, m)
        PROVE  UnusedInv'
    BY <2>2 DEF Trigger, Types, OrderInv, UnusedInv
  <2>3. ASSUME NEW i \in Jobs, Cancel(i)
        PROVE  UnusedInv'
    BY <2>3 DEF Cancel, Types, OrderInv, UnusedInv
  <2>4. ASSUME NEW i \in Jobs, Begin(i)
        PROVE  UnusedInv'
    BY <2>4 DEF Begin, Goto, Types, OrderInv, UnusedInv
  <2>5. ASSUME NEW i \in Jobs, Freeze(i)
        PROVE  UnusedInv'
    BY <2>5 DEF Freeze, Goto, Reread, Types, OrderInv, UnusedInv
  <2>6. ASSUME NEW i \in Jobs, FreezeConflict(i)
        PROVE  UnusedInv'
    BY <2>6 DEF FreezeConflict, Goto, Reread, Types, OrderInv, UnusedInv
  <2>7. ASSUME NEW i \in Jobs, BuildPending(i)
        PROVE  UnusedInv'
    BY <2>7 DEF BuildPending, Goto, Types, OrderInv, UnusedInv
  <2>8. ASSUME NEW i \in Jobs, Return(i)
        PROVE  UnusedInv'
    BY <2>8 DEF Return, Goto, Types, OrderInv, UnusedInv
  <2>9. ASSUME NEW i \in Jobs, Crash(i)
        PROVE  UnusedInv'
    BY <2>9 DEF Crash, Goto, Reread, Fault, Types, OrderInv, UnusedInv
  <2>10. ASSUME NEW i \in Jobs, NEW q \in Pairs, StartPair(i, q)
        PROVE  UnusedInv'
    BY <2>10 DEF StartPair, Step, Types, OrderInv, UnusedInv
  <2>11. ASSUME NEW i \in Jobs, NEW q \in Pairs, LoadPair(i, q)
        PROVE  UnusedInv'
    BY <2>11 DEF LoadPair, Step, Types, OrderInv, UnusedInv
  <2>12. ASSUME NEW i \in Jobs, NEW q \in Pairs, PairRaises(i, q)
        PROVE  UnusedInv'
    BY <2>12 DEF PairRaises, Raised, Step, Fault, Types, OrderInv, UnusedInv
  <2>13. ASSUME NEW i \in Jobs, NEW q \in Pairs, CountPair(i, q)
        PROVE  UnusedInv'
    BY <2>13 DEF CountPair, Step, Types, OrderInv, UnusedInv
  <2>14. ASSUME NEW i \in Jobs, NEW q \in Pairs, NEW r \in Replies, CallAgain(i, q, r)
        PROVE  UnusedInv'
    BY <2>14 DEF CallAgain, Call, Types, OrderInv, UnusedInv
  <2>15. ASSUME NEW i \in Jobs, NEW q \in Pairs, NEW r \in Replies, ParserRaises(i, q, r)
        PROVE  UnusedInv'
    BY <2>15 DEF ParserRaises, Raised, Call, Step, Fault, Types, OrderInv, UnusedInv
  <2>16. ASSUME NEW i \in Jobs, NEW q \in Pairs, NEW r \in Replies, NEW ok \in BOOLEAN,
                WriteQual(i, q, r, ok)
        PROVE  UnusedInv'
    BY <2>16 DEF WriteQual, Step, Outcome, Judged, Types, OrderInv, UnusedInv
  <2>17. ASSUME NEW i \in Jobs, NEW q \in Pairs, NEW r \in Replies, NEW ok \in BOOLEAN,
                WriteAI(i, q, r, ok)
        PROVE  UnusedInv'
    BY <2>17 DEF WriteAI, Step, Outcome, Judged, Types, OrderInv, UnusedInv
  <2>18. CASE UNCHANGED vars
    BY <2>18 DEF vars, UnusedInv
  <2> QED
    BY <2>1, <2>2, <2>3, <2>4, <2>5, <2>6, <2>7, <2>8, <2>9, <2>10, <2>11, <2>12,
       <2>13, <2>14, <2>15, <2>16, <2>17, <2>18 DEF Next
<1>3. QED
  BY <1>1, <1>2, TypesInductive, OrderInductive, PTL DEF Spec

\* Each pair of the last job goes from todo to done or to failed.
LEMMA PairsInductive == Spec => []PairsInv
<1>1. Init => PairsInv
  BY DEF Init, PairsInv, Alone, Last
<1>2. Types /\ OrderInv /\ UnusedInv /\ PairsInv /\ [Next]_vars => PairsInv'
  <2> SUFFICES ASSUME Types, OrderInv, UnusedInv, PairsInv, [Next]_vars
               PROVE  PairsInv'
    OBVIOUS
  <2> USE DEF store, jobVars, readVars, pairVars, counters, bounds
  <2>1. ASSUME NEW q \in Pairs, NEW c \in Codes, Submit(q, c)
        PROVE  PairsInv'
    <3> SUFFICES ASSUME NEW j \in Jobs, Alone(j)', NEW k \in Pairs
                 PROVE  PairInv(j, k)'
      BY DEF PairsInv
    <3>1. Alone(j)
      BY <2>1 DEF Submit, Alone, Last, Types
    <3>2. PairInv(j, k)
      BY <3>1 DEF PairsInv
    <3> QED
      BY <2>1, <3>1, <3>2 DEF Submit, Types, PairInv
  <2>2. ASSUME NEW i \in Jobs, NEW m \in Modes, Trigger(i, m)
        PROVE  PairsInv'
    <3> SUFFICES ASSUME NEW j \in Jobs, Alone(j)', NEW k \in Pairs
                 PROVE  PairInv(j, k)'
      BY DEF PairsInv
    <3>1. j = i /\ \A l \in Jobs : ~AtWork(l)
      BY <2>2 DEF Trigger, Alone, Last, OrderInv, Types, Jobs
    <3> QED
      BY <2>2, <3>1 DEF Trigger, AtWork, UnusedInv, Types, PairInv, Modes, Working
  <2>3. ASSUME NEW i \in Jobs, Cancel(i)
        PROVE  PairsInv'
    <3> SUFFICES ASSUME NEW j \in Jobs, Alone(j)', NEW k \in Pairs
                 PROVE  PairInv(j, k)'
      BY DEF PairsInv
    <3>1. Alone(j)
      <4>1. \A l \in Jobs : status'[l] = "none" <=> status[l] = "none"
        BY <2>3 DEF Cancel, Active, OrderInv, Types
      <4> QED
        BY <2>3, <4>1 DEF Cancel, Alone, Last
    <3>2. PairInv(j, k)
      BY <3>1 DEF PairsInv
    <3> QED
      BY <2>3, <3>1, <3>2 DEF Cancel, Types, PairInv
  <2>4. ASSUME NEW i \in Jobs, Begin(i)
        PROVE  PairsInv'
    <3> SUFFICES ASSUME NEW j \in Jobs, Alone(j)', NEW k \in Pairs
                 PROVE  PairInv(j, k)'
      BY DEF PairsInv
    <3>1. Alone(j)
      BY <2>4 DEF Begin, Goto, Alone, Last, Types
    <3>2. i = j
      BY <2>4, <3>1, OnlyLast DEF Begin, Goto, Types
    <3>3. PairInv(j, k)
      BY <3>1 DEF PairsInv
    <3> QED
      BY <2>4, <3>1, <3>2, <3>3 DEF Begin, Goto, Types, PairInv
  <2>5. ASSUME NEW i \in Jobs, Freeze(i)
        PROVE  PairsInv'
    <3> SUFFICES ASSUME NEW j \in Jobs, Alone(j)', NEW k \in Pairs
                 PROVE  PairInv(j, k)'
      BY DEF PairsInv
    <3>1. Alone(j)
      BY <2>5 DEF Freeze, Goto, Reread, Alone, Last, Types
    <3>2. i = j
      BY <2>5, <3>1, OnlyLast DEF Freeze, Goto, Reread, Types
    <3>3. PairInv(j, k)
      BY <3>1 DEF PairsInv
    <3> QED
      BY <2>5, <3>1, <3>2, <3>3 DEF Freeze, Goto, Reread, Types, PairInv, NoCodes,
         Refresh, OrderInv
  <2>6. ASSUME NEW i \in Jobs, FreezeConflict(i)
        PROVE  PairsInv'
    <3> SUFFICES ASSUME NEW j \in Jobs, Alone(j)', NEW k \in Pairs
                 PROVE  PairInv(j, k)'
      BY DEF PairsInv
    <3>1. Alone(j)
      <4>1. \A l \in Jobs : status'[l] = "none" <=> status[l] = "none"
        BY <2>6 DEF FreezeConflict, Goto, Reread, Active, OrderInv, Types
      <4> QED
        BY <2>6, <4>1 DEF FreezeConflict, Goto, Reread, Alone, Last
    <3>2. i = j
      BY <2>6, <3>1, OnlyLast DEF FreezeConflict, Goto, Reread, Types
    <3>3. PairInv(j, k)
      BY <3>1 DEF PairsInv
    <3> QED
      BY <2>6, <3>1, <3>2, <3>3 DEF FreezeConflict, Goto, Reread, Types, PairInv, NoCodes
  <2>7. ASSUME NEW i \in Jobs, BuildPending(i)
        PROVE  PairsInv'
    <3> SUFFICES ASSUME NEW j \in Jobs, Alone(j)', NEW k \in Pairs
                 PROVE  PairInv(j, k)'
      BY DEF PairsInv
    <3>1. Alone(j)
      BY <2>7 DEF BuildPending, Goto, Alone, Last, Types
    <3>2. i = j
      BY <2>7, <3>1, OnlyLast DEF BuildPending, Goto, Types
    <3>3. PairInv(j, k)
      BY <3>1 DEF PairsInv
    <3> QED
      BY ZenonT(60), <2>7, <3>1, <3>2, <3>3 DEF BuildPending, Goto, Types, PairInv, Pending,
         OrderInv, Modes
  <2>8. ASSUME NEW i \in Jobs, Return(i)
        PROVE  PairsInv'
    <3> SUFFICES ASSUME NEW j \in Jobs, Alone(j)', NEW k \in Pairs
                 PROVE  PairInv(j, k)'
      BY DEF PairsInv
    <3>1. Alone(j)
      BY <2>8 DEF Return, Goto, Alone, Last, Types
    <3>2. i = j
      BY <2>8, <3>1, OnlyLast DEF Return, Goto, Types
    <3>3. PairInv(j, k)
      BY <3>1 DEF PairsInv
    <3> QED
      BY <2>8, <3>1, <3>2, <3>3 DEF Return, Goto, Types, PairInv, Working
  <2>9. ASSUME NEW i \in Jobs, Crash(i)
        PROVE  PairsInv'
    <3> SUFFICES ASSUME NEW j \in Jobs, Alone(j)', NEW k \in Pairs
                 PROVE  PairInv(j, k)'
      BY DEF PairsInv
    <3>1. Alone(j)
      BY <2>9 DEF Crash, Goto, Reread, Fault, Alone, Last, Types
    <3>2. i = j
      BY <2>9, <3>1, OnlyLast DEF Crash, Goto, Reread, Fault, Types
    <3>3. PairInv(j, k)
      BY <3>1 DEF PairsInv
    <3> QED
      BY <2>9, <3>1, <3>2, <3>3 DEF Crash, Goto, Reread, Fault, Types, PairInv,
         NoCodes, Working
  <2>10. ASSUME NEW i \in Jobs, NEW q \in Pairs, StartPair(i, q)
        PROVE  PairsInv'
    <3> SUFFICES ASSUME NEW j \in Jobs, Alone(j)', NEW k \in Pairs
                 PROVE  PairInv(j, k)'
      BY DEF PairsInv
    <3>1. Alone(j)
      BY <2>10 DEF StartPair, Step, Alone, Last, Types
    <3>2. i = j
      BY <2>10, <3>1, OnlyLast DEF StartPair, Step, Types
    <3>3. PairInv(j, k)
      BY <3>1 DEF PairsInv
    <3> QED
      BY <2>10, <3>1, <3>2, <3>3 DEF StartPair, Step, Types, PairInv
  <2>11. ASSUME NEW i \in Jobs, NEW q \in Pairs, LoadPair(i, q)
        PROVE  PairsInv'
    <3> SUFFICES ASSUME NEW j \in Jobs, Alone(j)', NEW k \in Pairs
                 PROVE  PairInv(j, k)'
      BY DEF PairsInv
    <3>1. Alone(j)
      BY <2>11 DEF LoadPair, Step, Alone, Last, Types
    <3>2. i = j
      BY <2>11, <3>1, OnlyLast DEF LoadPair, Step, Types
    <3>3. PairInv(j, k)
      BY <3>1 DEF PairsInv
    <3> QED
      BY <2>11, <3>1, <3>2, <3>3 DEF LoadPair, Step, Types, PairInv, Forced
  <2>12. ASSUME NEW i \in Jobs, NEW q \in Pairs, PairRaises(i, q)
        PROVE  PairsInv'
    <3> SUFFICES ASSUME NEW j \in Jobs, Alone(j)', NEW k \in Pairs
                 PROVE  PairInv(j, k)'
      BY DEF PairsInv
    <3>1. Alone(j)
      BY <2>12 DEF PairRaises, Raised, Step, Fault, Alone, Last, Types
    <3>2. i = j
      BY <2>12, <3>1, OnlyLast DEF PairRaises, Raised, Step, Fault, Types
    <3>3. PairInv(j, k)
      BY <3>1 DEF PairsInv
    <3> QED
      BY <2>12, <3>1, <3>2, <3>3 DEF PairRaises, Raised, Step, Fault, Types, PairInv
  <2>13. ASSUME NEW i \in Jobs, NEW q \in Pairs, CountPair(i, q)
        PROVE  PairsInv'
    <3> SUFFICES ASSUME NEW j \in Jobs, Alone(j)', NEW k \in Pairs
                 PROVE  PairInv(j, k)'
      BY DEF PairsInv
    <3>1. Alone(j)
      BY <2>13 DEF CountPair, Step, Alone, Last, Types
    <3>2. i = j
      BY <2>13, <3>1, OnlyLast DEF CountPair, Step, Types
    <3>3. PairInv(j, k)
      BY <3>1 DEF PairsInv
    <3> QED
      BY <2>13, <3>1, <3>2, <3>3 DEF CountPair, Step, Types, PairInv, OrderInv, Working
  <2>14. ASSUME NEW i \in Jobs, NEW q \in Pairs, NEW r \in Replies, CallAgain(i, q, r)
        PROVE  PairsInv'
    <3> SUFFICES ASSUME NEW j \in Jobs, Alone(j)', NEW k \in Pairs
                 PROVE  PairInv(j, k)'
      BY DEF PairsInv
    <3>1. Alone(j)
      BY <2>14 DEF CallAgain, Call, Alone, Last, Types
    <3>2. i = j
      BY <2>14, <3>1, OnlyLast DEF CallAgain, Call, Types
    <3>3. PairInv(j, k)
      BY <3>1 DEF PairsInv
    <3> QED
      BY <2>14, <3>1, <3>2, <3>3 DEF CallAgain, Call, Types, PairInv
  <2>15. ASSUME NEW i \in Jobs, NEW q \in Pairs, NEW r \in Replies, ParserRaises(i, q, r)
        PROVE  PairsInv'
    <3> SUFFICES ASSUME NEW j \in Jobs, Alone(j)', NEW k \in Pairs
                 PROVE  PairInv(j, k)'
      BY DEF PairsInv
    <3>1. Alone(j)
      BY <2>15 DEF ParserRaises, Raised, Call, Step, Fault, Alone, Last, Types
    <3>2. i = j
      BY <2>15, <3>1, OnlyLast DEF ParserRaises, Raised, Call, Step, Fault, Types
    <3>3. PairInv(j, k)
      BY <3>1 DEF PairsInv
    <3> QED
      BY <2>15, <3>1, <3>2, <3>3 DEF ParserRaises, Raised, Call, Step, Fault, Types,
         PairInv
  <2>16. ASSUME NEW i \in Jobs, NEW q \in Pairs, NEW r \in Replies, NEW ok \in BOOLEAN,
                WriteQual(i, q, r, ok)
        PROVE  PairsInv'
    <3> SUFFICES ASSUME NEW j \in Jobs, Alone(j)', NEW k \in Pairs
                 PROVE  PairInv(j, k)'
      BY DEF PairsInv
    <3>1. Alone(j)
      BY <2>16 DEF WriteQual, Step, Outcome, Judged, Alone, Last, Types
    <3>2. i = j
      BY <2>16, <3>1, OnlyLast DEF WriteQual, Step, Outcome, Judged, Types
    <3>3. PairInv(j, k)
      BY <3>1 DEF PairsInv
    <3> QED
      BY <2>16, <3>1, <3>2, <3>3 DEF WriteQual, Step, Outcome, Judged, Types, PairInv,
         OrderInv
  <2>17. ASSUME NEW i \in Jobs, NEW q \in Pairs, NEW r \in Replies, NEW ok \in BOOLEAN,
                WriteAI(i, q, r, ok)
        PROVE  PairsInv'
    <3> SUFFICES ASSUME NEW j \in Jobs, Alone(j)', NEW k \in Pairs
                 PROVE  PairInv(j, k)'
      BY DEF PairsInv
    <3>1. Alone(j)
      BY <2>17 DEF WriteAI, Step, Outcome, Judged, Alone, Last, Types
    <3>2. i = j
      BY <2>17, <3>1, OnlyLast DEF WriteAI, Step, Outcome, Judged, Types
    <3>3. PairInv(j, k)
      BY <3>1 DEF PairsInv
    <3> QED
      BY <2>17, <3>1, <3>2, <3>3 DEF WriteAI, Step, Outcome, Judged, Types, PairInv,
         OrderInv
  <2>18. CASE UNCHANGED vars
    <3> SUFFICES ASSUME NEW j \in Jobs, Alone(j)', NEW k \in Pairs
                 PROVE  PairInv(j, k)'
      BY DEF PairsInv
    <3>1. Alone(j)
      BY <2>18 DEF vars, Alone, Last, Types
    <3>2. PairInv(j, k)
      BY <3>1 DEF PairsInv
    <3> QED
      BY <2>18, <3>1, <3>2 DEF vars, Types, PairInv
  <2> QED
    BY <2>1, <2>2, <2>3, <2>4, <2>5, <2>6, <2>7, <2>8, <2>9, <2>10, <2>11, <2>12,
       <2>13, <2>14, <2>15, <2>16, <2>17, <2>18 DEF Next
<1>3. QED
  BY <1>1, <1>2, TypesInductive, OrderInductive, UnusedInductive, PTL DEF Spec

\* The last job loses none of its pairs.
LEMMA CountsInductive == Spec => []CountsInv
<1>1. Init => CountsInv
  BY DEF Init, CountsInv, Alone, Last
<1>2. Types /\ OrderInv /\ UnusedInv /\ PairsInv /\ CountsInv /\ [Next]_vars => CountsInv'
  <2> SUFFICES ASSUME Types, OrderInv, UnusedInv, PairsInv, CountsInv, [Next]_vars
               PROVE  CountsInv'
    OBVIOUS
  <2> USE DEF store, jobVars, readVars, pairVars, counters, bounds
  <2>1. ASSUME NEW q \in Pairs, NEW c \in Codes, Submit(q, c)
        PROVE  CountsInv'
    <3> SUFFICES ASSUME NEW j \in Jobs, Alone(j)'
                 PROVE  CountInv(j)'
      BY DEF CountsInv
    <3>1. Alone(j)
      BY <2>1 DEF Submit, Alone, Last, Types
    <3>2. CountInv(j)
      BY <3>1 DEF CountsInv
    <3> QED
      BY <2>1, <3>1, <3>2 DEF Submit, Types, CountInv, Working, JobPairs
  <2>2. ASSUME NEW i \in Jobs, NEW m \in Modes, Trigger(i, m)
        PROVE  CountsInv'
    <3> SUFFICES ASSUME NEW j \in Jobs, Alone(j)'
                 PROVE  CountInv(j)'
      BY DEF CountsInv
    <3>1. j = i /\ \A l \in Jobs : ~AtWork(l)
      BY <2>2 DEF Trigger, Alone, Last, OrderInv, Types, Jobs
    <3> QED
      BY <2>2, <3>1 DEF Trigger, AtWork, UnusedInv, Types, CountInv, Working, JobPairs
  <2>3. ASSUME NEW i \in Jobs, Cancel(i)
        PROVE  CountsInv'
    <3> SUFFICES ASSUME NEW j \in Jobs, Alone(j)'
                 PROVE  CountInv(j)'
      BY DEF CountsInv
    <3>1. Alone(j)
      <4>1. \A l \in Jobs : status'[l] = "none" <=> status[l] = "none"
        BY <2>3 DEF Cancel, Active, OrderInv, Types
      <4> QED
        BY <2>3, <4>1 DEF Cancel, Alone, Last
    <3>2. CountInv(j)
      BY <3>1 DEF CountsInv
    <3> QED
      BY <2>3, <3>1, <3>2 DEF Cancel, Types, CountInv, Working, JobPairs
  <2>4. ASSUME NEW i \in Jobs, Begin(i)
        PROVE  CountsInv'
    <3> SUFFICES ASSUME NEW j \in Jobs, Alone(j)'
                 PROVE  CountInv(j)'
      BY DEF CountsInv
    <3>1. Alone(j)
      BY <2>4 DEF Begin, Goto, Alone, Last, Types
    <3>2. i = j
      BY <2>4, <3>1, OnlyLast DEF Begin, Goto, Types
    <3>3. CountInv(j)
      BY <3>1 DEF CountsInv
    <3> QED
      BY <2>4, <3>1, <3>2, <3>3 DEF Begin, Goto, Types, CountInv, Working, JobPairs
  <2>5. ASSUME NEW i \in Jobs, Freeze(i)
        PROVE  CountsInv'
    <3> SUFFICES ASSUME NEW j \in Jobs, Alone(j)'
                 PROVE  CountInv(j)'
      BY DEF CountsInv
    <3>1. Alone(j)
      BY <2>5 DEF Freeze, Goto, Reread, Alone, Last, Types
    <3>2. i = j
      BY <2>5, <3>1, OnlyLast DEF Freeze, Goto, Reread, Types
    <3>3. CountInv(j)
      BY <3>1 DEF CountsInv
    <3> QED
      BY <2>5, <3>1, <3>2, <3>3 DEF Freeze, Goto, Reread, Types, CountInv, NoCodes,
         OrderInv, Working, JobPairs
  <2>6. ASSUME NEW i \in Jobs, FreezeConflict(i)
        PROVE  CountsInv'
    <3> SUFFICES ASSUME NEW j \in Jobs, Alone(j)'
                 PROVE  CountInv(j)'
      BY DEF CountsInv
    <3>1. Alone(j)
      <4>1. \A l \in Jobs : status'[l] = "none" <=> status[l] = "none"
        BY <2>6 DEF FreezeConflict, Goto, Reread, Active, OrderInv, Types
      <4> QED
        BY <2>6, <4>1 DEF FreezeConflict, Goto, Reread, Alone, Last
    <3>2. i = j
      BY <2>6, <3>1, OnlyLast DEF FreezeConflict, Goto, Reread, Types
    <3>3. CountInv(j)
      BY <3>1 DEF CountsInv
    <3> QED
      BY <2>6, <3>1, <3>2, <3>3 DEF FreezeConflict, Goto, Reread, Types, CountInv,
         NoCodes, Working, JobPairs
  <2>7. ASSUME NEW i \in Jobs, BuildPending(i)
        PROVE  CountsInv'
    <3> SUFFICES ASSUME NEW j \in Jobs, Alone(j)'
                 PROVE  CountInv(j)'
      BY DEF CountsInv
    <3>1. Alone(j)
      BY <2>7 DEF BuildPending, Goto, Alone, Last, Types
    <3>2. i = j
      BY <2>7, <3>1, OnlyLast DEF BuildPending, Goto, Types
    <3>3. CountInv(j)
      BY <3>1 DEF CountsInv
    <3>4. Working(j) = {} /\ opc[j] = "pending" /\ status[j] # "done"
      BY <2>7, <3>2 DEF BuildPending, Working, OrderInv
    <3>5. /\ todo'[j] = Pending(j) /\ nTotal'[j] = Cardinality(Pending(j))
          /\ done'[j] = {} /\ failed'[j] = {} /\ Working(j)' = {}
      BY <2>7, <3>2, <3>4 DEF BuildPending, Types, Working
    <3>6. JobPairs(j)' = todo'[j]
      BY <3>5 DEF JobPairs
    <3>7. status'[j] = "done" => Pending(j) = {}
      BY <2>7, <3>2, <3>4 DEF BuildPending, Types
    <3> QED
      BY <3>5, <3>6, <3>7 DEF CountInv
  <2>8. ASSUME NEW i \in Jobs, Return(i)
        PROVE  CountsInv'
    <3> SUFFICES ASSUME NEW j \in Jobs, Alone(j)'
                 PROVE  CountInv(j)'
      BY DEF CountsInv
    <3>1. Alone(j)
      BY <2>8 DEF Return, Goto, Alone, Last, Types
    <3>2. i = j
      BY <2>8, <3>1, OnlyLast DEF Return, Goto, Types
    <3>3. CountInv(j)
      BY <3>1 DEF CountsInv
    <3> QED
      BY <2>8, <3>1, <3>2, <3>3 DEF Return, Goto, Types, CountInv, Working, JobPairs
  <2>9. ASSUME NEW i \in Jobs, Crash(i)
        PROVE  CountsInv'
    <3> SUFFICES ASSUME NEW j \in Jobs, Alone(j)'
                 PROVE  CountInv(j)'
      BY DEF CountsInv
    <3>1. Alone(j)
      BY <2>9 DEF Crash, Goto, Reread, Fault, Alone, Last, Types
    <3>2. i = j
      BY <2>9, <3>1, OnlyLast DEF Crash, Goto, Reread, Fault, Types
    <3>3. CountInv(j)
      BY <3>1 DEF CountsInv
    <3> QED
      BY <2>9, <3>1, <3>2, <3>3 DEF Crash, Goto, Reread, Fault, Types, CountInv,
         NoCodes, Working, JobPairs
  <2>10. ASSUME NEW i \in Jobs, NEW q \in Pairs, StartPair(i, q)
        PROVE  CountsInv'
    <3> SUFFICES ASSUME NEW j \in Jobs, Alone(j)'
                 PROVE  CountInv(j)'
      BY DEF CountsInv
    <3>1. Alone(j)
      BY <2>10 DEF StartPair, Step, Alone, Last, Types
    <3>2. i = j
      BY <2>10, <3>1, OnlyLast DEF StartPair, Step, Types
    <3>3. CountInv(j)
      BY <3>1 DEF CountsInv
    <3>4. /\ q \in todo[j] /\ todo'[j] = todo[j] \ {q}
          /\ ev' = [ev EXCEPT ![j][q] = IF Active(j) THEN "load" ELSE "idle"]
      BY <2>10, <3>2 DEF StartPair, Step, Types
    <3>5. UNCHANGED <<opc, status, counters>>
      BY <2>10 DEF StartPair
    <3>6. CASE Active(j)
      <4>1. Working(j)' = Working(j) \cup {q}
        BY <3>4, <3>6 DEF Working, Types
      <4>2. JobPairs(j)' = JobPairs(j)
        BY <3>4, <3>5, <4>1 DEF JobPairs
      <4> QED
        BY <3>3, <3>5, <3>6, <4>2 DEF CountInv, Active
    <3>7. CASE ~Active(j)
      BY <3>3, <3>4, <3>5, <3>7 DEF CountInv, Active
    <3> QED
      BY <3>6, <3>7
  <2>11. ASSUME NEW i \in Jobs, NEW q \in Pairs, LoadPair(i, q)
        PROVE  CountsInv'
    <3> SUFFICES ASSUME NEW j \in Jobs, Alone(j)'
                 PROVE  CountInv(j)'
      BY DEF CountsInv
    <3>1. Alone(j)
      BY <2>11 DEF LoadPair, Step, Alone, Last, Types
    <3>2. i = j
      BY <2>11, <3>1, OnlyLast DEF LoadPair, Step, Types
    <3>3. CountInv(j)
      BY <3>1 DEF CountsInv
    <3>4. Working(j)' = Working(j)
      BY <2>11, <3>2 DEF LoadPair, Step, Working, Types
    <3>5. UNCHANGED <<opc, status, todo, counters>>
      BY <2>11 DEF LoadPair, Step
    <3>6. JobPairs(j)' = JobPairs(j)
      BY <3>4, <3>5 DEF JobPairs
    <3> QED
      BY <3>3, <3>4, <3>5, <3>6 DEF CountInv
  <2>12. ASSUME NEW i \in Jobs, NEW q \in Pairs, PairRaises(i, q)
        PROVE  CountsInv'
    <3> SUFFICES ASSUME NEW j \in Jobs, Alone(j)'
                 PROVE  CountInv(j)'
      BY DEF CountsInv
    <3>1. Alone(j)
      BY <2>12 DEF PairRaises, Raised, Step, Fault, Alone, Last, Types
    <3>2. i = j
      BY <2>12, <3>1, OnlyLast DEF PairRaises, Raised, Step, Fault, Types
    <3>3. CountInv(j)
      BY <3>1 DEF CountsInv
    <3>4. Working(j)' = Working(j)
      BY <2>12, <3>2 DEF PairRaises, Raised, Step, Working, Types
    <3>5. UNCHANGED <<opc, status, todo, counters>>
      BY <2>12 DEF PairRaises, Raised, Step
    <3>6. JobPairs(j)' = JobPairs(j)
      BY <3>4, <3>5 DEF JobPairs
    <3> QED
      BY <3>3, <3>4, <3>5, <3>6 DEF CountInv
  <2>13. ASSUME NEW i \in Jobs, NEW q \in Pairs, CountPair(i, q)
        PROVE  CountsInv'
    <3> SUFFICES ASSUME NEW j \in Jobs, Alone(j)'
                 PROVE  CountInv(j)'
      BY DEF CountsInv
    <3>1. Alone(j)
      BY <2>13 DEF CountPair, Step, Alone, Last, Types
    <3>2. i = j
      BY <2>13, <3>1, OnlyLast DEF CountPair, Step, Types
    <3>3. CountInv(j)
      BY <3>1 DEF CountsInv
    <3>4. /\ Working(j)' = Working(j) \ {q} /\ q \in Working(j)
          /\ UNCHANGED <<opc, todo, nTotal>>
      BY <2>13, <3>2 DEF CountPair, Step, Working, Types
    <3>5. \/ done'[j] = done[j] \cup {q} /\ failed'[j] = failed[j]
          \/ done'[j] = done[j] /\ failed'[j] = failed[j] \cup {q}
      BY <2>13, <3>2 DEF CountPair, Types
    <3>6. JobPairs(j)' = JobPairs(j)
      BY <3>4, <3>5 DEF JobPairs
    <3>7. \A k \in Pairs : PairInv(j, k)
      BY <3>1 DEF PairsInv
    <3>8. opc[j] = "work" /\ status[j] # "done"
      BY <3>3, <3>4 DEF OrderInv, Working, CountInv
    <3>9. \A k \in done[j] \cup failed[j] : k \notin todo[j] /\ k \notin Working(j)
      BY <3>7, <3>8 DEF PairInv, Working, Types
    <3>10. q \notin todo[j]
      BY <3>4, <3>7 DEF PairInv, Working
    <3>11. done'[j] \cap failed'[j] = {}
      BY <3>3, <3>4, <3>5, <3>8, <3>9 DEF CountInv
    <3>12. /\ (done'[j] \cup failed'[j]) \cap (todo'[j] \cup Working(j)') = {}
           /\ done'[j] \cup failed'[j] \subseteq JobPairs(j)
           /\ JobPairs(j) \subseteq Pairs
      BY <3>4, <3>5, <3>9, <3>10 DEF JobPairs, Working, Types
    <3>13. ASSUME status'[j] = "done"
           PROVE  todo'[j] = {} /\ Working(j)' = {}
      <4>1. /\ nTotal[j] = Cardinality(JobPairs(j))
            /\ Cardinality(done'[j]) + Cardinality(failed'[j]) >= nTotal[j]
        BY <2>13, <3>2, <3>3, <3>8, <3>13 DEF CountPair, CountInv, Types
      <4>2. IsFiniteSet(done'[j]) /\ IsFiniteSet(failed'[j]) /\ IsFiniteSet(JobPairs(j))
        BY <3>12, PairAssumption, FS_Subset
      <4>3. Cardinality(done'[j] \cup failed'[j])
              = Cardinality(done'[j]) + Cardinality(failed'[j])
        <5>1. Cardinality(done'[j] \cap failed'[j]) = 0
          BY <3>11, FS_EmptySet
        <5>2. Cardinality(done'[j]) \in Nat /\ Cardinality(failed'[j]) \in Nat
          BY <4>2, FS_CardinalityType
        <5>3. Cardinality(done'[j] \cup failed'[j])
                = Cardinality(done'[j]) + Cardinality(failed'[j])
                  - Cardinality(done'[j] \cap failed'[j])
          BY <4>2, FS_Union
        <5> QED
          BY <5>1, <5>2, <5>3
      <4>4. done'[j] \cup failed'[j] = JobPairs(j)
        BY <3>12, <4>1, <4>2, <4>3, FS_Subset, FS_CardinalityType
      <4> QED
        BY <3>4, <3>6, <3>12, <4>4 DEF JobPairs
    <3>14. status'[j] = "running" => status[j] = "running"
      BY <2>13, <3>2 DEF CountPair, Types
    <3> QED
      BY <3>3, <3>4, <3>6, <3>8, <3>11, <3>13, <3>14 DEF CountInv
  <2>14. ASSUME NEW i \in Jobs, NEW q \in Pairs, NEW r \in Replies, CallAgain(i, q, r)
        PROVE  CountsInv'
    <3> SUFFICES ASSUME NEW j \in Jobs, Alone(j)'
                 PROVE  CountInv(j)'
      BY DEF CountsInv
    <3>1. Alone(j)
      BY <2>14 DEF CallAgain, Call, Alone, Last, Types
    <3>2. i = j
      BY <2>14, <3>1, OnlyLast DEF CallAgain, Call, Types
    <3>3. CountInv(j)
      BY <3>1 DEF CountsInv
    <3> QED
      BY <2>14, <3>1, <3>2, <3>3 DEF CallAgain, Call, Types, CountInv, Working, JobPairs
  <2>15. ASSUME NEW i \in Jobs, NEW q \in Pairs, NEW r \in Replies, ParserRaises(i, q, r)
        PROVE  CountsInv'
    <3> SUFFICES ASSUME NEW j \in Jobs, Alone(j)'
                 PROVE  CountInv(j)'
      BY DEF CountsInv
    <3>1. Alone(j)
      BY <2>15 DEF ParserRaises, Raised, Call, Step, Fault, Alone, Last, Types
    <3>2. i = j
      BY <2>15, <3>1, OnlyLast DEF ParserRaises, Raised, Call, Step, Fault, Types
    <3>3. CountInv(j)
      BY <3>1 DEF CountsInv
    <3>4. Working(j)' = Working(j)
      BY <2>15, <3>2 DEF ParserRaises, Raised, Call, Step, Working, Types
    <3>5. UNCHANGED <<opc, status, todo, counters>>
      BY <2>15 DEF ParserRaises, Raised, Call, Step
    <3>6. JobPairs(j)' = JobPairs(j)
      BY <3>4, <3>5 DEF JobPairs
    <3> QED
      BY <3>3, <3>4, <3>5, <3>6 DEF CountInv
  <2>16. ASSUME NEW i \in Jobs, NEW q \in Pairs, NEW r \in Replies, NEW ok \in BOOLEAN,
                WriteQual(i, q, r, ok)
        PROVE  CountsInv'
    <3> SUFFICES ASSUME NEW j \in Jobs, Alone(j)'
                 PROVE  CountInv(j)'
      BY DEF CountsInv
    <3>1. Alone(j)
      BY <2>16 DEF WriteQual, Step, Outcome, Judged, Alone, Last, Types
    <3>2. i = j
      BY <2>16, <3>1, OnlyLast DEF WriteQual, Step, Outcome, Judged, Types
    <3>3. CountInv(j)
      BY <3>1 DEF CountsInv
    <3>4. Working(j)' = Working(j)
      BY <2>16, <3>2 DEF WriteQual, Step, Judged, Working, Types
    <3>5. UNCHANGED <<opc, status, todo, counters>>
      BY <2>16 DEF WriteQual, Step, Judged
    <3>6. JobPairs(j)' = JobPairs(j)
      BY <3>4, <3>5 DEF JobPairs
    <3> QED
      BY <3>3, <3>4, <3>5, <3>6 DEF CountInv
  <2>17. ASSUME NEW i \in Jobs, NEW q \in Pairs, NEW r \in Replies, NEW ok \in BOOLEAN,
                WriteAI(i, q, r, ok)
        PROVE  CountsInv'
    <3> SUFFICES ASSUME NEW j \in Jobs, Alone(j)'
                 PROVE  CountInv(j)'
      BY DEF CountsInv
    <3>1. Alone(j)
      BY <2>17 DEF WriteAI, Step, Outcome, Judged, Alone, Last, Types
    <3>2. i = j
      BY <2>17, <3>1, OnlyLast DEF WriteAI, Step, Outcome, Judged, Types
    <3>3. CountInv(j)
      BY <3>1 DEF CountsInv
    <3>4. Working(j)' = Working(j)
      BY <2>17, <3>2 DEF WriteAI, Step, Judged, Working, Types
    <3>5. UNCHANGED <<opc, status, todo, counters>>
      BY <2>17 DEF WriteAI, Step, Judged
    <3>6. JobPairs(j)' = JobPairs(j)
      BY <3>4, <3>5 DEF JobPairs
    <3> QED
      BY <3>3, <3>4, <3>5, <3>6 DEF CountInv
  <2>18. CASE UNCHANGED vars
    <3> SUFFICES ASSUME NEW j \in Jobs, Alone(j)'
                 PROVE  CountInv(j)'
      BY DEF CountsInv
    <3>1. Alone(j)
      BY <2>18 DEF vars, Alone, Last, Types
    <3>2. CountInv(j)
      BY <3>1 DEF CountsInv
    <3> QED
      BY <2>18, <3>1, <3>2 DEF vars, Types, CountInv, Working, JobPairs
  <2> QED
    BY <2>1, <2>2, <2>3, <2>4, <2>5, <2>6, <2>7, <2>8, <2>9, <2>10, <2>11, <2>12,
       <2>13, <2>14, <2>15, <2>16, <2>17, <2>18 DEF Next
<1>3. QED
  BY <1>1, <1>2, TypesInductive, OrderInductive, UnusedInductive, PairsInductive,
     PTL DEF Spec

\* A forced job loses none of the errors it found or made.
LEMMA ErrorsInductive == Spec => []ErrorsInv
<1>1. Init => ErrorsInv
  BY DEF Init, ErrorsInv, Alone, Last
<1>2. Types /\ OrderInv /\ UnusedInv /\ FrozenInv /\ PairsInv /\ CountsInv /\ ErrorsInv
        /\ [Next]_vars => ErrorsInv'
  <2> SUFFICES ASSUME Types, OrderInv, UnusedInv, FrozenInv, PairsInv, CountsInv,
                      ErrorsInv, [Next]_vars
               PROVE  ErrorsInv'
    OBVIOUS
  <2> USE DEF store, jobVars, readVars, pairVars, counters, bounds
  <2>1. ASSUME NEW q \in Pairs, NEW c \in Codes, Submit(q, c)
        PROVE  ErrorsInv'
    <3> SUFFICES ASSUME NEW j \in Jobs, Alone(j)'
                 PROVE  ErrorInv(j)'
      BY DEF ErrorsInv
    <3>1. Alone(j)
      BY <2>1 DEF Submit, Alone, Last, Types
    <3>2. ErrorInv(j)
      BY <3>1 DEF ErrorsInv
    <3> QED
      BY <2>1, <3>1, <3>2 DEF Submit, Types, ErrorInv, Working, IsError, Forced
  <2>2. ASSUME NEW i \in Jobs, NEW m \in Modes, Trigger(i, m)
        PROVE  ErrorsInv'
    <3> SUFFICES ASSUME NEW j \in Jobs, Alone(j)'
                 PROVE  ErrorInv(j)'
      BY DEF ErrorsInv
    <3>1. j = i /\ \A l \in Jobs : ~AtWork(l)
      BY <2>2 DEF Trigger, Alone, Last, OrderInv, Types, Jobs
    <3> QED
      BY <2>2, <3>1 DEF Trigger, AtWork, UnusedInv, Types, ErrorInv, Working, IsError,
         Forced, Active
  <2>3. ASSUME NEW i \in Jobs, Cancel(i)
        PROVE  ErrorsInv'
    <3> SUFFICES ASSUME NEW j \in Jobs, Alone(j)'
                 PROVE  ErrorInv(j)'
      BY DEF ErrorsInv
    <3>1. Alone(j)
      <4>1. \A l \in Jobs : status'[l] = "none" <=> status[l] = "none"
        BY <2>3 DEF Cancel, Active, OrderInv, Types
      <4> QED
        BY <2>3, <4>1 DEF Cancel, Alone, Last
    <3>2. ErrorInv(j)
      BY <3>1 DEF ErrorsInv
    <3> QED
      BY <2>3, <3>1, <3>2 DEF Cancel, Types, ErrorInv, Working, IsError, Forced, Active
  <2>4. ASSUME NEW i \in Jobs, Begin(i)
        PROVE  ErrorsInv'
    <3> SUFFICES ASSUME NEW j \in Jobs, Alone(j)'
                 PROVE  ErrorInv(j)'
      BY DEF ErrorsInv
    <3>1. Alone(j)
      BY <2>4 DEF Begin, Goto, Alone, Last, Types
    <3>2. i = j
      BY <2>4, <3>1, OnlyLast DEF Begin, Goto, Types
    <3>3. ErrorInv(j)
      BY <3>1 DEF ErrorsInv
    <3>4. UNCHANGED <<store, jobVars, todo, ev, failed>> /\ Working(j)' = Working(j)
      BY <2>4 DEF Begin, Working
    <3>5. /\ opc'[j] \in {"idle", "freeze", "pending"}
          /\ opc'[j] = "pending" => mode[j] = "failed"
      BY <2>4, <3>2 DEF Begin, Goto, Types
    <3>6. opc'[j] = "freeze" => finals'[j] = final
      BY <2>4, <3>2 DEF Begin, Goto, Types
    <3> QED
      BY <3>3, <3>4, <3>5, <3>6 DEF ErrorInv, FrozenInv, IsError, Forced
  <2>5. ASSUME NEW i \in Jobs, Freeze(i)
        PROVE  ErrorsInv'
    <3> SUFFICES ASSUME NEW j \in Jobs, Alone(j)'
                 PROVE  ErrorInv(j)'
      BY DEF ErrorsInv
    <3>1. Alone(j)
      BY <2>5 DEF Freeze, Goto, Reread, Alone, Last, Types
    <3>2. i = j
      BY <2>5, <3>1, OnlyLast DEF Freeze, Goto, Reread, Types
    <3>3. ErrorInv(j)
      BY <3>1 DEF ErrorsInv
    <3>4. opc'[j] = "pending" /\ opc[j] = "freeze" /\ UNCHANGED <<status, mode>>
      BY <2>5, <3>2 DEF Freeze, Goto, Types
    <3>5. ASSUME mode[j] = "all", NEW k \in Pairs
          PROVE  ~IsError(k)'
      <4>1. CASE k \in Refresh(j)
        BY <2>5, <3>2, <4>1 DEF Freeze, IsError, Types
      <4>2. CASE k \notin Refresh(j)
        <5>1. finals[j][k] = NoCode
          BY <3>5, <4>2 DEF Refresh
        <5>2. ~IsError(k)
          BY <3>3, <3>4, <5>1 DEF ErrorInv, FrozenInv, IsError
        <5> QED
          BY <2>5, <3>2, <4>2, <5>2 DEF Freeze, IsError, Types
      <4> QED
        BY <4>1, <4>2
    <3>6. status[j] # "done"
      BY <3>4 DEF OrderInv
    <3> QED
      BY <3>4, <3>5, <3>6 DEF ErrorInv
  <2>6. ASSUME NEW i \in Jobs, FreezeConflict(i)
        PROVE  ErrorsInv'
    <3> SUFFICES ASSUME NEW j \in Jobs, Alone(j)'
                 PROVE  ErrorInv(j)'
      BY DEF ErrorsInv
    <3>1. Alone(j)
      <4>1. \A l \in Jobs : status'[l] = "none" <=> status[l] = "none"
        BY <2>6 DEF FreezeConflict, Goto, Reread, Active, OrderInv, Types
      <4> QED
        BY <2>6, <4>1 DEF FreezeConflict, Goto, Reread, Alone, Last
    <3>2. i = j
      BY <2>6, <3>1, OnlyLast DEF FreezeConflict, Goto, Reread, Types
    <3>3. ErrorInv(j)
      BY <3>1 DEF ErrorsInv
    <3> QED
      BY <2>6, <3>1, <3>2, <3>3 DEF FreezeConflict, Goto, Reread, Types, ErrorInv,
         NoCodes, Working, IsError, Forced
  <2>7. ASSUME NEW i \in Jobs, BuildPending(i)
        PROVE  ErrorsInv'
    <3> SUFFICES ASSUME NEW j \in Jobs, Alone(j)'
                 PROVE  ErrorInv(j)'
      BY DEF ErrorsInv
    <3>1. Alone(j)
      BY <2>7 DEF BuildPending, Goto, Alone, Last, Types
    <3>2. i = j
      BY <2>7, <3>1, OnlyLast DEF BuildPending, Goto, Types
    <3>3. ErrorInv(j)
      BY <3>1 DEF ErrorsInv
    <3>4. opc'[j] \in {"idle", "work"} /\ opc[j] = "pending" /\ todo'[j] = Pending(j)
      BY <2>7, <3>2 DEF BuildPending, Goto, Types
    <3>5. UNCHANGED <<qual, ai, mode>>
      BY <2>7 DEF BuildPending
    <3>6. Forced(j) => \A k \in Pairs : IsError(k) => k \in Pending(j)
      BY <3>3, <3>4 DEF ErrorInv, Forced, Pending, IsError, FrozenInv, Types, Modes
    <3> QED
      BY <3>4, <3>5, <3>6 DEF ErrorInv, IsError, Forced
  <2>8. ASSUME NEW i \in Jobs, Return(i)
        PROVE  ErrorsInv'
    <3> SUFFICES ASSUME NEW j \in Jobs, Alone(j)'
                 PROVE  ErrorInv(j)'
      BY DEF ErrorsInv
    <3>1. Alone(j)
      BY <2>8 DEF Return, Goto, Alone, Last, Types
    <3>2. i = j
      BY <2>8, <3>1, OnlyLast DEF Return, Goto, Types
    <3>3. ErrorInv(j)
      BY <3>1 DEF ErrorsInv
    <3> QED
      BY <2>8, <3>1, <3>2, <3>3 DEF Return, Goto, Types, ErrorInv, Working, IsError,
         Forced
  <2>9. ASSUME NEW i \in Jobs, Crash(i)
        PROVE  ErrorsInv'
    <3> SUFFICES ASSUME NEW j \in Jobs, Alone(j)'
                 PROVE  ErrorInv(j)'
      BY DEF ErrorsInv
    <3>1. Alone(j)
      BY <2>9 DEF Crash, Goto, Reread, Fault, Alone, Last, Types
    <3>2. i = j
      BY <2>9, <3>1, OnlyLast DEF Crash, Goto, Reread, Fault, Types
    <3>3. ErrorInv(j)
      BY <3>1 DEF ErrorsInv
    <3>4. UNCHANGED <<qual, ai, mode, status, failed>> /\ opc'[j] = "start"
      BY <2>9, <3>2 DEF Crash, Goto, Types
    <3>5. CountInv(j)
      BY <3>1 DEF CountsInv
    <3> QED
      BY <3>3, <3>4, <3>5 DEF ErrorInv, IsError, Forced, CountInv
  <2>10. ASSUME NEW i \in Jobs, NEW q \in Pairs, StartPair(i, q)
        PROVE  ErrorsInv'
    <3> SUFFICES ASSUME NEW j \in Jobs, Alone(j)'
                 PROVE  ErrorInv(j)'
      BY DEF ErrorsInv
    <3>1. Alone(j)
      BY <2>10 DEF StartPair, Step, Alone, Last, Types
    <3>2. i = j
      BY <2>10, <3>1, OnlyLast DEF StartPair, Step, Types
    <3>3. ErrorInv(j)
      BY <3>1 DEF ErrorsInv
    <3>4. /\ q \in todo[j] /\ todo'[j] = todo[j] \ {q} /\ opc[j] = "work"
          /\ ev' = [ev EXCEPT ![j][q] = IF Active(j) THEN "load" ELSE "idle"]
          /\ UNCHANGED <<qual, ai, mode, status, opc, failed>>
      BY <2>10, <3>2 DEF StartPair, Step, Types
    <3>5. CountInv(j)
      BY <3>1 DEF CountsInv
    <3>6. CASE Active(j)
      <4>1. Working(j)' = Working(j) \cup {q}
        BY <3>4, <3>6 DEF Working, Types
      <4> QED
        BY <3>3, <3>4, <4>1 DEF ErrorInv, IsError, Forced
    <3>7. CASE ~Active(j)
      BY <3>4, <3>5, <3>7 DEF ErrorInv, CountInv, Active
    <3> QED
      BY <3>6, <3>7
  <2>11. ASSUME NEW i \in Jobs, NEW q \in Pairs, LoadPair(i, q)
        PROVE  ErrorsInv'
    <3> SUFFICES ASSUME NEW j \in Jobs, Alone(j)'
                 PROVE  ErrorInv(j)'
      BY DEF ErrorsInv
    <3>1. Alone(j)
      BY <2>11 DEF LoadPair, Step, Alone, Last, Types
    <3>2. i = j
      BY <2>11, <3>1, OnlyLast DEF LoadPair, Step, Types
    <3>3. ErrorInv(j)
      BY <3>1 DEF ErrorsInv
    <3> QED
      BY <2>11, <3>1, <3>2, <3>3 DEF LoadPair, Step, Types, ErrorInv, Working, IsError,
         Forced
  <2>12. ASSUME NEW i \in Jobs, NEW q \in Pairs, PairRaises(i, q)
        PROVE  ErrorsInv'
    <3> SUFFICES ASSUME NEW j \in Jobs, Alone(j)'
                 PROVE  ErrorInv(j)'
      BY DEF ErrorsInv
    <3>1. Alone(j)
      BY <2>12 DEF PairRaises, Raised, Step, Fault, Alone, Last, Types
    <3>2. i = j
      BY <2>12, <3>1, OnlyLast DEF PairRaises, Raised, Step, Fault, Types
    <3>3. ErrorInv(j)
      BY <3>1 DEF ErrorsInv
    <3> QED
      BY <2>12, <3>1, <3>2, <3>3 DEF PairRaises, Raised, Step, Fault, Types, ErrorInv,
         Working, IsError, Forced
  <2>13. ASSUME NEW i \in Jobs, NEW q \in Pairs, CountPair(i, q)
        PROVE  ErrorsInv'
    <3> SUFFICES ASSUME NEW j \in Jobs, Alone(j)'
                 PROVE  ErrorInv(j)'
      BY DEF ErrorsInv
    <3>1. Alone(j)
      BY <2>13 DEF CountPair, Step, Alone, Last, Types
    <3>2. i = j
      BY <2>13, <3>1, OnlyLast DEF CountPair, Step, Types
    <3>3. ErrorInv(j)
      BY <3>1 DEF ErrorsInv
    <3>4. /\ Working(j)' = Working(j) \ {q} /\ ev[j][q] = "count" /\ q \in Working(j)
          /\ UNCHANGED <<qual, ai, mode, opc, todo>>
      BY <2>13, <3>2 DEF CountPair, Step, Working, Types
    <3>5. /\ failed[j] \subseteq failed'[j] /\ (q \in failing[j] => q \in failed'[j])
      BY <2>13, <3>2 DEF CountPair, Types
    <3>6. opc[j] = "work" /\ status[j] # "done"
      BY <3>1, <3>4 DEF OrderInv, Working, CountsInv, CountInv
    <3>7. q \notin failing[j] => ~IsError(q)
      BY <3>1, <3>4, CodeAssumption DEF PairsInv, PairInv, IsError, Types, CodeOrNone
    <3>8. status'[j] \in {"running", "done"} => status[j] = "running"
      BY <2>13, <3>2, <3>6 DEF CountPair, Types
    <3> QED
      BY <3>3, <3>4, <3>5, <3>6, <3>7, <3>8 DEF ErrorInv, IsError, Forced
  <2>14. ASSUME NEW i \in Jobs, NEW q \in Pairs, NEW r \in Replies, CallAgain(i, q, r)
        PROVE  ErrorsInv'
    <3> SUFFICES ASSUME NEW j \in Jobs, Alone(j)'
                 PROVE  ErrorInv(j)'
      BY DEF ErrorsInv
    <3>1. Alone(j)
      BY <2>14 DEF CallAgain, Call, Alone, Last, Types
    <3>2. i = j
      BY <2>14, <3>1, OnlyLast DEF CallAgain, Call, Types
    <3>3. ErrorInv(j)
      BY <3>1 DEF ErrorsInv
    <3> QED
      BY <2>14, <3>1, <3>2, <3>3 DEF CallAgain, Call, Types, ErrorInv, Working,
         IsError, Forced
  <2>15. ASSUME NEW i \in Jobs, NEW q \in Pairs, NEW r \in Replies, ParserRaises(i, q, r)
        PROVE  ErrorsInv'
    <3> SUFFICES ASSUME NEW j \in Jobs, Alone(j)'
                 PROVE  ErrorInv(j)'
      BY DEF ErrorsInv
    <3>1. Alone(j)
      BY <2>15 DEF ParserRaises, Raised, Call, Step, Fault, Alone, Last, Types
    <3>2. i = j
      BY <2>15, <3>1, OnlyLast DEF ParserRaises, Raised, Call, Step, Fault, Types
    <3>3. ErrorInv(j)
      BY <3>1 DEF ErrorsInv
    <3> QED
      BY <2>15, <3>1, <3>2, <3>3 DEF ParserRaises, Raised, Call, Step, Fault, Types,
         ErrorInv, Working, IsError, Forced
  <2>16. ASSUME NEW i \in Jobs, NEW q \in Pairs, NEW r \in Replies, NEW ok \in BOOLEAN,
                WriteQual(i, q, r, ok)
        PROVE  ErrorsInv'
    <3> SUFFICES ASSUME NEW j \in Jobs, Alone(j)'
                 PROVE  ErrorInv(j)'
      BY DEF ErrorsInv
    <3>1. Alone(j)
      BY <2>16 DEF WriteQual, Step, Outcome, Judged, Alone, Last, Types
    <3>2. i = j
      BY <2>16, <3>1, OnlyLast DEF WriteQual, Step, Outcome, Judged, Types
    <3>3. ErrorInv(j)
      BY <3>1 DEF ErrorsInv
    <3>4. ev[j][q] \in {"qual", "ai"} /\ Working(j)' = Working(j) /\ q \in Working(j)
      BY <2>16, <3>2 DEF WriteQual, Step, Working, Types
    <3>5. UNCHANGED <<opc, status, mode, todo, failed>>
      BY <2>16 DEF WriteQual, Judged
    <3>6. \A k \in Pairs : k # q => (IsError(k)' <=> IsError(k))
      BY <2>16 DEF WriteQual, Judged, IsError, Types
    <3>7. opc[j] = "work"
      BY <3>4 DEF OrderInv, Working
    <3> QED
      BY <3>3, <3>4, <3>5, <3>6, <3>7 DEF ErrorInv, Forced
  <2>17. ASSUME NEW i \in Jobs, NEW q \in Pairs, NEW r \in Replies, NEW ok \in BOOLEAN,
                WriteAI(i, q, r, ok)
        PROVE  ErrorsInv'
    <3> SUFFICES ASSUME NEW j \in Jobs, Alone(j)'
                 PROVE  ErrorInv(j)'
      BY DEF ErrorsInv
    <3>1. Alone(j)
      BY <2>17 DEF WriteAI, Step, Outcome, Judged, Alone, Last, Types
    <3>2. i = j
      BY <2>17, <3>1, OnlyLast DEF WriteAI, Step, Outcome, Judged, Types
    <3>3. ErrorInv(j)
      BY <3>1 DEF ErrorsInv
    <3>4. ev[j][q] \in {"qual", "ai"} /\ Working(j)' = Working(j) /\ q \in Working(j)
      BY <2>17, <3>2 DEF WriteAI, Step, Working, Types
    <3>5. UNCHANGED <<opc, status, mode, todo, failed>>
      BY <2>17 DEF WriteAI, Judged
    <3>6. \A k \in Pairs : k # q => (IsError(k)' <=> IsError(k))
      BY <2>17 DEF WriteAI, Judged, IsError, Types
    <3>7. opc[j] = "work"
      BY <3>4 DEF OrderInv, Working
    <3> QED
      BY <3>3, <3>4, <3>5, <3>6, <3>7 DEF ErrorInv, Forced
  <2>18. CASE UNCHANGED vars
    <3> SUFFICES ASSUME NEW j \in Jobs, Alone(j)'
                 PROVE  ErrorInv(j)'
      BY DEF ErrorsInv
    <3>1. Alone(j)
      BY <2>18 DEF vars, Alone, Last, Types
    <3>2. ErrorInv(j)
      BY <3>1 DEF ErrorsInv
    <3> QED
      BY <2>18, <3>1, <3>2 DEF vars, Types, ErrorInv, Working, IsError, Forced
  <2> QED
    BY <2>1, <2>2, <2>3, <2>4, <2>5, <2>6, <2>7, <2>8, <2>9, <2>10, <2>11, <2>12,
       <2>13, <2>14, <2>15, <2>16, <2>17, <2>18 DEF Next
<1>3. QED
  BY <1>1, <1>2, TypesInductive, OrderInductive, UnusedInductive, FrozenInductive,
     PairsInductive, CountsInductive, PTL DEF Spec

\* EvaluationMatches: an evaluation is of the code that its snapshot shows,
\* through resubmissions, cancellations, forced jobs and crashes.
THEOREM EvaluationsMatch == Spec => []EvaluationMatches
<1>1. FreshInv => EvaluationMatches
  BY DEF FreshInv, FreshPair, EvaluationMatches
<1>2. QED
  BY <1>1, FreshInductive, PTL

\* CountedIsStored: a pair that run_eval_job counts in n_done has both of its
\* rows, for the code of its snapshot and without an error.
THEOREM CountedAreStored == Spec => []CountedIsStored
<1>1. Types /\ PairsInv => CountedIsStored
  BY DEF CountedIsStored, PairsInv, PairInv, Alone, Types
<1>2. QED
  BY <1>1, TypesInductive, PairsInductive, PTL

\* ErrorsAreReported: what a forced job leaves with an error row it has counted
\* in n_failed.
THEOREM ErrorsReported == Spec => []ErrorsAreReported
<1>1. CountsInv /\ ErrorsInv => ErrorsAreReported
  BY DEF ErrorsAreReported, CountsInv, CountInv, ErrorsInv, ErrorInv, Alone, IsError
<1>2. QED
  BY <1>1, CountsInductive, ErrorsInductive, PTL
=============================================================================
