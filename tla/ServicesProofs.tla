---- MODULE ServicesProofs ----
(***************************************************************************)
(* Proofs about the services for every number of threads and requests, any *)
(* accounts, identities, students, numbers, lectures, times and texts:     *)
(* each invariant is one of a component and says nothing about the others. *)
(***************************************************************************)
EXTENDS Services, SequenceTheorems, TotalsProofs

\* What marks a missing value is no function, and so no record of work.
NoneIsNoRecord == None # [k \in DOMAIN None |-> None[k]]

\* A request that begins with a usable row, and an administrator's new keys,
\* disturb nothing.
LEMMA ChangeKeeps ==
  ASSUME A!UsableInv, NEW t \in Threads,
         NEW work \in [row : A!Rows, shows : Nat \cup {None}],
         A!Begin(t, work), UNCHANGED <<x1, x2>>,
         x3 \subseteq x3', A!Usable(work.row)'
  PROVE  A!UsableInv'
<1>1. requests' \in Nat /\ job' = [u \in Threads |-> job'[u]] /\ x1' \in A!Rows
  BY DEF A!UsableInv, A!Begin, A!Arrive, A!JobTable
<1>2. \A r \in A!Rows : A!Usable(r) => A!Usable(r)'
  BY DEF A!Usable
<1>3. \A u \in Threads : A!Busy(u)' =>
        job'[u] \in [row : A!Rows, shows : Nat \cup {None}] /\ A!Usable(job[u].row)'
  <2> SUFFICES ASSUME NEW u \in Threads, A!Busy(u)'
               PROVE  job'[u] \in [row : A!Rows, shows : Nat \cup {None}] /\ A!Usable(job[u].row)'
    OBVIOUS
  <2>1. CASE u = t
    <3>1. job'[u] = work
      BY <2>1 DEF A!UsableInv, A!Begin, A!JobTable
    <3>2. QED
      BY <3>1
  <2>2. CASE u # t
    <3>1. job'[u] = job[u] /\ A!Busy(u)
      BY <2>2 DEF A!UsableInv, A!Begin, A!Busy, A!JobTable
    <3>2. job[u] \in [row : A!Rows, shows : Nat \cup {None}] /\ A!Usable(job[u].row)
      BY <3>1 DEF A!UsableInv, A!JobTable
    <3>3. QED
      BY <1>2, <3>1, <3>2
  <2>3. QED
    BY <2>1, <2>2
<1>4. A!Usable(x1)'
  BY <1>2 DEF A!UsableInv, A!Usable, A!JobTable
<1>5. QED
  BY <1>1, <1>3, <1>4 DEF A!UsableInv, A!JobTable

LEMMA AccountsStep ==
  ASSUME A!UsableInv, A!Next
  PROVE  A!UsableInv'
<1> SUFFICES ASSUME NEW t \in Threads,
                    \/ A!ShowQR(t) \/ A!TurnOn(t) \/ A!TurnOff(t) \/ A!NewAppkey(t)
                    \/ A!ApplyReset(t) \/ A!ResetPassword(t) \/ A!Touch(t)
                    \/ \E openApi, tfa \in BOOLEAN : A!EditUser(t, openApi, tfa)
                    \/ A!Save(t)
             PROVE  A!UsableInv'
  BY DEF A!Next
<1>1. x1 \in A!Rows /\ A!Usable(x1) /\ A!Fresh \in Nat /\ A!Fresh # None
  BY NoneAssumption DEF A!UsableInv, A!Fresh, A!JobTable
<1>2. CASE A!ShowQR(t)
  <2>1. PICK work : work = [row |-> [x1 EXCEPT !.token = A!Fresh], shows |-> A!Fresh]
    OBVIOUS
  <2>2. /\ work \in [row : A!Rows, shows : Nat \cup {None}]
        /\ A!Begin(t, work) /\ UNCHANGED <<x1, x2, x3>> /\ A!Usable(work.row)'
    BY <1>2, <1>1, <2>1 DEF A!ShowQR, A!Rows, A!Usable
  <2>3. QED
    BY <2>2, ChangeKeeps
<1>3. CASE A!TurnOn(t)
  <2>1. PICK work : work = [row |-> [x1 EXCEPT !.tfa = TRUE], shows |-> None]
    OBVIOUS
  <2>2. /\ work \in [row : A!Rows, shows : Nat \cup {None}]
        /\ A!Begin(t, work) /\ UNCHANGED <<x1, x2, x3>> /\ A!Usable(work.row)'
    BY <1>3, <1>1, <2>1 DEF A!TurnOn, A!CodeIsValid, A!Change, A!Rows, A!Usable
  <2>3. QED
    BY <2>2, ChangeKeeps
<1>4. CASE A!TurnOff(t)
  <2>1. PICK work : work = [row |-> [x1 EXCEPT !.tfa = FALSE], shows |-> None]
    OBVIOUS
  <2>2. /\ work \in [row : A!Rows, shows : Nat \cup {None}]
        /\ A!Begin(t, work) /\ UNCHANGED <<x1, x2, x3>> /\ A!Usable(work.row)'
    BY <1>4, <1>1, <2>1 DEF A!TurnOff, A!Change, A!Rows, A!Usable
  <2>3. QED
    BY <2>2, ChangeKeeps
<1>5. CASE A!NewAppkey(t)
  <2>1. PICK work : work = [row |-> [x1 EXCEPT !.appkey = A!Fresh], shows |-> None]
    OBVIOUS
  <2>2. /\ work \in [row : A!Rows, shows : Nat \cup {None}]
        /\ A!Begin(t, work) /\ UNCHANGED <<x1, x2, x3>> /\ A!Usable(work.row)'
    BY <1>5, <1>1, <2>1 DEF A!NewAppkey, A!Change, A!Rows, A!Usable
  <2>3. QED
    BY <2>2, ChangeKeeps
<1>6. CASE A!ApplyReset(t)
  <2>1. PICK work : work = [row |-> [x1 EXCEPT !.mailed = TRUE], shows |-> None]
    OBVIOUS
  <2>2. /\ work \in [row : A!Rows, shows : Nat \cup {None}]
        /\ A!Begin(t, work) /\ UNCHANGED <<x1, x2, x3>> /\ A!Usable(work.row)'
    BY <1>6, <1>1, <2>1 DEF A!ApplyReset, A!Change, A!Rows, A!Usable
  <2>3. QED
    BY <2>2, ChangeKeeps
<1>7. CASE A!ResetPassword(t)
  <2>1. PICK work : work = [row |-> [x1 EXCEPT !.mailed = FALSE, !.tfa = FALSE], shows |-> None]
    OBVIOUS
  <2>2. /\ work \in [row : A!Rows, shows : Nat \cup {None}]
        /\ A!Begin(t, work) /\ UNCHANGED <<x1, x2, x3>> /\ A!Usable(work.row)'
    BY <1>7, <1>1, <2>1 DEF A!ResetPassword, A!Change, A!Rows, A!Usable
  <2>3. QED
    BY <2>2, ChangeKeeps
<1>8. CASE A!Touch(t)
  <2>1. PICK work : work = [row |-> [x1 EXCEPT !.other = ~@], shows |-> None]
    OBVIOUS
  <2>2. /\ work \in [row : A!Rows, shows : Nat \cup {None}]
        /\ A!Begin(t, work) /\ UNCHANGED <<x1, x2, x3>> /\ A!Usable(work.row)'
    BY <1>8, <1>1, <2>1 DEF A!Touch, A!Change, A!Rows, A!Usable
  <2>3. QED
    BY <2>2, ChangeKeeps
<1>9. ASSUME NEW openApi \in BOOLEAN, NEW tfa \in BOOLEAN, A!EditUser(t, openApi, tfa)
      PROVE  A!UsableInv'
  <2>1. PICK work : work = [row |-> A!Edited(openApi, tfa), shows |-> None]
    OBVIOUS
  <2>2. A!Edited(openApi, tfa) \in A!Rows
    BY ZenonT(60), <1>1 DEF A!Edited, A!Rows
  <2>3. A!Begin(t, work) /\ UNCHANGED <<x1, x2>> /\ x3' = x3 \cup {A!Fresh}
    BY <1>9, <2>1 DEF A!EditUser, A!Change
  <2>4. A!Usable(work.row)'
    BY <1>1, <2>1, <2>3 DEF A!Edited, A!Rows, A!Usable
  <2>5. QED
    BY <2>1, <2>2, <2>3, <2>4, ChangeKeeps
<1>10. CASE A!Save(t)
  <2>1. /\ job[t] \in [row : A!Rows, shows : Nat \cup {None}] /\ A!Usable(job[t].row)
        /\ x1' = job[t].row /\ x2 \subseteq x2' /\ UNCHANGED <<requests, x3>>
        /\ job' = [job EXCEPT ![t] = None]
    BY <1>10 DEF A!Save, A!Saved, A!Respond, A!Continue, A!UsableInv, A!JobTable
  <2>2. \A r \in A!Rows : A!Usable(r) => A!Usable(r)'
    BY <2>1 DEF A!Usable
  <2>3. x1' \in A!Rows /\ A!Usable(x1)'
    BY <2>1 DEF A!Usable
  <2>4. \A u \in Threads : A!Busy(u)' => u # t /\ job'[u] = job[u] /\ A!Busy(u)
    BY <2>1 DEF A!UsableInv, A!Busy, A!JobTable
  <2>5. \A u \in Threads : A!Busy(u) => job[u].row \in A!Rows
    BY DEF A!UsableInv, A!JobTable
  <2>6. QED
    BY <2>1, <2>2, <2>3, <2>4, <2>5 DEF A!UsableInv, A!JobTable
<1> QED
  BY <1>2, <1>3, <1>4, <1>5, <1>6, <1>7, <1>8, <1>9, <1>10

LEMMA AccountsStutter ==
  ASSUME A!UsableInv, UNCHANGED vars
  PROVE  A!UsableInv'
BY DEF vars, A!UsableInv, A!Usable, A!Busy, A!JobTable

LEMMA AccountsInit ==
  ASSUME A!Init
  PROVE  A!UsableInv
BY DEF A!Init, A!RequestsInit, A!UsableInv, A!Usable, A!Rows, A!NewUser, A!Busy, A!JobTable

\* A thread takes up other work, and no account disappears.
LEMMA WorkKeeps ==
  ASSUME NEW t \in Threads, NEW work, S!WorkOK(work)', S!TypesOK, job' = [job EXCEPT ![t] = work],
         \A a \in Accounts : x1[a].there => x1'[a].there
  PROVE  job' = [u \in Threads |-> job'[u]] /\ \A u \in Threads : S!WorkOK(job[u])'
<1>1. \A u \in Threads : job'[u] = work \/ job'[u] = job[u]
  BY DEF S!TypesOK, S!JobTable
<1>2. ASSUME NEW u \in Threads PROVE S!WorkOK(job[u])'
  <2>1. CASE job'[u] = work
    BY <2>1 DEF S!WorkOK
  <2>2. CASE job'[u] = job[u]
    <3>1. S!WorkOK(job[u])
      BY DEF S!TypesOK, S!JobTable
    <3>2. QED
      BY <2>2, <3>1 DEF S!WorkOK
  <2>3. QED
    BY <1>1, <2>1, <2>2
<1>3. job' = [u \in Threads |-> job'[u]]
  BY DEF S!TypesOK, S!JobTable
<1>4. QED
  BY <1>2, <1>3

\* An identity is signed in to the account with its link.
LEMMA EnterKeeps ==
  ASSUME S!TypesOK, NEW t \in Threads, NEW s \in Identities, NEW a \in Accounts,
         S!Enter(t, a), job[t].sub = s, x1'[a].sub = s, x1'[a].there,
         \A r \in Identities : \A b \in x3[r] : x1'[b].sub = r /\ x1'[b].there,
         \A b, c \in Accounts : x1'[b].sub # None /\ x1'[b].sub = x1'[c].sub => b = c
  PROVE  S!Linked'
<1>1. \A r \in Identities : x3'[r] = IF r = s THEN x3[r] \cup {a} ELSE x3[r]
  BY DEF S!Enter, S!TypesOK, S!JobTable
<1>2. ASSUME NEW r \in Identities, NEW b \in x3'[r]
      PROVE  x1'[b].sub = r /\ x1'[b].there
  <2>1. b \in x3[r] \/ (r = s /\ b = a)
    <3>1. x3'[r] = x3[r] \/ (r = s /\ x3'[r] = x3[r] \cup {a})
      BY <1>1
    <3>2. QED
      BY <1>2, <3>1
  <2>2. QED
    BY <2>1
<1>3. QED
  BY <1>2 DEF S!Linked

\* A step that changes neither accounts nor sign-ins.
LEMMA WorkOnly ==
  ASSUME S!LinkInv, NEW t \in Threads, NEW work, S!WorkOK(work),
         job' = [job EXCEPT ![t] = work], UNCHANGED <<x1, x3, x5>>
  PROVE  S!LinkInv'
<1>1. S!WorkOK(work)'
  BY DEF S!WorkOK
<1>2. S!TypesOK'
  BY <1>1, WorkKeeps DEF S!LinkInv, S!TypesOK, S!JobTable
<1>3. S!Linked' <=> S!Linked
  BY DEF S!Linked
<1>4. QED
  BY <1>3, <1>2 DEF S!LinkInv

\* Searching: the next place to look, or the account that was found.
LEMMA SearchKeeps ==
  ASSUME S!LinkInv, NEW t \in Threads, S!FindByLegacy(t) \/ S!FindByName(t)
  PROVE  S!LinkInv'
<1>1. /\ job[t] \in [kind : S!Searching, sub : Identities]
      /\ UNCHANGED <<x1, x3, x5>>
  BY DEF S!LinkInv, S!TypesOK, S!WorkOK, S!FindByLegacy, S!FindByName, S!Doing, S!Busy,
     S!Searching, S!signInVars, S!JobTable
<1>2. ASSUME NEW a \in Accounts \cup {None}, S!Unlinked(a), S!Take(t, a)
      PROVE  S!LinkInv'
  <2>1. PICK work : work = [kind |-> "link", sub |-> job[t].sub, account |-> a, seen |-> x1[a].sub]
    OBVIOUS
  <2>2. S!WorkOK(work)
    BY <1>1, <1>2, <2>1 DEF S!WorkOK, S!Unlinked, S!Searching
  <2>3. job' = [job EXCEPT ![t] = work]
    BY <1>2, <2>1 DEF S!Take, S!Continue
  <2>4. QED
    BY <1>1, <2>2, <2>3, WorkOnly
<1>3. ASSUME NEW kind \in S!Searching, S!Continue(t, [job[t] EXCEPT !.kind = kind])
      PROVE  S!LinkInv'
  <2>1. PICK work : work = [job[t] EXCEPT !.kind = kind]
    OBVIOUS
  <2>2. S!WorkOK(work)
    BY <1>1, <2>1 DEF S!WorkOK, S!Searching
  <2>3. job' = [job EXCEPT ![t] = work]
    BY <1>3, <2>1 DEF S!Continue
  <2>4. QED
    BY <1>1, <2>2, <2>3, WorkOnly
<1>4. CASE S!FindByLegacy(t)
  <2>1. Legacy[job[t].sub] \in Accounts \cup {None}
    BY <1>1, IdentityAssumption, NoneAssumption
  <2>2. CASE S!Unlinked(Legacy[job[t].sub])
    BY <1>2, <1>4, <2>1, <2>2 DEF S!FindByLegacy
  <2>3. CASE ~S!Unlinked(Legacy[job[t].sub])
    BY <1>3, <1>4, <2>3 DEF S!FindByLegacy, S!Searching
  <2>4. QED
    BY <2>2, <2>3
<1>5. CASE S!FindByName(t)
  <2>1. Username[job[t].sub] \in Accounts \cup {None}
    BY <1>1, IdentityAssumption, NoneAssumption
  <2>2. CASE S!Unlinked(Username[job[t].sub])
    BY <1>2, <1>5, <2>1, <2>2 DEF S!FindByName
  <2>3. CASE ~S!Unlinked(Username[job[t].sub])
    BY <1>3, <1>5, <2>3 DEF S!FindByName, S!Searching
  <2>4. QED
    BY <2>2, <2>3
<1>6. QED
  BY <1>4, <1>5

\* The link is written where there was none, or this one, or else the old link
\* is lost; sso_sub is unique.
LEMMA LinkKeeps ==
  ASSUME S!LinkInv, NEW t \in Threads, S!Link(t)
  PROVE  S!LinkInv'
<1>1. PICK a \in Accounts, s \in Identities :
        job[t].account = a /\ job[t].sub = s /\ job[t].seen = None /\ x1[a].there
  BY DEF S!LinkInv, S!TypesOK, S!WorkOK, S!Link, S!Doing, S!Busy, S!JobTable
<1>2. job' = [job EXCEPT ![t] = None]
  BY DEF S!Link, S!Enter, S!Respond, S!Continue
<1>3. CASE \E b \in Accounts \ {a} : x1[b].sub = s
  <2>1. UNCHANGED <<x1, x3, x5>>
    BY <1>1, <1>3 DEF S!Link
  <2>2. S!WorkOK(None)
    BY DEF S!WorkOK
  <2>3. QED
    BY <1>2, <2>1, <2>2, WorkOnly
<1>4. CASE \A b \in Accounts \ {a} : x1[b].sub # s
  <2>1. /\ x1' = [x1 EXCEPT ![a].sub = s] /\ S!Enter(t, a)
        /\ x5' = (x5 \/ x1[a].sub \notin {None, s})
    BY <1>1, <1>4 DEF S!Link
  <2>2. /\ x1' \in [Accounts -> S!Rows] /\ x1'[a].sub = s /\ x1'[a].there
        /\ \A b \in Accounts \ {a} : x1'[b] = x1[b]
    <3>1. PICK row : row = [x1[a] EXCEPT !.sub = s]
      OBVIOUS
    <3>2. x1[a] \in S!Rows /\ x1[a].there
      BY <1>1 DEF S!LinkInv, S!TypesOK, S!JobTable
    <3>3. row \in S!Rows /\ row.sub = s /\ row.there
      BY <3>1, <3>2 DEF S!Rows
    <3>4. x1' = [x1 EXCEPT ![a] = row]
      BY <2>1, <3>1
    <3>5. QED
      BY <3>3, <3>4 DEF S!LinkInv, S!TypesOK, S!JobTable
  <2>3. S!TypesOK'
    <3>1. x3' \in [Identities -> SUBSET Accounts]
      BY <1>1, <2>1 DEF S!Enter, S!LinkInv, S!TypesOK, S!JobTable
    <3>2. S!WorkOK(None)' /\ \A b \in Accounts : x1[b].there => x1'[b].there
      BY <2>2 DEF S!WorkOK
    <3>3. QED
      BY <1>2, <2>2, <3>1, <3>2, WorkKeeps DEF S!LinkInv, S!TypesOK, S!JobTable
  <2>4. ASSUME ~x5' PROVE S!Linked'
    <3>1. S!Linked /\ x1[a].sub \in {None, s}
      BY <2>1, <2>4 DEF S!LinkInv
    <3>2. \A r \in Identities : \A b \in x3[r] : b \in Accounts /\ x1[b].sub = r /\ x1[b].there /\ r # None
      BY <3>1, IdentityAssumption, NoneAssumption DEF S!Linked, S!LinkInv, S!TypesOK, S!JobTable
    <3>3. \A r \in Identities : \A b \in x3[r] : x1'[b].sub = r /\ x1'[b].there
      BY <2>2, <3>1, <3>2
    <3>4. \A b, c \in Accounts : x1'[b].sub # None /\ x1'[b].sub = x1'[c].sub => b = c
      BY <1>4, <2>2, <3>1 DEF S!Linked
    <3>5. QED
      BY <1>1, <2>1, <2>2, <3>3, <3>4, EnterKeeps DEF S!LinkInv
  <2>5. QED
    BY <2>3, <2>4 DEF S!LinkInv
<1>5. QED
  BY <1>3, <1>4

\* A new account: username and sso_sub are unique.
LEMMA CreateKeeps ==
  ASSUME S!LinkInv, NEW t \in Threads, S!Create(t)
  PROVE  S!LinkInv'
<1>1. PICK a \in Accounts, s \in Identities : job[t].sub = s /\ Username[job[t].sub] = a
  BY IdentityAssumption, NoneAssumption DEF S!LinkInv, S!TypesOK, S!WorkOK, S!Create, S!Doing,
     S!Busy, S!Searching, S!JobTable
<1>2. job' = [job EXCEPT ![t] = None] /\ UNCHANGED x5
  BY DEF S!Create, S!Enter, S!Respond, S!Continue
<1>3. S!WorkOK(None)
  BY DEF S!WorkOK
<1>4. CASE x1[a].there \/ \E b \in Accounts : x1[b].sub = s
  <2>1. UNCHANGED <<x1, x3>>
    BY <1>1, <1>4 DEF S!Create
  <2>2. QED
    BY <1>2, <1>3, <2>1, WorkOnly
<1>5. CASE ~x1[a].there /\ \A b \in Accounts : x1[b].sub # s
  <2>1. /\ x1' = [x1 EXCEPT ![a] = [there |-> TRUE, role |-> "Regular User", sub |-> s]]
        /\ S!Enter(t, a)
    BY <1>1, <1>5 DEF S!Create
  <2>2. /\ x1' \in [Accounts -> S!Rows] /\ x1'[a].sub = s /\ x1'[a].there
        /\ \A b \in Accounts \ {a} : x1'[b] = x1[b]
    BY <2>1 DEF S!LinkInv, S!TypesOK, S!Rows, S!Roles, S!JobTable
  <2>3. S!TypesOK'
    <3>1. x3' \in [Identities -> SUBSET Accounts]
      BY <1>1, <2>1 DEF S!Enter, S!LinkInv, S!TypesOK, S!JobTable
    <3>2. S!WorkOK(None)' /\ \A b \in Accounts : x1[b].there => x1'[b].there
      BY <2>2 DEF S!WorkOK
    <3>3. QED
      BY <1>2, <2>2, <3>1, <3>2, WorkKeeps DEF S!LinkInv, S!TypesOK, S!JobTable
  <2>4. ASSUME ~x5' PROVE S!Linked'
    <3>1. S!Linked
      BY <1>2, <2>4 DEF S!LinkInv
    <3>2. \A r \in Identities : \A b \in x3[r] : b \in Accounts \ {a}
      BY <1>5, <3>1 DEF S!Linked, S!LinkInv, S!TypesOK, S!JobTable
    <3>3. \A r \in Identities : \A b \in x3[r] : x1'[b].sub = r /\ x1'[b].there
      BY <2>2, <3>1, <3>2 DEF S!Linked
    <3>4. \A b, c \in Accounts : x1'[b].sub # None /\ x1'[b].sub = x1'[c].sub => b = c
      BY <1>5, <2>2, <3>1 DEF S!Linked
    <3>5. S!TypesOK /\ job[t].sub = s /\ S!Enter(t, a) /\ x1'[a].sub = s /\ x1'[a].there
      BY <1>1, <2>1, <2>2 DEF S!LinkInv
    <3>6. QED
      BY <3>3, <3>4, <3>5, EnterKeeps, Zenon
  <2>5. QED
    BY <2>3, <2>4 DEF S!LinkInv
<1>6. QED
  BY <1>4, <1>5

\* A whole row is saved: unless it loses a link, all links stay.
LEMMA SaveKeeps ==
  ASSUME S!LinkInv, NEW t \in Threads, S!Save(t)
  PROVE  S!LinkInv'
<1>1. PICK a \in Accounts, row \in S!Rows : job[t].account = a /\ job[t].row = row /\ row.there
  BY DEF S!LinkInv, S!TypesOK, S!WorkOK, S!Save, S!Doing, S!Busy, S!JobTable
<1>2. /\ x1' = [x1 EXCEPT ![a] = row] /\ UNCHANGED x3
      /\ x5' = (x5 \/ row.sub # x1[a].sub)
  BY <1>1 DEF S!Save
<1>3. PICK work : job' = [job EXCEPT ![t] = work] /\ (work = None \/ work.kind = "put")
  BY DEF S!Save, S!Put, S!Respond, S!Continue
<1>4. S!TypesOK'
  <2>1. x1' \in [Accounts -> S!Rows] /\ \A b \in Accounts : x1[b].there => x1'[b].there
    BY <1>1, <1>2 DEF S!LinkInv, S!TypesOK, S!JobTable
  <2>2. S!WorkOK(work)'
    BY <1>3 DEF S!WorkOK, S!Searching
  <2>3. QED
    BY <1>2, <1>3, <2>1, <2>2, WorkKeeps DEF S!LinkInv, S!TypesOK, S!JobTable
<1>5. ASSUME ~x5' PROVE S!Linked'
  <2>1. S!Linked /\ row.sub = x1[a].sub
    BY <1>2, <1>5 DEF S!LinkInv
  <2>2. \A b \in Accounts : x1'[b].sub = x1[b].sub /\ (x1[b].there => x1'[b].there)
    BY <1>1, <1>2, <2>1 DEF S!LinkInv, S!TypesOK, S!JobTable
  <2>3. \A s \in Identities : x3[s] \subseteq Accounts
    BY DEF S!LinkInv, S!TypesOK, S!JobTable
  <2>4. QED
    BY <1>2, <2>1, <2>2, <2>3 DEF S!Linked
<1>6. QED
  BY <1>4, <1>5 DEF S!LinkInv

LEMMA SignInInit ==
  ASSUME S!Init
  PROVE  S!LinkInv
<1>1. x1 \in [Accounts -> S!Rows] /\ \A a \in Accounts : x1[a].sub = None
  <2>1. ASSUME NEW r, r = S!NoAccount \/ r \in [there : {TRUE}, role : {"Regular User", "Admin"}, sub : {None}]
        PROVE  r \in S!Rows /\ r.sub = None
    <3>1. CASE r = S!NoAccount
      BY <3>1 DEF S!NoAccount, S!Rows, S!Roles
    <3>2. CASE r \in [there : {TRUE}, role : {"Regular User", "Admin"}, sub : {None}]
      BY <3>2 DEF S!Rows, S!Roles
    <3>3. QED
      BY <2>1, <3>1, <3>2
  <2>2. QED
    BY <2>1 DEF S!Init
<1>2. S!TypesOK
  BY <1>1 DEF S!Init, S!RequestsInit, S!TypesOK, S!WorkOK, S!JobTable
<1>3. S!Linked
  BY <1>1 DEF S!Init, S!Linked
<1>4. QED
  BY <1>2, <1>3 DEF S!LinkInv

LEMMA SignInStep ==
  ASSUME S!LinkInv, S!Next
  PROVE  S!LinkInv'
<1> SUFFICES ASSUME NEW t \in Threads,
                    \/ S!Start(t) \/ S!CallbackFails(t)
                    \/ \E s \in Identities : S!Callback(t, s)
                    \/ S!FindBySub(t) \/ S!FindByLegacy(t) \/ S!FindByName(t) \/ S!Link(t) \/ S!Create(t)
                    \/ \E a \in Accounts, role \in S!Roles : S!EditUser(t, a, role) \/ S!SaveLater(t, a, role)
                    \/ \E a \in Accounts : S!SyncRole(t, a)
                    \/ S!Save(t) \/ S!PutRequireTfa(t)
             PROVE  S!LinkInv'
  BY DEF S!Next
<1>1. CASE S!Start(t) \/ S!CallbackFails(t)
  BY <1>1 DEF S!Start, S!CallbackFails, S!AtOnce, S!LinkInv, S!TypesOK, S!Linked, S!WorkOK,
     S!JobTable
<1>2. ASSUME NEW s \in Identities, S!Callback(t, s) PROVE S!LinkInv'
  <2>1. PICK work : work = [kind |-> "bySub", sub |-> s]
    OBVIOUS
  <2>2. S!WorkOK(work)
    BY <2>1 DEF S!WorkOK, S!Searching
  <2>3. QED
    BY <1>2, <2>1, <2>2, WorkOnly DEF S!Callback, S!Begin
<1>3. CASE S!FindBySub(t)
  <2>1. /\ job[t] \in [kind : S!Searching, sub : Identities]
        /\ UNCHANGED <<x1, x5>>
    BY <1>3 DEF S!LinkInv, S!TypesOK, S!WorkOK, S!FindBySub, S!Doing, S!Busy, S!Searching,
       S!JobTable
  <2>2. ASSUME NEW a \in Accounts, x1[a].sub = job[t].sub, S!Enter(t, a) PROVE S!LinkInv'
    <3>1. PICK s \in Identities : job[t].sub = s
      BY <2>1
    <3>2. job' = [job EXCEPT ![t] = None] /\ S!WorkOK(None)'
      BY <2>2 DEF S!Enter, S!Respond, S!Continue, S!WorkOK
    <3>3. x3' \in [Identities -> SUBSET Accounts]
      BY <2>2, <3>1 DEF S!Enter, S!LinkInv, S!TypesOK, S!JobTable
    <3>4. S!TypesOK'
      BY <2>1, <3>2, <3>3, WorkKeeps DEF S!LinkInv, S!TypesOK, S!JobTable
    <3>5. ASSUME ~x5' PROVE S!Linked'
      <4>1. S!Linked
        BY <2>1, <3>5 DEF S!LinkInv
      <4>2. x1[a].there
        BY <2>2, <3>1, IdentityAssumption, NoneAssumption DEF S!LinkInv, S!TypesOK, S!Rows,
           S!JobTable
      <4>3. QED
        BY <2>1, <2>2, <3>1, <4>1, <4>2, EnterKeeps DEF S!LinkInv, S!Linked
    <3>6. QED
      BY <3>4, <3>5 DEF S!LinkInv
  <2>3. CASE S!Continue(t, [job[t] EXCEPT !.kind = "byLegacy"]) /\ UNCHANGED x3
    <3>1. PICK work : work = [job[t] EXCEPT !.kind = "byLegacy"]
      OBVIOUS
    <3>2. S!WorkOK(work)
      BY <2>1, <3>1 DEF S!WorkOK, S!Searching
    <3>3. QED
      BY <2>1, <2>3, <3>1, <3>2, WorkOnly DEF S!Continue
  <2>4. QED
    BY <1>3, <2>2, <2>3 DEF S!FindBySub
<1>4. CASE S!FindByLegacy(t) \/ S!FindByName(t)
  BY <1>4, SearchKeeps
<1>5. CASE S!Link(t)
  BY <1>5, LinkKeeps
<1>6. CASE S!Create(t)
  BY <1>6, CreateKeeps
<1>7. ASSUME NEW a \in Accounts, NEW role \in S!Roles, S!EditUser(t, a, role) \/ S!SaveLater(t, a, role)
      PROVE  S!LinkInv'
  <2>1. PICK row : row = [x1[a] EXCEPT !.role = role]
    OBVIOUS
  <2>2. row \in S!Rows /\ row.there
    BY <1>7, <2>1 DEF S!EditUser, S!SaveLater, S!LinkInv, S!TypesOK, S!Rows, S!JobTable
  <2>3. PICK kind \in {"edit", "save"} : S!Begin(t, [kind |-> kind, account |-> a, row |-> row])
    BY <1>7, <2>1 DEF S!EditUser, S!SaveLater
  <2>4. S!WorkOK([kind |-> kind, account |-> a, row |-> row])
    BY <2>2 DEF S!WorkOK, S!Searching
  <2>5. UNCHANGED <<x1, x3, x5>>
    BY <1>7 DEF S!EditUser, S!SaveLater, S!signInVars
  <2>6. QED
    BY <2>3, <2>4, <2>5, WorkOnly DEF S!Begin
<1>8. ASSUME NEW a \in Accounts, S!SyncRole(t, a) PROVE S!LinkInv'
  <2>1. PICK work : S!Begin(t, work) /\ work.kind = "put"
    BY <1>8 DEF S!SyncRole, S!Put
  <2>2. S!WorkOK(work)
    BY <2>1 DEF S!WorkOK, S!Searching
  <2>3. QED
    BY <1>8, <2>1, <2>2, WorkOnly DEF S!SyncRole, S!Begin, S!signInVars
<1>9. CASE S!Save(t)
  BY <1>9, SaveKeeps
<1>10. CASE S!PutRequireTfa(t)
  <2>1. S!WorkOK(None)
    BY DEF S!WorkOK
  <2>2. QED
    BY <1>10, <2>1, WorkOnly DEF S!PutRequireTfa, S!Respond, S!Continue
<1> QED
  BY <1>1, <1>2, <1>3, <1>4, <1>5, <1>6, <1>7, <1>8, <1>9, <1>10

\* Sign-in counts as this module does.
LEMMA SignInCounts == \A set : S!Cardinality(set) = Cardinality(set)
BY DEF S!Cardinality, Cardinality

LEMMA LinkedIsOne ==
  ASSUME S!LinkInv
  PROVE  S!OneAccountEach
<1> SUFFICES ASSUME ~x5, NEW r \in Identities, NEW s \in Identities
             PROVE  /\ Cardinality(x3[s]) <= 1
                    /\ r # s => x3[r] \cap x3[s] = {}
  BY SignInCounts DEF S!OneAccountEach
<1>1. \A a, b \in x3[s] : a \in Accounts /\ b \in Accounts /\ x1[a].sub = s /\ x1[b].sub = s
  BY DEF S!LinkInv, S!TypesOK, S!Linked, S!JobTable
<1>2. \A a, b \in x3[s] : a = b
  BY <1>1, IdentityAssumption, NoneAssumption DEF S!LinkInv, S!Linked
<1>3. Cardinality(x3[s]) <= 1
  <2>1. CASE x3[s] = {}
    BY <2>1, FS_EmptySet
  <2>2. CASE \E a \in x3[s] : x3[s] = {a}
    <3>1. PICK a \in x3[s] : x3[s] = {a}
      BY <2>2
    <3>2. Cardinality({a}) = 1
      BY FS_Singleton
    <3>3. QED
      BY <3>1, <3>2
  <2>3. QED
    BY <1>2, <2>1, <2>2
<1>4. r # s => x3[r] \cap x3[s] = {}
  BY DEF S!LinkInv, S!Linked
<1>5. QED
  BY <1>3, <1>4

LEMMA SignInStutter ==
  ASSUME S!LinkInv, UNCHANGED vars
  PROVE  S!LinkInv'
BY DEF vars, S!LinkInv, S!TypesOK, S!Linked, S!WorkOK, S!JobTable

\* One request goes on: what it holds is current, and the SSO knows of every
\* administrator or the request tells it next.
LEMMA StepTracks ==
  ASSUME S!JobTable, NEW t \in Threads, NEW work, job' = [job EXCEPT ![t] = work],
         \A u \in Threads \ {t} : ~S!Busy(u), ~x5',
         work # None => S!Current(work)',
         \A a \in (Accounts \ x6') :
           x1'[a].sub # None /\ x1'[a].role \in S!RequireTfa =>
             x1'[a].sub \in x4' \/ (work # None /\ work.kind = "put" /\ work.account = a)
  PROVE  S!Tracked'
<1>1. job'[t] = work /\ \A u \in Threads \ {t} : job'[u] = None
  BY DEF S!JobTable, S!Busy
<1>2. S!Alone'
  BY <1>1 DEF S!Alone, S!Busy
<1>3. \A u \in Threads : S!Busy(u)' => S!Current(job[u])'
  <2> SUFFICES ASSUME NEW u \in Threads, S!Busy(u)'
               PROVE  S!Current(job[u])'
    OBVIOUS
  <2>1. u = t /\ job'[u] = work /\ work # None
    BY <1>1 DEF S!Busy
  <2>2. QED
    BY <2>1 DEF S!Current
<1>4. \A a \in (Accounts \ x6') : S!Known(a)'
  BY <1>1 DEF S!Known, S!Doing, S!Busy
<1>5. QED
  BY <1>2, <1>3, <1>4 DEF S!Tracked

LEMMA TfaInit ==
  ASSUME S!Init
  PROVE  S!TfaInv
<1>1. \A a \in Accounts : x1[a].sub = None
  <2>1. \A r \in ({S!NoAccount} \cup [there : {TRUE}, role : {"Regular User", "Admin"}, sub : {None}]) :
          r.sub = None
    <3>1. S!NoAccount.sub = None
      BY DEF S!NoAccount
    <3>2. QED
      BY <3>1
  <2>2. x1 \in [Accounts -> {S!NoAccount} \cup [there : {TRUE}, role : {"Regular User", "Admin"}, sub : {None}]]
    BY DEF S!Init
  <2>3. QED
    BY <2>1, <2>2
<1>2. \A t \in Threads : ~S!Busy(t)
  BY DEF S!Init, S!RequestsInit, S!Busy
<1>3. QED
  BY <1>1, <1>2 DEF S!Init, S!TfaInv, S!Tracked, S!Alone, S!Known

LEMMA TfaStutter ==
  ASSUME S!TfaInv, UNCHANGED vars
  PROVE  S!TfaInv'
BY DEF vars, S!TfaInv, S!Tracked, S!Alone, S!Current, S!Known, S!Doing, S!Busy

\* A request begins: nobody was telling the SSO anything.
LEMMA BeginTracks ==
  ASSUME S!LinkInv, S!TfaInv, NEW t \in Threads, NEW work, S!Begin(t, work), ~overlapped',
         UNCHANGED <<x1, x4, x5, x6>>, S!Current(work)
  PROVE  S!Tracked'
<1>1. S!Tracked /\ S!JobTable /\ (\A u \in Threads : ~S!Busy(u)) /\ job' = [job EXCEPT ![t] = work]
  BY DEF S!TfaInv, S!LinkInv, S!TypesOK, S!Begin, S!Arrive, S!Quiet
<1>2. S!Current(work)' /\ ~x5'
  BY <1>1 DEF S!Current, S!Tracked
<1>3. \A a \in (Accounts \ x6) : x1[a].sub # None /\ x1[a].role \in S!RequireTfa => x1[a].sub \in x4
  BY <1>1 DEF S!Tracked, S!Known, S!Doing
<1>4. QED
  BY <1>1, <1>2, <1>3, StepTracks

\* A request goes on, that has not been telling the SSO anything.
LEMMA GoesOnTracks ==
  ASSUME S!LinkInv, S!TfaInv, NEW t \in Threads, NEW work, job' = [job EXCEPT ![t] = work],
         S!Busy(t), job[t].kind # "put", ~overlapped, ~x5',
         work # None => S!Current(work)', UNCHANGED x4,
         \A a \in (Accounts \ x6') :
           x1'[a].sub # None /\ x1'[a].role \in S!RequireTfa =>
             \/ a \notin x6 /\ x1[a].sub = x1'[a].sub /\ x1[a].role \in S!RequireTfa
             \/ work # None /\ work.kind = "put" /\ work.account = a
  PROVE  S!Tracked'
<1>1. S!Tracked /\ S!JobTable /\ \A u \in Threads \ {t} : ~S!Busy(u)
  BY DEF S!TfaInv, S!LinkInv, S!TypesOK, S!Tracked, S!Alone
<1>2. \A a \in (Accounts \ x6) : x1[a].sub # None /\ x1[a].role \in S!RequireTfa => x1[a].sub \in x4
  BY <1>1 DEF S!Tracked, S!Known, S!Doing
<1>3. QED
  BY <1>1, <1>2, StepTracks

LEMMA TfaStep ==
  ASSUME NoneIsNoRecord, S!LinkInv, S!TfaInv, S!Next
  PROVE  S!TfaInv'
<1> SUFFICES ASSUME ~overlapped', NEW t \in Threads,
                    \/ S!Start(t) \/ S!CallbackFails(t)
                    \/ \E s \in Identities : S!Callback(t, s)
                    \/ S!FindBySub(t) \/ S!FindByLegacy(t) \/ S!FindByName(t) \/ S!Link(t) \/ S!Create(t)
                    \/ \E a \in Accounts, role \in S!Roles : S!EditUser(t, a, role) \/ S!SaveLater(t, a, role)
                    \/ \E a \in Accounts : S!SyncRole(t, a)
                    \/ S!Save(t) \/ S!PutRequireTfa(t)
             PROVE  S!Tracked'
  BY DEF S!Next, S!TfaInv
<1>1. CASE S!Start(t) \/ S!CallbackFails(t)
  <2>1. S!Tracked /\ UNCHANGED <<job, x1, x4, x5, x6>>
    BY <1>1 DEF S!Start, S!CallbackFails, S!AtOnce, S!Arrive, S!TfaInv
  <2>2. QED
    BY <2>1 DEF S!Tracked, S!Alone, S!Current, S!Known, S!Doing, S!Busy
<1>2. ASSUME NEW s \in Identities, S!Callback(t, s) PROVE S!Tracked'
  <2>1. S!Current([kind |-> "bySub", sub |-> s])
    BY DEF S!Current
  <2>2. QED
    BY <1>2, <2>1, BeginTracks DEF S!Callback
<1>3. CASE S!FindBySub(t) \/ S!FindByLegacy(t) \/ S!FindByName(t)
  <2>1. /\ S!Busy(t) /\ job[t].kind \in S!Searching /\ job[t] \in [kind : S!Searching, sub : Identities]
        /\ UNCHANGED <<x1, x4, x5, x6, overlapped>>
    BY <1>3 DEF S!FindBySub, S!FindByLegacy, S!FindByName, S!Doing, S!Searching, S!signInVars,
                S!Enter, S!Respond, S!Continue, S!Take, S!LinkInv, S!TypesOK, S!WorkOK, S!Busy
  <2>2. PICK work : /\ job' = [job EXCEPT ![t] = work]
                    /\ \/ work = None
                       \/ work.kind \in S!Searching
                       \/ \E a \in Accounts : S!Unlinked(a) /\ work.account = a /\ work.kind = "link"
    <3>1. Legacy[job[t].sub] \in Accounts \cup {None} /\ Username[job[t].sub] \in Accounts
      BY <2>1, IdentityAssumption
    <3>2. ASSUME NEW kind \in S!Searching
          PROVE  [job[t] EXCEPT !.kind = kind].kind \in S!Searching
      BY <2>1
    <3>3. CASE S!FindBySub(t)
      BY <3>2, <3>3 DEF S!FindBySub, S!Enter, S!Respond, S!Continue, S!Searching
    <3>4. ASSUME NEW a \in Accounts \cup {None}, S!Unlinked(a), S!Take(t, a)
          PROVE  \E work : /\ job' = [job EXCEPT ![t] = work]
                           /\ \E b \in Accounts : S!Unlinked(b) /\ work.account = b /\ work.kind = "link"
      <4>1. PICK work : work = [kind |-> "link", sub |-> job[t].sub, account |-> a, seen |-> x1[a].sub]
        OBVIOUS
      <4>2. a \in Accounts /\ work.account = a /\ work.kind = "link" /\ job' = [job EXCEPT ![t] = work]
        BY <3>4, <4>1 DEF S!Unlinked, S!Take, S!Continue
      <4>3. QED
        BY <3>4, <4>2
    <3>5. CASE S!FindByLegacy(t)
      <4>1. CASE S!Unlinked(Legacy[job[t].sub])
        BY <3>1, <3>4, <3>5, <4>1 DEF S!FindByLegacy
      <4>2. CASE ~S!Unlinked(Legacy[job[t].sub])
        BY <3>2, <3>5, <4>2 DEF S!FindByLegacy, S!Continue, S!Searching
      <4>3. QED
        BY <4>1, <4>2
    <3>6. CASE S!FindByName(t)
      <4>1. CASE S!Unlinked(Username[job[t].sub])
        BY <3>1, <3>4, <3>6, <4>1 DEF S!FindByName
      <4>2. CASE ~S!Unlinked(Username[job[t].sub])
        BY <3>2, <3>6, <4>2 DEF S!FindByName, S!Continue, S!Searching
      <4>3. QED
        BY <4>1, <4>2
    <3>7. QED
      BY <1>3, <3>3, <3>5, <3>6
  <2>3. work # None => S!Current(work)'
    BY <2>1, <2>2 DEF S!Current, S!Searching, S!Unlinked
  <2>4. ~x5' /\ ~overlapped /\ job[t].kind # "put"
    BY <2>1 DEF S!TfaInv, S!Tracked, S!Searching
  <2>5. QED
    BY <2>1, <2>2, <2>3, <2>4, GoesOnTracks
<1>4. CASE S!Link(t)
  <2>1. /\ S!Busy(t) /\ job[t].kind = "link" /\ ~overlapped /\ x4' = x4
        /\ job' = [job EXCEPT ![t] = None]
    BY <1>4 DEF S!Link, S!Enter, S!Respond, S!Continue, S!Doing
  <2>2. PICK a \in Accounts, s \in Identities : job[t].account = a /\ job[t].sub = s /\ job[t].seen = None
    BY <2>1 DEF S!LinkInv, S!TypesOK, S!WorkOK, S!Busy
  <2>3. x1[a].sub = None /\ ~x5
    BY <2>1, <2>2 DEF S!TfaInv, S!Tracked, S!Current
  <2>4. ~x5' /\ \A b \in (Accounts \ x6') : b \notin x6 /\ x1'[b] = x1[b]
    <3>1. CASE \E b \in Accounts \ {a} : x1[b].sub = s
      BY <1>4, <2>2, <2>3, <3>1 DEF S!Link
    <3>2. CASE ~\E b \in Accounts \ {a} : x1[b].sub = s
      <4>1. x1' = [x1 EXCEPT ![a].sub = s] /\ x6' = x6 \cup {a} /\ x5' = (x5 \/ x1[a].sub \notin {None, s})
        BY <1>4, <2>2, <3>2 DEF S!Link
      <4>2. QED
        BY <2>3, <4>1 DEF S!LinkInv, S!TypesOK
    <3>3. QED
      BY <3>1, <3>2
  <2>5. QED
    BY <2>1, <2>4, GoesOnTracks
<1>5. CASE S!Create(t)
  <2>1. /\ S!Busy(t) /\ job[t].kind = "create" /\ ~overlapped /\ UNCHANGED <<x4, x5, x6>>
        /\ job' = [job EXCEPT ![t] = None]
    BY <1>5 DEF S!Create, S!Enter, S!Respond, S!Continue, S!Doing
  <2>2. ~x5'
    BY <2>1 DEF S!TfaInv, S!Tracked
  <2>3. \A b \in Accounts : x1'[b] = x1[b] \/ x1'[b].role = "Regular User"
    <3>1. PICK a, row : a = Username[job[t].sub]
                       /\ row = [there |-> TRUE, role |-> "Regular User", sub |-> job[t].sub]
      OBVIOUS
    <3>2. row.role = "Regular User" /\ (x1' = x1 \/ x1' = [x1 EXCEPT ![a] = row])
      BY <1>5, <3>1 DEF S!Create
    <3>3. QED
      BY <3>2 DEF S!LinkInv, S!TypesOK
  <2>4. QED
    BY <2>1, <2>2, <2>3, GoesOnTracks DEF S!RequireTfa
<1>6. ASSUME NEW a \in Accounts, NEW role \in S!Roles, S!EditUser(t, a, role) \/ S!SaveLater(t, a, role)
      PROVE  S!Tracked'
  <2>1. PICK row : row = [x1[a] EXCEPT !.role = role]
    OBVIOUS
  <2>2. row.sub = x1[a].sub /\ row.role = role
    BY <2>1 DEF S!LinkInv, S!TypesOK, S!Rows
  <2>3. UNCHANGED <<x1, x4, x5, x6>>
    BY <1>6 DEF S!EditUser, S!SaveLater, S!signInVars
  <2>4. PICK work : S!Begin(t, work) /\ S!Current(work)
    <3>1. CASE S!EditUser(t, a, role)
      <4>1. S!Current([kind |-> "edit", account |-> a, row |-> row])
        BY <2>2 DEF S!Current
      <4>2. QED
        BY <2>1, <3>1, <4>1 DEF S!EditUser
    <3>2. CASE S!SaveLater(t, a, role)
      <4>1. S!Current([kind |-> "save", account |-> a, row |-> row])
        BY <2>2, <3>2 DEF S!Current, S!SaveLater, S!RequireTfa
      <4>2. QED
        BY <2>1, <3>2, <4>1 DEF S!SaveLater
    <3>3. QED
      BY <1>6, <3>1, <3>2
  <2>5. QED
    BY <2>3, <2>4, BeginTracks
<1>7. ASSUME NEW a \in Accounts, S!SyncRole(t, a) PROVE S!Tracked'
  <2>1. PICK work : work = S!Put([account |-> a, row |-> x1[a]])
    OBVIOUS
  <2>2. S!Current(work)
    BY <1>7, <2>1 DEF S!SyncRole, S!Put, S!NeedsTfa, S!Current
  <2>3. QED
    BY <1>7, <2>1, <2>2, BeginTracks DEF S!SyncRole, S!signInVars
<1>8. CASE S!Save(t)
  <2>1. S!Busy(t) /\ job[t].kind \in {"edit", "save"} /\ ~overlapped /\ UNCHANGED <<x4, x6>>
    BY <1>8 DEF S!Save, S!Continue, S!Respond, S!Doing
  <2>2. PICK a \in Accounts, row \in S!Rows : job[t].account = a /\ job[t].row = row /\ row.there
    BY <2>1 DEF S!LinkInv, S!TypesOK, S!WorkOK, S!Busy
  <2>3. /\ x1' = [x1 EXCEPT ![a] = row] /\ x5' = (x5 \/ row.sub # x1[a].sub)
    BY <1>8, <2>2 DEF S!Save
  <2>4. S!Current(job[t]) /\ ~x5
    BY <2>1 DEF S!TfaInv, S!Tracked
  <2>5. /\ ~x5' /\ x1'[a] = row /\ row.sub = x1[a].sub
        /\ \A b \in Accounts \ {a} : x1'[b] = x1[b]
    BY <2>1, <2>2, <2>3, <2>4 DEF S!Current, S!LinkInv, S!TypesOK
  <2>6. CASE job[t].kind = "edit" /\ row.sub # None
    <3>1. PICK work : work = S!Put(job[t])
      OBVIOUS
    <3>2. job' = [job EXCEPT ![t] = work]
      BY <1>8, <2>2, <2>6, <3>1 DEF S!Save, S!Continue
    <3>3. /\ work.kind = "put" /\ work.account = a /\ work.sub = row.sub
          /\ work.value = (row.role \in S!RequireTfa)
      BY <2>2, <3>1 DEF S!Put, S!NeedsTfa
    <3>4. S!Current(work)'
      BY <2>5, <2>6, <3>3 DEF S!Current
    <3>5. \A b \in (Accounts \ x6') :
            x1'[b].sub # None /\ x1'[b].role \in S!RequireTfa =>
              \/ b \notin x6 /\ x1[b].sub = x1'[b].sub /\ x1[b].role \in S!RequireTfa
              \/ work # None /\ work.kind = "put" /\ work.account = b
      <4>1. work # None
        BY <3>1 DEF S!Put, NoneIsNoRecord
      <4>2. QED
        BY <2>1, <2>5, <3>3, <4>1
    <3>6. QED
      BY <2>1, <2>5, <3>2, <3>4, <3>5, GoesOnTracks
  <2>7. CASE ~(job[t].kind = "edit" /\ row.sub # None)
    <3>1. job' = [job EXCEPT ![t] = None]
      BY <1>8, <2>2, <2>7 DEF S!Save, S!Respond, S!Continue
    <3>2. row.sub = None \/ (row.role \in S!RequireTfa => x1[a].role \in S!RequireTfa)
      BY <2>1, <2>2, <2>4, <2>7 DEF S!Current
    <3>3. QED
      BY <2>1, <2>5, <3>1, <3>2, GoesOnTracks
  <2>8. QED
    BY <2>6, <2>7
<1>9. CASE S!PutRequireTfa(t)
  <2>1. /\ S!Busy(t) /\ job[t].kind = "put" /\ ~overlapped /\ UNCHANGED <<x1, x5>>
        /\ job' = [job EXCEPT ![t] = None]
    BY <1>9 DEF S!PutRequireTfa, S!Continue, S!Respond, S!Doing
  <2>2. S!Tracked /\ S!Linked /\ S!Current(job[t]) /\ S!JobTable
    BY <2>1 DEF S!TfaInv, S!Tracked, S!LinkInv, S!TypesOK
  <2>3. PICK a \in Accounts : /\ job[t].account = a /\ job[t].sub = x1[a].sub /\ x1[a].sub # None
                              /\ job[t].value = (x1[a].role \in S!RequireTfa)
    BY <2>1, <2>2 DEF S!Current
  <2>4. \A u \in Threads \ {t} : ~S!Busy(u)
    BY <2>1, <2>2 DEF S!Tracked, S!Alone
  <2>5. ASSUME NEW b \in Accounts, b \notin x6', x1[b].sub # None, x1[b].role \in S!RequireTfa
        PROVE  x1[b].sub \in x4'
    <3>1. CASE b = a
      BY <1>9, <2>3, <2>5, <3>1 DEF S!PutRequireTfa
    <3>2. CASE b # a
      <4>1. b \notin x6
        BY <1>9, <2>3, <2>5, <3>2 DEF S!PutRequireTfa
      <4>2. x1[b].sub \in x4
        BY <2>2, <2>3, <2>4, <2>5, <3>2, <4>1 DEF S!Tracked, S!Known, S!Doing
      <4>3. x1[b].sub # x1[a].sub
        BY <2>2, <2>5, <3>2 DEF S!Linked
      <4>4. QED
        BY <1>9, <2>3, <4>2, <4>3 DEF S!PutRequireTfa
    <3>3. QED
      BY <3>1, <3>2
  <2>6. ~x5'
    BY <2>1, <2>2 DEF S!Tracked
  <2>7. QED
    BY <2>1, <2>2, <2>4, <2>5, <2>6, StepTracks
<1>10. QED
  BY <1>1, <1>2, <1>3, <1>4, <1>5, <1>6, <1>7, <1>8, <1>9

LEMMA TrackedAreAsked ==
  ASSUME S!TfaInv
  PROVE  S!AdministratorsNeedTfa
BY DEF S!TfaInv, S!Tracked, S!Known, S!AdministratorsNeedTfa, S!Quiet, S!Doing

\* Enrolment counts as this module does.
LEMMA EnrolmentCounts == \A set : E!Cardinality(set) = Cardinality(set)
BY DEF E!Cardinality, Cardinality

\* A row with another user, or allowed.
LEMMA RowSaved ==
  ASSUME NEW row, E!IsRow(row), NEW u \in Students
  PROVE  \E saved, linked :
           /\ saved = [row EXCEPT !.allowed = TRUE] /\ E!IsRow(saved)
           /\ saved.id = row.id /\ saved.user = row.user
           /\ linked = [row EXCEPT !.user = u, !.allowed = TRUE] /\ E!IsRow(linked)
           /\ linked.id = row.id /\ linked.user = u
<1>1. PICK saved, linked : /\ saved = [row EXCEPT !.allowed = TRUE]
                           /\ linked = [row EXCEPT !.user = u, !.allowed = TRUE]
  OBVIOUS
<1>2. E!IsRow(saved) /\ saved.id = row.id /\ saved.user = row.user
  BY <1>1 DEF E!IsRow
<1>3. E!IsRow(linked) /\ linked.id = row.id /\ linked.user = u
  BY <1>1 DEF E!IsRow
<1>4. QED
  BY <1>1, <1>2, <1>3

\* A request that lets rows wait finds them itself, unless another does.
LEMMA ListedKeeps ==
  ASSUME E!ListedInv, NEW t \in Threads, NEW work, job' = [job EXCEPT ![t] = work],
         E!WorkOK(work), x1' \in [Students -> Numbers \cup {None}],
         \A row \in x2' : E!IsRow(row),
         (\A n \in (Numbers \ x3) : \A u, v \in E!Holders(n) : u = v)',
         \A row \in x2' : E!Waits(row)' =>
           E!Finds(t, row)' \/ (row \in x2 /\ E!Waits(row) /\ ~E!Finds(t, row))
  PROVE  E!ListedInv'
<1>1. E!JobTable' /\ \A u \in Threads : E!WorkOK(job[u])'
  BY DEF E!ListedInv, E!TypesOK, E!JobTable, E!WorkOK, E!IsRow
<1>2. ASSUME NEW row, NEW u \in Threads, u # t, E!Finds(u, row)
      PROVE  E!Finds(u, row)'
  <2>1. job'[u] = job[u]
    BY <1>2 DEF E!ListedInv, E!TypesOK, E!JobTable
  <2>2. QED
    BY <1>2, <2>1 DEF E!Finds, E!Doing, E!Busy
<1>3. \A row \in x2' : E!Waits(row)' => \E u \in Threads : E!Finds(u, row)'
  BY <1>2 DEF E!ListedInv
<1>4. E!TypesOK'
  BY <1>1 DEF E!TypesOK, E!IsRow
<1>5. QED
  BY <1>3, <1>4 DEF E!ListedInv

\* A request of one step lets no other rows wait.
LEMMA ListedStays ==
  ASSUME E!ListedInv, job' = job, x1' \in [Students -> Numbers \cup {None}],
         \A row \in x2' : E!IsRow(row),
         (\A n \in (Numbers \ x3) : \A u, v \in E!Holders(n) : u = v)',
         \A row \in x2' : E!Waits(row)' => row \in x2 /\ E!Waits(row)
  PROVE  E!ListedInv'
<1>1. \A u \in Threads, row \in x2 : E!Finds(u, row) => E!Finds(u, row)'
  BY DEF E!Finds, E!Doing, E!Busy
<1>2. E!TypesOK'
  BY DEF E!ListedInv, E!TypesOK, E!JobTable, E!WorkOK, E!IsRow
<1>3. QED
  BY <1>1, <1>2 DEF E!ListedInv

\* A request that takes up other work and changes no row.
LEMMA ListedWork ==
  ASSUME E!ListedInv, NEW t \in Threads, NEW work, job' = [job EXCEPT ![t] = work],
         E!WorkOK(work), UNCHANGED <<x1, x2, x3>>,
         \A row \in x2 : E!Waits(row) /\ E!Finds(t, row) => E!Finds(t, row)'
  PROVE  E!ListedInv'
<1>1. /\ x1' \in [Students -> Numbers \cup {None}]
      /\ \A row \in x2' : E!IsRow(row)
  BY DEF E!ListedInv, E!TypesOK
<1>2. (\A n \in (Numbers \ x3) : \A u, v \in E!Holders(n) : u = v)'
  BY DEF E!ListedInv, E!Holders
<1>3. \A row \in x2 : E!Waits(row)' <=> E!Waits(row)
  BY DEF E!Waits, E!Holders
<1>4. QED
  BY <1>1, <1>2, <1>3, ListedKeeps

LEMMA ListedBegin ==
  ASSUME E!ListedInv, NEW t \in Threads, NEW work, E!Begin(t, work), E!WorkOK(work),
         UNCHANGED <<x1, x2, x3>>
  PROVE  E!ListedInv'
<1>1. job' = [job EXCEPT ![t] = work] /\ \A row : ~E!Finds(t, row)
  BY DEF E!Begin, E!Finds, E!Doing
<1>2. QED
  BY <1>1, ListedWork

LEMMA EnrolmentInit ==
  ASSUME E!Init
  PROVE  E!ListedInv
<1>1. job = [t \in Threads |-> None] /\ x1 = [u \in Students |-> None] /\ x2 = {}
  BY DEF E!Init, E!RequestsInit
<1>2. E!JobTable /\ \A t \in Threads : E!WorkOK(job[t])
  BY <1>1 DEF E!JobTable, E!WorkOK
<1>3. x1 \in [Students -> Numbers \cup {None}]
  BY <1>1
<1>4. E!TypesOK
  BY <1>1, <1>2, <1>3 DEF E!TypesOK
<1>5. \A n \in (Numbers \ x3) : \A u, v \in E!Holders(n) : u = v
  BY <1>1, NoneAssumption DEF E!Holders
<1>6. QED
  BY <1>1, <1>4, <1>5 DEF E!ListedInv

LEMMA EnrolmentStutter ==
  ASSUME E!ListedInv, UNCHANGED vars
  PROVE  E!ListedInv'
<1>1. (\A n \in (Numbers \ x3) : \A u, v \in E!Holders(n) : u = v)'
  BY DEF vars, E!ListedInv, E!Holders
<1>2. \A row \in x2 : E!Waits(row)' <=> E!Waits(row)
  BY DEF vars, E!Waits, E!Holders
<1>3. QED
  BY <1>1, <1>2, ListedStays DEF vars, E!ListedInv, E!TypesOK

LEMMA EnrolmentStep ==
  ASSUME NoneIsNoRecord, E!ListedInv, E!Next
  PROVE  E!ListedInv'
<1>1. /\ x1 \in [Students -> Numbers \cup {None}]
      /\ \A row \in x2 : E!IsRow(row)
      /\ \A t \in Threads : E!Busy(t) => job[t] # None /\ E!WorkOK(job[t])
  BY DEF E!ListedInv, E!TypesOK, E!Busy
<1>2. UNCHANGED <<x1, x3>> => (\A n \in (Numbers \ x3) : \A u, v \in E!Holders(n) : u = v)'
  BY DEF E!ListedInv, E!Holders
<1>3. UNCHANGED <<x1, x3>> => \A row : E!Waits(row)' <=> E!Waits(row)
  BY DEF E!Waits, E!Holders
<1>4. ASSUME NEW t \in Threads, NEW n \in Numbers, NEW named \in BOOLEAN, E!ListStudent(t, n, named)
      PROVE  E!ListedInv'
  <2>1. UNCHANGED <<x1, x2, x3>>
    BY <1>4 DEF E!ListStudent, E!enrolVars
  <2>2. CASE job' = job
    BY <1>1, <1>2, <1>3, <2>1, <2>2, ListedStays
  <2>3. ASSUME NEW row \in x2, row.user # None, E!Begin(t, [kind |-> "save", row |-> [row EXCEPT !.allowed = TRUE]])
        PROVE  E!ListedInv'
    <3>1. PICK saved : saved = [row EXCEPT !.allowed = TRUE]
      OBVIOUS
    <3>2. E!IsRow(saved) /\ saved.user = row.user
      BY <1>1, <3>1 DEF E!IsRow
    <3>3. E!WorkOK([kind |-> "save", row |-> saved])
      BY <2>3, <3>2 DEF E!WorkOK
    <3>4. QED
      BY <2>1, <2>3, <3>1, <3>3, ListedBegin
  <2>4. CASE E!Begin(t, [kind |-> "create", number |-> n, named |-> named])
    <3>1. E!WorkOK([kind |-> "create", number |-> n, named |-> named])
      BY DEF E!WorkOK
    <3>2. QED
      BY <2>1, <2>4, <3>1, ListedBegin
  <2>5. QED
    BY <1>4, <2>2, <2>3, <2>4 DEF E!ListStudent, E!AtOnce, E!Entries
<1>5. ASSUME NEW t \in Threads, E!CreateEntry(t) PROVE E!ListedInv'
  <2>1. PICK n \in Numbers, named \in BOOLEAN :
          job[t] = [kind |-> "create", number |-> n, named |-> named]
    BY <1>5, <1>1 DEF E!CreateEntry, E!Doing, E!WorkOK
  <2>2. PICK work : work = [kind |-> "holder", number |-> n, named |-> named]
    OBVIOUS
  <2>3. [job[t] EXCEPT !.kind = "holder"] = work
    BY <2>1, <2>2
  <2>4. work # None
    BY <2>2 DEF NoneIsNoRecord
  <2>5. work \in [kind : {"create", "holder"}, number : Numbers, named : BOOLEAN] /\ work.kind = "holder"
    BY <2>2
  <2>6. job' = [job EXCEPT ![t] = work] /\ E!WorkOK(work) /\ work # None /\ UNCHANGED <<x1, x3>>
    BY <1>5, <2>3, <2>4, <2>5 DEF E!CreateEntry, E!Continue, E!WorkOK
  <2>7. PICK new : new = E!Row(<<t, requests>>, n, named) /\ x2' = x2 \cup {new}
    BY <1>5, <2>1 DEF E!CreateEntry
  <2>8. E!IsRow(new) /\ new.number = n /\ new.named = named
    BY <2>7 DEF E!Row, E!IsRow
  <2>9. \A row : ~E!Finds(t, row)
    BY <2>1 DEF E!Finds, E!Doing
  <2>10. new.named => E!Finds(t, new)'
    BY <2>2, <2>6, <2>8 DEF E!Finds, E!Doing, E!Busy, E!ListedInv, E!TypesOK, E!JobTable
  <2>11. \A row \in x2' : E!Waits(row)' =>
          E!Finds(t, row)' \/ (row \in x2 /\ E!Waits(row) /\ ~E!Finds(t, row))
    BY <1>3, <2>6, <2>7, <2>9, <2>10 DEF E!Waits
  <2>12. QED
    BY <1>1, <1>2, <2>6, <2>7, <2>8, <2>11, ListedKeeps
<1>6. ASSUME NEW t \in Threads, E!FindHolder(t) PROVE E!ListedInv'
  <2>1. PICK n \in Numbers, named \in BOOLEAN :
          job[t] = [kind |-> "holder", number |-> n, named |-> named]
    BY <1>6, <1>1 DEF E!FindHolder, E!Doing, E!WorkOK
  <2>2. UNCHANGED <<x1, x2, x3>>
    BY <1>6 DEF E!FindHolder, E!enrolVars
  <2>3. ASSUME NEW u \in E!Holders(n), E!Continue(t, [kind |-> "rows", number |-> n, user |-> u])
        PROVE  E!ListedInv'
    <3>1. PICK work : work = [kind |-> "rows", number |-> n, user |-> u]
      OBVIOUS
    <3>2. job' = [job EXCEPT ![t] = work] /\ E!WorkOK(work) /\ work # None
      BY <2>3, <3>1 DEF E!Continue, E!WorkOK, E!Holders, NoneIsNoRecord
    <3>3. \A row \in x2 : E!Finds(t, row) => E!Finds(t, row)'
      BY <2>1, <3>1, <3>2 DEF E!Finds, E!Doing, E!Busy, E!ListedInv, E!TypesOK, E!JobTable
    <3>4. QED
      BY <2>2, <3>2, <3>3, ListedWork
  <2>4. CASE E!Respond(t) /\ ~(named /\ Cardinality(E!Holders(n)) = 1)
    <3>1. job' = [job EXCEPT ![t] = None] /\ E!WorkOK(None)
      BY <2>4 DEF E!Respond, E!Continue, E!WorkOK
    <3>2. \A row \in x2 : ~(E!Waits(row) /\ E!Finds(t, row))
      <4> SUFFICES ASSUME NEW row \in x2, E!Waits(row), E!Finds(t, row)
                   PROVE  FALSE
        OBVIOUS
      <4>1. row.number = n /\ named /\ n \notin x3 /\ E!Holders(n) # {}
        BY <2>1 DEF E!Finds, E!Doing, E!Waits
      <4>2. PICK u : u \in E!Holders(n)
        BY <4>1
      <4>3. E!Holders(n) = {u}
        BY <4>1, <4>2 DEF E!ListedInv
      <4>4. QED
        BY <2>4, <4>1, <4>3, FS_Singleton
    <3>3. QED
      BY <2>2, <3>1, <3>2, ListedWork
  <2>5. job[t].named = named /\ job[t].number = n
    BY <2>1
  <2>6. QED
    BY <1>6, <2>3, <2>4, <2>5, EnrolmentCounts DEF E!FindHolder
<1>7. ASSUME NEW t \in Threads, NEW u \in Students, NEW n \in Numbers, E!Register(t, u, n)
      PROVE  E!ListedInv'
  <2>1. E!WorkOK([kind |-> "register", user |-> u, number |-> n])
    BY DEF E!WorkOK
  <2>2. QED
    BY <1>7, <2>1, ListedBegin DEF E!Register, E!enrolVars
<1>8. ASSUME NEW t \in Threads, E!CreateAccount(t) PROVE E!ListedInv'
  <2>1. PICK n \in Numbers, u \in Students : job[t].number = n /\ job[t].user = u /\ job[t].kind = "register"
    BY <1>8, <1>1 DEF E!CreateAccount, E!Doing, E!WorkOK
  <2>2. \A row : ~E!Finds(t, row)
    BY <2>1 DEF E!Finds, E!Doing
  <2>3. CASE x1[u] # None
    <3>1. UNCHANGED <<x1, x2, x3>> /\ job' = [job EXCEPT ![t] = None] /\ E!WorkOK(None)
      BY <1>8, <2>1, <2>3 DEF E!CreateAccount, E!Respond, E!Continue, E!WorkOK
    <3>2. QED
      BY <2>2, <3>1, ListedWork
  <2>4. CASE x1[u] = None
    <3>1. PICK work : work = [kind |-> "rows", number |-> n, user |-> u]
      OBVIOUS
    <3>2. /\ job' = [job EXCEPT ![t] = work] /\ E!WorkOK(work) /\ work # None
          /\ x1' = [x1 EXCEPT ![u] = n] /\ x2' = x2
          /\ x3' = x3 \cup IF E!Holders(n) = {} THEN {} ELSE {n}
      BY <1>8, <2>1, <2>4, <3>1 DEF E!CreateAccount, E!Continue, E!WorkOK, NoneIsNoRecord
    <3>3. \A v \in Students : x1'[v] = IF v = u THEN n ELSE x1[v]
      BY <1>1, <3>2
    <3>4. (\A m \in (Numbers \ x3) : \A v, w \in E!Holders(m) : v = w)'
      <4> SUFFICES ASSUME NEW m \in Numbers, m \notin x3', NEW v \in Students, NEW w \in Students,
                          x1'[v] = m, x1'[w] = m
                   PROVE  v = w
        BY DEF E!Holders
      <4>1. CASE m = n
        <5>1. E!Holders(n) = {}
          BY <3>2, <4>1
        <5>2. QED
          BY <3>3, <4>1, <5>1 DEF E!Holders
      <4>2. CASE m # n
        <5>1. m \notin x3 /\ x1[v] = m /\ x1[w] = m
          BY <3>2, <3>3, <4>2
        <5>2. QED
          BY <5>1 DEF E!ListedInv, E!Holders
      <4>3. QED
        BY <4>1, <4>2
    <3>5. ASSUME NEW row \in x2', E!Waits(row)'
          PROVE  E!Finds(t, row)' \/ (row \in x2 /\ E!Waits(row) /\ ~E!Finds(t, row))
      <4>1. CASE row.number = n
        BY <3>1, <3>2, <4>1 DEF E!Finds, E!Doing, E!Busy, E!ListedInv, E!TypesOK, E!JobTable
      <4>2. CASE row.number # n
        BY <2>2, <3>2, <3>3, <3>5, <4>2 DEF E!Waits, E!Holders
      <4>3. QED
        BY <4>1, <4>2
    <3>6. x1' \in [Students -> Numbers \cup {None}]
      BY <1>1, <3>2
    <3>7. QED
      BY <1>1, <3>2, <3>4, <3>5, <3>6, ListedKeeps
  <2>5. QED
    BY <2>3, <2>4
<1>9. ASSUME NEW t \in Threads, E!ReadRows(t) PROVE E!ListedInv'
  <2>1. job[t].number \in Numbers /\ job[t].user \in Students /\ job[t].kind = "rows"
    BY <1>9, <1>1 DEF E!ReadRows, E!Doing, E!WorkOK
  <2>2. PICK work : work = [kind |-> "link", user |-> job[t].user,
                            todo |-> {r \in x2 : r.number = job[t].number}]
    OBVIOUS
  <2>3. UNCHANGED <<x1, x2, x3>> /\ job' = [job EXCEPT ![t] = work] /\ work # None
    BY <1>9, <2>2 DEF E!ReadRows, E!Continue, E!enrolVars, NoneIsNoRecord
  <2>4. E!WorkOK(work)
    BY <1>1, <2>1, <2>2 DEF E!WorkOK
  <2>5. \A row \in x2 : E!Finds(t, row) => E!Finds(t, row)'
    BY <2>1, <2>2, <2>3 DEF E!Finds, E!Doing, E!Busy, E!ListedInv, E!TypesOK, E!JobTable
  <2>6. QED
    BY <2>3, <2>4, <2>5, ListedWork
<1>10. ASSUME NEW t \in Threads, E!LinkRow(t) PROVE E!ListedInv'
  <2>1. /\ job[t] = [kind |-> "link", user |-> job[t].user, todo |-> job[t].todo]
        /\ job[t].user \in Students /\ \A row \in job[t].todo : E!IsRow(row)
    BY <1>10, <1>1 DEF E!LinkRow, E!Doing, E!WorkOK
  <2>2. PICK row \in job[t].todo :
          /\ E!SaveRow([row EXCEPT !.user = job[t].user, !.allowed = TRUE])
          /\ E!Continue(t, [job[t] EXCEPT !.todo = @ \ {row}]) /\ UNCHANGED <<x1, x3>>
    BY <1>10 DEF E!LinkRow
  <2>3. PICK work : work = [kind |-> "link", user |-> job[t].user, todo |-> job[t].todo \ {row}]
    OBVIOUS
  <2>4. [job[t] EXCEPT !.todo = @ \ {row}] = work
    BY <2>1, <2>3
  <2>5. PICK new : new = [row EXCEPT !.user = job[t].user, !.allowed = TRUE]
    OBVIOUS
  <2>6. /\ x2' = {r \in x2 : r.id # new.id} \cup {new}
        /\ job' = [job EXCEPT ![t] = work] /\ UNCHANGED <<x1, x3>>
    BY <2>2, <2>4, <2>5 DEF E!SaveRow, E!Continue
  <2>7. E!IsRow(new) /\ new.user # None /\ new.id = row.id
    BY <2>1, <2>5, NoneAssumption DEF E!IsRow
  <2>8. work # None
    BY <2>3 DEF NoneIsNoRecord
  <2>9. work = [kind |-> "link", user |-> work.user, todo |-> work.todo] /\ work.kind = "link"
    BY <2>3
  <2>10. work.user \in Students /\ \A r \in work.todo : E!IsRow(r)
    BY <2>1, <2>3
  <2>11. E!WorkOK(work) /\ work # None
    BY <2>8, <2>9, <2>10 DEF E!WorkOK
  <2>12. ASSUME NEW r \in x2', E!Waits(r)'
        PROVE  E!Finds(t, r)' \/ (r \in x2 /\ E!Waits(r) /\ ~E!Finds(t, r))
    <3>1. r \in x2 /\ r.id # row.id /\ E!Waits(r)
      BY <1>3, <2>6, <2>7, <2>12 DEF E!Waits
    <3>2. CASE E!Finds(t, r)
      <4>1. r \in job[t].todo \ {row}
        BY <2>1, <3>1, <3>2 DEF E!Finds, E!Doing
      <4>2. QED
        BY <2>6, <2>11, <2>3, <4>1 DEF E!Finds, E!Doing, E!Busy, E!ListedInv, E!TypesOK, E!JobTable
    <3>3. QED
      BY <3>1, <3>2
  <2>13. QED
    BY <1>1, <1>2, <2>6, <2>7, <2>11, <2>12, ListedKeeps
<1>11. ASSUME NEW t \in Threads, E!Linked(t) PROVE E!ListedInv'
  <2>1. /\ job' = [job EXCEPT ![t] = None] /\ UNCHANGED <<x1, x2, x3>> /\ E!WorkOK(None)
    BY <1>11 DEF E!Linked, E!Respond, E!Continue, E!enrolVars, E!WorkOK
  <2>2. \A row : ~E!Finds(t, row)
    BY <1>11 DEF E!Linked, E!Finds, E!Doing
  <2>3. QED
    BY <2>1, <2>2, ListedWork
<1>12. ASSUME NEW t \in Threads, NEW u \in Students, E!Apply(t, u) PROVE E!ListedInv'
  <2>1. u # None /\ x1[u] \in Numbers /\ UNCHANGED <<x1, x3>>
    BY <1>12, <1>1, NoneAssumption DEF E!Apply
  <2>2. CASE E!Entries(x1[u], TRUE) = {}
    <3>1. PICK new, id : /\ new = [E!Row(id, x1[u], TRUE) EXCEPT !.user = u]
                         /\ x2' = x2 \cup {new} /\ job' = job
      BY <1>12, <2>2 DEF E!Apply, E!AtOnce
    <3>2. E!IsRow(new) /\ new.user = u
      BY <2>1, <3>1 DEF E!IsRow, E!Row
    <3>3. \A row \in x2' : E!Waits(row)' => row \in x2 /\ E!Waits(row)
      BY <1>3, <2>1, <3>1, <3>2 DEF E!Waits
    <3>4. QED
      BY <1>1, <1>2, <2>1, <3>1, <3>2, <3>3, ListedStays
  <2>3. CASE E!Entries(x1[u], TRUE) # {}
    <3>1. PICK row \in x2 : E!Begin(t, [kind |-> "save", row |-> [row EXCEPT !.user = u, !.allowed = TRUE]])
      BY <1>12, <2>3 DEF E!Apply, E!Entries
    <3>2. PICK saved : saved = [row EXCEPT !.user = u, !.allowed = TRUE]
      OBVIOUS
    <3>3. E!IsRow(saved) /\ saved.user = u
      BY <1>1, <3>2 DEF E!IsRow
    <3>4. E!WorkOK([kind |-> "save", row |-> saved])
      BY <2>1, <3>3 DEF E!WorkOK
    <3>5. x2' = x2
      BY <1>12, <2>3 DEF E!Apply
    <3>6. QED
      BY <2>1, <3>1, <3>2, <3>4, <3>5, ListedBegin
  <2>4. QED
    BY <2>2, <2>3
<1>13. ASSUME NEW t \in Threads, NEW u \in Students, E!Approve(t, u) PROVE E!ListedInv'
  <2>1. PICK row \in x2 : /\ {r \in x2 : r.user = u} = {row}
                          /\ E!Begin(t, [kind |-> "save", row |-> [row EXCEPT !.allowed = TRUE]])
    BY <1>13 DEF E!Approve
  <2>2. PICK saved : saved = [row EXCEPT !.allowed = TRUE]
    OBVIOUS
  <2>3. row.user = u /\ u # None
    BY <2>1, NoneAssumption
  <2>4. E!IsRow(saved) /\ saved.user # None
    BY <1>1, <2>2, <2>3 DEF E!IsRow
  <2>5. E!WorkOK([kind |-> "save", row |-> saved])
    BY <2>4 DEF E!WorkOK
  <2>6. QED
    BY <1>13, <2>1, <2>2, <2>5, ListedBegin DEF E!Approve, E!enrolVars
<1>14. ASSUME NEW t \in Threads, E!SaveSignup(t) PROVE E!ListedInv'
  <2>1. PICK row : job[t].row = row /\ job[t].kind = "save" /\ E!IsRow(row) /\ row.user # None
    BY <1>14, <1>1 DEF E!SaveSignup, E!Doing, E!WorkOK
  <2>2. /\ x2' = {r \in x2 : r.id # row.id} \cup {row} /\ UNCHANGED <<x1, x3>>
        /\ job' = [job EXCEPT ![t] = None] /\ E!WorkOK(None)
    BY <1>14, <2>1 DEF E!SaveSignup, E!SaveRow, E!Respond, E!Continue, E!WorkOK
  <2>3. \A r : ~E!Finds(t, r)
    BY <2>1 DEF E!Finds, E!Doing
  <2>4. \A r \in x2' : E!Waits(r)' => r \in x2 /\ E!Waits(r)
    BY <1>3, <2>1, <2>2 DEF E!Waits
  <2>5. QED
    BY <1>1, <1>2, <2>1, <2>2, <2>3, <2>4, ListedKeeps
<1>15. ASSUME NEW u \in Students, NEW n \in Numbers, E!NumberOutside(u, n) PROVE E!ListedInv'
  <2>1. /\ job' = job /\ x1' = [x1 EXCEPT ![u] = n] /\ x2' = x2 /\ x3' = x3 \cup {n}
    BY <1>15 DEF E!NumberOutside, E!AtOnce
  <2>2. \A v \in Students : x1'[v] = IF v = u THEN n ELSE x1[v]
    BY <1>1, <2>1
  <2>3. \A m : m \notin x3' => E!Holders(m)' \subseteq E!Holders(m)
    BY <2>1, <2>2 DEF E!Holders
  <2>4. (\A m \in (Numbers \ x3) : \A v, w \in E!Holders(m) : v = w)'
    BY <2>1, <2>3 DEF E!ListedInv
  <2>5. \A row \in x2 : E!Waits(row)' => E!Waits(row)
    BY <2>1, <2>3 DEF E!Waits
  <2>6. x1' \in [Students -> Numbers \cup {None}]
    BY <1>1, <2>1
  <2>7. QED
    BY <1>1, <2>1, <2>4, <2>5, <2>6, ListedStays
<1>16. ASSUME NEW id, E!DeleteSignup(id) PROVE E!ListedInv'
  <2>1. job' = job /\ x2' \subseteq x2 /\ UNCHANGED <<x1, x3>>
    BY <1>16 DEF E!DeleteSignup, E!AtOnce
  <2>2. QED
    BY <1>1, <1>2, <1>3, <2>1, ListedStays
<1>17. QED
  BY <1>4, <1>5, <1>6, <1>7, <1>8, <1>9, <1>10, <1>11, <1>12, <1>13, <1>14, <1>15, <1>16 DEF E!Next

\* Nobody is left to link a row when no request is in progress.
LEMMA NobodyWaits ==
  ASSUME E!ListedInv
  PROVE  E!ListedIsLinked
BY DEF E!ListedInv, E!ListedIsLinked, E!Waits, E!Finds, E!Doing, E!Quiet


\* Assistants count as this module does.
LEMMA AssistantsCount == \A set : T!Cardinality(set) = Cardinality(set)
BY DEF T!Cardinality, Cardinality

\* The one request in progress goes on with other work, or ends.
LEMMA RoleKeeps ==
  ASSUME T!RoleInv, NEW t \in Threads, NEW work, job' = [job EXCEPT ![t] = work],
         ~overlapped' /\ ~x3' =>
           /\ ~overlapped /\ ~x3
           /\ \A u \in Threads : T!Busy(u) => u = t
           /\ \A row \in x1' : row.lecture \in Lectures
           /\ \A r, s \in x1' : r.lecture = s.lecture => r = s
           /\ work = None => T!Matches'
           /\ work # None => /\ work.kind \in {"create", "role", "lower", "delete", "permit"}
                             /\ T!WorkOK(work)'
  PROVE  T!RoleInv'
<1>1. T!JobTable' /\ \A u \in Threads : job'[u] = IF u = t THEN work ELSE job[u]
  BY DEF T!RoleInv, T!JobTable
<1>2. ASSUME ~overlapped', ~x3'
      PROVE  \A u \in Threads : T!Busy(u)' => u = t /\ job'[u] = work /\ work # None
  BY <1>1, <1>2 DEF T!Busy
<1>3. ASSUME ~overlapped', ~x3', T!Quiet'
      PROVE  T!Matches'
  BY <1>1, <1>3 DEF T!Quiet, T!Busy
<1>4. ASSUME ~overlapped', ~x3', NEW u \in Threads, T!Busy(u)'
      PROVE  job'[u].kind \in {"create", "role", "lower", "delete", "permit"} /\ T!WorkOK(job[u])'
  <2>1. u = t /\ job'[u] = work /\ work # None
    BY <1>2, <1>4
  <2>2. work.kind \in {"create", "role", "lower", "delete", "permit"} /\ T!WorkOK(work)'
    BY <1>4, <2>1
  <2>3. QED
    BY <2>1, <2>2 DEF T!WorkOK
<1>5. T!Alone' \/ overlapped' \/ x3'
  BY <1>2 DEF T!Alone
<1>6. QED
  BY <1>1, <1>3, <1>4, <1>5 DEF T!RoleInv

\* A request that begins without changing a row or the role.
LEMMA RoleBegins ==
  ASSUME T!RoleInv, NEW t \in Threads, NEW work, T!Begin(t, work),
         UNCHANGED <<x1, x2, x3>>, work # None,
         ~overlapped /\ ~x3 /\ T!Matches =>
           work.kind \in {"create", "role", "lower", "delete", "permit"} /\ T!WorkOK(work)
  PROVE  T!RoleInv'
<1>1. job' = [job EXCEPT ![t] = work] /\ (~overlapped' => ~overlapped /\ T!Quiet)
  BY DEF T!Begin, T!Arrive
<1>2. ASSUME ~overlapped', ~x3'
      PROVE  ~overlapped /\ ~x3 /\ T!Matches /\ \A u \in Threads : ~T!Busy(u)
  BY <1>1, <1>2 DEF T!RoleInv, T!Quiet
<1>3. ASSUME ~overlapped', ~x3' PROVE T!WorkOK(work)'
  BY <1>2, <1>3 DEF T!WorkOK, T!Matches
<1>4. QED
  BY <1>1, <1>2, <1>3, RoleKeeps DEF T!RoleInv

\* A request of one step that leaves the role to the rows.
LEMMA RoleStays ==
  ASSUME T!RoleInv, job' = job, overlapped' \/ x3' \/ (~overlapped /\ ~x3 /\ UNCHANGED <<x1, x2>>)
  PROVE  T!RoleInv'
<1>1. T!JobTable' /\ (T!Alone' <=> T!Alone) /\ (T!Quiet' <=> T!Quiet)
  BY DEF T!RoleInv, T!JobTable, T!Alone, T!Quiet, T!Busy
<1>2. CASE overlapped' \/ x3'
  BY <1>1, <1>2 DEF T!RoleInv
<1>3. CASE ~overlapped /\ ~x3 /\ UNCHANGED <<x1, x2>>
  <2>1. T!Matches' <=> T!Matches
    BY <1>3 DEF T!Matches
  <2>2. \A u \in Threads : T!WorkOK(job[u]) => T!WorkOK(job[u])'
    BY <1>3 DEF T!WorkOK, T!Matches
  <2>3. QED
    BY <1>1, <1>3, <2>1, <2>2 DEF T!RoleInv, T!Busy
<1>4. QED
  BY <1>2, <1>3

LEMMA AssistantsInit ==
  ASSUME T!Init
  PROVE  T!RoleInv
<1>1. /\ job = [t \in Threads |-> None] /\ x1 = {} /\ x2 # "TA_Admin"
      /\ \A t \in Threads : ~T!Busy(t)
  BY DEF T!Init, T!RequestsInit, T!Busy, T!Roles
<1>2. T!JobTable
  BY <1>1 DEF T!JobTable
<1>3. QED
  BY <1>1, <1>2 DEF T!RoleInv, T!Alone, T!Matches

LEMMA AssistantsStutter ==
  ASSUME T!RoleInv, UNCHANGED vars
  PROVE  T!RoleInv'
BY ZenonT(60) DEF vars, T!RoleInv, T!JobTable, T!Alone, T!Busy, T!Quiet, T!Matches, T!WorkOK

LEMMA AssistantsStep ==
  ASSUME NoneIsNoRecord, T!RoleInv, T!Next
  PROVE  T!RoleInv'
<1>1. ASSUME NEW t \in Threads, T!Busy(t), ~overlapped, ~x3
      PROVE  /\ T!WorkOK(job[t]) /\ \A u \in Threads : T!Busy(u) => u = t
             /\ \A row \in x1 : row.lecture \in Lectures
             /\ \A r, s \in x1 : r.lecture = s.lecture => r = s
  BY <1>1 DEF T!RoleInv, T!Alone
<1>2. ASSUME NEW t \in Threads, NEW lecture \in Lectures, T!Add(t, lecture)
      PROVE  T!RoleInv'
  <2>1. PICK work : work = [kind |-> "create", lecture |-> lecture]
    OBVIOUS
  <2>2. work # None
    BY <2>1 DEF NoneIsNoRecord
  <2>3. T!Matches => T!WorkOK(work)
    BY <1>2, <2>1 DEF T!Add, T!WorkOK
  <2>4. QED
    BY <1>2, <2>1, <2>2, <2>3, RoleBegins DEF T!Add, T!assistantVars
<1>3. ASSUME NEW t \in Threads, NEW lecture \in Lectures, T!Remove(t, lecture)
      PROVE  T!RoleInv'
  <2>1. CASE Cardinality(x1) = 1
    <3>1. PICK work : work = [kind |-> "lower", lectures |-> Lectures]
      OBVIOUS
    <3>2. work # None
      BY <3>1 DEF NoneIsNoRecord
    <3>3. T!WorkOK(work)
      BY <3>1 DEF T!WorkOK
    <3>4. T!Begin(t, work) /\ UNCHANGED <<x1, x2, x3>>
      BY <1>3, <2>1, <3>1, AssistantsCount DEF T!Remove, T!Removal, T!assistantVars
    <3>5. QED
      BY <3>1, <3>2, <3>3, <3>4, RoleBegins
  <2>2. CASE Cardinality(x1) # 1
    <3>1. PICK work : work = [kind |-> "delete", lectures |-> {lecture}]
      OBVIOUS
    <3>2. work # None
      BY <3>1 DEF NoneIsNoRecord
    <3>3. T!Begin(t, work) /\ x1 # {} /\ UNCHANGED <<x1, x2, x3>>
      BY <1>3, <2>2, <3>1, AssistantsCount DEF T!Remove, T!Removal, T!assistantVars
    <3>4. \A row \in x1 : x1 # {row}
      BY <2>2, FS_Singleton
    <3>5. T!Matches => T!WorkOK(work)
      BY <3>1, <3>3, <3>4 DEF T!WorkOK
    <3>6. QED
      BY <3>1, <3>2, <3>3, <3>5, RoleBegins
  <2>3. QED
    BY <2>1, <2>2
<1>4. ASSUME NEW t \in Threads, NEW lecture \in Lectures, T!Permit(t, lecture)
      PROVE  T!RoleInv'
  <2>1. PICK row \in x1 : /\ {r \in x1 : r.lecture = lecture} = {row}
                          /\ T!Begin(t, [kind |-> "permit", row |-> [row EXCEPT !.permit = ~@]])
    BY <1>4 DEF T!Permit
  <2>2. PICK saved, work : saved = [row EXCEPT !.permit = ~@] /\ work = [kind |-> "permit", row |-> saved]
    OBVIOUS
  <2>3. work # None
    BY <2>2 DEF NoneIsNoRecord
  <2>4. saved.id = row.id /\ saved.lecture = row.lecture
    BY <2>2
  <2>5. row.lecture = lecture /\ \A r \in x1 : r.lecture = lecture => r = row
    BY <2>1
  <2>6. work.kind = "permit" /\ work.row = saved
    BY <2>2
  <2>7. T!Matches => T!WorkOK(work)
    BY <2>4, <2>5, <2>6 DEF T!WorkOK
  <2>8. QED
    BY <1>4, <2>1, <2>2, <2>3, <2>7, <2>6, RoleBegins DEF T!Permit, T!assistantVars
<1>5. ASSUME NEW t \in Threads, T!CreateRow(t) PROVE T!RoleInv'
  <2>1. PICK work : work = [kind |-> "role", role |-> "TA_Admin"]
    OBVIOUS
  <2>2. /\ T!Busy(t) /\ job[t].kind = "create" /\ UNCHANGED <<x2, x3, overlapped>>
        /\ x1' = x1 \cup {T!Row(requests, job[t].lecture)} /\ job' = [job EXCEPT ![t] = work]
    BY <1>5, <2>1 DEF T!CreateRow, T!Doing, T!Continue
  <2>3. work # None
    BY <2>1 DEF NoneIsNoRecord
  <2>4. PICK new : new = T!Row(requests, job[t].lecture)
    OBVIOUS
  <2>5. new.lecture = job[t].lecture /\ x1' = x1 \cup {new}
    BY <2>2, <2>4 DEF T!Row
  <2>6. ASSUME ~overlapped, ~x3
        PROVE  /\ \A row \in x1' : row.lecture \in Lectures
               /\ \A r, s \in x1' : r.lecture = s.lecture => r = s
    <3>1. T!WorkOK(job[t])
      BY <1>1, <2>2, <2>6
    <3>2. job[t].lecture \in Lectures /\ \A row \in x1 : row.lecture # job[t].lecture
      BY <2>2, <3>1 DEF T!WorkOK
    <3>3. QED
      BY <1>1, <2>2, <2>6, <2>5, <3>2
  <2>7. T!WorkOK(work)'
    BY <2>1, <2>2 DEF T!WorkOK
  <2>8. QED
    BY <1>1, <2>1, <2>2, <2>3, <2>6, <2>7, RoleKeeps
<1>6. ASSUME NEW t \in Threads, T!SaveRole(t) PROVE T!RoleInv'
  <2>1. /\ T!Busy(t) /\ job[t].kind = "role" /\ UNCHANGED <<x1, x3, overlapped>>
        /\ x2' = job[t].role /\ job' = [job EXCEPT ![t] = None]
    BY <1>6 DEF T!SaveRole, T!Doing, T!Respond, T!Continue
  <2>2. ASSUME ~overlapped, ~x3 PROVE T!Matches'
    BY <1>1, <2>1, <2>2 DEF T!WorkOK, T!Matches
  <2>3. QED
    BY <1>1, <2>1, <2>2, RoleKeeps
<1>7. ASSUME NEW t \in Threads, T!Lower(t) PROVE T!RoleInv'
  <2>1. PICK work : work = [job[t] EXCEPT !.kind = "delete"]
    OBVIOUS
  <2>2. /\ T!Busy(t) /\ job[t].kind = "lower" /\ UNCHANGED <<x1, x3, overlapped>>
        /\ x2' = "Regular User" /\ job' = [job EXCEPT ![t] = work]
    BY <1>7, <2>1 DEF T!Lower, T!Doing, T!Continue
  <2>3. work # None
    BY <2>1 DEF NoneIsNoRecord
  <2>4. ASSUME ~overlapped, ~x3 PROVE work.kind = "delete" /\ work.lectures = Lectures
    <3>1. job[t] \in [kind : {"lower"}, lectures : {Lectures}]
      BY <1>1, <2>2, <2>4 DEF T!WorkOK
    <3>2. QED
      BY <2>1, <3>1
  <2>5. ASSUME ~overlapped, ~x3 PROVE T!WorkOK(work)'
    BY <2>2, <2>4, <2>5 DEF T!WorkOK
  <2>6. QED
    BY <1>1, <2>2, <2>3, <2>4, <2>5, RoleKeeps
<1>8. ASSUME NEW t \in Threads, T!Delete(t) PROVE T!RoleInv'
  <2>1. /\ T!Busy(t) /\ job[t].kind = "delete" /\ UNCHANGED <<x2, x3, overlapped>>
        /\ x1' = {row \in x1 : row.lecture \notin job[t].lectures} /\ job' = [job EXCEPT ![t] = None]
    BY <1>8 DEF T!Delete, T!Doing, T!Respond, T!Continue
  <2>2. ASSUME ~overlapped, ~x3 PROVE T!Matches'
    <3>1. T!WorkOK(job[t]) /\ \A row \in x1 : row.lecture \in Lectures
      BY <1>1, <2>1, <2>2
    <3>2. CASE x2 = "Regular User" /\ job[t].lectures = Lectures
      BY <2>1, <3>1, <3>2 DEF T!Matches
    <3>3. CASE /\ T!Matches /\ x1 # {} /\ \A row \in x1 : x1 # {row}
               /\ \E lecture \in Lectures : job[t].lectures = {lecture}
      <4>1. PICK lecture : job[t].lectures = {lecture}
        BY <3>3
      <4>2. PICK row \in x1, other \in x1 : row # other
        BY <3>3
      <4>3. row.lecture # lecture \/ other.lecture # lecture
        BY <1>1, <2>1, <2>2, <4>2
      <4>4. x1' # {}
        BY <2>1, <4>1, <4>2, <4>3
      <4>5. QED
        BY <2>1, <3>3, <4>4 DEF T!Matches
    <3>4. QED
      BY <2>1, <3>1, <3>2, <3>3 DEF T!WorkOK
  <2>3. QED
    BY <1>1, <2>1, <2>2, RoleKeeps
<1>9. ASSUME NEW t \in Threads, T!SavePermit(t) PROVE T!RoleInv'
  <2>1. /\ T!Busy(t) /\ job[t].kind = "permit" /\ UNCHANGED <<x2, x3, overlapped>>
        /\ x1' = {row \in x1 : row.id # job[t].row.id} \cup {job[t].row}
        /\ job' = [job EXCEPT ![t] = None]
    BY <1>9 DEF T!SavePermit, T!Doing, T!Respond, T!Continue
  <2>2. ASSUME ~overlapped, ~x3
        PROVE  /\ T!Matches' /\ \A row \in x1' : row.lecture \in Lectures
               /\ \A r, s \in x1' : r.lecture = s.lecture => r = s
    <3>1. T!Matches /\ \E row \in x1 : /\ row.id = job[t].row.id /\ row.lecture = job[t].row.lecture
                                     /\ \A r \in x1 : r.lecture = row.lecture => r = row
      BY <1>1, <2>1, <2>2 DEF T!WorkOK
    <3>2. \A r \in x1' : r = job[t].row \/ (r \in x1 /\ r.lecture # job[t].row.lecture)
      BY <2>1, <3>1
    <3>3. T!Matches'
      BY <2>1, <3>1 DEF T!Matches
    <3>4. QED
      BY <1>1, <2>1, <2>2, <3>1, <3>2, <3>3
  <2>3. QED
    BY <1>1, <2>1, <2>2, RoleKeeps
<1>10. ASSUME NEW lecture \in Lectures, T!DeleteLecture(lecture) PROVE T!RoleInv'
  <2>1. /\ job' = job /\ (~overlapped' => ~overlapped) /\ x2' = x2
        /\ x3' = (x3 \/ x1' # x1)
    BY <1>10 DEF T!DeleteLecture, T!AtOnce, T!Arrive
  <2>2. QED
    BY <2>1, RoleStays
<1>11. ASSUME NEW new \in T!Roles, T!EditRole(new) PROVE T!RoleInv'
  BY <1>11, RoleStays DEF T!EditRole, T!AtOnce, T!Arrive
<1>12. QED
  BY <1>2, <1>3, <1>4, <1>5, <1>6, <1>7, <1>8, <1>9, <1>10, <1>11 DEF T!Next

LEMMA RolesMatch ==
  ASSUME T!RoleInv
  PROVE  T!RoleMatches
BY DEF T!RoleInv, T!RoleMatches, T!Matches

\* A request goes on with other work, or ends.
LEMMA LeftKeeps ==
  ASSUME D!LeftInv, NEW t \in Threads, NEW work, job' = [job EXCEPT ![t] = work],
         \A row \in x1' : D!IsRow(row),
         work # None =>
           /\ work.kind \in {"save", "toggle"} => D!IsRow(work.row)
           /\ work.kind = "create" => work.entered \in BOOLEAN /\ work.left \in BOOLEAN,
         ~overlapped' =>
           /\ ~overlapped /\ \A u \in Threads : D!Busy(u) => u = t
           /\ work # None /\ work.kind = "save" /\ D!Left' => work.row.left
  PROVE  D!LeftInv'
<1>1. D!JobTable' /\ \A u \in Threads : job'[u] = IF u = t THEN work ELSE job[u]
  BY DEF D!LeftInv, D!JobTable
<1>2. ASSUME NEW u \in Threads
      PROVE  /\ (D!Doing(u, "save") \/ D!Doing(u, "toggle"))' => D!IsRow(job'[u].row)
             /\ D!Doing(u, "create")' => job'[u].entered \in BOOLEAN /\ job'[u].left \in BOOLEAN
  BY <1>1 DEF D!LeftInv, D!Doing, D!Busy
<1>3. ~overlapped' => \A u \in Threads : D!Busy(u)' => u = t
  BY <1>1 DEF D!Busy
<1>4. ASSUME ~overlapped', NEW u \in Threads, D!Doing(u, "save")', D!Left'
      PROVE  job'[u].row.left
  <2>1. u = t /\ work # None /\ work.kind = "save" /\ job'[u] = work
    BY <1>1, <1>3, <1>4 DEF D!Doing, D!Busy
  <2>2. QED
    BY <1>4, <2>1
<1>5. ~overlapped' => D!Alone'
  BY <1>3 DEF D!Alone
<1>6. QED
  BY <1>1, <1>2, <1>4, <1>5 DEF D!LeftInv, D!IsRow

\* A request begins and leaves the rows alone; what it will save has left when
\* a row has.
LEMMA LeftBegins ==
  ASSUME D!LeftInv, NEW t \in Threads, NEW work, D!Begin(t, work), UNCHANGED <<x1, x2>>,
         work.kind \in {"save", "toggle"} => D!IsRow(work.row),
         work.kind = "create" => work.entered \in BOOLEAN /\ work.left \in BOOLEAN,
         work.kind = "save" /\ D!Left => work.row.left
  PROVE  D!LeftInv'
<1>1. job' = [job EXCEPT ![t] = work] /\ (~overlapped' => ~overlapped /\ D!Quiet)
  BY DEF D!Begin, D!Arrive
<1>2. \A row \in x1' : D!IsRow(row)
  BY DEF D!LeftInv
<1>3. ~overlapped' => ~overlapped /\ \A u \in Threads : D!Busy(u) => u = t
  BY <1>1 DEF D!Quiet
<1>4. D!Left' => D!Left
  BY DEF D!Left
<1>5. QED
  BY <1>1, <1>2, <1>3, <1>4, LeftKeeps

\* A request of one step.
LEMMA LeftAtOnce ==
  ASSUME D!LeftInv, D!AtOnce, \A row \in x1' : D!IsRow(row)
  PROVE  D!LeftInv'
<1>1. job' = job /\ (~overlapped' => ~overlapped /\ D!Quiet)
  BY DEF D!AtOnce, D!Arrive
<1>2. D!JobTable' /\ \A u \in Threads : D!Busy(u)' <=> D!Busy(u)
  BY <1>1 DEF D!LeftInv, D!JobTable, D!Busy
<1>3. \A u \in Threads : /\ (D!Doing(u, "save") \/ D!Doing(u, "toggle"))' => D!IsRow(job'[u].row)
                         /\ D!Doing(u, "create")' => job'[u].entered \in BOOLEAN /\ job'[u].left \in BOOLEAN
  BY <1>1 DEF D!LeftInv, D!Doing, D!Busy
<1>4. ~overlapped' => \A u \in Threads : ~D!Busy(u)'
  BY <1>1, <1>2 DEF D!Quiet
<1>5. ~overlapped' => D!Alone' /\ \A u \in Threads : ~D!Doing(u, "save")'
  BY <1>4 DEF D!Alone, D!Doing
<1>6. QED
  BY <1>2, <1>3, <1>5 DEF D!LeftInv, D!IsRow

LEMMA AttendanceInit ==
  ASSUME D!Init
  PROVE  D!LeftInv
<1>1. job = [t \in Threads |-> None] /\ x1 = {} /\ \A t \in Threads : ~D!Busy(t)
  BY DEF D!Init, D!RequestsInit, D!Busy
<1>2. QED
  BY <1>1 DEF D!LeftInv, D!JobTable, D!Alone, D!Doing

LEMMA AttendanceStutter ==
  ASSUME D!LeftInv, UNCHANGED vars
  PROVE  D!LeftInv'
BY DEF vars, D!LeftInv, D!JobTable, D!IsRow, D!Alone, D!Doing, D!Busy, D!Left

\* The rows after each request: what they are, and whether one has left.
LEMMA AttendanceRows ==
  ASSUME D!LeftInv, D!Next
  PROVE  /\ \A row \in x1' : D!IsRow(row)
         /\ \/ x1' = x1
            \/ \E t \in Threads : D!Busy(t) /\ UNCHANGED overlapped /\ job' = [job EXCEPT ![t] = None]
            \/ D!AtOnce
         /\ D!LeftStaysLeftStep
<1>1. \A row \in x1 : D!IsRow(row)
  BY DEF D!LeftInv
<1>2. CASE x1' = x1
  BY <1>1, <1>2 DEF D!LeftStaysLeftStep, D!Left
<1>3. ASSUME NEW t \in Threads, D!Save(t)
      PROVE  /\ \A row \in x1' : D!IsRow(row)
             /\ D!Busy(t) /\ UNCHANGED overlapped /\ job' = [job EXCEPT ![t] = None]
             /\ D!LeftStaysLeftStep
  <2>1. /\ D!Busy(t) /\ UNCHANGED overlapped /\ job' = [job EXCEPT ![t] = None]
        /\ x1' = {r \in x1 : r.id # job[t].row.id} \cup {job[t].row}
    BY <1>3 DEF D!Save, D!Saved, D!Respond, D!Continue, D!Doing
  <2>2. D!IsRow(job[t].row)
    BY <1>3 DEF D!Save, D!LeftInv
  <2>3. ASSUME D!Left, ~overlapped, ~D!Doing(t, "toggle") PROVE D!Left'
    <3>1. job[t].row.left
      BY <1>3, <2>3 DEF D!Save, D!LeftInv
    <3>2. QED
      BY <2>1, <3>1 DEF D!Left
  <2>4. D!LeftStaysLeftStep
    BY <2>3 DEF D!LeftStaysLeftStep
  <2>5. QED
    BY <1>1, <2>1, <2>2, <2>4
<1>4. ASSUME NEW t \in Threads, D!Create(t)
      PROVE  /\ \A row \in x1' : D!IsRow(row)
             /\ D!Busy(t) /\ UNCHANGED overlapped /\ job' = [job EXCEPT ![t] = None]
             /\ D!LeftStaysLeftStep
  <2>1. /\ D!Busy(t) /\ UNCHANGED overlapped /\ job' = [job EXCEPT ![t] = None]
        /\ x1' = x1 \cup {D!NewRow(t, job[t].entered, job[t].left)}
    BY <1>4 DEF D!Create, D!Respond, D!Continue, D!Doing
  <2>2. job[t].entered \in BOOLEAN /\ job[t].left \in BOOLEAN
    BY <1>4 DEF D!Create, D!LeftInv
  <2>3. D!IsRow(D!NewRow(t, job[t].entered, job[t].left))
    BY <2>2 DEF D!NewRow, D!IsRow
  <2>4. D!LeftStaysLeftStep
    BY <2>1 DEF D!LeftStaysLeftStep, D!Left
  <2>5. QED
    BY <1>1, <2>1, <2>3, <2>4
<1>5. ASSUME NEW some, some \subseteq x1, \A r \in x1 : r.left /\ r \notin some => r \in x1',
             x1' \subseteq x1 \cup D!Ended(some), D!Ended(some) \subseteq x1'
      PROVE  (\A row \in x1' : D!IsRow(row)) /\ D!LeftStaysLeftStep
  <2>1. \A r \in some : [r EXCEPT !.left = TRUE].left /\ D!IsRow([r EXCEPT !.left = TRUE])
    BY <1>1, <1>5 DEF D!IsRow
  <2>2. ASSUME D!Left PROVE D!Left'
    <3>1. PICK r \in x1 : r.left
      BY <2>2 DEF D!Left
    <3>2. CASE r \in some
      <4>1. [r EXCEPT !.left = TRUE] \in x1'
        BY <1>5, <3>2 DEF D!Ended
      <4>2. [r EXCEPT !.left = TRUE].left
        BY <2>1, <3>2
      <4>3. QED
        BY <4>1, <4>2 DEF D!Left
    <3>3. CASE r \notin some
      <4>1. r \in x1'
        BY <1>5, <3>1, <3>3
      <4>2. QED
        BY <3>1, <4>1 DEF D!Left
    <3>4. QED
      BY <3>2, <3>3
  <2>3. QED
    BY <1>1, <1>5, <2>1, <2>2 DEF D!LeftStaysLeftStep, D!Ended
<1>6. ASSUME NEW t \in Threads, D!End(t), x1' # x1
      PROVE  /\ \A row \in x1' : D!IsRow(row)
             /\ D!Busy(t) /\ UNCHANGED overlapped /\ job' = [job EXCEPT ![t] = None]
             /\ D!LeftStaysLeftStep
  <2>1. /\ D!Busy(t) /\ UNCHANGED overlapped /\ job' = [job EXCEPT ![t] = None]
        /\ x1' = D!Ended(x1)
    BY <1>6 DEF D!End, D!Respond, D!Continue, D!Doing
  <2>2. QED
    BY <1>5, <2>1
<1>7. ASSUME D!Logout
      PROVE  (\A row \in x1' : D!IsRow(row)) /\ D!AtOnce /\ D!LeftStaysLeftStep
  <2>1. D!AtOnce /\ x1' = {r \in x1 : ~r.entered} \cup D!Ended({r \in x1 : r.entered})
    BY <1>7 DEF D!Logout
  <2>2. QED
    BY <1>5, <2>1
<1>8. ASSUME D!Expel
      PROVE  (\A row \in x1' : D!IsRow(row)) /\ D!AtOnce /\ D!LeftStaysLeftStep
  BY <1>8 DEF D!Expel, D!LeftStaysLeftStep
<1>9. QED
  BY <1>2, <1>3, <1>4, <1>6, <1>7, <1>8
  DEF D!Next, D!Open, D!CheckIn, D!Exit, D!TimeOverExit, D!Toggle, D!ExitAll, D!Time, D!attendanceVars

LEMMA AttendanceStep ==
  ASSUME D!LeftInv, D!Next
  PROVE  D!LeftInv'
<1>1. /\ \A row \in x1 : D!IsRow(row)
      /\ \A row \in x1' : D!IsRow(row)
  BY AttendanceRows DEF D!LeftInv
<1>2. ASSUME NEW t \in Threads, D!Busy(t), UNCHANGED overlapped, job' = [job EXCEPT ![t] = None]
      PROVE  D!LeftInv'
  <2>1. ~overlapped' => ~overlapped /\ \A u \in Threads : D!Busy(u) => u = t
    BY <1>2 DEF D!LeftInv, D!Alone
  <2>2. QED
    BY <1>1, <1>2, <2>1, LeftKeeps
<1>3. ASSUME NEW t \in Threads, NEW entered \in BOOLEAN, NEW left \in BOOLEAN,
             D!Begin(t, [kind |-> "create", entered |-> entered, left |-> left]), UNCHANGED <<x1, x2>>
      PROVE  D!LeftInv'
  <2>1. PICK work : work = [kind |-> "create", entered |-> entered, left |-> left]
    OBVIOUS
  <2>2. QED
    BY <1>3, <2>1, LeftBegins
<1>4. ASSUME NEW t \in Threads, NEW open, D!Begin(t, [kind |-> "end", open |-> open]), UNCHANGED <<x1, x2>>
      PROVE  D!LeftInv'
  <2>1. PICK work : work = [kind |-> "end", open |-> open]
    OBVIOUS
  <2>2. QED
    BY <1>4, <2>1, LeftBegins
<1>5. ASSUME NEW t \in Threads, NEW kind \in {"save", "toggle"}, NEW saved,
             D!Begin(t, [kind |-> kind, row |-> saved]), UNCHANGED <<x1, x2>>,
             D!IsRow(saved), kind = "save" /\ D!Left => saved.left
      PROVE  D!LeftInv'
  <2>1. PICK work : work = [kind |-> kind, row |-> saved]
    OBVIOUS
  <2>2. QED
    BY <1>5, <2>1, LeftBegins
<1>6. ASSUME NEW t \in Threads, D!Open(t) PROVE D!LeftInv'
  BY <1>6, <1>1, <1>3, LeftAtOnce DEF D!Open, D!attendanceVars
<1>7. ASSUME NEW t \in Threads, D!CheckIn(t) PROVE D!LeftInv'
  <2>1. ASSUME NEW row \in x1, D!Get(row), D!Begin(t, [kind |-> "save", row |-> D!Entered(row)])
        PROVE  D!LeftInv'
    <3>1. D!IsRow(row) /\ (D!Left => row.left)
      BY <1>1, <2>1 DEF D!Get, D!Left
    <3>2. PICK saved : saved = D!Entered(row)
      OBVIOUS
    <3>3. D!IsRow(saved) /\ saved.left = row.left
      BY <3>1, <3>2 DEF D!Entered, D!IsRow
    <3>4. QED
      BY <1>7, <1>5, <2>1, <3>1, <3>2, <3>3 DEF D!CheckIn, D!attendanceVars
  <2>2. QED
    BY <1>7, <1>3, <2>1 DEF D!CheckIn, D!attendanceVars
<1>8. ASSUME NEW t \in Threads, D!Exit(t) PROVE D!LeftInv'
  BY <1>8, <1>3, <1>4 DEF D!Exit, D!attendanceVars
<1>9. ASSUME NEW t \in Threads, D!TimeOverExit(t) PROVE D!LeftInv'
  BY <1>9, <1>4 DEF D!TimeOverExit, D!attendanceVars
<1>10. ASSUME NEW t \in Threads, D!Toggle(t) PROVE D!LeftInv'
  <2>1. ASSUME NEW row \in x1, D!Begin(t, [kind |-> "toggle", row |-> [row EXCEPT !.left = ~@]])
        PROVE  D!LeftInv'
    <3>1. PICK saved : saved = [row EXCEPT !.left = ~@]
      OBVIOUS
    <3>2. D!IsRow(saved)
      BY <1>1, <2>1, <3>1 DEF D!IsRow
    <3>3. QED
      BY <1>10, <1>5, <2>1, <3>1, <3>2 DEF D!Toggle, D!attendanceVars
  <2>2. QED
    BY <1>10, <1>3, <2>1 DEF D!Toggle, D!attendanceVars
<1>11. ASSUME NEW t \in Threads, D!ExitAll(t) PROVE D!LeftInv'
  <2>1. ASSUME NEW row \in x1, D!Begin(t, [kind |-> "save", row |-> [row EXCEPT !.left = TRUE]])
        PROVE  D!LeftInv'
    <3>1. PICK saved : saved = [row EXCEPT !.left = TRUE]
      OBVIOUS
    <3>2. D!IsRow(saved) /\ saved.left
      BY <1>1, <2>1, <3>1 DEF D!IsRow
    <3>3. QED
      BY <1>11, <1>5, <2>1, <3>1, <3>2 DEF D!ExitAll, D!attendanceVars
  <2>2. CASE D!AtOnce
    BY <1>1, <2>2, LeftAtOnce
  <2>3. QED
    BY <1>11, <1>3, <2>1, <2>2 DEF D!ExitAll, D!attendanceVars
<1>12. ASSUME NEW t \in Threads, D!Save(t) \/ D!Create(t) \/ D!End(t) PROVE D!LeftInv'
  <2>1. D!Busy(t) /\ UNCHANGED overlapped /\ job' = [job EXCEPT ![t] = None]
    BY <1>12 DEF D!Save, D!Create, D!End, D!Respond, D!Continue, D!Doing
  <2>2. QED
    BY <1>2, <2>1
<1>13. CASE D!Logout \/ D!Expel
  BY <1>13, <1>1, LeftAtOnce DEF D!Logout, D!Expel
<1>14. CASE D!Time
  <2>1. UNCHANGED <<job, overlapped, x1>>
    BY <1>14 DEF D!Time
  <2>2. QED
    BY <2>1 DEF D!LeftInv, D!JobTable, D!IsRow, D!Alone, D!Doing, D!Busy, D!Left
<1>15. QED
  BY <1>6, <1>7, <1>8, <1>9, <1>10, <1>11, <1>12, <1>13, <1>14 DEF D!Next

LEMMA KeysInit ==
  ASSUME K!Init
  PROVE  K!StatusInv
<1>1. job = [t \in Threads |-> None] /\ \A t \in Threads : ~K!Busy(t)
  BY DEF K!Init, K!RequestsInit, K!Busy
<1>2. x1 \in [status : {"active", "expired", "revoked"}, requests : Nat, tokens : Nat]
  BY DEF K!Init
<1>3. QED
  BY <1>1, <1>2 DEF K!StatusInv, K!JobTable, K!Doing

LEMMA KeysStutter ==
  ASSUME K!StatusInv, UNCHANGED vars
  PROVE  K!StatusInv'
BY DEF vars, K!StatusInv, K!JobTable, K!Doing, K!Busy

\* A request goes on with other work, or ends.
LEMMA StatusKeeps ==
  ASSUME K!StatusInv, NEW t \in Threads, NEW work, job' = [job EXCEPT ![t] = work],
         x1' \in [status : {"active", "expired", "revoked"}, requests : Nat, tokens : Nat],
         work # None /\ work.kind = "set" => work.status \in {"expired", "revoked"}
  PROVE  K!StatusInv'
<1>1. K!JobTable' /\ \A u \in Threads : job'[u] = IF u = t THEN work ELSE job[u]
  BY DEF K!StatusInv, K!JobTable
<1>2. \A u \in Threads : K!Doing(u, "set")' => job'[u].status \in {"expired", "revoked"}
  BY <1>1 DEF K!StatusInv, K!Doing, K!Busy
<1>3. QED
  BY <1>1, <1>2 DEF K!StatusInv

LEMMA KeysStep ==
  ASSUME K!StatusInv, K!Next
  PROVE  K!StatusInv' /\ K!RevokedForGoodStep
<1>1. x1 \in [status : {"active", "expired", "revoked"}, requests : Nat, tokens : Nat]
  BY DEF K!StatusInv
<1>2. ASSUME job' = job, UNCHANGED <<x1>>
      PROVE  K!StatusInv' /\ K!RevokedForGoodStep
  BY <1>2 DEF K!StatusInv, K!JobTable, K!Doing, K!Busy, K!RevokedForGoodStep
<1>3. ASSUME NEW t \in Threads, K!Validate(t)
      PROVE  K!StatusInv' /\ K!RevokedForGoodStep
  <2>1. CASE K!Begin(t, [kind |-> "set", status |-> "expired"])
    <3>1. PICK work : work = [kind |-> "set", status |-> "expired"]
      OBVIOUS
    <3>2. job' = [job EXCEPT ![t] = work] /\ x1' = x1
      BY <1>3, <2>1, <3>1 DEF K!Validate, K!Begin, K!keyVars
    <3>3. QED
      BY <1>1, <3>1, <3>2, StatusKeeps DEF K!RevokedForGoodStep
  <2>2. CASE K!Begin(t, [kind |-> "count", row |-> x1])
    <3>1. PICK work : work = [kind |-> "count", row |-> x1]
      OBVIOUS
    <3>2. job' = [job EXCEPT ![t] = work] /\ x1' = x1
      BY <1>3, <2>2, <3>1 DEF K!Validate, K!Begin, K!keyVars
    <3>3. QED
      BY <1>1, <3>1, <3>2, StatusKeeps DEF K!RevokedForGoodStep
  <2>3. QED
    BY <1>3, <1>2, <2>1, <2>2 DEF K!Validate, K!AtOnce, K!keyVars
<1>4. ASSUME NEW t \in Threads, K!Count(t)
      PROVE  K!StatusInv' /\ K!RevokedForGoodStep
  <2>1. PICK work : work = [kind |-> "report"]
    OBVIOUS
  <2>2. job' = [job EXCEPT ![t] = work] /\ x1' = [x1 EXCEPT !.requests = @ + 1]
    BY <1>4, <2>1 DEF K!Count, K!Counted, K!Continue
  <2>3. /\ x1' \in [status : {"active", "expired", "revoked"}, requests : Nat, tokens : Nat]
        /\ x1'.status = x1.status
    BY <1>1, <2>2
  <2>4. QED
    BY <2>1, <2>2, <2>3, StatusKeeps DEF K!RevokedForGoodStep
<1>5. ASSUME NEW t \in Threads, K!Report(t)
      PROVE  K!StatusInv' /\ K!RevokedForGoodStep
  <2>1. job' = [job EXCEPT ![t] = None] /\ (x1' = [x1 EXCEPT !.tokens = @ + 1] \/ x1' = x1)
    BY <1>5 DEF K!Report, K!Respond, K!Continue
  <2>2. /\ x1' \in [status : {"active", "expired", "revoked"}, requests : Nat, tokens : Nat]
        /\ x1'.status = x1.status
    BY <1>1, <2>1
  <2>3. QED
    BY <2>1, <2>2, StatusKeeps DEF K!RevokedForGoodStep
<1>6. ASSUME NEW t \in Threads, K!Revoke(t)
      PROVE  K!StatusInv' /\ K!RevokedForGoodStep
  <2>1. CASE x1.status = "revoked"
    BY <1>6, <1>2, <2>1 DEF K!Revoke, K!AtOnce, K!keyVars
  <2>2. CASE x1.status # "revoked"
    <3>1. PICK work : work = [kind |-> "set", status |-> "revoked"]
      OBVIOUS
    <3>2. job' = [job EXCEPT ![t] = work] /\ x1' = x1
      BY <1>6, <2>2, <3>1 DEF K!Revoke, K!Begin, K!keyVars
    <3>3. QED
      BY <1>1, <3>1, <3>2, StatusKeeps DEF K!RevokedForGoodStep
  <2>3. QED
    BY <2>1, <2>2
<1>7. ASSUME NEW t \in Threads, K!SetStatus(t)
      PROVE  K!StatusInv' /\ K!RevokedForGoodStep
  <2>1. job' = [job EXCEPT ![t] = None] /\ x1' = [x1 EXCEPT !.status = job[t].status]
    BY <1>7 DEF K!SetStatus, K!Respond, K!Continue
  <2>2. job[t].status \in {"expired", "revoked"}
    BY <1>7 DEF K!SetStatus, K!StatusInv
  <2>3. QED
    BY <1>1, <2>1, <2>2, StatusKeeps DEF K!RevokedForGoodStep
<1>8. CASE K!Expire
  BY <1>8, <1>2 DEF K!Expire
<1>9. QED
  BY <1>3, <1>4, <1>5, <1>6, <1>7, <1>8 DEF K!Next

\* The one request in progress goes on with other work, or ends.
LEMMA BoardKeeps ==
  ASSUME B!BoardInv, NEW t \in Threads, NEW work, job' = [job EXCEPT ![t] = work],
         ~overlapped' =>
           /\ ~overlapped /\ \A u \in Threads : B!Busy(u) => u = t
           /\ x1' \in B!ContestRows /\ B!FreshFor(x1)'
           /\ work # None => B!WorkOK(work)'
  PROVE  B!BoardInv'
<1>1. B!JobTable' /\ \A u \in Threads : job'[u] = IF u = t THEN work ELSE job[u]
  BY DEF B!BoardInv, B!JobTable
<1>2. ~overlapped' => \A u \in Threads : B!Busy(u)' => u = t /\ job'[u] = work /\ work # None
  BY <1>1 DEF B!Busy
<1>3. ASSUME ~overlapped', NEW u \in Threads, B!Busy(u)'
      PROVE  B!WorkOK(job[u])'
  <2>1. job'[u] = work /\ B!WorkOK(work)'
    BY <1>2, <1>3
  <2>2. QED
    BY <2>1 DEF B!WorkOK, B!FreshFor, B!Hit, B!Frozen
<1>4. QED
  BY <1>1, <1>2, <1>3 DEF B!BoardInv, B!Alone

\* A request begins and leaves the board alone.
LEMMA BoardBegins ==
  ASSUME B!BoardInv, NEW t \in Threads, NEW work, B!Begin(t, work), UNCHANGED <<x1, x2, x3>>,
         x1 \in B!ContestRows => B!WorkOK(work)
  PROVE  B!BoardInv'
<1>1. job' = [job EXCEPT ![t] = work] /\ (~overlapped' => ~overlapped /\ B!Quiet)
  BY DEF B!Begin, B!Arrive
<1>2. B!FreshFor(x1) => B!FreshFor(x1)'
  BY DEF B!FreshFor, B!Hit, B!Frozen
<1>3. ASSUME ~overlapped' PROVE B!WorkOK(work)'
  <2>1. B!WorkOK(work)
    BY <1>1, <1>3 DEF B!BoardInv
  <2>2. QED
    BY <2>1 DEF B!WorkOK, B!FreshFor, B!Hit, B!Frozen
<1>4. QED
  BY <1>1, <1>2, <1>3, BoardKeeps DEF B!BoardInv, B!Quiet

LEMMA BoardInit ==
  ASSUME B!Init
  PROVE  B!BoardInv
<1>1. /\ job = [t \in Threads |-> None] /\ x1 \in B!ContestRows /\ x3 = None
      /\ \A t \in Threads : ~B!Busy(t)
  BY DEF B!Init, B!RequestsInit, B!Busy, B!ContestRows
<1>2. QED
  BY <1>1 DEF B!BoardInv, B!JobTable, B!Alone, B!FreshFor, B!Hit

LEMMA BoardStutter ==
  ASSUME B!BoardInv, UNCHANGED vars
  PROVE  B!BoardInv'
<1>1. \A u \in Threads : B!WorkOK(job[u]) => B!WorkOK(job[u])'
  BY DEF vars, B!WorkOK, B!FreshFor, B!Hit, B!Frozen
<1>2. QED
  BY <1>1 DEF vars, B!BoardInv, B!JobTable, B!Alone, B!Busy, B!FreshFor, B!Hit, B!Frozen

LEMMA BoardStep ==
  ASSUME B!BoardInv, B!Next
  PROVE  B!BoardInv'
<1>1. ASSUME NEW t \in Threads, B!Busy(t), ~overlapped
      PROVE  /\ B!WorkOK(job[t]) /\ x1 \in B!ContestRows /\ B!FreshFor(x1)
             /\ \A u \in Threads : B!Busy(u) => u = t
  BY <1>1 DEF B!BoardInv, B!Alone
<1>2. ASSUME NEW t \in Threads, B!View(t) PROVE B!BoardInv'
  <2>1. UNCHANGED <<x1, x2, x3>>
    BY <1>2 DEF B!View, B!boardVars
  <2>2. CASE B!Hit
    <3>1. job' = job /\ (~overlapped' => ~overlapped)
      BY <1>2, <2>2 DEF B!View, B!AtOnce, B!Arrive
    <3>2. \A u \in Threads : B!WorkOK(job[u]) => B!WorkOK(job[u])'
      BY <2>1, <3>1 DEF B!WorkOK, B!FreshFor, B!Hit, B!Frozen
    <3>3. QED
      BY <2>1, <3>1, <3>2 DEF B!BoardInv, B!JobTable, B!Alone, B!Busy, B!FreshFor, B!Hit, B!Frozen
  <2>3. CASE ~B!Hit
    <3>1. PICK work : work = [kind |-> "read"]
      OBVIOUS
    <3>2. B!Begin(t, work)
      BY <1>2, <2>3, <3>1 DEF B!View
    <3>3. B!WorkOK(work)
      BY <3>1 DEF B!WorkOK
    <3>4. QED
      BY <2>1, <3>2, <3>3, BoardBegins
  <2>4. QED
    BY <2>2, <2>3
<1>3. ASSUME NEW t \in Threads, B!ReadRanks(t) PROVE B!BoardInv'
  <2>1. PICK work : work = [kind |-> "set", list |-> x2]
    OBVIOUS
  <2>2. B!Busy(t) /\ UNCHANGED <<x1, x2, x3, overlapped>> /\ job' = [job EXCEPT ![t] = work]
    BY <1>3, <2>1 DEF B!ReadRanks, B!Doing, B!Continue, B!boardVars
  <2>3. B!WorkOK(work)'
    BY <2>1, <2>2 DEF B!WorkOK
  <2>4. B!FreshFor(x1) => B!FreshFor(x1)'
    BY <2>2 DEF B!FreshFor, B!Hit, B!Frozen
  <2>5. QED
    BY <1>1, <2>2, <2>3, <2>4, BoardKeeps
<1>4. ASSUME NEW t \in Threads, B!SetCache(t) PROVE B!BoardInv'
  <2>1. /\ B!Busy(t) /\ job[t].kind = "set" /\ UNCHANGED <<x1, x2, overlapped>>
        /\ x3' = job[t].list /\ job' = [job EXCEPT ![t] = None]
    BY <1>4 DEF B!SetCache, B!Doing, B!Respond, B!Continue
  <2>2. ~overlapped => B!FreshFor(x1)'
    BY <1>1, <2>1 DEF B!WorkOK, B!FreshFor
  <2>3. QED
    BY <1>1, <2>1, <2>2, BoardKeeps
<1>5. ASSUME NEW t \in Threads, B!Judge(t) PROVE B!BoardInv'
  <2>1. PICK work : work = [kind |-> "judge", contest |-> x1]
    OBVIOUS
  <2>2. B!Begin(t, work) /\ UNCHANGED <<x1, x2, x3>>
    BY <1>5, <2>1 DEF B!Judge, B!boardVars
  <2>3. B!WorkOK(work)
    BY <2>1 DEF B!WorkOK
  <2>4. QED
    BY <2>2, <2>3, BoardBegins
<1>6. ASSUME NEW t \in Threads, B!DropBoard(t) PROVE B!BoardInv'
  <2>1. PICK work : work = [kind |-> "commit"]
    OBVIOUS
  <2>2. /\ B!Busy(t) /\ job[t].kind = "judge" /\ UNCHANGED <<x1, x2, overlapped>>
        /\ x3' = IF B!Drops(job[t].contest) THEN None ELSE x3
        /\ job' = [job EXCEPT ![t] = work]
    BY <1>6, <2>1 DEF B!DropBoard, B!Doing, B!Continue
  <2>3. ~overlapped => B!WorkOK(work)' /\ B!FreshFor(x1)'
    <3>1. SUFFICES ASSUME ~overlapped PROVE B!WorkOK(work)' /\ B!FreshFor(x1)'
      OBVIOUS
    <3>2. job[t].contest = x1 /\ B!FreshFor(x1)
      BY <1>1, <2>2, <3>1 DEF B!WorkOK
    <3>3. CASE B!Drops(x1)
      BY <2>1, <2>2, <3>2, <3>3 DEF B!WorkOK, B!FreshFor, B!Hit
    <3>4. CASE ~B!Drops(x1)
      <4>1. x3' = x3 /\ B!Frozen(x1)
        BY <2>2, <3>2, <3>4 DEF B!Drops, B!Frozen
      <4>2. QED
        BY <2>1, <2>2, <4>1 DEF B!WorkOK, B!FreshFor, B!Frozen
    <3>5. QED
      BY <3>3, <3>4
  <2>4. QED
    BY <1>1, <2>2, <2>3, BoardKeeps
<1>7. ASSUME NEW t \in Threads, B!Commit(t) PROVE B!BoardInv'
  <2>1. /\ B!Busy(t) /\ job[t].kind = "commit" /\ UNCHANGED <<x1, x3, overlapped>>
        /\ job' = [job EXCEPT ![t] = None]
    BY <1>7 DEF B!Commit, B!Doing, B!Respond, B!Continue
  <2>2. ~overlapped => B!FreshFor(x1)'
    BY <1>1, <2>1 DEF B!WorkOK, B!FreshFor, B!Hit, B!Frozen
  <2>3. QED
    BY <1>1, <2>1, <2>2, BoardKeeps
<1>8. ASSUME NEW t \in Threads, NEW live \in BOOLEAN, B!Edit(t, live) PROVE B!BoardInv'
  <2>1. PICK new, work : /\ new = [x1 EXCEPT !.live = live]
                         /\ work = [kind |-> "edit", contest |-> new, drops |-> ~x1.live /\ live]
    OBVIOUS
  <2>2. B!Begin(t, work) /\ UNCHANGED <<x1, x2, x3>>
    BY <1>8, <2>1 DEF B!Edit, B!boardVars
  <2>3. x1 \in B!ContestRows => new \in B!ContestRows /\ new.oi = x1.oi /\ new.live = live
    BY <2>1 DEF B!ContestRows
  <2>4. x1 \in B!ContestRows => B!WorkOK(work)
    BY <2>1, <2>3 DEF B!WorkOK
  <2>5. QED
    BY <2>2, <2>4, BoardBegins
<1>9. ASSUME NEW t \in Threads, B!DropEdited(t) PROVE B!BoardInv'
  <2>1. PICK work : work = [kind |-> "save", contest |-> job[t].contest]
    OBVIOUS
  <2>2. /\ B!Busy(t) /\ job[t].kind = "edit" /\ UNCHANGED <<x1, x2, overlapped>>
        /\ x3' = IF job[t].drops THEN None ELSE x3
        /\ job' = [job EXCEPT ![t] = work]
    BY <1>9, <2>1 DEF B!DropEdited, B!Doing, B!Continue
  <2>3. ASSUME ~overlapped PROVE B!WorkOK(work)' /\ B!FreshFor(x1)'
    <3>1. /\ job[t].contest \in B!ContestRows /\ job[t].contest.oi = x1.oi
          /\ job[t].drops = (~x1.live /\ job[t].contest.live) /\ x1 \in B!ContestRows
          /\ B!FreshFor(x1)
      BY <1>1, <2>2, <2>3 DEF B!WorkOK
    <3>2. B!FreshFor(x1)'
      BY <2>2, <3>1 DEF B!FreshFor, B!Hit, B!Frozen
    <3>3. B!FreshFor(work.contest)'
      <4>1. CASE job[t].drops
        BY <2>2, <4>1 DEF B!FreshFor, B!Hit
      <4>2. CASE ~job[t].drops
        BY <2>1, <2>2, <3>1, <4>2 DEF B!FreshFor, B!Hit, B!Frozen, B!ContestRows
      <4>3. QED
        BY <4>1, <4>2
    <3>4. QED
      BY <2>1, <2>2, <3>1, <3>2, <3>3 DEF B!WorkOK
  <2>4. QED
    BY <1>1, <2>2, <2>3, BoardKeeps
<1>10. ASSUME NEW t \in Threads, B!SaveContest(t) PROVE B!BoardInv'
  <2>1. /\ B!Busy(t) /\ job[t].kind = "save" /\ UNCHANGED <<x2, x3, overlapped>>
        /\ x1' = job[t].contest /\ job' = [job EXCEPT ![t] = None]
    BY <1>10 DEF B!SaveContest, B!Doing, B!Respond, B!Continue
  <2>2. ~overlapped => x1' \in B!ContestRows /\ B!FreshFor(x1)'
    BY <1>1, <2>1 DEF B!WorkOK, B!FreshFor, B!Hit, B!Frozen
  <2>3. QED
    BY <1>1, <2>1, <2>2, BoardKeeps
<1>11. QED
  BY <1>2, <1>3, <1>4, <1>5, <1>6, <1>7, <1>8, <1>9, <1>10 DEF B!Next

LEMMA BoardIsFresh ==
  ASSUME B!BoardInv
  PROVE  B!BoardFresh
BY DEF B!BoardInv, B!BoardFresh, B!FreshFor

\* A missing question is no row, and a missing writer neither of the two.
LEMMA QuestionsNone ==
  ASSUME NoneIsNoRecord
  PROVE  None \notin Q!QuestionRows /\ None \notin Q!Works /\ None # "author" /\ None # "teacher"
<1>1. None \notin Q!QuestionRows
  BY DEF NoneIsNoRecord, Q!QuestionRows
<1>2. None \notin Q!Works
  BY DEF NoneIsNoRecord, Q!Works
<1>3. None # "author" /\ None # "teacher"
  BY NoneAssumption
<1>4. QED
  BY <1>1, <1>2, <1>3

LEMMA TurnTypes ==
  ASSUME Q!TypesOK, NEW t \in Threads, NEW work, job' = [job EXCEPT ![t] = work],
         work # None => work \in Q!Works,
         x1' \in Q!QuestionRows \cup {None}, x2' \in Seq({"author", "teacher"})
  PROVE  Q!TypesOK' /\ \A u \in Threads : job'[u] = IF u = t THEN work ELSE job[u]
<1>1. Q!JobTable' /\ \A u \in Threads : job'[u] = IF u = t THEN work ELSE job[u]
  BY DEF Q!TypesOK, Q!JobTable
<1>2. QED
  BY <1>1 DEF Q!TypesOK, Q!Busy

\* A request of one step when no other is in progress.
LEMMA TurnAtOnce ==
  ASSUME Q!TurnInv, job' = job, ~x3' => ~x3 /\ Q!Quiet,
         x1' \in Q!QuestionRows \cup {None}, x2' \in Seq({"author", "teacher"}),
         ~x3' => IF Q!There' THEN x1'.proceeding /\ x2' = <<>> ELSE x2' = <<>>
  PROVE  Q!TurnInv'
<1>1. Q!TypesOK' /\ \A u \in Threads : Q!Busy(u)' <=> Q!Busy(u)
  BY DEF Q!TurnInv, Q!TypesOK, Q!JobTable, Q!Busy
<1>2. ASSUME ~x3' PROVE Q!Quiet' /\ \A u \in Threads : ~Q!Busy(u)'
  BY <1>1, <1>2 DEF Q!Quiet
<1>3. QED
  BY <1>1, <1>2 DEF Q!TurnInv, Q!LastIsAuthor

LEMMA QuestionsInit ==
  ASSUME Q!Init
  PROVE  Q!TurnInv
<1>1. /\ job = [t \in Threads |-> None] /\ x1 = None /\ x2 = <<>>
      /\ \A t \in Threads : ~Q!Busy(t)
  BY DEF Q!Init, Q!RequestsInit, Q!Busy
<1>2. QED
  BY <1>1 DEF Q!TurnInv, Q!TypesOK, Q!JobTable, Q!There, Q!Quiet

LEMMA QuestionsStutter ==
  ASSUME Q!TurnInv, UNCHANGED vars
  PROVE  Q!TurnInv'
<1>1. \A u \in Threads : /\ Q!WorkOK(job[u]) => Q!WorkOK(job[u])'
                         /\ Q!Busy(u)' <=> Q!Busy(u)
  BY DEF vars, Q!WorkOK, Q!Turn, Q!Busy
<1>2. Q!TypesOK'
  BY DEF vars, Q!TurnInv, Q!TypesOK, Q!JobTable, Q!Busy
<1>3. QED
  BY <1>1, <1>2 DEF vars, Q!TurnInv, Q!There, Q!Quiet, Q!Doing, Q!LastIsAuthor

\* A request that will save the row begins, among others that are no comments.
LEMMA TurnWrites ==
  ASSUME NoneIsNoRecord, Q!TurnInv, NEW t \in Threads, NEW row,
         x1 \in Q!QuestionRows => row \in Q!QuestionRows /\ row.proceeding = x1.proceeding,
         Q!Writes(t, "save", None, row)
  PROVE  Q!TurnInv'
<1>1. PICK work : work = [kind |-> "save", who |-> None, row |-> row]
  OBVIOUS
<1>2. /\ job' = [job EXCEPT ![t] = work] /\ x1 \in Q!QuestionRows /\ UNCHANGED <<x1, x2>>
      /\ x3' = (x3 \/ \E u \in Threads : Q!Busy(u) /\ {None, job[u].who} # {None})
  BY <1>1 DEF Q!Writes, Q!Begin, Q!There, Q!TurnInv, Q!TypesOK
<1>3. work \in Q!Works
  BY <1>1, <1>2 DEF Q!Works
<1>4. Q!TypesOK' /\ \A u \in Threads : job'[u] = IF u = t THEN work ELSE job[u]
  BY <1>2, <1>3, TurnTypes DEF Q!TurnInv, Q!TypesOK
<1>5. SUFFICES ASSUME ~x3'
               PROVE  /\ Q!There'
                      /\ \A u \in Threads : Q!Busy(u)' => job'[u].who = None /\ Q!WorkOK(job[u])'
                      /\ x1.proceeding <=> Q!LastIsAuthor'
  BY <1>2, <1>4 DEF Q!TurnInv
<1>6. ~x3 /\ \A u \in Threads : Q!Busy(u) => job[u].who = None
  BY <1>2, <1>5
<1>7. Q!There /\ Q!There'
  BY <1>2, QuestionsNone DEF Q!There
<1>8. x1.proceeding <=> Q!LastIsAuthor
  BY <1>6, <1>7 DEF Q!TurnInv, Q!Doing
<1>9. ASSUME NEW u \in Threads, Q!Busy(u)'
      PROVE  job'[u].who = None /\ Q!WorkOK(job[u])'
  <2>1. CASE u = t
    BY <1>1, <1>2, <1>4, <2>1 DEF Q!WorkOK
  <2>2. CASE u # t
    <3>1. Q!Busy(u) /\ job'[u] = job[u]
      BY <1>4, <1>9, <2>2 DEF Q!Busy
    <3>2. job[u].who = None /\ Q!WorkOK(job[u])
      BY <1>6, <3>1 DEF Q!TurnInv
    <3>3. QED
      BY <1>2, <3>1, <3>2 DEF Q!WorkOK
  <2>3. QED
    BY <2>1, <2>2
<1>10. QED
  BY <1>2, <1>7, <1>8, <1>9 DEF Q!LastIsAuthor

LEMMA QuestionsStep ==
  ASSUME NoneIsNoRecord, Q!TurnInv, Q!Next
  PROVE  Q!TurnInv'
<1>1. /\ x1 \in Q!QuestionRows \cup {None} /\ x2 \in Seq({"author", "teacher"})
      /\ \A t \in Threads : Q!Busy(t) => job[t] \in Q!Works
  BY DEF Q!TurnInv, Q!TypesOK
<1>2. Q!TypesOK
  BY DEF Q!TurnInv
<1>3. ASSUME NEW private \in BOOLEAN, Q!Ask(private) PROVE Q!TurnInv'
  <2>1. PICK new : new = [proceeding |-> TRUE, solved |-> FALSE, private |-> private]
    OBVIOUS
  <2>2. ~Q!There /\ job' = job /\ x1' = new /\ UNCHANGED <<x2, x3>>
    BY <1>3, <2>1 DEF Q!Ask, Q!AtOnce
  <2>3. new \in Q!QuestionRows /\ new.proceeding
    BY <2>1 DEF Q!QuestionRows
  <2>4. ~x3' => ~x3 /\ Q!Quiet /\ x2 = <<>>
    BY <2>2 DEF Q!TurnInv
  <2>5. QED
    BY <1>1, <2>2, <2>3, <2>4, TurnAtOnce
<1>4. ASSUME NEW t \in Threads, NEW who \in {"author", "teacher"}, Q!PostComment(t, who)
      PROVE  Q!TurnInv'
  <2>1. PICK work : work = [kind |-> "comment", who |-> who, row |-> x1]
    OBVIOUS
  <2>2. /\ job' = [job EXCEPT ![t] = work] /\ x1 \in Q!QuestionRows /\ UNCHANGED <<x1, x2>>
        /\ x3' = (x3 \/ \E u \in Threads : Q!Busy(u) /\ {who, job[u].who} # {None})
    BY <1>4, <1>1, <2>1 DEF Q!PostComment, Q!Writes, Q!Begin, Q!There
  <2>3. work \in Q!Works /\ who # None
    BY <2>1, <2>2, QuestionsNone DEF Q!Works
  <2>4. Q!TypesOK' /\ \A u \in Threads : job'[u] = IF u = t THEN work ELSE job[u]
    BY <1>1, <2>2, <2>3, TurnTypes DEF Q!TurnInv
  <2>5. ASSUME ~x3' PROVE ~x3 /\ \A u \in Threads : Q!Busy(u)' => u = t /\ job'[u] = work
    BY <2>2, <2>3, <2>4, <2>5 DEF Q!Busy
  <2>6. ASSUME ~x3' PROVE x1.proceeding <=> Q!LastIsAuthor
    <3>1. ~x3 /\ Q!There /\ \A u \in Threads : ~Q!Busy(u)
      BY <2>2, <2>3, <2>6, QuestionsNone DEF Q!There
    <3>2. QED
      BY <3>1 DEF Q!TurnInv, Q!Doing
  <2>7. Q!WorkOK(work)' /\ Q!There'
    BY <2>1, <2>2, <2>3, QuestionsNone DEF Q!WorkOK, Q!There
  <2>8. \A u \in Threads : job'[u] = work => Q!WorkOK(job[u])'
    BY <2>7 DEF Q!WorkOK
  <2>9. QED
    BY <2>2, <2>4, <2>5, <2>6, <2>7, <2>8 DEF Q!TurnInv, Q!LastIsAuthor
<1>5. ASSUME NEW t \in Threads, Q!CreateComment(t) PROVE Q!TurnInv'
  <2>1. /\ Q!Busy(t) /\ job[t].kind = "comment" /\ job[t] \in Q!Works /\ UNCHANGED <<x1, x3>>
    BY <1>5, <1>1 DEF Q!CreateComment, Q!Doing
  <2>2. job[t].who # None
    BY <2>1, QuestionsNone DEF Q!Works
  <2>3. ~x3 => Q!There /\ job[t].who # None /\ \A u \in Threads : Q!Busy(u) => u = t
    BY <2>1, <2>2 DEF Q!TurnInv, Q!Quiet
  <2>4. CASE ~Q!There
    <3>1. job' = [job EXCEPT ![t] = None] /\ x2' = x2
      BY <1>5, <2>4 DEF Q!CreateComment, Q!Respond, Q!Continue
    <3>2. QED
      BY <1>1, <2>1, <2>3, <2>4, <3>1, TurnTypes DEF Q!TurnInv
  <2>5. CASE Q!There
    <3>1. PICK work : work = [job[t] EXCEPT !.kind = "save", !.row.proceeding = Q!Turn(job[t].who)]
      OBVIOUS
    <3>2. job' = [job EXCEPT ![t] = work] /\ x2' = Append(x2, job[t].who)
      BY <1>5, <2>5, <3>1 DEF Q!CreateComment, Q!Continue
    <3>3. PICK w \in {"author", "teacher"}, row \in Q!QuestionRows :
            job[t] = [kind |-> "comment", who |-> w, row |-> row]
      BY <2>1 DEF Q!Works
    <3>4. PICK new : new = [row EXCEPT !.proceeding = Q!Turn(w)]
      OBVIOUS
    <3>5. new \in Q!QuestionRows /\ new.proceeding = Q!Turn(w)
      BY <3>4 DEF Q!QuestionRows, Q!Turn
    <3>6. job[t].who = w /\ job[t].row = row
      BY <3>3
    <3>7. work = [[kind |-> "comment", who |-> w, row |-> row] EXCEPT !.kind = "save", !.row.proceeding = Q!Turn(w)]
      BY <3>1, <3>3, <3>6
    <3>8. work = [kind |-> "save", who |-> w, row |-> new]
      BY <3>4, <3>7
    <3>9. job[t].who = w /\ job[t].row = row /\ work = [kind |-> "save", who |-> w, row |-> new]
      BY <3>6, <3>8
    <3>10. work \in Q!Works /\ w # None
      BY <3>5, <3>9, QuestionsNone DEF Q!Works
    <3>11. x2' \in Seq({"author", "teacher"}) /\ x2' # <<>> /\ x2'[Len(x2')] = w
      BY <1>1, <3>2, <3>9
    <3>12. Q!TypesOK' /\ \A u \in Threads : job'[u] = IF u = t THEN work ELSE job[u]
      BY <1>1, <1>2, <2>1, <3>2, <3>10, <3>11, TurnTypes
    <3>13. \A u \in Threads : job'[u] = work => Q!WorkOK(job[u])' /\ (Q!Doing(u, "save")' => w # None)
      BY <3>5, <3>9, <3>10, <3>11 DEF Q!WorkOK, Q!Turn
    <3>14. ~x3 => \A u \in Threads : Q!Busy(u)' => u = t /\ job'[u] = work
      BY <2>3, <3>12 DEF Q!Busy
    <3>15. work # None /\ job'[t] = work /\ work.kind = "save" /\ work.who # None
      BY <3>9, <3>10, <3>12, QuestionsNone
    <3>16. Q!Doing(t, "save")' /\ job'[t].who # None /\ Q!There'
      BY <2>1, <2>5, <3>15 DEF Q!Doing, Q!Busy, Q!There
    <3>17. QED
      BY <2>1, <3>12, <3>13, <3>14, <3>16 DEF Q!TurnInv
  <2>6. QED
    BY <2>4, <2>5
<1>6. ASSUME NEW t \in Threads, Q!ToggleSolved(t) PROVE Q!TurnInv'
  <2>1. PICK row : row = [x1 EXCEPT !.solved = ~@]
    OBVIOUS
  <2>2. x1 \in Q!QuestionRows => row \in Q!QuestionRows /\ row.proceeding = x1.proceeding
    BY <2>1 DEF Q!QuestionRows
  <2>3. QED
    BY <1>6, <2>1, <2>2, TurnWrites DEF Q!ToggleSolved
<1>7. ASSUME NEW t \in Threads, NEW open \in BOOLEAN, Q!OpenQnA(t, open) PROVE Q!TurnInv'
  <2>1. PICK row : row = [x1 EXCEPT !.private = ~open]
    OBVIOUS
  <2>2. x1 \in Q!QuestionRows => row \in Q!QuestionRows /\ row.proceeding = x1.proceeding
    BY <2>1 DEF Q!QuestionRows
  <2>3. QED
    BY <1>7, <2>1, <2>2, TurnWrites DEF Q!OpenQnA
<1>8. ASSUME NEW t \in Threads, Q!SaveQuestion(t) PROVE Q!TurnInv'
  <2>1. /\ Q!Busy(t) /\ job[t].kind = "save" /\ job[t] \in Q!Works /\ UNCHANGED <<x2, x3>>
        /\ x1' = job[t].row /\ job' = [job EXCEPT ![t] = None]
    BY <1>8, <1>1 DEF Q!SaveQuestion, Q!Doing, Q!Respond, Q!Continue
  <2>2. x1' \in Q!QuestionRows
    BY <2>1 DEF Q!Works
  <2>3. Q!TypesOK' /\ \A u \in Threads : job'[u] = IF u = t THEN None ELSE job[u]
    BY <1>1, <2>1, <2>2, TurnTypes DEF Q!TurnInv
  <2>4. Q!There'
    BY <2>2, QuestionsNone DEF Q!There
  <2>5. SUFFICES ASSUME ~x3
                 PROVE  /\ \A u, v \in Threads : Q!Busy(u)' /\ Q!Busy(v)' /\ u # v => job'[u].who = None
                        /\ \A u \in Threads : Q!Busy(u)' => Q!WorkOK(job[u])'
                        /\ x1'.proceeding <=> Q!LastIsAuthor
    BY <2>1, <2>3, <2>4 DEF Q!TurnInv, Q!LastIsAuthor
  <2>6. ASSUME NEW u \in Threads, Q!Busy(u)'
        PROVE  Q!Busy(u) /\ u # t /\ job'[u] = job[u] /\ Q!WorkOK(job[u])
    BY <2>3, <2>5, <2>6 DEF Q!TurnInv, Q!Busy
  <2>7. Q!WorkOK(job[t]) /\ Q!There
    BY <2>1, <2>5 DEF Q!TurnInv, Q!Quiet
  <2>8. CASE job[t].who = None
    <3>1. x1'.proceeding = x1.proceeding
      BY <2>1, <2>7, <2>8 DEF Q!WorkOK
    <3>2. \A u \in Threads : Q!Busy(u) => job[u].who = None
      BY <2>1, <2>5, <2>8 DEF Q!TurnInv
    <3>3. x1.proceeding <=> Q!LastIsAuthor
      BY <2>5, <2>7, <3>2 DEF Q!TurnInv, Q!Doing
    <3>4. ASSUME NEW u \in Threads, Q!Busy(u)' PROVE Q!WorkOK(job[u])'
      <4>1. job'[u] = job[u] /\ job[u].who = None /\ Q!WorkOK(job[u])
        BY <2>6, <3>2, <3>4
      <4>2. QED
        BY <3>1, <4>1 DEF Q!WorkOK
    <3>5. QED
      BY <2>6, <3>1, <3>2, <3>3, <3>4
  <2>9. CASE job[t].who # None
    <3>1. \A u \in Threads : ~Q!Busy(u)'
      BY <2>1, <2>5, <2>6, <2>9 DEF Q!TurnInv
    <3>2. x1'.proceeding <=> Q!LastIsAuthor
      BY <2>1, <2>7, <2>9 DEF Q!WorkOK, Q!Turn, Q!LastIsAuthor
    <3>3. QED
      BY <3>1, <3>2
  <2>10. QED
    BY <2>8, <2>9
<1>9. ASSUME NEW i \in DOMAIN x2, Q!DeleteComment(i) PROVE Q!TurnInv'
  <2>1. /\ job' = job /\ x1' = x1 /\ x3' = TRUE
        /\ x2' = SubSeq(x2, 1, i - 1) \o SubSeq(x2, i + 1, Len(x2))
    BY <1>9 DEF Q!DeleteComment, Q!AtOnce
  <2>2. SubSeq(x2, 1, i - 1) \in Seq({"author", "teacher"})
    BY <1>1
  <2>3. SubSeq(x2, i + 1, Len(x2)) \in Seq({"author", "teacher"})
    BY <1>1
  <2>4. x2' \in Seq({"author", "teacher"})
    BY <2>1, <2>2, <2>3
  <2>5. QED
    BY <1>1, <2>1, <2>4, TurnAtOnce
<1>10. CASE Q!DeleteQuestion
  <2>1. /\ job' = job /\ x1' = None /\ x2' = <<>> /\ x3' = (x3 \/ ~Q!Quiet)
    BY <1>10 DEF Q!DeleteQuestion, Q!AtOnce
  <2>2. ~Q!There' /\ x2' \in Seq({"author", "teacher"})
    BY <2>1 DEF Q!There
  <2>3. ~x3' => ~x3 /\ Q!Quiet
    BY <2>1
  <2>4. QED
    BY <2>1, <2>2, <2>3, TurnAtOnce
<1>11. QED
  BY <1>3, <1>4, <1>5, <1>6, <1>7, <1>8, <1>9, <1>10 DEF Q!Next

LEMMA TurnsAreRight ==
  ASSUME Q!TurnInv
  PROVE  Q!TurnIsRight
<1>1. ASSUME Q!There, ~x3, \A t \in Threads : Q!Busy(t) => job[t].who = None
      PROVE  x1.proceeding <=> Q!LastIsAuthor
  BY <1>1 DEF Q!TurnInv, Q!Doing
<1>2. QED
  BY <1>1 DEF Q!TurnIsRight, Q!PushedTo, Q!LastIsAuthor

-----------------------------------------------------------------------------
(* The services together.                                                  *)

\* The invariant of the component that is followed.
ServicesInv ==
  /\ focus = "accounts" => A!UsableInv
  /\ focus = "sign-in" => S!LinkInv /\ S!TfaInv
  /\ focus = "enrolment" => E!ListedInv
  /\ focus = "assistants" => T!RoleInv
  /\ focus = "attendance" => D!LeftInv
  /\ focus = "board" => B!BoardInv
  /\ focus = "keys" => K!StatusInv
  /\ focus = "questions" => Q!TurnInv

LEMMA ServicesStart == Init => ServicesInv
<1> SUFFICES ASSUME Init PROVE ServicesInv
  OBVIOUS
<1>1. CASE focus = "accounts"
  BY <1>1, AccountsInit DEF Init, ServicesInv
<1>2. CASE focus = "sign-in"
  BY <1>2, SignInInit, TfaInit DEF Init, ServicesInv
<1>3. CASE focus = "enrolment"
  BY <1>3, EnrolmentInit DEF Init, ServicesInv
<1>4. CASE focus = "assistants"
  BY <1>4, AssistantsInit DEF Init, ServicesInv
<1>5. CASE focus = "attendance"
  BY <1>5, AttendanceInit DEF Init, ServicesInv
<1>6. CASE focus = "board"
  BY <1>6, BoardInit DEF Init, ServicesInv
<1>7. CASE focus = "keys"
  BY <1>7, KeysInit DEF Init, ServicesInv
<1>8. CASE focus = "questions"
  BY <1>8, QuestionsInit DEF Init, ServicesInv
<1>9. QED
  BY <1>1, <1>2, <1>3, <1>4, <1>5, <1>6, <1>7, <1>8 DEF ServicesInv

LEMMA ServicesKeep ==
  ASSUME NoneIsNoRecord, ServicesInv, [Next]_vars
  PROVE  ServicesInv'
<1>1. focus' = focus
  BY DEF Next, vars
<1>2. CASE focus = "accounts"
  <2>1. A!UsableInv /\ (A!Next \/ UNCHANGED vars)
    BY <1>2 DEF ServicesInv, Next
  <2>2. QED
    BY <1>1, <1>2, <2>1, AccountsStep, AccountsStutter DEF ServicesInv
<1>3. CASE focus = "sign-in"
  <2>1. S!LinkInv /\ S!TfaInv /\ (S!Next \/ UNCHANGED vars)
    BY <1>3 DEF ServicesInv, Next
  <2>2. QED
    BY <1>1, <1>3, <2>1, SignInStep, SignInStutter, TfaStep, TfaStutter DEF ServicesInv
<1>4. CASE focus = "enrolment"
  <2>1. E!ListedInv /\ (E!Next \/ UNCHANGED vars)
    BY <1>4 DEF ServicesInv, Next
  <2>2. QED
    BY <1>1, <1>4, <2>1, EnrolmentStep, EnrolmentStutter DEF ServicesInv
<1>5. CASE focus = "assistants"
  <2>1. T!RoleInv /\ (T!Next \/ UNCHANGED vars)
    BY <1>5 DEF ServicesInv, Next
  <2>2. QED
    BY <1>1, <1>5, <2>1, AssistantsStep, AssistantsStutter DEF ServicesInv
<1>6. CASE focus = "attendance"
  <2>1. D!LeftInv /\ (D!Next \/ UNCHANGED vars)
    BY <1>6 DEF ServicesInv, Next
  <2>2. QED
    BY <1>1, <1>6, <2>1, AttendanceStep, AttendanceStutter DEF ServicesInv
<1>7. CASE focus = "board"
  <2>1. B!BoardInv /\ (B!Next \/ UNCHANGED vars)
    BY <1>7 DEF ServicesInv, Next
  <2>2. QED
    BY <1>1, <1>7, <2>1, BoardStep, BoardStutter DEF ServicesInv
<1>8. CASE focus = "keys"
  <2>1. K!StatusInv /\ (K!Next \/ UNCHANGED vars)
    BY <1>8 DEF ServicesInv, Next
  <2>2. QED
    BY <1>1, <1>8, <2>1, KeysStep, KeysStutter DEF ServicesInv
<1>9. CASE focus = "questions"
  <2>1. Q!TurnInv /\ (Q!Next \/ UNCHANGED vars)
    BY <1>9 DEF ServicesInv, Next
  <2>2. QED
    BY <1>1, <1>9, <2>1, QuestionsStep, QuestionsStutter DEF ServicesInv
<1>10. QED
  BY <1>1, <1>2, <1>3, <1>4, <1>5, <1>6, <1>7, <1>8, <1>9 DEF ServicesInv

\* The invariants are kept, of whichever component is followed.
THEOREM ServicesAreKept ==
  ASSUME NoneIsNoRecord
  PROVE  Spec => []ServicesInv
<1>1. ServicesInv /\ [Next]_vars => ServicesInv'
  BY ServicesKeep
<1>2. QED
  BY <1>1, ServicesStart, PTL DEF Spec

\* Two factor authentication and the open API are never on without a usable key,
\* however the requests of an account overlap.
THEOREM KeysStayUsable ==
  ASSUME NoneIsNoRecord
  PROVE  Spec => []KeysUsable
<1>1. ServicesInv => KeysUsable
  BY DEF ServicesInv, KeysUsable, A!UsableInv, A!Usable, A!KeysUsable
<1>2. QED
  BY <1>1, ServicesAreKept, PTL

\* However the callbacks of the single sign-on overlap, an identity is signed in
\* to one account and an account belongs to one identity.
THEOREM IdentitiesStayApart ==
  ASSUME NoneIsNoRecord
  PROVE  Spec => []OneAccountEach
<1>1. ServicesInv => OneAccountEach
  BY LinkedIsOne DEF ServicesInv, OneAccountEach
<1>2. QED
  BY <1>1, ServicesAreKept, PTL

\* Every administrator that the single sign-on knows is asked for the second
\* factor, unless requests overlapped or telling it failed.
THEOREM AdministratorsAreAsked ==
  ASSUME NoneIsNoRecord
  PROVE  Spec => []AdministratorsNeedTfa
<1>1. ServicesInv => AdministratorsNeedTfa
  BY TrackedAreAsked DEF ServicesInv, AdministratorsNeedTfa
<1>2. QED
  BY <1>1, ServicesAreKept, PTL

\* A student on a teacher's list who has registered is linked to the account,
\* whichever comes first.
THEOREM ListsFindTheirStudents ==
  ASSUME NoneIsNoRecord
  PROVE  Spec => []ListedIsLinked
<1>1. ServicesInv => ListedIsLinked
  BY NobodyWaits DEF ServicesInv, ListedIsLinked
<1>2. QED
  BY <1>1, ServicesAreKept, PTL

\* The role of an assistant comes with the first lecture and goes with the last.
THEOREM RolesFollowLectures ==
  ASSUME NoneIsNoRecord
  PROVE  Spec => []RoleMatches
<1>1. ServicesInv => RoleMatches
  BY RolesMatch DEF ServicesInv, RoleMatches
<1>2. QED
  BY <1>1, ServicesAreKept, PTL

\* Who has left a contest is admitted again by the teacher alone.
THEOREM LeaversStayOut ==
  ASSUME NoneIsNoRecord
  PROVE  Spec => LeftStaysLeft
<1>1. ServicesInv /\ [Next]_vars => [focus = "attendance" => D!LeftStaysLeftStep]_vars
  <2> SUFFICES ASSUME ServicesInv, Next, focus = "attendance"
               PROVE  D!LeftStaysLeftStep
    OBVIOUS
  <2>1. D!LeftInv /\ D!Next
    BY DEF ServicesInv, Next
  <2>2. QED
    BY <2>1, AttendanceRows
<1>2. QED
  BY <1>1, ServicesAreKept, PTL DEF Spec, LeftStaysLeft

\* A board that is not frozen shows the ranks there are, unless requests overlapped.
THEOREM BoardsStayFresh ==
  ASSUME NoneIsNoRecord
  PROVE  Spec => []BoardFresh
<1>1. ServicesInv => BoardFresh
  BY BoardIsFresh DEF ServicesInv, BoardFresh
<1>2. QED
  BY <1>1, ServicesAreKept, PTL

\* A key that was revoked or has expired is never active again.
THEOREM RevokedKeysStayRevoked ==
  ASSUME NoneIsNoRecord
  PROVE  Spec => RevokedForGood
<1>1. ServicesInv /\ [Next]_vars => [focus = "keys" => K!RevokedForGoodStep]_vars
  <2> SUFFICES ASSUME ServicesInv, Next, focus = "keys"
               PROVE  K!RevokedForGoodStep
    OBVIOUS
  <2>1. K!StatusInv /\ K!Next
    BY DEF ServicesInv, Next
  <2>2. QED
    BY <2>1, KeysStep
<1>2. QED
  BY <1>1, ServicesAreKept, PTL DEF Spec, RevokedForGood

\* An open question waits for the one who did not write last.
THEOREM QuestionsFollowTurns ==
  ASSUME NoneIsNoRecord
  PROVE  Spec => []TurnIsRight
<1>1. ServicesInv => TurnIsRight
  BY TurnsAreRight DEF ServicesInv, TurnIsRight
<1>2. QED
  BY <1>1, ServicesAreKept, PTL

-----------------------------------------------------------------------------
(* The token bucket.                                                       *)

\* The one request in progress goes on with other work, or ends.
LEMMA BucketKeeps ==
  ASSUME R!BucketInv, NEW t \in Threads, NEW work, job' = [job EXCEPT ![t] = work],
         x3' = x3, x4' \in Nat, x5' \in Nat, x6' \in Nat,
         ~overlapped' =>
           /\ ~overlapped /\ R!Again' \in Nat /\ \A u \in Threads : R!Busy(u) => u = t
           /\ x1' \in 0..Capacity \cup {None} /\ x2' \in 0..x3 \cup {None}
           /\ x1' = None => x2' = None /\ x4' = 0 /\ x5' = 0
           /\ work # None => R!WorkOK(work)'
           /\ R!Ledger' \/ (work # None /\ work.kind = "restamp")
  PROVE  R!BucketInv'
<1>1. R!JobTable' /\ \A u \in Threads : job'[u] = IF u = t THEN work ELSE job[u]
  BY DEF R!BucketInv, R!JobTable
<1>2. ~overlapped' => \A u \in Threads : R!Busy(u)' => u = t /\ job'[u] = work /\ work # None
  BY <1>1 DEF R!Busy
<1>3. ASSUME ~overlapped', NEW u \in Threads, R!Busy(u)'
      PROVE  R!WorkOK(job[u])'
  <2>1. job'[u] = work /\ R!WorkOK(work)'
    BY <1>2, <1>3
  <2>2. QED
    BY <2>1 DEF R!WorkOK, R!Pays
<1>4. work # None /\ work.kind = "restamp" => R!Doing(t, "restamp")'
  BY <1>1 DEF R!Doing, R!Busy
<1>5. x3 \in Nat
  BY DEF R!BucketInv
<1>6. ~overlapped' => R!Alone'
  BY <1>2 DEF R!Alone
<1>7. QED
  BY <1>1, <1>3, <1>4, <1>5, <1>6 DEF R!BucketInv

LEMMA BucketInit ==
  ASSUME R!Init
  PROVE  R!BucketInv
<1>1. /\ job = [t \in Threads |-> None] /\ x1 = None /\ x2 = None /\ x3 = 0 /\ x4 = 0 /\ x5 = 0 /\ x6 = 0
      /\ R!Again = 0 /\ \A t \in Threads : ~R!Busy(t)
  <2>1. job = [t \in Threads |-> None] /\ x1 = None /\ x2 = None /\ x3 = 0 /\ x4 = 0 /\ x5 = 0 /\ x6 = 0
    BY DEF R!Init, R!RequestsInit
  <2>2. R!Again = 0
    BY <2>1, CapacityAssumption DEF R!Again
  <2>3. QED
    BY <2>1, <2>2 DEF R!Busy
<1>2. QED
  BY <1>1 DEF R!BucketInv, R!JobTable, R!Alone, R!Ledger

LEMMA BucketStutter ==
  ASSUME R!BucketInv, UNCHANGED vars
  PROVE  R!BucketInv'
<1>1. UNCHANGED <<job, overlapped, x1, x2, x3, x4, x5, x6>> /\ R!Again' = R!Again
  BY DEF vars, R!Again
<1>2. \A u \in Threads : R!WorkOK(job[u]) => R!WorkOK(job[u])'
  BY <1>1 DEF R!WorkOK, R!Pays
<1>3. R!Ledger => R!Ledger'
  BY <1>1 DEF R!Ledger, R!Since
<1>4. QED
  BY <1>1, <1>2, <1>3 DEF vars, R!BucketInv, R!JobTable, R!Alone, R!Busy, R!Doing

LEMMA BucketStep ==
  ASSUME NoneIsNoRecord, R!BucketInv, R!Next
  PROVE  R!BucketInv'
<1>0. UNCHANGED x6 => R!Again' = R!Again
  BY DEF R!Again
<1>1. x3 \in Nat /\ x4 \in Nat /\ x5 \in Nat /\ x6 \in Nat /\ (~overlapped => R!Again \in Nat)
  BY DEF R!BucketInv
<1>2. ASSUME NEW t \in Threads, R!Busy(t), ~overlapped
      PROVE  /\ R!WorkOK(job[t]) /\ \A u \in Threads : R!Busy(u) => u = t
             /\ x1 \in 0..Capacity \cup {None} /\ x2 \in 0..x3 \cup {None}
             /\ x1 = None => x2 = None /\ x4 = 0 /\ x5 = 0
             /\ R!Ledger \/ job[t].kind = "restamp"
  BY <1>2 DEF R!BucketInv, R!Alone, R!Doing
<1>3. UNCHANGED <<x1, x2, x3, x4, x5, x6>> => (R!Ledger' <=> R!Ledger)
  BY <1>0 DEF R!Ledger, R!Since
<1>4. ASSUME NEW t \in Threads, R!Consume(t) PROVE R!BucketInv'
  <2>1. PICK work : work = IF x1 = None THEN [kind |-> "make"] ELSE R!Branch(x1)
    OBVIOUS
  <2>2. /\ job' = [job EXCEPT ![t] = work] /\ UNCHANGED <<x1, x2, x3, x4, x5, x6>>
        /\ ~overlapped' => ~overlapped /\ R!Quiet
    BY <1>4, <2>1 DEF R!Consume, R!Begin, R!Arrive, R!bucketVars
  <2>3. ASSUME ~overlapped' PROVE R!WorkOK(work)'
    <3>1. x1 \in 0..Capacity \cup {None}
      BY <2>2, <2>3 DEF R!BucketInv
    <3>2. QED
      BY <2>1, <2>2, <3>1, CapacityAssumption DEF R!Branch, R!WorkOK
  <2>4. ASSUME ~overlapped'
        PROVE  /\ ~overlapped /\ R!Again' \in Nat /\ \A u \in Threads : R!Busy(u) => u = t
               /\ x1' \in 0..Capacity \cup {None} /\ x2' \in 0..x3 \cup {None}
               /\ x1' = None => x2' = None /\ x4' = 0 /\ x5' = 0
               /\ R!Ledger'
    BY <1>0, <1>3, <2>2, <2>4 DEF R!BucketInv, R!Quiet, R!Doing
  <2>5. QED
    BY <1>0, <1>1, <2>2, <2>3, <2>4, BucketKeeps
<1>5. ASSUME NEW t \in Threads, R!MakeStock(t) PROVE R!BucketInv'
  <2>1. PICK work : work = [kind |-> "stamp"]
    OBVIOUS
  <2>2. /\ R!Busy(t) /\ job[t].kind = "make" /\ UNCHANGED <<x2, x3, x4, x5, x6, overlapped>>
        /\ x1' = DefaultCapacity /\ job' = [job EXCEPT ![t] = work]
    BY <1>5, <2>1 DEF R!MakeStock, R!Doing, R!Continue
  <2>3. ASSUME ~overlapped PROVE x1 = None /\ x2 = None /\ x4 = 0 /\ x5 = 0
    BY <1>2, <2>2, <2>3 DEF R!WorkOK
  <2>4. ASSUME ~overlapped PROVE R!WorkOK(work)' /\ R!Ledger' /\ x1' \in 0..Capacity
    BY <1>0, <1>1, <2>1, <2>2, <2>3, <2>4, NoneAssumption, CapacityAssumption DEF R!WorkOK, R!Ledger, R!Since
  <2>5. QED
    BY <1>0, <1>1, <1>2, <2>2, <2>3, <2>4, BucketKeeps
<1>6. ASSUME NEW t \in Threads, R!MakeStamp(t) PROVE R!BucketInv'
  <2>1. PICK work : work = R!Branch(DefaultCapacity)
    OBVIOUS
  <2>2. /\ R!Busy(t) /\ job[t].kind = "stamp" /\ UNCHANGED <<x1, x3, x4, x5, x6, overlapped>>
        /\ x2' = x3 /\ job' = [job EXCEPT ![t] = work]
    BY <1>6, <2>1 DEF R!MakeStamp, R!Doing, R!Continue
  <2>3. ASSUME ~overlapped PROVE x1 = DefaultCapacity /\ x4 = 0 /\ x5 = 0
    BY <1>2, <2>2, <2>3 DEF R!WorkOK
  <2>4. ASSUME ~overlapped PROVE R!WorkOK(work)'
    BY <2>1, <2>2, <2>3, <2>4, CapacityAssumption DEF R!WorkOK, R!Branch
  <2>5. ASSUME ~overlapped PROVE R!Ledger'
    BY <1>0, <1>1, <2>2, <2>3, <2>5, NoneAssumption, CapacityAssumption DEF R!Ledger, R!Since
  <2>6. ASSUME ~overlapped PROVE x1' \in 0..Capacity /\ x1' # None /\ x2' \in 0..x3
    BY <1>0, <1>1, <2>2, <2>3, <2>6, NoneAssumption, CapacityAssumption
  <2>7. QED
    BY <1>0, <1>1, <1>2, <2>2, <2>4, <2>5, <2>6, BucketKeeps
<1>7. ASSUME NEW t \in Threads, R!Die(t) PROVE R!BucketInv'
  <2>1. /\ R!Busy(t) /\ UNCHANGED <<x1, x2, x3, x4, x5, overlapped>>
        /\ x6' = x6 + IF job[t].kind = "restamp" THEN 1 ELSE 0
        /\ job' = [job EXCEPT ![t] = None]
    BY <1>7 DEF R!Die, R!Respond, R!Continue
  <2>2. CASE job[t].kind # "restamp"
    <3>1. UNCHANGED x6
      BY <1>1, <2>1, <2>2
    <3>2. QED
      BY <1>0, <1>1, <1>2, <1>3, <2>1, <2>2, <3>1, BucketKeeps
  <2>3. CASE job[t].kind = "restamp"
    <3>1. x6' = x6 + 1 /\ x6' \in Nat
      BY <1>1, <2>1, <2>3
    <3>2. R!Again' = R!Again + (Capacity - 1)
      BY <1>1, <3>1, CapacityAssumption, SMTT(30) DEF R!Again
    <3>3. ASSUME ~overlapped PROVE R!Pays(job[t].now, x1)
      BY <1>2, <2>1, <2>3, <3>3 DEF R!WorkOK
    <3>4. ASSUME ~overlapped PROVE R!Again' \in Nat /\ R!Ledger' /\ x1 # None
      <4>1. x1 \in Nat /\ x1 < Capacity /\ x2 \in Nat /\ x2 # x3 /\ x1 # None /\ x2 # None
        BY <1>1, <3>3, <3>4, NoneAssumption, CapacityAssumption DEF R!Pays
      <4>2. /\ x4 <= DefaultCapacity + x2 + R!Again /\ x5 <= Capacity + R!Again
            /\ R!Again \in Nat
        BY <1>1, <3>3, <3>4 DEF R!Pays
      <4>3. R!Since' = x2
        BY <2>1, <4>1 DEF R!Since
      <4>4. /\ x4 + x1 <= DefaultCapacity + x2 + (R!Again + (Capacity - 1))
            /\ x5 + x1 <= Capacity + (R!Again + (Capacity - 1))
            /\ R!Again + (Capacity - 1) \in Nat
        BY <1>1, <4>1, <4>2, CapacityAssumption
      <4>5. x5 + x1 <= 2 * Capacity + (R!Again + (Capacity - 1))
        BY <1>1, <4>1, <4>2, <4>4, CapacityAssumption
      <4>6. QED
        BY <2>1, <3>2, <4>1, <4>3, <4>4, <4>5 DEF R!Ledger
    <3>5. QED
      BY <1>1, <1>2, <2>1, <3>1, <3>4, BucketKeeps
  <2>4. QED
    BY <2>2, <2>3
<1>8. ASSUME NEW t \in Threads, R!Spend(t) PROVE R!BucketInv'
  <2>1. PICK work : work = [kind |-> "set", stock |-> x1 - 1]
    OBVIOUS
  <2>2. /\ R!Busy(t) /\ job[t].kind = "spend" /\ UNCHANGED <<x1, x2, x3, x4, x5, x6, overlapped>>
        /\ job' = [job EXCEPT ![t] = work]
    BY <1>8, <2>1 DEF R!Spend, R!Doing, R!Continue, R!bucketVars
  <2>3. ASSUME ~overlapped PROVE R!WorkOK(work)'
    <3>1. x1 \in Nat /\ x1 >= 1
      BY <1>2, <2>2, <2>3 DEF R!WorkOK
    <3>2. QED
      BY <2>1, <2>2, <3>1 DEF R!WorkOK
  <2>4. QED
    BY <1>0, <1>1, <1>2, <1>3, <2>2, <2>3, BucketKeeps
<1>9. ASSUME NEW t \in Threads, R!SetStock(t) PROVE R!BucketInv'
  <2>1. /\ R!Busy(t) /\ job[t].kind = "set" /\ UNCHANGED <<x2, x3, x6, overlapped>>
        /\ x1' = job[t].stock /\ x4' = x4 + 1 /\ x5' = x5 + 1 /\ job' = [job EXCEPT ![t] = None]
    BY <1>9 DEF R!SetStock, R!Grant, R!Doing, R!Respond, R!Continue
  <2>2. ASSUME ~overlapped
        PROVE  /\ x1' \in 0..Capacity /\ x1 = x1' + 1 /\ R!Ledger
               /\ x1 # None /\ x1' # None /\ x2 \in Nat \cup {None}
    <3>1. job[t].stock \in Nat /\ x1 = job[t].stock + 1
      BY <1>2, <2>1, <2>2 DEF R!WorkOK
    <3>2. x1 \in 0..Capacity \cup {None} /\ R!Ledger /\ x2 \in Nat \cup {None}
      BY <1>0, <1>1, <1>2, <2>1, <2>2
    <3>3. QED
      BY <2>1, <3>1, <3>2, NoneAssumption, CapacityAssumption
  <2>3. ASSUME ~overlapped PROVE R!Ledger'
    <3>1. R!Since' = R!Since /\ R!Since \in Nat
      BY <2>1, <2>2, <2>3, NoneAssumption DEF R!Since
    <3>2. /\ x4 + x1 <= DefaultCapacity + R!Since + R!Again /\ x5 + x1 <= 2 * Capacity + R!Again
          /\ x2 # x3 => x5 + x1 <= Capacity + R!Again
      BY <2>2, <2>3 DEF R!Ledger
    <3>3. x4' + x1' = x4 + x1 /\ x5' + x1' = x5 + x1 /\ (x2' # x3' <=> x2 # x3)
      BY <1>0, <1>1, <2>1, <2>2, <2>3, CapacityAssumption
    <3>4. QED
      BY <1>0, <2>1, <3>1, <3>2, <3>3 DEF R!Ledger
  <2>4. ASSUME ~overlapped'
        PROVE  /\ ~overlapped /\ R!Again' \in Nat /\ \A u \in Threads : R!Busy(u) => u = t
               /\ x1' \in 0..Capacity \cup {None} /\ x2' \in 0..x3 \cup {None}
               /\ x1' = None => x2' = None /\ x4' = 0 /\ x5' = 0
               /\ R!Ledger'
    BY <1>0, <1>1, <1>2, <2>1, <2>2, <2>3, <2>4
  <2>5. x4' \in Nat /\ x5' \in Nat /\ x6' \in Nat /\ x3' = x3 /\ job' = [job EXCEPT ![t] = None]
    BY <1>0, <1>1, <2>1
  <2>6. QED
    BY <2>4, <2>5, BucketKeeps
<1>10. ASSUME NEW t \in Threads, R!Refill(t) PROVE R!BucketInv'
  <2>1. R!Busy(t) /\ job[t].kind = "refill" /\ UNCHANGED <<x1, x2, x3, x4, x5, x6, overlapped>>
    BY <1>10 DEF R!Refill, R!Doing, R!Respond, R!Continue, R!bucketVars
  <2>2. CASE job' = [job EXCEPT ![t] = None]
    BY <1>0, <1>1, <1>2, <1>3, <2>1, <2>2, BucketKeeps
  <2>3. CASE job' # [job EXCEPT ![t] = None]
    <3>1. PICK filled : filled = R!Filled(x1, x3 - x2)
      OBVIOUS
    <3>2. PICK work : work = [kind |-> "refilled", stock |-> filled - 1, now |-> x3]
      OBVIOUS
    <3>3. x2 # None /\ ~(filled < 1) /\ job' = [job EXCEPT ![t] = work]
      BY <1>10, <2>3, <3>1, <3>2 DEF R!Refill, R!Respond, R!Continue
    <3>4. ASSUME ~overlapped PROVE R!WorkOK(work)'
      <4>1. x1 = 0 /\ x2 \in Nat /\ x2 <= x3 /\ R!Ledger
        BY <1>0, <1>1, <1>2, <2>1, <3>3, <3>4 DEF R!WorkOK
      <4>2. filled \in Nat /\ filled >= 1 /\ filled <= x3 - x2 /\ filled <= Capacity
        BY <1>0, <1>1, <3>1, <3>3, <4>1, CapacityAssumption DEF R!Filled
      <4>3. x4 <= DefaultCapacity + x2 + R!Again /\ x5 <= Capacity + R!Again
        BY <1>1, <4>1, <4>2, NoneAssumption, CapacityAssumption DEF R!Ledger, R!Since
      <4>4. work.kind = "refilled" /\ work.stock = filled - 1 /\ work.now = x3
        BY <3>2
      <4>5. R!Pays(work.now, work.stock)'
        BY <1>0, <1>1, <2>1, <4>1, <4>2, <4>3, <4>4, CapacityAssumption DEF R!Pays
      <4>6. QED
        BY <2>1, <4>1, <4>4, <4>5 DEF R!WorkOK
    <3>5. QED
      BY <1>0, <1>1, <1>2, <1>3, <2>1, <3>3, <3>4, BucketKeeps
  <2>4. QED
    BY <2>2, <2>3
<1>11. ASSUME NEW t \in Threads, R!SetRefilled(t) PROVE R!BucketInv'
  <2>1. PICK work : work = [kind |-> "restamp", now |-> job[t].now]
    OBVIOUS
  <2>2. /\ R!Busy(t) /\ job[t].kind = "refilled" /\ UNCHANGED <<x2, x3, x4, x5, x6, overlapped>>
        /\ x1' = job[t].stock /\ job' = [job EXCEPT ![t] = work]
    BY <1>11, <2>1 DEF R!SetRefilled, R!Doing, R!Continue
  <2>3. work # None
    BY <2>1 DEF NoneIsNoRecord
  <2>4. ASSUME ~overlapped PROVE R!Pays(job[t].now, job[t].stock)
    BY <1>2, <2>2, <2>4 DEF R!WorkOK
  <2>5. ASSUME ~overlapped PROVE R!WorkOK(work)' /\ x1' \in 0..Capacity /\ x1' # None
    BY <1>0, <2>1, <2>2, <2>4, <2>5, NoneAssumption, CapacityAssumption DEF R!WorkOK, R!Pays
  <2>6. QED
    BY <1>0, <1>1, <1>2, <2>1, <2>2, <2>3, <2>5, BucketKeeps
<1>12. ASSUME NEW t \in Threads, R!Restamp(t) PROVE R!BucketInv'
  <2>1. /\ R!Busy(t) /\ job[t].kind = "restamp" /\ UNCHANGED <<x1, x3, x6, overlapped>>
        /\ x2' = job[t].now /\ x4' = x4 + 1 /\ x5' = x5 + 1 /\ job' = [job EXCEPT ![t] = None]
    BY <1>12 DEF R!Restamp, R!NewStamp, R!Grant, R!Doing, R!Respond, R!Continue
  <2>2. ASSUME ~overlapped PROVE R!Pays(job[t].now, x1)
    BY <1>2, <2>1, <2>2 DEF R!WorkOK
  <2>3. ASSUME ~overlapped PROVE x2' \in 0..x3 /\ x1' \in 0..Capacity /\ x1' # None
    BY <1>0, <1>1, <2>1, <2>2, <2>3, NoneAssumption, CapacityAssumption DEF R!Pays
  <2>4. ASSUME ~overlapped PROVE R!Ledger'
    <3>1. R!Since' = job[t].now
      BY <2>1, <2>2, <2>4, NoneAssumption DEF R!Since, R!Pays
    <3>2. x4' + x1' <= DefaultCapacity + job[t].now + R!Again'
      BY <1>0, <1>1, <2>1, <2>2, <2>4, CapacityAssumption DEF R!Pays
    <3>3. x5' + x1' <= 2 * Capacity + R!Again' /\ (x2' # x3' => x5' + x1' <= Capacity + R!Again')
      BY <1>0, <1>1, <2>1, <2>2, <2>4, CapacityAssumption DEF R!Pays
    <3>4. QED
      BY <1>0, <2>1, <3>1, <3>2, <3>3 DEF R!Ledger
  <2>5. ASSUME ~overlapped'
        PROVE  /\ ~overlapped /\ R!Again' \in Nat /\ \A u \in Threads : R!Busy(u) => u = t
               /\ x1' \in 0..Capacity \cup {None} /\ x2' \in 0..x3 \cup {None}
               /\ x1' = None => x2' = None /\ x4' = 0 /\ x5' = 0
               /\ R!Ledger'
    BY <1>0, <1>1, <1>2, <2>1, <2>3, <2>4, <2>5
  <2>6. x4' \in Nat /\ x5' \in Nat /\ x6' \in Nat /\ x3' = x3 /\ job' = [job EXCEPT ![t] = None]
    BY <1>0, <1>1, <2>1
  <2>7. QED
    BY <2>5, <2>6, BucketKeeps
<1>13. CASE R!Tick
  <2>1. x3' = x3 + 1 /\ x5' = 0 /\ UNCHANGED <<job, overlapped, x1, x2, x4, x6>>
    BY <1>13 DEF R!Tick
  <2>2. SUFFICES ASSUME ~overlapped
                 PROVE  /\ \A t \in Threads : R!Busy(t) => R!WorkOK(job[t])'
                        /\ R!Ledger' \/ \E t \in Threads : R!Doing(t, "restamp")
                        /\ x2 \in 0..x3' \cup {None}
    BY <1>0, <1>1, <2>1 DEF R!BucketInv, R!JobTable, R!Alone, R!Busy, R!Doing
  <2>3. ASSUME NEW t \in Threads, R!Busy(t) PROVE R!WorkOK(job[t])'
    <3>1. R!WorkOK(job[t])
      BY <2>2, <2>3 DEF R!BucketInv
    <3>2. R!Pays(job[t].now, x1) => R!Pays(job[t].now, x1)'
      BY <1>0, <1>1, <2>1, <2>2, CapacityAssumption DEF R!Pays
    <3>3. R!Pays(job[t].now, job[t].stock) => R!Pays(job[t].now, job[t].stock)'
      BY <1>0, <1>1, <2>1, <2>2, CapacityAssumption DEF R!Pays
    <3>4. QED
      BY <2>1, <3>1, <3>2, <3>3 DEF R!WorkOK
  <2>4. x1 \in 0..Capacity \cup {None} /\ x2 \in 0..x3 \cup {None}
    BY <2>2 DEF R!BucketInv
  <2>5. R!Ledger => R!Ledger'
    BY <1>0, <1>1, <2>1, <2>2, <2>4, NoneAssumption, CapacityAssumption DEF R!Ledger, R!Since
  <2>6. QED
    BY <1>0, <1>1, <2>1, <2>2, <2>3, <2>4, <2>5 DEF R!BucketInv
<1>14. QED
  BY <1>4, <1>5, <1>6, <1>7, <1>8, <1>9, <1>10, <1>11, <1>12, <1>13 DEF R!Next

LEMMA BucketLimits ==
  ASSUME R!BucketInv
  PROVE  R!RateLimit
<1> SUFFICES ASSUME ~overlapped
             PROVE  x4 <= DefaultCapacity + x3 + R!Again /\ x5 <= 2 * Capacity + R!Again
  BY DEF R!RateLimit
<1>1. x3 \in Nat /\ x4 \in Nat /\ x5 \in Nat /\ R!Again \in Nat
  BY DEF R!BucketInv
<1>2. CASE R!Ledger
  <2>1. x1 \in 0..Capacity \cup {None} /\ x2 \in 0..x3 \cup {None} /\ (x1 = None => x4 = 0 /\ x5 = 0)
    BY DEF R!BucketInv
  <2>2. QED
    BY <1>1, <1>2, <2>1, NoneAssumption, CapacityAssumption DEF R!Ledger, R!Since
<1>3. ASSUME NEW t \in Threads, R!Doing(t, "restamp")
      PROVE  x4 <= DefaultCapacity + x3 + R!Again /\ x5 <= 2 * Capacity + R!Again
  <2>1. R!Pays(job[t].now, x1)
    BY <1>3 DEF R!BucketInv, R!Doing, R!WorkOK
  <2>2. QED
    BY <1>1, <2>1, CapacityAssumption DEF R!Pays
<1>4. QED
  BY <1>2, <1>3 DEF R!BucketInv

-----------------------------------------------------------------------------
(* The caches of the options.                                              *)

LEMMA CacheInit ==
  ASSUME O!Init
  PROVE  O!CacheInv
<1>1. /\ x1 = <<>> /\ x3 = 0 /\ x4 = [t \in Threads |-> 0]
      /\ x2 = [t \in Threads |-> [n \in O!Names |-> None]]
  BY DEF O!Init
<1>2. x1 \in Seq(Nat) /\ O!Stored = 0
  BY <1>1 DEF O!Stored
<1>3. QED
  BY <1>1, <1>2 DEF O!CacheInv, O!SlotOK, O!Names

LEMMA CacheStutter ==
  ASSUME O!CacheInv, UNCHANGED vars
  PROVE  O!CacheInv'
BY DEF vars, O!CacheInv, O!SlotOK, O!Stored

\* What a thread is given is in order, whether it was cached or is new.
LEMMA KeptIsOK ==
  ASSUME x1 \in Seq(Nat), x3 \in Nat, NEW age \in Nat, TTL <= age,
         NEW slot \in [value : Nat, expires : Nat] \cup {None},
         NEW set \in Nat, O!SlotOK(slot, age, set),
         NEW value \in Nat, set <= value, value <= O!Stored,
         value < O!Stored => x3 + TTL <= x1[value + 1] + age
  PROVE  /\ O!Kept(slot, value) \in [value : Nat, expires : Nat]
         /\ O!SlotOK(O!Kept(slot, value), age, set)
<1>1. CASE O!Holds(slot)
  BY <1>1 DEF O!Kept, O!Holds
<1>2. CASE ~O!Holds(slot)
  <2>1. PICK new : new = [value |-> value, expires |-> x3 + TTL]
    OBVIOUS
  <2>2. new \in [value : Nat, expires : Nat] /\ new.value = value /\ new.expires = x3 + TTL
    BY <2>1, TTLAssumption
  <2>3. O!SlotOK(new, age, set)
    BY <2>2 DEF O!SlotOK
  <2>4. QED
    BY <1>2, <2>1, <2>2, <2>3 DEF O!Kept
<1>3. QED
  BY <1>1, <1>2

\* A slot stays in order when the option is set: what was the value is replaced
\* now.
LEMMA SetKeepsSlots ==
  ASSUME x1 \in Seq(Nat), x3 \in Nat, x1' = Append(x1, x3), x3' = x3,
         NEW age \in Nat, TTL <= age, NEW slot, NEW set, O!SlotOK(slot, age, set)
  PROVE  O!SlotOK(slot, age, set)'
<1>1. /\ O!Stored \in Nat /\ O!Stored' = O!Stored + 1 /\ TTL \in Nat
      /\ x1'[O!Stored + 1] = x3
      /\ \A v \in Nat : v < O!Stored => x1'[v + 1] = x1[v + 1]
  BY TTLAssumption DEF O!Stored
<1>2. ASSUME slot # None
      PROVE  /\ slot \in [value : Nat, expires : Nat]
             /\ slot.value \in Nat /\ slot.expires \in Nat
             /\ slot.expires <= x3 + TTL /\ set <= slot.value /\ slot.value <= O!Stored
             /\ slot.value < O!Stored => slot.expires <= x1[slot.value + 1] + age
  BY <1>2 DEF O!SlotOK
<1>3. ASSUME slot # None, slot.value < O!Stored'
      PROVE  slot.expires <= x1'[slot.value + 1] + age
  <2>1. CASE slot.value < O!Stored
    BY <1>1, <1>2, <1>3, <2>1
  <2>2. CASE slot.value = O!Stored
    <3>1. x1'[slot.value + 1] = x3
      BY <1>1, <2>2
    <3>2. slot.expires <= x3 + age
      BY <1>1, <1>2, <1>3
    <3>3. QED
      BY <3>1, <3>2
  <2>3. slot.value < O!Stored \/ slot.value = O!Stored
    <3>1. slot.value <= O!Stored /\ slot.value \in Nat
      BY <1>2, <1>3
    <3>2. QED
      BY <1>1, <3>1
  <2>4. QED
    BY <2>1, <2>2, <2>3
<1>4. slot # None => slot.value <= O!Stored' /\ slot.expires <= x3' + TTL
  BY <1>1, <1>2
<1>5. QED
  BY <1>2, <1>3, <1>4 DEF O!SlotOK

LEMMA CacheStep ==
  ASSUME NoneIsNoRecord, O!CacheInv, O!Next
  PROVE  O!CacheInv'
<1>1. /\ x1 \in Seq(Nat) /\ x3 \in Nat /\ O!Stored \in Nat /\ TTL \in Nat
      /\ x4 \in [Threads -> 0..O!Stored]
      /\ x2 \in [Threads -> [O!Names -> [value : Nat, expires : Nat] \cup {None}]]
      /\ "languages" \in O!Names /\ "language_names" \in O!Names
  BY TTLAssumption DEF O!CacheInv, O!Stored, O!Names
<1>2. ASSUME NEW t \in Threads
      PROVE  /\ x2[t]["languages"] \in [value : Nat, expires : Nat] \cup {None}
             /\ x2[t]["language_names"] \in [value : Nat, expires : Nat] \cup {None}
             /\ O!SlotOK(x2[t]["languages"], TTL, x4[t])
             /\ O!SlotOK(x2[t]["language_names"], 2 * TTL, 0)
             /\ x4[t] \in Nat /\ x4[t] <= O!Stored
  BY <1>1, <1>2 DEF O!CacheInv
<1>3. ASSUME NEW t \in Threads
      PROVE  /\ O!Kept(x2[t]["languages"], O!Stored) \in [value : Nat, expires : Nat]
             /\ O!SlotOK(O!Kept(x2[t]["languages"], O!Stored), TTL, x4[t])
  BY SMTT(60), <1>1, <1>2, KeptIsOK
<1>4. ASSUME NEW t \in Threads, O!Get(t) PROVE O!CacheInv'
  <2>1. /\ x2' = [x2 EXCEPT ![t]["languages"] = O!Kept(@, O!Stored)]
        /\ UNCHANGED <<x1, x3, x4>>
    BY <1>4 DEF O!Get
  <2>2. x2' \in [Threads -> [O!Names -> [value : Nat, expires : Nat] \cup {None}]]
    BY <1>1, <1>3, <2>1
  <2>3. ASSUME NEW u \in Threads
        PROVE  /\ O!SlotOK(x2'[u]["languages"], TTL, x4[u])
               /\ O!SlotOK(x2'[u]["language_names"], 2 * TTL, 0)
    <3>1. /\ x2'[u]["languages"] \in {x2[u]["languages"], O!Kept(x2[u]["languages"], O!Stored)}
          /\ x2'[u]["language_names"] = x2[u]["language_names"]
      BY SMTT(30), <1>1, <2>1 DEF O!Names
    <3>2. QED
      BY <1>2, <1>3, <3>1
  <2>4. QED
    BY <1>1, <2>1, <2>2, <2>3 DEF O!CacheInv, O!SlotOK, O!Stored
<1>5. ASSUME NEW t \in Threads, O!GetDerived(t) PROVE O!CacheInv'
  <2> DEFINE kept == O!Kept(x2[t]["languages"], O!Stored)
             list == O!Kept(x2[t]["language_names"], kept.value)
  <2>1. /\ x2' = [x2 EXCEPT
             ![t]["languages"] = IF O!Holds(x2[t]["language_names"]) THEN @ ELSE kept,
             ![t]["language_names"] = O!Kept(@, kept.value)]
        /\ UNCHANGED <<x1, x3, x4>>
    BY <1>5 DEF O!GetDerived
  <2>2. /\ kept \in [value : Nat, expires : Nat] /\ O!SlotOK(kept, TTL, x4[t])
        /\ kept # None /\ x3 <= kept.expires
    <3>1. kept # None /\ x3 <= kept.expires
      <4>1. CASE O!Holds(x2[t]["languages"])
        <5>1. kept = x2[t]["languages"] /\ kept # None /\ x3 < kept.expires
          BY <4>1 DEF O!Kept, O!Holds
        <5>2. QED
          BY <1>1, <1>3, <5>1
      <4>2. CASE ~O!Holds(x2[t]["languages"])
        <5>1. kept = [value |-> O!Stored, expires |-> x3 + TTL]
          BY <4>2 DEF O!Kept
        <5>2. kept.expires = x3 + TTL
          BY <5>1
        <5>3. kept # None
          BY <5>1 DEF NoneIsNoRecord
        <5>4. QED
          BY <1>1, <5>2, <5>3
      <4>3. QED
        BY <4>1, <4>2
    <3>2. QED
      BY <1>3, <3>1
  <2>3. /\ list \in [value : Nat, expires : Nat]
        /\ O!SlotOK(list, 2 * TTL, 0)
    <3>1. kept.value \in Nat /\ kept.value <= O!Stored
      BY <2>2 DEF O!SlotOK
    <3>2. ASSUME kept.value < O!Stored
          PROVE  x3 + TTL <= x1[kept.value + 1] + 2 * TTL
      <4>1. x1[kept.value + 1] \in Nat /\ kept.expires \in Nat
        BY <1>1, <2>2, <3>1, <3>2 DEF O!Stored
      <4>2. kept.expires <= x1[kept.value + 1] + TTL
        BY <2>2, <3>2 DEF O!SlotOK
      <4>3. QED
        BY SMTT(60), <1>1, <2>2, <4>1, <4>2
    <3>3. 2 * TTL \in Nat /\ TTL <= 2 * TTL /\ 0 <= kept.value
      BY <1>1, <3>1
    <3>4. QED
      BY <1>1, <1>2, <3>1, <3>2, <3>3, KeptIsOK
  <2>4. x2' \in [Threads -> [O!Names -> [value : Nat, expires : Nat] \cup {None}]]
    BY SMTT(60), <1>1, <2>1, <2>2, <2>3
  <2>5. ASSUME NEW u \in Threads
        PROVE  /\ O!SlotOK(x2'[u]["languages"], TTL, x4[u])
               /\ O!SlotOK(x2'[u]["language_names"], 2 * TTL, 0)
    <3>1. /\ x2'[u]["languages"] \in {x2[u]["languages"]} \cup (IF u = t THEN {kept} ELSE {})
          /\ x2'[u]["language_names"] \in {x2[u]["language_names"]} \cup (IF u = t THEN {list} ELSE {})
      BY <1>1, <2>1 DEF O!Names
    <3>2. QED
      BY <1>2, <2>2, <2>3, <3>1
  <2>6. QED
    BY <1>1, <2>1, <2>4, <2>5 DEF O!CacheInv, O!SlotOK, O!Stored
<1>6. ASSUME NEW t \in Threads, O!Set(t) PROVE O!CacheInv'
  <2>1. /\ x1' = Append(x1, x3) /\ x3' = x3 /\ x2' = [x2 EXCEPT ![t]["languages"] = None]
        /\ x4' = [x4 EXCEPT ![t] = Len(x1')]
    BY <1>6 DEF O!Set
  <2>2. x1' \in Seq(Nat) /\ O!Stored' = O!Stored + 1 /\ Len(x1') = O!Stored'
    BY <1>1, <2>1 DEF O!Stored
  <2>3. x4' \in [Threads -> 0..O!Stored']
    BY <1>1, <2>1, <2>2
  <2>4. x2' \in [Threads -> [O!Names -> [value : Nat, expires : Nat] \cup {None}]]
    BY <1>1, <2>1
  <2>5. ASSUME NEW u \in Threads
        PROVE  O!SlotOK(x2[u]["languages"], TTL, x4[u])'
    <3>1. PICK slot, set : slot = x2[u]["languages"] /\ set = x4[u]
      OBVIOUS
    <3>2. O!SlotOK(slot, TTL, set)'
      BY <1>1, <1>2, <2>1, <3>1, SetKeepsSlots
    <3>3. \/ x2'[u]["languages"] = None
          \/ x2'[u]["languages"] = slot /\ x4'[u] = set
      BY <1>1, <2>1, <3>1
    <3>4. QED
      BY <3>2, <3>3 DEF O!SlotOK
  <2>6. ASSUME NEW u \in Threads
        PROVE  O!SlotOK(x2[u]["language_names"], 2 * TTL, 0)'
    <3>1. PICK slot : slot = x2[u]["language_names"]
      OBVIOUS
    <3>2. 2 * TTL \in Nat /\ TTL <= 2 * TTL
      BY <1>1
    <3>3. O!SlotOK(slot, 2 * TTL, 0)
      BY <1>2, <3>1
    <3>4. O!SlotOK(slot, 2 * TTL, 0)'
      BY <1>1, <2>1, <3>2, <3>3, SetKeepsSlots
    <3>5. x2'[u]["language_names"] = slot
      BY <1>1, <2>1, <3>1 DEF O!Names
    <3>6. QED
      BY <3>4, <3>5 DEF O!SlotOK
  <2>7. QED
    BY <1>1, <2>1, <2>2, <2>3, <2>4, <2>5, <2>6 DEF O!CacheInv
<1>7. CASE O!Tick
  <2>1. x3' = x3 + 1 /\ UNCHANGED <<x1, x2, x4>>
    BY <1>7 DEF O!Tick
  <2>2. ASSUME NEW slot, NEW age, NEW set, O!SlotOK(slot, age, set)
        PROVE  O!SlotOK(slot, age, set)'
    BY <1>1, <2>1, <2>2 DEF O!SlotOK, O!Stored
  <2>3. ASSUME NEW t \in Threads
        PROVE  /\ O!SlotOK(x2[t]["languages"], TTL, x4[t])'
               /\ O!SlotOK(x2[t]["language_names"], 2 * TTL, 0)'
    <3>1. O!SlotOK(x2[t]["languages"], TTL, x4[t]) /\ O!SlotOK(x2[t]["language_names"], 2 * TTL, 0)
      BY <1>2
    <3>2. QED
      BY <1>1, <2>1, <3>1 DEF O!SlotOK, O!Stored
  <2>4. QED
    BY <1>1, <2>1, <2>3 DEF O!CacheInv, O!Stored
<1>8. QED
  BY <1>4, <1>5, <1>6, <1>7 DEF O!Next

LEMMA CacheLimits ==
  ASSUME O!CacheInv
  PROVE  O!StaleBound
<1>1. ASSUME NEW slot, NEW age \in Nat, NEW set, O!SlotOK(slot, age, set), O!Holds(slot),
             x1 \in Seq(Nat), x3 \in Nat
      PROVE  O!NotOlder(slot.value, age) /\ slot.value >= set
  <2>1. slot.value \in Nat /\ slot.expires \in Nat /\ set <= slot.value /\ x3 < slot.expires
    BY <1>1 DEF O!SlotOK, O!Holds
  <2>2. ASSUME slot.value < O!Stored PROVE x3 - x1[slot.value + 1] < age
    <3>1. x1[slot.value + 1] \in Nat
      BY <1>1, <2>1, <2>2 DEF O!Stored
    <3>2. slot.expires <= x1[slot.value + 1] + age
      BY <1>1, <2>2 DEF O!SlotOK, O!Holds
    <3>3. QED
      BY SMTT(60), <1>1, <2>1, <3>1, <3>2
  <2>3. QED
    BY <2>1, <2>2 DEF O!NotOlder
<1>2. x1 \in Seq(Nat) /\ x3 \in Nat /\ TTL \in Nat /\ 2 * TTL \in Nat
  BY TTLAssumption DEF O!CacheInv
<1>3. ASSUME NEW t \in Threads
      PROVE  O!SlotOK(x2[t]["languages"], TTL, x4[t]) /\ O!SlotOK(x2[t]["language_names"], 2 * TTL, 0)
  BY DEF O!CacheInv
<1>4. ASSUME NEW t \in Threads, NEW n \in O!Names, O!Holds(x2[t][n])
      PROVE  /\ O!NotOlder(x2[t][n].value, IF n = "languages" THEN TTL ELSE 2 * TTL)
             /\ n = "languages" => x2[t][n].value >= x4[t]
  BY <1>1, <1>2, <1>3, <1>4 DEF O!Names
<1>5. QED
  BY <1>4 DEF O!StaleBound

-----------------------------------------------------------------------------
(* The answers of a chat.                                                  *)

\* Sequences with the same first entries, and with the same next ones, make up
\* the sequence that has both.
LEMMA PartsMakeUp ==
  ASSUME NEW V0, NEW f \in Seq(V0), NEW g \in Seq(V0), NEW h \in Seq(V0), NEW n \in Nat,
         Len(f) = n, Len(g) = n, Len(h) = n, NEW a \in 0..n, NEW b \in a..n,
         \A i \in 1..a : f[i] = h[i], \A i \in (a + 1)..b : g[i] = h[i]
  PROVE  SubSeq(f, 1, a) \o SubSeq(g, a + 1, b) = SubSeq(h, 1, b)
<1>1. SubSeq(f, 1, a) = SubSeq(h, 1, a)
  BY SubSeqProperties
<1>2. SubSeq(g, a + 1, b) = SubSeq(h, a + 1, b)
  BY SubSeqProperties
<1>3. SubSeq(h, 1, a) \o SubSeq(h, a + 1, b) = SubSeq(h, 1, b)
  BY ConcatAdjacentSubSeq
<1>4. QED
  BY <1>1, <1>2, <1>3

\* The text of the first events of an answer, but for what was cut.
LEMMA TextOfEvents ==
  ASSUME NEW c, NEW s, s = [e \in C!Events |-> C!Text(e, e \notin c)], NEW n \in 0..NEvents
  PROVE  /\ s \in Seq(C!Texts) /\ Len(s) = NEvents
         /\ \A e \in C!Events : s[e] = C!Text(e, e \notin c)
         /\ SubSeq(s, 1, n) \in Seq(C!Texts)
         /\ n > 0 => SubSeq(s, 1, n) # <<>>
         /\ n = 0 => SubSeq(s, 1, n) = <<>>
         /\ n = NEvents => SubSeq(s, 1, n) = s
<1>1. \A e \in C!Events : C!Text(e, e \notin c) \in C!Texts
  BY DEF C!Text, C!Texts
<1>2. s \in Seq(C!Texts) /\ Len(s) = NEvents /\ \A e \in C!Events : s[e] = C!Text(e, e \notin c)
  BY <1>1, AnswerAssumption DEF C!Events
<1>3. SubSeq(s, 1, n) \in Seq(C!Texts) /\ Len(SubSeq(s, 1, n)) = n
  <2>1. PICK all : all = C!Texts
    OBVIOUS
  <2>2. \A i \in 1..n : s[i] \in all
    BY <1>1, <1>2, <2>1, AnswerAssumption DEF C!Events
  <2>3. QED
    BY <1>2, <2>1, <2>2, SubSeqProperties, AnswerAssumption
<1>4. QED
  BY <1>2, <1>3, SubSeqFull, AnswerAssumption

\* What was seen of an answer is such a text; nothing was cut of all events.
LEMMA SeenText ==
  ASSUME NEW id
  PROVE  /\ C!Seen(id) = [e \in C!Events |-> C!Text(e, e \notin x4[id])]
         /\ x4[id] = {} => C!Seen(id) = C!AllEvents
BY DEF C!Seen, C!AllEvents, C!Text

\* What is held of a chunk, and which of its event's characters, follows from
\* how far the stream has come.
LEMMA HeldText ==
  ASSUME NEW at \in Nat, NEW within \in BOOLEAN
  PROVE  /\ at % 2 = 0 => C!Rest(at, within) = "nothing"
         /\ at % 2 = 1 => C!Rest(at, within) = IF within THEN "damaged" ELSE "half"
         /\ C!Rest(at, within) \in {"nothing", "half", "damaged"}
<1>1. at % 2 \in {0, 1}
  OBVIOUS
<1>2. QED
  BY <1>1 DEF C!Rest

\* A message of another request leaves a request's answers alone.
LEMMA AnswersKept ==
  ASSUME x2 \in Seq(C!Message), NEW other, x3'[other] = x3[other], x4'[other] = x4[other],
         NEW m, m.id # other, x2' = x2 \/ x2' = Append(x2, m)
  PROVE  /\ C!StoredFor(other)' = C!StoredFor(other) /\ (C!IsShown(other) => C!IsShown(other)')
         /\ C!Seen(other)' = C!Seen(other)
<1>0. C!Seen(other)' = C!Seen(other)
  BY DEF C!Seen
<1>1. CASE x2' = x2
  BY <1>0, <1>1 DEF C!StoredFor, C!IsShown
<1>2. CASE x2' = Append(x2, m)
  <2>1. /\ DOMAIN x2' = DOMAIN x2 \cup {Len(x2) + 1}
        /\ \A i \in DOMAIN x2 : x2'[i] = x2[i]
        /\ x2'[Len(x2) + 1] = m
    BY <1>2
  <2>2. C!StoredFor(other)' = C!StoredFor(other)
    BY <2>1 DEF C!StoredFor
  <2>3. QED
    BY <1>0, <2>1, <2>2 DEF C!IsShown
<1>3. QED
  BY <1>0, <1>1, <1>2

LEMMA ChatInit ==
  ASSUME C!Init
  PROVE  C!ChatInv
<1>1. /\ job = [t \in Threads |-> None] /\ \A t \in Threads : ~C!Busy(t)
      /\ requests = 0 /\ x2 = <<>> /\ x3 = [id \in 1..MaxRequests["chat"] |-> 0]
      /\ x4 = [id \in 1..MaxRequests["chat"] |-> {}] /\ x5 = {}
  BY DEF C!Init, C!RequestsInit, C!Busy
<1>2. MaxRequests["chat"] \in Nat /\ C!Second(NEvents) \in Nat
  BY BoundAssumption, AnswerAssumption DEF Focuses, C!Second
<1>3. C!StoredIsShown
  BY <1>1 DEF C!StoredIsShown
<1>4. QED
  BY <1>1, <1>2, <1>3 DEF C!ChatInv, C!JobTable

LEMMA ChatStutter ==
  ASSUME C!ChatInv, UNCHANGED vars
  PROVE  C!ChatInv'
<1>1. UNCHANGED <<job, requests, x1, x2, x3, x4, x5>>
  BY DEF vars
<1>2. \A id : C!StoredFor(id)' = C!StoredFor(id) /\ (C!IsShown(id) => C!IsShown(id)')
             /\ (C!Streaming(id)' <=> C!Streaming(id)) /\ C!Seen(id)' = C!Seen(id)
  BY <1>1 DEF C!StoredFor, C!IsShown, C!Streaming, C!Busy, C!Seen
<1>3. \A work : C!WorkOK(work) => C!WorkOK(work)'
  BY <1>1, <1>2 DEF C!WorkOK
<1>4. C!Message' = C!Message
  BY <1>1 DEF C!Message
<1>5. C!StoredIsShown => C!StoredIsShown'
  BY <1>1, <1>2 DEF C!StoredIsShown
<1>6. QED
  BY <1>1, <1>3, <1>4, <1>5 DEF C!ChatInv, C!JobTable, C!Busy

\* A thread begins a request, goes on with it or ends it, and the messages that
\* it adds are its own.
LEMMA ChatKeeps ==
  ASSUME C!ChatInv, NEW t \in Threads, NEW id, NEW work, NEW m,
         job' = [job EXCEPT ![t] = work],
         requests' \in 0..MaxRequests["chat"], id \in 1..requests',
         \/ requests' = requests /\ C!Busy(t) /\ job[t].id = id
         \/ requests' = requests + 1 /\ id = requests' /\ ~C!Busy(t),
         work # None => work.id = id /\ C!WorkOK(work)',
         x1' = x1, x5' = x5 \/ x5' = x5 \cup {id}, m.id = id,
         x2' \in Seq(C!Message'), x2' = x2 \/ x2' = Append(x2, m),
         x3' \in [1..MaxRequests["chat"] -> 0..C!Second(NEvents)],
         x4' \in [1..MaxRequests["chat"] -> SUBSET C!Events],
         \A other \in 1..MaxRequests["chat"] :
           other # id => x3'[other] = x3[other] /\ x4'[other] = x4[other],
         work = None /\ x1 => IF id \in x5' THEN C!StoredFor(id)' = {} ELSE C!IsShown(id)'
  PROVE  C!ChatInv'
<1>1. C!JobTable' /\ \A u \in Threads : job'[u] = IF u = t THEN work ELSE job[u]
  BY DEF C!ChatInv, C!JobTable
<1>2. /\ requests \in 0..MaxRequests["chat"] /\ requests <= requests' /\ MaxRequests["chat"] \in Nat
      /\ \A n \in 1..requests' : n \in 1..requests \/ n = id
  <2>1. requests \in 0..MaxRequests["chat"] /\ MaxRequests["chat"] \in Nat
    BY BoundAssumption DEF C!ChatInv, Focuses
  <2>2. requests' = requests \/ (requests' = requests + 1 /\ id = requests')
    OBVIOUS
  <2>3. QED
    BY <2>1, <2>2
<1>3. ASSUME NEW other \in 1..requests, other # id
      PROVE  /\ C!StoredFor(other)' = C!StoredFor(other) /\ x3'[other] = x3[other]
             /\ x4'[other] = x4[other] /\ C!Seen(other)' = C!Seen(other)
             /\ C!IsShown(other) => C!IsShown(other)'
  <2>1. x2 \in Seq(C!Message) /\ x3'[other] = x3[other] /\ x4'[other] = x4[other]
    BY <1>2, <1>3 DEF C!ChatInv
  <2>2. QED
    BY <1>3, <2>1, AnswersKept
<1>4. ASSUME NEW u \in Threads, u # t, C!Busy(u)
      PROVE  /\ job'[u] = job[u] /\ C!WorkOK(job[u]) /\ job[u].id # id /\ job[u].id \in 1..requests
             /\ job[u].id \notin x5'
  <2>1. job'[u] = job[u] /\ C!WorkOK(job[u])
    BY <1>1, <1>4 DEF C!ChatInv
  <2>2. job[u].id \in 1..requests /\ job[u].id \notin x5
    BY <2>1 DEF C!WorkOK
  <2>3. job[u].id # id
    BY <1>2, <1>4, <2>2 DEF C!ChatInv
  <2>4. QED
    BY <2>1, <2>2, <2>3
<1>5. ASSUME NEW u \in Threads, C!Busy(u)'
      PROVE  C!WorkOK(job[u])' /\ (u # t => job'[u].id # id /\ C!Busy(u)) /\ (u = t => job'[u].id = id)
  <2>1. CASE u = t
    <3>1. job'[u] = work /\ work # None
      BY <1>1, <1>5, <2>1 DEF C!Busy
    <3>2. C!WorkOK(work)' /\ work.id = id
      BY <3>1
    <3>3. QED
      BY <2>1, <3>1, <3>2 DEF C!WorkOK
  <2>2. CASE u # t
    <3>1. C!Busy(u) /\ job'[u] = job[u]
      BY <1>1, <1>5, <2>2 DEF C!Busy
    <3>2. PICK other : other = job[u]
      OBVIOUS
    <3>3. /\ C!WorkOK(other) /\ other.id # id /\ other.id \in 1..requests /\ other.id \in 1..requests'
          /\ C!StoredFor(other.id)' = C!StoredFor(other.id) /\ x3'[other.id] = x3[other.id]
          /\ x4'[other.id] = x4[other.id] /\ C!Seen(other.id)' = C!Seen(other.id)
          /\ other.id \notin x5'
      BY <1>2, <1>3, <1>4, <2>2, <3>1, <3>2
    <3>4. C!WorkOK(other)'
      BY <3>3 DEF C!WorkOK
    <3>5. QED
      BY <2>2, <3>1, <3>2, <3>3, <3>4 DEF C!WorkOK
  <2>3. QED
    BY <2>1, <2>2
<1>6. ASSUME NEW u \in Threads, NEW v \in Threads, C!Busy(u)', C!Busy(v)', u # v
      PROVE  job'[u].id # job'[v].id
  <2>1. CASE u = t \/ v = t
    BY <1>5, <1>6, <2>1
  <2>2. CASE u # t /\ v # t
    <3>1. C!Busy(u) /\ C!Busy(v) /\ job'[u] = job[u] /\ job'[v] = job[v]
      BY <1>4, <1>5, <1>6, <2>2
    <3>2. QED
      BY <1>6, <3>1 DEF C!ChatInv
  <2>3. QED
    BY <2>1, <2>2
<1>7. /\ \A n \in 1..MaxRequests["chat"] : requests' < n => x3'[n] = 0 /\ x4'[n] = {}
      /\ x5' \subseteq 1..requests'
  <2>1. ASSUME NEW n \in 1..MaxRequests["chat"], requests' < n PROVE x3'[n] = 0 /\ x4'[n] = {}
    <3>1. requests < n /\ n # id
      BY <1>2, <2>1
    <3>2. QED
      BY <2>1, <3>1 DEF C!ChatInv
  <2>2. x5 \subseteq 1..requests /\ 1..requests \subseteq 1..requests'
    BY <1>2 DEF C!ChatInv
  <2>3. QED
    BY <2>1, <2>2
<1>8. C!StoredIsShown'
  <2>1. SUFFICES ASSUME x1', NEW n \in 1..requests', ~C!Streaming(n)'
                 PROVE  IF n \in x5' THEN C!StoredFor(n)' = {} ELSE C!IsShown(n)'
    BY DEF C!StoredIsShown
  <2>2. CASE n = id
    <3>1. work = None
      BY <1>1, <2>1, <2>2 DEF C!Streaming, C!Busy
    <3>2. QED
      BY <2>1, <2>2, <3>1
  <2>3. CASE n # id
    <3>1. n \in 1..requests /\ (n \in x5' <=> n \in x5)
      BY <1>2, <2>1, <2>3
    <3>2. ~C!Streaming(n)
      <4>1. SUFFICES ASSUME NEW u \in Threads, C!Busy(u), job[u].id = n
                     PROVE  FALSE
        BY DEF C!Streaming
      <4>2. u # t
        BY <1>2, <2>3, <4>1
      <4>3. job'[u] = job[u] /\ C!Busy(u)'
        BY <1>1, <4>1, <4>2 DEF C!Busy
      <4>4. QED
        BY <2>1, <4>1, <4>3 DEF C!Streaming
    <3>3. IF n \in x5 THEN C!StoredFor(n) = {} ELSE C!IsShown(n)
      BY <2>1, <3>1, <3>2 DEF C!ChatInv, C!StoredIsShown
    <3>4. QED
      BY <1>3, <2>3, <3>1, <3>3
  <2>4. QED
    BY <2>2, <2>3
<1>9. QED
  BY <1>1, <1>5, <1>6, <1>7, <1>8 DEF C!ChatInv

LEMMA ChatStep ==
  ASSUME NoneIsNoRecord, C!ChatInv, C!Next
  PROVE  C!ChatInv'
<1> DEFINE Bound == MaxRequests["chat"]
<1>1. /\ requests \in 0..Bound /\ Bound \in Nat /\ NEvents \in Nat /\ NEvents > 0
      /\ x2 \in Seq(C!Message) /\ x3 \in [1..Bound -> 0..C!Second(NEvents)]
      /\ C!Second(NEvents) = 2 * NEvents /\ x4 \in [1..Bound -> SUBSET C!Events]
      /\ x5 \subseteq 1..requests
      /\ \A n \in 1..Bound : requests < n => x3[n] = 0 /\ x4[n] = {}
  BY SMTT(60), BoundAssumption, AnswerAssumption DEF C!ChatInv, Focuses, C!Second
<1>2. ASSUME NEW t \in Threads, C!Busy(t)
      PROVE  /\ C!WorkOK(job[t]) /\ C!StoredFor(job[t].id) = {}
             /\ job[t].id \in 1..requests /\ job[t].id \in 1..Bound
             /\ x3[job[t].id] \in 0..(2 * NEvents) /\ job[t].id \notin x5
             /\ x4[job[t].id] \in SUBSET C!Events
  <2>1. C!WorkOK(job[t])
    BY <1>2 DEF C!ChatInv
  <2>2. C!StoredFor(job[t].id) = {} /\ job[t].id \in 1..requests /\ job[t].id \notin x5
    BY <2>1 DEF C!WorkOK
  <2>3. job[t].id \in 1..Bound
    BY <1>1, <2>2
  <2>4. QED
    BY <1>1, <2>1, <2>2, <2>3
<1>3. ASSUME UNCHANGED <<requests, x2>>, NEW id, x3' = x3 \/ C!StoredFor(id) = {}
      PROVE  /\ C!StoredFor(id)' = C!StoredFor(id) /\ x2' \in Seq(C!Message')
             /\ C!StoredFor(id) = {} /\ x3'[id] \in Nat /\ x3'[id] < 2 => C!IsShown(id)'
  <2>1. C!StoredFor(id)' = C!StoredFor(id) /\ x2' \in Seq(C!Message')
    BY <1>1, <1>3 DEF C!StoredFor, C!Message
  <2>2. ASSUME C!StoredFor(id) = {}, x3'[id] \in Nat, x3'[id] < 2
        PROVE  C!IsShown(id)'
    <3>1. x3'[id] \div 2 = 0
      BY <2>2
    <3>2. QED
      BY <2>1, <2>2, <3>1 DEF C!IsShown
  <2>3. QED
    BY <2>1, <2>2
<1>4. ASSUME NEW t \in Threads, C!Post(t) PROVE C!ChatInv'
  <2>1. PICK id : id = requests'
    OBVIOUS
  <2>2. PICK work : work = [kind |-> "question", id |-> id]
    OBVIOUS
  <2>3. /\ ~C!Busy(t) /\ requests < Bound /\ requests' = requests + 1
        /\ job' = [job EXCEPT ![t] = work] /\ UNCHANGED <<x1, x2, x3, x4, x5>>
    BY <1>4, <2>1, <2>2 DEF C!Post, C!Begin, C!Arrive, C!chatVars
  <2>4. C!Message \subseteq C!Message'
    BY <1>1, <2>3 DEF C!Message
  <2>5. x2' \in Seq(C!Message')
    BY <1>1, <2>3, <2>4
  <2>6. /\ id \in 1..requests' /\ id \in 1..Bound /\ x3'[id] = 0 /\ x4'[id] = {}
        /\ id \notin 1..requests /\ id \notin x5'
    BY <1>1, <2>1, <2>3
  <2>7. C!StoredFor(id)' = {}
    <3>1. \A i \in DOMAIN x2 : x2[i].id \in 1..requests
      <4>1. \A i \in DOMAIN x2 : x2[i] \in C!Message
        BY <1>1
      <4>2. QED
        BY <4>1 DEF C!Message
    <3>2. QED
      BY <2>3, <2>6, <3>1 DEF C!StoredFor
  <2>8. C!WorkOK(work)' /\ work.id = id /\ work # None
    <3>1. work.id = id /\ work.kind = "question"
      BY <2>2
    <3>2. work # None
      BY <2>2 DEF NoneIsNoRecord
    <3>3. QED
      BY <2>6, <2>7, <3>1, <3>2 DEF C!WorkOK
  <2>9. requests' \in 0..Bound
    BY <1>1, <2>3
  <2>10. QED
    BY <1>1, <2>1, <2>3, <2>5, <2>6, <2>8, <2>9, ChatKeeps
<1>5. ASSUME NEW t \in Threads, C!StoreQuestion(t) PROVE C!ChatInv'
  <2>1. PICK id : id = job[t].id
    OBVIOUS
  <2>2. PICK question : question = C!Question(id)
    OBVIOUS
  <2>3. PICK work : work = [kind |-> "gateway", id |-> id]
    OBVIOUS
  <2>4. /\ C!Busy(t) /\ job[t].kind = "question" /\ UNCHANGED <<requests, x1, x3, x4, x5>>
        /\ \/ job' = [job EXCEPT ![t] = work] /\ x2' = Append(x2, question)
           \/ job' = [job EXCEPT ![t] = None] /\ x2' = x2 /\ ~x1
    BY <1>5, <2>1, <2>2, <2>3 DEF C!StoreQuestion, C!Doing, C!Continue, C!Respond
  <2>5. C!StoredFor(id) = {} /\ x3[id] = 0 /\ x4[id] = {} /\ id \in 1..requests /\ id \notin x5
    BY <1>2, <2>1, <2>4 DEF C!WorkOK
  <2>6. question \in C!Message /\ question.id = id /\ question.role = "user"
    BY <1>1, <2>2, <2>5 DEF C!Question, C!Message
  <2>7. C!Message' = C!Message /\ x2' \in Seq(C!Message')
    <3>1. C!Message' = C!Message
      BY <2>4 DEF C!Message
    <3>2. PICK all : all = C!Message
      OBVIOUS
    <3>3. x2 \in Seq(all) /\ question \in all
      BY <1>1, <2>6, <3>2
    <3>4. Append(x2, question) \in Seq(all)
      BY <3>3, AppendProperties
    <3>5. QED
      BY <2>4, <3>1, <3>2, <3>3, <3>4
  <2>8. C!StoredFor(id)' = {}
    <3>1. CASE x2' = Append(x2, question)
      <4>1. /\ DOMAIN x2' = DOMAIN x2 \cup {Len(x2) + 1}
            /\ \A i \in DOMAIN x2 : x2'[i] = x2[i]
            /\ x2'[Len(x2) + 1] = question
        BY <1>1, <3>1
      <4>2. QED
        BY <2>5, <2>6, <4>1 DEF C!StoredFor
    <3>2. QED
      BY <2>4, <2>5, <3>1 DEF C!StoredFor
  <2>9. C!WorkOK(work)' /\ work.id = id /\ work # None
    <3>1. work.id = id /\ work.kind = "gateway"
      BY <2>3
    <3>2. work # None
      BY <2>3 DEF NoneIsNoRecord
    <3>3. QED
      BY <2>4, <2>5, <2>8, <3>1, <3>2 DEF C!WorkOK
  <2>10. QED
    BY ZenonT(60), <1>1, <2>1, <2>4, <2>5, <2>6, <2>7, <2>9, ChatKeeps
<1>6. ASSUME NEW t \in Threads, C!AskGateway(t) PROVE C!ChatInv'
  <2>1. PICK id : id = job[t].id
    OBVIOUS
  <2>2. PICK stream : stream = [kind |-> "stream", id |-> id, at |-> 0, held |-> "nothing", text |-> <<>>]
    OBVIOUS
  <2>3. PICK store : store = [kind |-> "store", id |-> id, text |-> C!AllEvents]
    OBVIOUS
  <2>4. PICK question : question = C!Question(id)
    OBVIOUS
  <2>5. /\ C!Busy(t) /\ job[t].kind = "gateway" /\ UNCHANGED <<requests, x1, x2, x4, x5>>
        /\ \/ job' = [job EXCEPT ![t] = stream] /\ x3' = x3
           \/ job' = [job EXCEPT ![t] = store] /\ x3' = [x3 EXCEPT ![id] = 2 * NEvents]
           \/ job' = [job EXCEPT ![t] = None] /\ x3' = x3
    BY <1>1, <1>6, <2>1, <2>2, <2>3 DEF C!AskGateway, C!Doing, C!Continue, C!Respond
  <2>6. /\ C!StoredFor(id) = {} /\ x3[id] = 0 /\ x4[id] = {} /\ id \notin x5
        /\ id \in 1..requests /\ id \in 1..Bound
    <3>1. x3[job[t].id] = 0 /\ x4[job[t].id] = {}
      BY <1>2, <2>5 DEF C!WorkOK
    <3>2. QED
      BY <1>2, <2>1, <2>5, <3>1
  <2>7. C!StoredFor(id)' = {} /\ x2' \in Seq(C!Message') /\ question.id = id
    BY <1>3, <2>4, <2>5, <2>6 DEF C!Question
  <2>8. CASE job' = [job EXCEPT ![t] = stream] /\ x3' = x3
    <3>1. /\ stream.id = id /\ stream.kind = "stream" /\ stream.at = 0 /\ stream.held = "nothing"
          /\ stream.text = <<>>
      BY <2>2
    <3>2. stream # None
      BY <2>2 DEF NoneIsNoRecord
    <3>3. stream \in [kind : {"stream"}, id : Nat, at : Nat,
                      held : {"nothing", "half", "damaged"}, text : Seq(C!Texts)]
      BY <2>2, <2>6
    <3>4. /\ stream.held = C!Rest(stream.at, (stream.at \div 2) + 1 \in x4'[id])
          /\ stream.text = SubSeq(C!Seen(id)', 1, stream.at \div 2)
      <4>1. stream.at \div 2 = 0 /\ stream.at % 2 = 0 /\ stream.at \in Nat
        BY <3>1
      <4>2. PICK seen : seen = C!Seen(id)'
        OBVIOUS
      <4>3. seen = [e \in C!Events |-> C!Text(e, e \notin x4'[id])]
        BY <4>2, SeenText DEF C!Seen
      <4>4. 0 \in 0..NEvents
        BY <1>1
      <4>5. SubSeq(seen, 1, 0) = <<>>
        BY <4>3, <4>4, TextOfEvents
      <4>6. QED
        BY <3>1, <4>1, <4>2, <4>5 DEF C!Rest
    <3>5. C!WorkOK(stream)'
      BY <2>5, <2>6, <2>7, <2>8, <3>1, <3>3, <3>4 DEF C!WorkOK
    <3>6. QED
      BY <1>1, <2>1, <2>5, <2>6, <2>7, <2>8, <3>1, <3>2, <3>5, ChatKeeps
  <2>9. CASE job' = [job EXCEPT ![t] = store] /\ x3' = [x3 EXCEPT ![id] = 2 * NEvents]
    <3>1. store.id = id /\ store.kind = "store" /\ store.text = C!AllEvents
      BY <2>3
    <3>2. store # None
      BY <2>3 DEF NoneIsNoRecord
    <3>3. /\ x3' \in [1..Bound -> 0..C!Second(NEvents)] /\ x3'[id] = 2 * NEvents
          /\ \A other \in 1..Bound : other # id => x3'[other] = x3[other]
      BY <1>1, <2>6, <2>9
    <3>4. x3'[id] \div 2 = NEvents
      BY <1>1, <3>3
    <3>5. store.text = SubSeq(C!Seen(id)', 1, x3'[id] \div 2)
      <4>1. PICK seen : seen = C!Seen(id)'
        OBVIOUS
      <4>2. seen = [e \in C!Events |-> C!Text(e, e \notin x4'[id])] /\ x4'[id] = {}
        BY <2>5, <2>6, <4>1, SeenText DEF C!Seen
      <4>3. seen = C!AllEvents
        BY <4>2 DEF C!AllEvents, C!Text
      <4>4. NEvents \in 0..NEvents
        BY <1>1
      <4>5. SubSeq(seen, 1, NEvents) = seen
        BY <4>2, <4>4, TextOfEvents
      <4>6. QED
        BY <3>1, <3>4, <4>1, <4>3, <4>5
    <3>6. C!WorkOK(store)'
      BY <1>1, <2>5, <2>6, <2>7, <3>1, <3>4, <3>5 DEF C!WorkOK
    <3>7. QED
      BY <1>1, <2>1, <2>5, <2>6, <2>7, <2>9, <3>1, <3>2, <3>3, <3>6, ChatKeeps
  <2>10. CASE job' = [job EXCEPT ![t] = None] /\ x3' = x3
    <3>1. C!IsShown(id)'
      BY <1>3, <2>5, <2>6, <2>10
    <3>2. QED
      BY <1>1, <2>1, <2>5, <2>6, <2>7, <2>10, <3>1, ChatKeeps
  <2>11. QED
    BY <2>5, <2>8, <2>9, <2>10
<1>7. ASSUME NEW t \in Threads, NEW to \in 1..C!Second(NEvents), NEW within \in BOOLEAN,
             C!Chunk(t, to, within)
      PROVE  C!ChatInv'
  <2>1. PICK id, old : id = old.id /\ old = job[t]
    OBVIOUS
  <2>2. PICK question : question = C!Question(id)
    OBVIOUS
  <2>3. PICK a, b : a = old.at \div 2 /\ b = to \div 2
    OBVIOUS
  <2>4. PICK lost : lost = IF within THEN {b + 1} ELSE {}
    OBVIOUS
  <2>5. PICK work : work = [old EXCEPT !.at = to, !.held = C!Rest(to, within),
                                       !.text = @ \o C!Lines(old.held, old.at, to)]
    OBVIOUS
  <2>6. /\ C!Busy(t) /\ old.kind = "stream" /\ to \in (old.at + 1)..(2 * NEvents)
        /\ UNCHANGED <<requests, x1, x2, x5>> /\ (within => to % 2 = 1)
        /\ job' = [job EXCEPT ![t] = work] /\ x3' = [x3 EXCEPT ![id] = to]
        /\ x4' = [x4 EXCEPT ![id] = @ \cup lost]
    BY <1>1, <1>7, <2>1, <2>3, <2>4, <2>5 DEF C!Chunk, C!Doing, C!Continue
  <2>7. /\ C!StoredFor(id) = {} /\ id \in 1..requests /\ id \in 1..Bound /\ old.at = x3[id]
        /\ old \in [kind : {"stream"}, id : Nat, at : Nat,
                    held : {"nothing", "half", "damaged"}, text : Seq(C!Texts)]
        /\ old.held = C!Rest(old.at, a + 1 \in x4[id])
        /\ old.text = SubSeq(C!Seen(id), 1, a)
        /\ id \notin x5 /\ x4[id] \in SUBSET C!Events
        /\ \A e \in x4[id] : 2 * e <= old.at + 1
    <3>1. /\ C!WorkOK(old) /\ C!StoredFor(id) = {} /\ id \in 1..requests /\ id \in 1..Bound
          /\ id \notin x5 /\ x4[id] \in SUBSET C!Events
      BY <1>2, <2>1, <2>6
    <3>2. QED
      BY <2>1, <2>3, <2>6, <3>1 DEF C!WorkOK
  <2>8. C!StoredFor(id)' = {} /\ x2' \in Seq(C!Message') /\ question.id = id
    BY <1>3, <2>2, <2>6, <2>7 DEF C!Question
  <2>9. /\ a \in 0..NEvents /\ b \in a..NEvents /\ b \in 0..NEvents /\ to \in Nat /\ old.at \in Nat
        /\ old.at < to /\ old.at \in {2 * a, 2 * a + 1} /\ to \in {2 * b, 2 * b + 1}
        /\ (old.at % 2 = 0 <=> old.at = 2 * a) /\ (old.at % 2 = 1 <=> old.at = 2 * a + 1)
        /\ (to % 2 = 0 <=> to = 2 * b) /\ (to % 2 = 1 <=> to = 2 * b + 1)
    <3>1. old.at \in Nat /\ to \in Nat /\ old.at < to /\ to <= 2 * NEvents
      BY <1>1, <2>6, <2>7
    <3>2. \A n \in Nat : /\ n \div 2 \in Nat /\ n \in {2 * (n \div 2), 2 * (n \div 2) + 1}
                        /\ (n % 2 = 0 <=> n = 2 * (n \div 2)) /\ (n % 2 = 1 <=> n = 2 * (n \div 2) + 1)
      OBVIOUS
    <3>3. /\ a \in Nat /\ b \in Nat
          /\ old.at \in {2 * a, 2 * a + 1} /\ to \in {2 * b, 2 * b + 1}
          /\ (old.at % 2 = 0 <=> old.at = 2 * a) /\ (old.at % 2 = 1 <=> old.at = 2 * a + 1)
          /\ (to % 2 = 0 <=> to = 2 * b) /\ (to % 2 = 1 <=> to = 2 * b + 1)
      BY <2>3, <3>1, <3>2
    <3>4. NEvents \in Nat
      BY <1>1
    <3>5. a <= b /\ b <= NEvents
      BY <3>1, <3>3, <3>4
    <3>6. QED
      BY <3>1, <3>3, <3>4, <3>5
  <2>10. /\ lost \in SUBSET C!Events /\ \A e \in lost : 2 * e <= to + 1 /\ e = b + 1
         /\ within => to = 2 * b + 1
    <3>1. CASE within
      <4>1. to = 2 * b + 1 /\ to <= 2 * NEvents
        BY <1>1, <2>6, <2>9, <3>1
      <4>2. b + 1 \in 1..NEvents
        BY <1>1, <2>9, <4>1
      <4>3. QED
        BY <2>4, <2>9, <3>1, <4>1, <4>2 DEF C!Events
    <3>2. CASE ~within
      BY <2>4, <3>2
    <3>3. QED
      BY <3>1, <3>2
  <2>11. /\ x3' \in [1..Bound -> 0..C!Second(NEvents)] /\ x3'[id] = to
         /\ x4' \in [1..Bound -> SUBSET C!Events] /\ x4'[id] = x4[id] \cup lost
         /\ \A other \in 1..Bound : other # id => x3'[other] = x3[other] /\ x4'[other] = x4[other]
    <3>1. to \in 0..C!Second(NEvents)
      BY <1>1, <2>6, <2>9
    <3>2. x4[id] \cup lost \in SUBSET C!Events
      BY <2>7, <2>10
    <3>3. QED
      BY <1>1, <2>6, <2>7, <3>1, <3>2
  \* The event in which the chunk begins is whole unless it was cut before.
  <2>12. /\ \A e \in 1..a : e \in x4'[id] <=> e \in x4[id]
         /\ a + 1 <= b => (a + 1 \in x4'[id] <=> old.held = "damaged")
         /\ \A e \in (a + 2)..b : e \notin x4'[id]
         /\ \A e \in x4'[id] : 2 * e <= to + 1
         /\ old.at % 2 = 1 => old.held # "nothing"
         /\ C!Rest(to, within) = C!Rest(to, b + 1 \in x4'[id])
    <3>1. \A e \in x4[id] : e \in 1..NEvents /\ 2 * e <= old.at + 1
      BY <2>7 DEF C!Events
    <3>2. \A e \in x4'[id] : e \in x4[id] \/ (e \in lost /\ e = b + 1 /\ 2 * e <= to + 1)
      BY <2>10, <2>11
    <3>3. \A e \in 1..a : e \in x4'[id] <=> e \in x4[id]
      BY <2>9, <2>11, <3>2
    <3>4. \A e \in x4'[id] : 2 * e <= to + 1
      <4>1. SUFFICES ASSUME NEW e \in x4[id] PROVE 2 * e <= to + 1
        BY <3>2
      <4>2. e \in Nat /\ 2 * e <= old.at + 1
        BY <3>1
      <4>3. QED
        BY <2>9, <4>2
    <3>5. \A e \in (a + 2)..b : e \notin x4'[id]
      <4>1. SUFFICES ASSUME NEW e \in (a + 2)..b, e \in x4[id] PROVE FALSE
        BY <2>9, <3>2
      <4>2. e \in Nat /\ 2 * e <= old.at + 1 /\ a + 2 <= e
        BY <2>9, <3>1, <4>1
      <4>3. QED
        BY <2>9, <4>2
    <3>6. old.held = "damaged" <=> old.at = 2 * a + 1 /\ a + 1 \in x4[id]
      <4>1. (a + 1 \in x4[id]) \in BOOLEAN
        OBVIOUS
      <4>2. CASE old.at = 2 * a
        <5>1. old.held = "nothing" /\ old.at # 2 * a + 1
          BY <2>7, <2>9, <4>1, <4>2, HeldText
        <5>2. QED
          BY <5>1
      <4>3. CASE old.at = 2 * a + 1
        <5>1. old.held = IF a + 1 \in x4[id] THEN "damaged" ELSE "half"
          BY <2>7, <2>9, <4>1, <4>3, HeldText
        <5>2. QED
          BY <4>3, <5>1
      <4>4. QED
        BY <2>9, <4>2, <4>3
    <3>7. a + 1 \in x4[id] => old.at = 2 * a + 1
      <4>1. SUFFICES ASSUME a + 1 \in x4[id] PROVE old.at = 2 * a + 1
        OBVIOUS
      <4>2. 2 * (a + 1) <= old.at + 1
        BY <3>1, <4>1
      <4>3. QED
        BY <2>9, <4>2
    <3>8. a + 1 <= b => (a + 1 \in x4'[id] <=> old.held = "damaged")
      <4>1. SUFFICES ASSUME a + 1 <= b PROVE a + 1 \in x4'[id] <=> a + 1 \in x4[id]
        BY <3>6, <3>7
      <4>2. a + 1 # b + 1
        BY <2>9, <4>1
      <4>3. QED
        BY <2>11, <3>2, <4>2
    <3>9. old.at % 2 = 1 => old.held # "nothing"
      <4>1. (a + 1 \in x4[id]) \in BOOLEAN
        OBVIOUS
      <4>2. QED
        BY <2>7, <2>9, <4>1, HeldText
    <3>10. C!Rest(to, within) = C!Rest(to, b + 1 \in x4'[id])
      <4>1. CASE to % 2 = 0
        BY <4>1 DEF C!Rest
      <4>2. CASE to = 2 * b + 1
        <5>1. b + 1 \notin x4[id]
          <6>1. SUFFICES ASSUME b + 1 \in x4[id] PROVE FALSE
            OBVIOUS
          <6>2. 2 * (b + 1) <= old.at + 1
            BY <3>1, <6>1
          <6>3. QED
            BY <2>9, <4>2, <6>2
        <5>2. b + 1 \in x4'[id] <=> within
          BY <2>4, <2>11, <5>1
        <5>3. QED
          BY <5>2 DEF C!Rest
      <4>3. QED
        BY <2>9, <4>1, <4>2
    <3>11. QED
      BY <3>3, <3>4, <3>5, <3>8, <3>9, <3>10
  <2>13. PICK seen, all, next : /\ seen = C!Seen(id) /\ next = C!Seen(id)'
                              /\ all = [e \in C!Events |-> C!Text(e, ~(old.held = "damaged" /\ e = a + 1))]
    OBVIOUS
  <2>14. /\ seen \in Seq(C!Texts) /\ Len(seen) = NEvents
         /\ \A e \in C!Events : seen[e] = C!Text(e, e \notin x4[id])
    <3>1. seen = [e \in C!Events |-> C!Text(e, e \notin x4[id])] /\ 0 \in 0..NEvents
      BY <1>1, <2>13, SeenText
    <3>2. QED
      BY <3>1, TextOfEvents
  <2>15. /\ next \in Seq(C!Texts) /\ Len(next) = NEvents
         /\ \A e \in C!Events : next[e] = C!Text(e, e \notin x4'[id])
         /\ SubSeq(next, 1, b) \in Seq(C!Texts)
    <3>1. next = [e \in C!Events |-> C!Text(e, e \notin x4'[id])]
      BY <2>13 DEF C!Seen
    <3>2. QED
      BY <2>9, <3>1, TextOfEvents
  <2>16. /\ all \in Seq(C!Texts) /\ Len(all) = NEvents
         /\ \A e \in C!Events : all[e] = C!Text(e, ~(old.held = "damaged" /\ e = a + 1))
    <3>1. PICK c : c = IF old.held = "damaged" THEN {a + 1} ELSE {}
      OBVIOUS
    <3>2. all = [e \in C!Events |-> C!Text(e, e \notin c)] /\ 0 \in 0..NEvents
      BY <1>1, <2>13, <3>1
    <3>3. /\ all \in Seq(C!Texts) /\ Len(all) = NEvents
          /\ \A e \in C!Events : all[e] = C!Text(e, e \notin c)
      BY <3>2, TextOfEvents
    <3>4. QED
      BY <3>1, <3>3
  <2>17. C!Lines(old.held, old.at, to) = SubSeq(all, a + 1, b)
    BY <2>3, <2>12, <2>13 DEF C!Lines
  <2>18. old.text \o C!Lines(old.held, old.at, to) = SubSeq(next, 1, b)
    <3>1. \A e \in 1..a : seen[e] = next[e]
      <4>1. SUFFICES ASSUME NEW e \in 1..a PROVE seen[e] = next[e]
        OBVIOUS
      <4>2. e \in C!Events
        BY <1>1, <2>9 DEF C!Events
      <4>3. (e \notin x4'[id]) = (e \notin x4[id])
        BY <2>12, <4>1
      <4>4. QED
        BY <2>14, <2>15, <4>2, <4>3
    <3>2. \A e \in (a + 1)..b : all[e] = next[e]
      <4>1. SUFFICES ASSUME NEW e \in (a + 1)..b PROVE all[e] = next[e]
        OBVIOUS
      <4>2. e \in C!Events /\ (e = a + 1 \/ e \in (a + 2)..b) /\ a + 1 <= b
        BY <1>1, <2>9 DEF C!Events
      <4>3. e \in x4'[id] <=> old.held = "damaged" /\ e = a + 1
        BY <2>9, <2>12, <4>2
      <4>4. (e \notin x4'[id]) = ~(old.held = "damaged" /\ e = a + 1)
        BY <4>3
      <4>5. QED
        BY <2>15, <2>16, <4>2, <4>4
    <3>3. PICK texts : texts = C!Texts
      OBVIOUS
    <3>4. /\ seen \in Seq(texts) /\ all \in Seq(texts) /\ next \in Seq(texts)
          /\ Len(seen) = NEvents /\ Len(all) = NEvents /\ Len(next) = NEvents
      BY <2>14, <2>15, <2>16, <3>3
    <3>5. NEvents \in Nat /\ a \in 0..NEvents /\ b \in a..NEvents
      BY <1>1, <2>9
    <3>6. SubSeq(seen, 1, a) \o SubSeq(all, a + 1, b) = SubSeq(next, 1, b)
      BY <3>1, <3>2, <3>4, <3>5, PartsMakeUp
    <3>7. QED
      BY <2>7, <2>13, <2>17, <3>6
  <2>19. work = [old EXCEPT !.at = to, !.held = C!Rest(to, within), !.text = SubSeq(next, 1, b)]
    BY <2>5, <2>18
  <2>20. /\ work \in [kind : {"stream"}, id : Nat, at : Nat,
                      held : {"nothing", "half", "damaged"}, text : Seq(C!Texts)]
         /\ work.kind = "stream" /\ work.id = id /\ work.at = to /\ work.held = C!Rest(to, within)
         /\ work.text = SubSeq(next, 1, b)
    <3>1. C!Rest(to, within) \in {"nothing", "half", "damaged"}
      BY <2>9, HeldText
    <3>2. QED
      BY <2>1, <2>7, <2>9, <2>15, <2>19, <3>1
  <2>21. work # None
    BY <2>20 DEF NoneIsNoRecord
  <2>22. C!WorkOK(work)'
    <3>1. /\ work.held = C!Rest(work.at, (work.at \div 2) + 1 \in x4'[id])
          /\ work.text = SubSeq(C!Seen(id)', 1, work.at \div 2)
          /\ work.at = x3'[id] /\ \A e \in x4'[id] : 2 * e <= work.at + 1
      BY <2>3, <2>11, <2>12, <2>13, <2>20
    <3>2. QED
      BY <2>6, <2>7, <2>8, <2>20, <3>1 DEF C!WorkOK
  <2>23. QED
    BY ZenonT(60), <1>1, <2>1, <2>6, <2>7, <2>8, <2>11, <2>20, <2>21, <2>22, ChatKeeps
<1>8. ASSUME NEW t \in Threads, C!EndStream(t) PROVE C!ChatInv'
  <2>1. PICK id, old : id = old.id /\ old = job[t]
    OBVIOUS
  <2>2. PICK question : question = C!Question(id)
    OBVIOUS
  <2>3. PICK work : work = [kind |-> "store", id |-> id, text |-> old.text]
    OBVIOUS
  <2>4. /\ C!Busy(t) /\ old.kind = "stream" /\ UNCHANGED <<requests, x1, x2, x3, x4, x5>>
        /\ \/ old.text # <<>> /\ job' = [job EXCEPT ![t] = work]
           \/ old.text = <<>> /\ job' = [job EXCEPT ![t] = None]
    BY <1>8, <2>1, <2>3 DEF C!EndStream, C!Doing, C!Continue, C!Respond, C!chatVars
  <2>5. /\ C!StoredFor(id) = {} /\ id \in 1..requests /\ id \in 1..Bound /\ old.at = x3[id]
        /\ x3[id] \in 0..(2 * NEvents) /\ old.text = SubSeq(C!Seen(id), 1, x3[id] \div 2)
        /\ id \notin x5
    <3>1. /\ C!WorkOK(old) /\ C!StoredFor(id) = {} /\ id \in 1..requests /\ id \in 1..Bound
          /\ x3[id] \in 0..(2 * NEvents) /\ id \notin x5
      BY <1>2, <2>1, <2>4
    <3>2. QED
      BY <2>1, <2>4, <3>1 DEF C!WorkOK
  <2>6. C!StoredFor(id)' = {} /\ x2' \in Seq(C!Message') /\ question.id = id
    BY <1>3, <2>2, <2>4, <2>5 DEF C!Question
  <2>7. PICK n : n = x3[id] \div 2
    OBVIOUS
  <2>8. n \in 0..NEvents
    BY <1>1, <2>5, <2>7
  <2>9. (old.text # <<>> => n > 0) /\ (old.text = <<>> => n = 0)
    <3>1. PICK seen : seen = C!Seen(id)
      OBVIOUS
    <3>2. seen = [e \in C!Events |-> C!Text(e, e \notin x4[id])]
      BY <3>1, SeenText
    <3>3. (n > 0 => SubSeq(seen, 1, n) # <<>>) /\ (n = 0 => SubSeq(seen, 1, n) = <<>>)
      BY <2>8, <3>2, TextOfEvents
    <3>4. QED
      BY <2>5, <2>7, <2>8, <3>1, <3>3
  <2>10. CASE old.text # <<>>
    <3>1. work.id = id /\ work.kind = "store" /\ work.text = old.text
      BY <2>3
    <3>2. work # None
      BY <2>3 DEF NoneIsNoRecord
    <3>3. C!WorkOK(work)'
      BY <2>4, <2>5, <2>6, <2>7, <2>9, <2>10, <3>1 DEF C!WorkOK, C!Seen
    <3>4. QED
      BY SMTT(60), <1>1, <2>1, <2>4, <2>5, <2>6, <2>10, <3>1, <3>2, <3>3, ChatKeeps
  <2>11. CASE old.text = <<>>
    <3>1. C!IsShown(id)'
      BY <2>4, <2>6, <2>7, <2>9, <2>11 DEF C!IsShown
    <3>2. QED
      BY <1>1, <2>1, <2>4, <2>5, <2>6, <2>11, <3>1, ChatKeeps
  <2>12. QED
    BY <2>10, <2>11
<1>9. ASSUME NEW t \in Threads, C!StoreAnswer(t) PROVE C!ChatInv'
  <2>1. PICK id, old : id = old.id /\ old = job[t]
    OBVIOUS
  <2>2. PICK answer : answer = C!Answer(id, old.text)
    OBVIOUS
  <2>3. /\ C!Busy(t) /\ old.kind = "store" /\ UNCHANGED <<requests, x1, x3, x4>>
        /\ \/ x2' = (IF x1 THEN Append(x2, answer) ELSE x2) /\ x5' = x5
           \/ x2' = x2 /\ x5' = x5 \cup {id}
        /\ job' = [job EXCEPT ![t] = None]
    BY <1>9, <2>1, <2>2 DEF C!StoreAnswer, C!Doing, C!Continue, C!Respond
  <2>4. /\ C!StoredFor(id) = {} /\ id \in 1..requests /\ id \in 1..Bound /\ x3[id] \div 2 > 0
        /\ x3[id] \in 0..(2 * NEvents) /\ old.text = SubSeq(C!Seen(id), 1, x3[id] \div 2)
        /\ id \notin x5
    <3>1. /\ C!WorkOK(old) /\ C!StoredFor(id) = {} /\ id \in 1..requests /\ id \in 1..Bound
          /\ x3[id] \in 0..(2 * NEvents) /\ id \notin x5
      BY <1>2, <2>1, <2>3
    <3>2. QED
      BY <2>1, <2>3, <3>1 DEF C!WorkOK
  <2>5. PICK n : n = x3[id] \div 2
    OBVIOUS
  <2>6. n \in 0..NEvents /\ n > 0
    BY <1>1, <2>4, <2>5
  <2>7. old.text \in Seq(C!Texts) /\ old.text = SubSeq(C!Seen(id), 1, n)
    <3>1. PICK seen : seen = C!Seen(id)
      OBVIOUS
    <3>2. seen = [e \in C!Events |-> C!Text(e, e \notin x4[id])]
      BY <3>1, SeenText
    <3>3. SubSeq(seen, 1, n) \in Seq(C!Texts)
      BY <2>6, <3>2, TextOfEvents
    <3>4. QED
      BY <2>4, <2>5, <3>1, <3>3
  <2>8. /\ answer \in C!Message /\ answer.id = id /\ answer.role = "assistant"
        /\ answer.text = SubSeq(C!Seen(id), 1, n)
    <3>1. answer = [id |-> id, role |-> "assistant", text |-> old.text]
      BY <2>2 DEF C!Answer
    <3>2. answer.id = id /\ answer.role = "assistant" /\ answer.text = SubSeq(C!Seen(id), 1, n)
      BY <2>7, <3>1
    <3>3. answer \in C!Message
      BY <2>4, <2>7, <3>1 DEF C!Message
    <3>4. QED
      BY <3>2, <3>3
  <2>9. C!Message' = C!Message /\ x2' \in Seq(C!Message')
    <3>1. C!Message' = C!Message
      BY <2>3 DEF C!Message
    <3>2. PICK all : all = C!Message
      OBVIOUS
    <3>3. x2 \in Seq(all) /\ Append(x2, answer) \in Seq(all)
      BY <1>1, <2>8, <3>2, AppendProperties
    <3>4. x2' \in Seq(all)
      BY <2>3, <3>3
    <3>5. QED
      BY <3>1, <3>2, <3>4
  <2>10. ASSUME x1, x5' = x5, x2' = Append(x2, answer) PROVE C!IsShown(id)' /\ id \notin x5'
    <3>1. /\ DOMAIN x2' = DOMAIN x2 \cup {Len(x2) + 1}
          /\ \A i \in DOMAIN x2 : x2'[i] = x2[i]
          /\ x2'[Len(x2) + 1] = answer
      BY <1>1, <2>10
    <3>2. C!StoredFor(id)' = {Len(x2) + 1}
      BY <2>4, <2>8, <3>1 DEF C!StoredFor
    <3>3. x3'[id] \div 2 = n /\ C!Seen(id)' = C!Seen(id)
      BY <2>3, <2>5 DEF C!Seen
    <3>4. PICK last : last = Len(x2) + 1
      OBVIOUS
    <3>5. last \in DOMAIN x2' /\ C!StoredFor(id)' = {last} /\ x2'[last].text = SubSeq(C!Seen(id), 1, n)
      BY <2>8, <3>1, <3>2, <3>4
    <3>6. x2'[last].text = SubSeq(C!Seen(id)', 1, x3'[id] \div 2) /\ x3'[id] \div 2 # 0
      BY <2>6, <3>3, <3>5
    <3>7. C!IsShown(id)'
      BY <3>5, <3>6, Zenon DEF C!IsShown
    <3>8. QED
      BY <2>4, <2>10, <3>7
  <2>11. ASSUME x5' = x5 \cup {id}, x2' = x2 PROVE C!StoredFor(id)' = {} /\ id \in x5'
    BY <2>4, <2>11 DEF C!StoredFor
  <2>12. x1 => IF id \in x5' THEN C!StoredFor(id)' = {} ELSE C!IsShown(id)'
    BY <2>3, <2>10, <2>11
  <2>13. QED
    BY <1>1, <2>1, <2>3, <2>4, <2>8, <2>9, <2>12, ChatKeeps
<1>10. ASSUME NEW t \in Threads, C!Crash(t) PROVE C!ChatInv'
  <2>1. PICK id : id = job[t].id
    OBVIOUS
  <2>2. PICK question : question = C!Question(id)
    OBVIOUS
  <2>3. /\ C!Busy(t) /\ UNCHANGED <<requests, x1, x2, x3, x4>> /\ x5' = x5 \cup {id}
        /\ job' = [job EXCEPT ![t] = None]
    BY <1>10, <2>1 DEF C!Crash, C!Continue, C!Respond
  <2>4. id \in 1..requests /\ id \in 1..Bound /\ C!StoredFor(id)' = {}
    BY <1>1, <1>2, <1>3, <2>1, <2>3
  <2>5. x2' \in Seq(C!Message') /\ question.id = id
    BY <1>3, <2>2, <2>3 DEF C!Question
  <2>6. QED
    BY <1>1, <2>1, <2>3, <2>4, <2>5, ChatKeeps
<1>11. CASE C!DeleteSession
  <2>1. /\ requests' = requests + 1 /\ requests < Bound /\ UNCHANGED <<job, x3, x4, x5>>
        /\ x2' = <<>> /\ ~x1'
    BY <1>11 DEF C!DeleteSession, C!AtOnce, C!Arrive
  <2>2. ASSUME NEW work, C!WorkOK(work) PROVE C!WorkOK(work)'
    <3>1. C!StoredFor(work.id)' = {}
      BY <2>1 DEF C!StoredFor
    <3>2. work.id \in 1..requests'
      BY <1>1, <2>1, <2>2 DEF C!WorkOK
    <3>3. QED
      BY <2>1, <2>2, <3>1, <3>2 DEF C!WorkOK, C!Seen
  <2>3. \A t \in Threads : C!Busy(t)' => C!Busy(t) /\ C!WorkOK(job[t])'
    <3>1. SUFFICES ASSUME NEW t \in Threads, C!Busy(t)'
                   PROVE  C!Busy(t) /\ C!WorkOK(job[t])'
      OBVIOUS
    <3>2. PICK work : work = job[t]
      OBVIOUS
    <3>3. C!Busy(t) /\ C!WorkOK(work)
      BY <2>1, <3>1, <3>2 DEF C!ChatInv, C!Busy
    <3>4. C!WorkOK(work)' /\ job'[t] = work
      BY <2>1, <2>2, <3>2, <3>3
    <3>5. QED
      BY <3>3, <3>4 DEF C!WorkOK
  <2>4. /\ C!StoredIsShown' /\ x2' \in Seq(C!Message') /\ requests' \in 0..Bound
        /\ x5' \subseteq 1..requests'
    BY <1>1, <2>1 DEF C!StoredIsShown
  <2>5. \A n \in 1..Bound : requests' < n => x3'[n] = 0 /\ x4'[n] = {}
    BY <1>1, <2>1
  <2>6. QED
    BY <1>1, <2>1, <2>3, <2>4, <2>5 DEF C!ChatInv, C!JobTable
<1>12. QED
  BY <1>4, <1>5, <1>6, <1>7, <1>8, <1>9, <1>10, <1>11 DEF C!Next

-----------------------------------------------------------------------------
(* The pages about scores.                                                 *)

\* What the list shows of a student, with the tree that the one before left.
Shown(done, s) ==
  LET tree == IF V!Attends(s) THEN V!FromDict(done.tree, x1[s].tree) ELSE done.tree
      line == [student |-> s, total |-> V!Cardinality(tree.problems),
               score |-> IF V!Attends(s) THEN V!Cardinality(tree.solved) ELSE 0]
  IN IF V!Enrolled(s) THEN [tree |-> tree, page |-> Append(done.page, line)] ELSE done

\* The greatest number of a finite set.
LEMMA GreatestIn ==
  ASSUME NEW n \in Nat, NEW s \in SUBSET (1..n), s # {}
  PROVE  (CHOOSE x \in s : \A y \in s : x >= y) \in s
<1> DEFINE top(r) == {x \in r : \A y \in r : x >= y}
           bad == {r \in SUBSET s : r # {} /\ top(r) = {}}
<1>1. ASSUME bad # {} PROVE FALSE
  <2>1. PICK r \in bad : \A q \in SUBSET r : q # r => q \notin bad
    <3>1. bad \in SUBSET SUBSET s
      OBVIOUS
    <3>2. IsFiniteSet(1..n)
      BY FS_Interval
    <3>3. IsFiniteSet(s)
      BY <3>2, FS_Subset
    <3> HIDE DEF bad
    <3>4. QED
      BY <1>1, <3>1, <3>3, SmallestSet
  <2>2. PICK x \in r : TRUE
    OBVIOUS
  <2>3. r \ {x} \in SUBSET r /\ r \ {x} # r
    BY <2>2
  <2>4. r \ {x} = {} \/ top(r \ {x}) # {}
    BY <2>1, <2>3
  <2>5. CASE r \ {x} = {}
    <3>1. x \in top(r)
      BY <2>2, <2>5
    <3>2. QED
      BY <3>1
  <2>6. CASE top(r \ {x}) # {}
    <3>1. PICK z \in r \ {x} : \A y \in r \ {x} : z >= y
      BY <2>6
    <3>2. x \in top(r) \/ z \in top(r)
      BY <2>2, <3>1
    <3>3. QED
      BY <3>2
  <2>7. QED
    BY <2>4, <2>5, <2>6
<1>2. s \notin bad
  BY <1>1
<1>3. QED
  BY <1>2

\* The list ends in a state that every student's line leads to.
LEMMA ListIn ==
  ASSUME NEW n \in Nat, DOMAIN Roll = 1..n,
         NEW good, [tree |-> V!NewTree, page |-> <<>>] \in good,
         \A d \in good, i \in 1..n : Shown(d, Roll[i]) \in good
  PROVE  \E d \in good : V!LectureList = d.page
<1> DEFINE new == [tree |-> V!NewTree, page |-> <<>>]
           Last(s) == CHOOSE x \in s : \A y \in s : x >= y
           M(x, d) == Shown(d, Roll[x])
           Eq(i) == i = [s \in SUBSET (1..n) |-> IF s = {} THEN new ELSE M(Last(s), i[s \ {Last(s)}])]
           iter == CHOOSE i : Eq(i)
           step == [d \in (1..n) \X good |-> M(d[1], d[2])]
           pick == [s \in SUBSET (1..n) |-> Last(s)]
<1>1. V!LectureList = iter[1..n].page
  BY DEF V!LectureList, V!FoldLeft, V!MapThenFoldSet, V!Max, Shown
<1>2. \A s \in SUBSET (1..n) : s # {} => pick[s] \in s
  BY GreatestIn
<1>3. \A x \in 1..n, d \in good : step[<<x, d>>] = M(x, d) /\ step[<<x, d>>] \in good
  OBVIOUS
<1>4. \A s \in SUBSET (1..n) : pick[s] = Last(s)
  OBVIOUS
<1> HIDE DEF pick, step, M, Last
<1>5. PICK f : FoldsBy(pick, f, step, new, 1..n, good)
  <2>1. new \in good /\ IsFiniteSet(1..n)
    BY FS_Interval
  <2> HIDE DEF new, Eq, iter
  <2>2. QED
    BY <1>2, <1>3, <2>1, FoldsByExist
<1> HIDE DEF new
<1>6. Eq(f)
  <2>1. f = [s \in SUBSET (1..n) |-> f[s]]
    BY <1>5 DEF FoldsBy
  <2>2. ASSUME NEW s \in SUBSET (1..n), s # {}
        PROVE  f[s] = M(Last(s), f[s \ {Last(s)}])
    <3>1. pick[s] \in 1..n /\ s \ {pick[s]} \in SUBSET (1..n)
      BY <1>2, <2>2
    <3>2. f[s \ {pick[s]}] \in good
      BY <1>5, <3>1 DEF FoldsBy
    <3>3. QED
      BY <1>3, <1>4, <1>5, <2>2, <3>1, <3>2 DEF FoldsBy
  <2>3. QED
    BY <1>5, <2>1, <2>2 DEF FoldsBy
<1>7. Eq(iter)
  <2> HIDE DEF Eq
  <2> QED BY <1>6
<1>8. PICK i : i = iter
  OBVIOUS
<1>9. i = [s \in SUBSET (1..n) |-> IF s = {} THEN new ELSE M(Last(s), i[s \ {Last(s)}])]
  <2> HIDE DEF iter
  <2> QED BY <1>7, <1>8
<1> HIDE DEF iter, Eq
<1>10. \A s \in SUBSET (1..n) : i[s] \in good
  <2> DEFINE bad == {s \in SUBSET (1..n) : i[s] \notin good}
  <2>1. ASSUME bad # {} PROVE FALSE
    <3>1. PICK s \in bad : \A r \in SUBSET s : r # s => r \notin bad
      <4>1. bad \in SUBSET SUBSET (1..n) /\ IsFiniteSet(1..n)
        BY FS_Interval
      <4> HIDE DEF bad
      <4>2. QED
        BY <2>1, <4>1, SmallestSet
    <3>2. s \in SUBSET (1..n) /\ i[s] \notin good
      OBVIOUS
    <3>3. s # {}
      BY <1>9, <3>2 DEF new
    <3>4. pick[s] \in s /\ pick[s] = Last(s)
      BY <1>2, <1>4, <3>2, <3>3
    <3>5. i[s \ {Last(s)}] \in good
      BY <3>1, <3>4
    <3>6. i[s] = M(Last(s), i[s \ {Last(s)}])
      BY <1>9, <3>2, <3>3
    <3>7. QED
      BY <1>3, <3>2, <3>4, <3>5, <3>6
  <2>2. QED
    BY <2>1
<1>11. i[1..n] \in good
  BY <1>10
<1>12. QED
  BY <1>1, <1>8, <1>11

LEMMA PagesInit == V!Init => V!PageInv
  BY DEF V!Init, V!PageInv, V!Enrolled, V!Attends, V!Solved, V!Enlisted, V!Signups, V!Trees

LEMMA PagesStutter ==
  ASSUME V!PageInv, UNCHANGED vars
  PROVE  V!PageInv'
BY DEF vars, V!PageInv, V!Attends, V!Enrolled, V!Solved, V!Enlisted, V!Signups, V!Trees

\* The mark of what is missing is no row and no tree.
LEMMA PagesNone ==
  ASSUME NoneIsNoRecord
  PROVE  None \notin V!Signups /\ None \notin V!Trees
BY DEF NoneIsNoRecord, V!Signups, V!Trees

LEMMA PagesStep ==
  ASSUME NoneIsNoRecord, V!PageInv, V!Next
  PROVE  V!PageInv'
<1> USE DEF V!Enrolled, V!Attends
<1>1. /\ x1 \in [V!Enlisted -> {None} \cup V!Signups]
      /\ x2 \subseteq DOMAIN Home /\ x3 \subseteq V!Enlisted \X x2
  BY DEF V!PageInv
<1>2. \A s \in V!Enlisted : s \notin x6 =>
        IF V!Attends(s) THEN x1[s].tree = [problems |-> x2, solved |-> V!Solved(s)]
        ELSE V!Solved(s) = {} /\ (V!Enrolled(s) => x1[s].tree = None)
  BY DEF V!PageInv
<1>3. None \notin V!Signups /\ None \notin V!Trees
  BY PagesNone
<1>4. ASSUME NEW s \in V!Enlisted, NEW known \in BOOLEAN, V!EnrolByList(s, known)
      PROVE  V!PageInv'
  <2>1. /\ UNCHANGED <<x2, x3>>
        /\ x1' = [x1 EXCEPT ![s] = IF V!Enrolled(s) THEN [@ EXCEPT !.allowed = TRUE]
                                   ELSE [linked |-> known, allowed |-> known, tree |-> None]]
        /\ x6' = IF known /\ ~V!Attends(s) THEN x6 \cup {s} ELSE x6
        /\ V!Enrolled(s) => x1[s].linked /\ known
    BY <1>4 DEF V!EnrolByList
  <2>2. x1' \in [V!Enlisted -> {None} \cup V!Signups]
    BY <1>1, <1>3, <1>4, <2>1 DEF V!Signups
  <2>3. \A r \in V!Enlisted : V!Solved(r)' = V!Solved(r)
    BY <2>1 DEF V!Solved
  <2>4. ASSUME NEW r \in V!Enlisted \ x6'
        PROVE  IF V!Attends(r)' THEN x1'[r].tree = [problems |-> x2, solved |-> V!Solved(r)]
               ELSE V!Solved(r) = {} /\ (V!Enrolled(r)' => x1'[r].tree = None)
    <3>1. CASE r # s
      BY <1>1, <1>2, <2>1, <2>4, <3>1
    <3>2. CASE r = s /\ V!Enrolled(s)
      <4>1. x1[s] \in V!Signups /\ x1'[s] = [x1[s] EXCEPT !.allowed = TRUE] /\ V!Attends(s)
        BY <1>1, <2>1, <2>4, <3>2
      <4>2. x1'[s] # None /\ x1'[s].tree = x1[s].tree /\ x1'[s].linked /\ x1'[s].allowed
        BY ZenonT(60), <1>3, <2>1, <2>2, <3>2, <4>1 DEF V!Signups
      <4>3. QED
        BY <1>2, <2>1, <2>4, <3>2, <4>1, <4>2
    <3>3. CASE r = s /\ ~V!Enrolled(s)
      <4>1. x1'[s] = [linked |-> FALSE, allowed |-> FALSE, tree |-> None]
        BY <1>1, <1>4, <2>1, <2>4, <3>3
      <4>2. QED
        BY <1>2, <2>1, <2>4, <3>3, <4>1
    <3>4. QED
      BY <3>1, <3>2, <3>3
  <2>5. QED
    BY <1>1, <2>1, <2>2, <2>3, <2>4 DEF V!PageInv
<1>5. ASSUME NEW s \in V!Enlisted, V!Apply(s)
      PROVE  V!PageInv'
  <2>1. /\ UNCHANGED <<x2, x3>>
        /\ x1' = [x1 EXCEPT ![s] = IF V!Enrolled(s) THEN [@ EXCEPT !.linked = TRUE, !.allowed = TRUE]
                                   ELSE [linked |-> TRUE, allowed |-> FALSE, tree |-> None]]
        /\ x6' = IF V!Enrolled(s) /\ ~V!Attends(s) THEN x6 \cup {s} ELSE x6
    BY <1>5 DEF V!Apply
  <2>2. x1' \in [V!Enlisted -> {None} \cup V!Signups]
    BY <1>1, <1>3, <2>1 DEF V!Signups
  <2>3. \A r \in V!Enlisted : V!Solved(r)' = V!Solved(r)
    BY <2>1 DEF V!Solved
  <2>4. ASSUME NEW r \in V!Enlisted \ x6'
        PROVE  IF V!Attends(r)' THEN x1'[r].tree = [problems |-> x2, solved |-> V!Solved(r)]
               ELSE V!Solved(r) = {} /\ (V!Enrolled(r)' => x1'[r].tree = None)
    <3>1. CASE r # s
      BY <1>1, <1>2, <2>1, <2>4, <3>1
    <3>2. CASE r = s /\ V!Enrolled(s)
      <4>1. /\ x1[s] \in V!Signups /\ V!Attends(s)
            /\ x1'[s] = [x1[s] EXCEPT !.linked = TRUE, !.allowed = TRUE]
        BY <1>1, <2>1, <2>4, <3>2
      <4>2. x1'[s] # None /\ x1'[s].tree = x1[s].tree /\ x1'[s].linked /\ x1'[s].allowed
        BY ZenonT(60), <1>3, <2>1, <2>2, <3>2, <4>1 DEF V!Signups
      <4>3. QED
        BY <1>2, <2>1, <2>4, <3>2, <4>1, <4>2
    <3>3. CASE r = s /\ ~V!Enrolled(s)
      <4>1. x1'[s] = [linked |-> TRUE, allowed |-> FALSE, tree |-> None]
        BY <1>1, <2>1, <3>3
      <4>2. QED
        BY <1>2, <2>1, <2>4, <3>3, <4>1
    <3>4. QED
      BY <3>1, <3>2, <3>3
  <2>5. QED
    BY <1>1, <2>1, <2>2, <2>3, <2>4 DEF V!PageInv
<1>6. ASSUME NEW s \in V!Enlisted, V!Approve(s)
      PROVE  V!PageInv'
  <2>1. /\ UNCHANGED <<x2, x3, x6>> /\ x1[s] \in V!Signups /\ x1[s].linked
        /\ x1' = [x1 EXCEPT ![s].allowed = TRUE,
                            ![s].tree = V!Migrate(V!FromDict(V!NewTree, @), x2)]
    BY <1>1, <1>6 DEF V!Approve
  <2>2. PICK tree \in V!Trees : tree = V!FromDict(V!NewTree, x1[s].tree)
    BY <1>3, <2>1 DEF V!FromDict, V!NewTree, V!Signups, V!Trees
  <2>3. V!Migrate(tree, x2) = [problems |-> tree.problems \cup x2, solved |-> tree.solved]
    BY <2>2 DEF V!Migrate, V!Trees
  <2>4. V!Migrate(tree, x2) \in V!Trees
    BY <1>1, <2>2, <2>3 DEF V!Trees
  <2>5. x1'[s] = [linked |-> TRUE, allowed |-> TRUE, tree |-> V!Migrate(tree, x2)]
    BY <1>1, <2>1, <2>2 DEF V!Signups
  <2>6. x1'[s] \in V!Signups
    BY <2>4, <2>5 DEF V!Signups
  <2>7. /\ x1' \in [V!Enlisted -> {None} \cup V!Signups]
        /\ \A r \in V!Enlisted : r # s => x1'[r] = x1[r]
    BY <1>1, <2>1, <2>6
  <2>8. \A r \in V!Enlisted : V!Solved(r)' = V!Solved(r)
    BY <2>1 DEF V!Solved
  <2>9. ASSUME NEW r \in V!Enlisted \ x6
        PROVE  IF V!Attends(r)' THEN x1'[r].tree = [problems |-> x2, solved |-> V!Solved(r)]
               ELSE V!Solved(r) = {} /\ (V!Enrolled(r)' => x1'[r].tree = None)
    <3>1. CASE r # s
      BY <1>2, <2>7, <2>9, <3>1
    <3>2. CASE r = s /\ V!Attends(s)
      <4>1. x1[s].tree = [problems |-> x2, solved |-> V!Solved(s)]
        BY <1>2, <2>9, <3>2
      <4>2. x1[s].tree # None
        BY <4>1 DEF NoneIsNoRecord
      <4>3. tree = [problems |-> x2, solved |-> V!Solved(s)]
        BY <2>2, <4>1, <4>2 DEF V!FromDict
      <4>4. V!Migrate(tree, x2) = [problems |-> x2, solved |-> V!Solved(s)]
        BY <2>3, <4>3
      <4>5. QED
        BY <1>3, <2>5, <2>6, <3>2, <4>4
    <3>3. CASE r = s /\ ~V!Attends(s)
      <4>1. x1[s] # None
        BY <1>6 DEF V!Approve
      <4>2. V!Solved(s) = {} /\ x1[s].tree = None
        BY <1>2, <2>9, <3>3, <4>1
      <4>3. tree = [problems |-> {}, solved |-> {}]
        BY <2>2, <4>2 DEF V!FromDict, V!NewTree
      <4>4. V!Migrate(tree, x2) = [problems |-> x2, solved |-> V!Solved(s)]
        BY <2>3, <4>2, <4>3
      <4>5. QED
        BY <1>3, <2>5, <2>6, <3>3, <4>4
    <3>4. QED
      BY <3>1, <3>2, <3>3
  <2>10. QED
    BY ZenonT(60), <1>1, <2>1, <2>7, <2>8, <2>9 DEF V!PageInv
<1>7. ASSUME NEW p \in DOMAIN Home, V!AddProblem(p)
      PROVE  V!PageInv'
  <2>1. /\ UNCHANGED <<x3, x6>> /\ p \notin x2 /\ x2' = x2 \cup {p}
        /\ x1' = [s \in V!Enlisted |->
                    IF V!Attends(s)
                    THEN [x1[s] EXCEPT !.tree = V!Migrate(V!FromDict(V!NewTree, @), {p})]
                    ELSE x1[s]]
    BY <1>7 DEF V!AddProblem
  <2>2. ASSUME NEW s \in V!Enlisted, V!Attends(s)
        PROVE  /\ x1'[s] \in V!Signups /\ x1'[s].linked /\ x1'[s].allowed
               /\ s \notin x6 => x1'[s].tree = [problems |-> x2', solved |-> V!Solved(s)]
    <3>1. x1[s] \in V!Signups
      BY <1>1, <2>2
    <3>2. PICK tree \in V!Trees : tree = V!FromDict(V!NewTree, x1[s].tree)
      BY <1>3, <3>1 DEF V!FromDict, V!NewTree, V!Signups, V!Trees
    <3>3. V!Migrate(tree, {p}) = [problems |-> tree.problems \cup {p}, solved |-> tree.solved]
      BY <3>2 DEF V!Migrate, V!Trees
    <3>4. V!Migrate(tree, {p}) \in V!Trees
      BY <1>7, <3>2, <3>3 DEF V!Trees
    <3>5. x1'[s] = [x1[s] EXCEPT !.tree = V!Migrate(tree, {p})]
      BY <2>1, <2>2, <3>2
    <3>6. x1'[s] \in V!Signups /\ x1'[s].linked /\ x1'[s].allowed /\ x1'[s].tree = V!Migrate(tree, {p})
      BY <2>2, <3>1, <3>4, <3>5 DEF V!Signups
    <3>7. ASSUME s \notin x6
          PROVE  x1'[s].tree = [problems |-> x2', solved |-> V!Solved(s)]
      <4>1. x1[s].tree = [problems |-> x2, solved |-> V!Solved(s)]
        BY <1>2, <2>2, <3>7
      <4>2. x1[s].tree # None
        BY <4>1 DEF NoneIsNoRecord
      <4>3. tree = [problems |-> x2, solved |-> V!Solved(s)]
        BY <3>2, <4>1, <4>2 DEF V!FromDict
      <4>4. QED
        BY <2>1, <3>3, <3>6, <4>3
    <3>8. QED
      BY <3>6, <3>7
  <2>3. \A s \in V!Enlisted : V!Solved(s)' = V!Solved(s)
    BY <1>1, <2>1 DEF V!Solved
  <2>4. \A s \in V!Enlisted : ~V!Attends(s) => x1'[s] = x1[s]
    BY <2>1
  <2>5. \A s \in V!Enlisted : V!Attends(s)' = V!Attends(s) /\ x1'[s] \in {None} \cup V!Signups
    BY <1>1, <1>3, <2>2, <2>4
  <2>6. x1' \in [V!Enlisted -> {None} \cup V!Signups]
    BY <2>1, <2>5
  <2>7. ASSUME NEW r \in V!Enlisted \ x6
        PROVE  IF V!Attends(r)' THEN x1'[r].tree = [problems |-> x2', solved |-> V!Solved(r)']
               ELSE V!Solved(r)' = {} /\ (V!Enrolled(r)' => x1'[r].tree = None)
    <3>1. CASE V!Attends(r)
      BY <2>2, <2>3, <2>5, <2>7, <3>1
    <3>2. CASE ~V!Attends(r)
      BY <1>2, <2>3, <2>4, <2>7, <3>2
    <3>3. QED
      BY <3>1, <3>2
  <2>8. QED
    BY <1>1, <1>7, <2>1, <2>6, <2>7 DEF V!PageInv
<1>8. ASSUME NEW s \in V!Enlisted, NEW p \in DOMAIN Home, NEW accepted \in BOOLEAN, V!Judge(s, p, accepted)
      PROVE  V!PageInv'
  <2>1. /\ p \in x2 /\ x1[s] \in V!Signups /\ x1[s].linked /\ UNCHANGED x2
        /\ x3' = IF accepted THEN x3 \cup {<<s, p>>} ELSE x3 \ {<<s, p>>}
    BY <1>1, <1>8 DEF V!Judge
  <2>2. \A r \in V!Enlisted : r # s => V!Solved(r)' = V!Solved(r)
    BY <2>1 DEF V!Solved
  <2>3. V!Solved(s)' = IF accepted THEN V!Solved(s) \cup {p} ELSE V!Solved(s) \ {p}
    BY <2>1 DEF V!Solved
  <2>4. x3' \subseteq V!Enlisted \X x2
    BY <1>1, <2>1
  <2>5. CASE ~x1[s].allowed
    <3>1. x6' = x6 \cup {s} /\ x1' = x1
      BY <1>8, <2>5 DEF V!Judge
    <3>2. QED
      BY <1>1, <1>2, <2>1, <2>2, <2>4, <3>1 DEF V!PageInv
  <2>6. CASE x1[s].allowed
    <3>1. PICK tree \in V!Trees : tree = V!FromDict(V!NewTree, x1[s].tree)
      BY <1>3, <2>1 DEF V!FromDict, V!NewTree, V!Signups, V!Trees
    <3>2. PICK new : new = IF \E r \in tree.problems : Home[r] = Home[p]
                           THEN V!Associate(tree, p, accepted) ELSE x1[s].tree
      OBVIOUS
    <3>3. x1' = [x1 EXCEPT ![s].tree = new] /\ x6' = x6
      BY <1>8, <2>6, <3>1, <3>2 DEF V!Judge
    <3>4. V!Associate(tree, p, accepted) =
            [problems |-> tree.problems,
             solved |-> IF p \notin tree.problems THEN tree.solved
                        ELSE IF accepted THEN tree.solved \cup {p} ELSE tree.solved \ {p}]
      BY <3>1 DEF V!Associate, V!Trees
    <3>5. V!Associate(tree, p, accepted) \in V!Trees
      BY <1>8, <3>1, <3>4 DEF V!Trees
    <3>6. new \in {None} \cup V!Trees
      BY <2>1, <3>2, <3>5 DEF V!Signups
    <3>7. x1'[s] = [x1[s] EXCEPT !.tree = new] /\ \A r \in V!Enlisted : r # s => x1'[r] = x1[r]
      BY <1>1, <1>8, <3>3
    <3>8. x1'[s] \in V!Signups /\ x1'[s].linked /\ x1'[s].allowed /\ x1'[s].tree = new
      BY <2>1, <2>6, <3>6, <3>7 DEF V!Signups
    <3>9. x1' \in [V!Enlisted -> {None} \cup V!Signups]
      BY <1>1, <3>3, <3>8
    <3>10. ASSUME s \notin x6
           PROVE  new = [problems |-> x2, solved |-> V!Solved(s)']
      <4>1. V!Attends(s)
        BY <1>3, <2>1, <2>6
      <4>2. x1[s].tree = [problems |-> x2, solved |-> V!Solved(s)]
        BY <1>2, <3>10, <4>1
      <4>3. x1[s].tree # None
        BY <4>2 DEF NoneIsNoRecord
      <4>4. tree = [problems |-> x2, solved |-> V!Solved(s)]
        BY <3>1, <4>2, <4>3 DEF V!FromDict
      <4>5. new = V!Associate(tree, p, accepted)
        BY <2>1, <3>2, <4>4
      <4>6. QED
        BY <2>1, <2>3, <3>4, <4>4, <4>5
    <3>11. ASSUME NEW r \in V!Enlisted \ x6
           PROVE  IF V!Attends(r)' THEN x1'[r].tree = [problems |-> x2, solved |-> V!Solved(r)']
                  ELSE V!Solved(r)' = {} /\ (V!Enrolled(r)' => x1'[r].tree = None)
      <4>1. CASE r = s
        BY <1>3, <3>8, <3>10, <3>11, <4>1
      <4>2. CASE r # s
        BY <1>2, <2>2, <3>7, <3>11, <4>2
      <4>3. QED
        BY <4>1, <4>2
    <3>12. QED
      BY <1>1, <2>1, <2>4, <3>3, <3>9, <3>11 DEF V!PageInv
  <2>7. QED
    BY <2>5, <2>6
<1>9. CASE V!Recompute
  <2>1. /\ UNCHANGED <<x2, x3>> /\ x6' = {s \in x6 : ~V!Attends(s)}
        /\ x1' = [s \in V!Enlisted |->
                    IF V!Attends(s)
                    THEN [x1[s] EXCEPT !.tree = [problems |-> x2,
                                                 solved |-> {p \in x2 : <<s, p>> \in x3}]]
                    ELSE x1[s]]
    BY <1>9 DEF V!Recompute
  <2>2. ASSUME NEW s \in V!Enlisted, V!Attends(s)
        PROVE  /\ x1'[s] \in V!Signups /\ x1'[s].linked /\ x1'[s].allowed
               /\ x1'[s].tree = [problems |-> x2, solved |-> V!Solved(s)]
    <3>1. x1[s] \in V!Signups
      BY <1>1, <2>2
    <3>2. x1'[s] = [x1[s] EXCEPT !.tree = [problems |-> x2, solved |-> V!Solved(s)]]
      BY <2>1, <2>2 DEF V!Solved
    <3>3. [problems |-> x2, solved |-> V!Solved(s)] \in V!Trees
      BY <1>1 DEF V!Solved, V!Trees
    <3>4. QED
      BY <2>2, <3>1, <3>2, <3>3 DEF V!Signups
  <2>3. \A s \in V!Enlisted : V!Solved(s)' = V!Solved(s)
    BY <2>1 DEF V!Solved
  <2>4. \A s \in V!Enlisted : ~V!Attends(s) => x1'[s] = x1[s]
    BY <2>1
  <2>5. \A s \in V!Enlisted : V!Attends(s)' = V!Attends(s) /\ x1'[s] \in {None} \cup V!Signups
    BY <1>1, <1>3, <2>2, <2>4
  <2>6. x1' \in [V!Enlisted -> {None} \cup V!Signups]
    BY <2>1, <2>5
  <2>7. ASSUME NEW r \in V!Enlisted \ x6'
        PROVE  IF V!Attends(r)' THEN x1'[r].tree = [problems |-> x2, solved |-> V!Solved(r)']
               ELSE V!Solved(r)' = {} /\ (V!Enrolled(r)' => x1'[r].tree = None)
    <3>1. CASE V!Attends(r)
      BY <2>2, <2>3, <2>5, <2>7, <3>1
    <3>2. CASE ~V!Attends(r)
      BY <1>2, <2>1, <2>3, <2>4, <2>7, <3>2
    <3>3. QED
      BY <3>1, <3>2
  <2>8. QED
    BY <1>1, <2>1, <2>6, <2>7 DEF V!PageInv
<1>10. ASSUME UNCHANGED <<x1, x2, x3, x6>>
       PROVE  V!PageInv'
  BY <1>10 DEF V!PageInv, V!Solved, V!Enlisted, V!Signups, V!Trees
<1>11. ASSUME NEW s \in V!Enlisted,
              \/ \E c \in V!HeldContests : V!CheckIn(s, c) \/ V!Exit(s, c)
              \/ \E p \in DOMAIN Home : V!Report(s, p)
       PROVE  V!PageInv'
  BY <1>10, <1>11 DEF V!CheckIn, V!Exit, V!Report
<1>12. QED
  BY <1>4, <1>5, <1>6, <1>7, <1>8, <1>9, <1>11 DEF V!Next

\* What the invariant says of the list of a lecture.
LEMMA ListIsTrue ==
  ASSUME NoneIsNoRecord, V!PageInv
  PROVE  \A i \in DOMAIN V!LectureList :
           LET line == V!LectureList[i] IN
           /\ ~V!Attends(line.student) => line.score = 0
           /\ V!Attends(line.student) /\ line.student \notin x6 =>
                /\ line.score = V!Cardinality(V!Solved(line.student))
                /\ line.total = V!Cardinality(x2)
<1> DEFINE Right(line) ==
             /\ ~V!Attends(line.student) => line.score = 0
             /\ V!Attends(line.student) /\ line.student \notin x6 =>
                  /\ line.score = V!Cardinality(V!Solved(line.student))
                  /\ line.total = V!Cardinality(x2)
           sizes == {V!Cardinality(q) : q \in SUBSET DOMAIN Home}
           lines == [student : V!Enlisted, total : sizes, score : {0} \cup sizes]
           right == {l \in lines : Right(l)}
           good == [tree : V!Trees, page : Seq(right)]
           n == Len(Roll)
<1>1. n \in Nat /\ DOMAIN Roll = 1..n /\ \A i \in 1..n : Roll[i] \in V!Enlisted
  BY RollAssumption DEF V!Enlisted, V!ToSet
<1>2. [tree |-> V!NewTree, page |-> <<>>] \in good
  BY DEF V!NewTree, V!Trees
<1>3. ASSUME NEW d \in good, NEW s \in V!Enlisted
      PROVE  Shown(d, s) \in good
  <2>1. d.tree \in V!Trees /\ d.page \in Seq(right)
    OBVIOUS
  <2>2. x1[s] \in {None} \cup V!Signups /\ None \notin V!Signups /\ None \notin V!Trees
    BY PagesNone DEF V!PageInv
  <2>3. PICK tree : tree = IF V!Attends(s) THEN V!FromDict(d.tree, x1[s].tree) ELSE d.tree
    OBVIOUS
  <2>4. tree \in V!Trees
    BY <2>1, <2>2, <2>3 DEF V!Attends, V!Enrolled, V!FromDict, V!Signups
  <2>5. PICK line : line = [student |-> s, total |-> V!Cardinality(tree.problems),
                            score |-> IF V!Attends(s) THEN V!Cardinality(tree.solved) ELSE 0]
    OBVIOUS
  <2>6. V!Attends(s) /\ s \notin x6 => tree = [problems |-> x2, solved |-> V!Solved(s)]
    <3>1. ASSUME V!Attends(s), s \notin x6
          PROVE  tree = [problems |-> x2, solved |-> V!Solved(s)]
      <4>1. x1[s].tree = [problems |-> x2, solved |-> V!Solved(s)]
        BY <3>1 DEF V!PageInv
      <4>2. x1[s].tree # None
        BY <4>1 DEF NoneIsNoRecord
      <4>3. QED
        BY <2>3, <3>1, <4>1, <4>2 DEF V!FromDict
    <3>2. QED
      BY <3>1
  <2>7. line \in lines
    <3>1. tree.problems \in SUBSET DOMAIN Home /\ tree.solved \in SUBSET DOMAIN Home
      BY <2>4 DEF V!Trees
    <3>2. QED
      BY <2>5, <3>1
  <2>8. Right(line)
    BY <2>5, <2>6
  <2>9. Append(d.page, line) \in Seq(right)
    BY <2>1, <2>7, <2>8
  <2> HIDE DEF right, Right, lines
  <2>10. [tree |-> tree, page |-> Append(d.page, line)] \in good
    BY <2>4, <2>9
  <2>11. Shown(d, s) = IF V!Enrolled(s) THEN [tree |-> tree, page |-> Append(d.page, line)] ELSE d
    BY <2>3, <2>5 DEF Shown
  <2> HIDE DEF good
  <2>12. QED
    BY <1>3, <2>10, <2>11
<1>4. PICK d \in good : V!LectureList = d.page
  <2> HIDE DEF good, n
  <2>1. \A e \in good, i \in 1..n : Shown(e, Roll[i]) \in good
    BY <1>1, <1>3
  <2>2. QED
    BY <1>1, <1>2, <2>1, ListIn
<1>5. \A i \in DOMAIN V!LectureList : V!LectureList[i] \in right
  <2>1. d.page \in Seq(right)
    OBVIOUS
  <2> HIDE DEF right, good
  <2>2. QED
    BY <1>4, <2>1
<1>6. QED
  BY <1>5

LEMMA PagesTrue ==
  ASSUME NoneIsNoRecord, V!PageInv
  PROVE  V!PagesAreTrue
<1>1. ASSUME NEW s \in V!Allowed \ x6, NEW running \in SUBSET {Home[p] : p \in x2}
      PROVE  V!UserProgress(s, running) =
               [score |-> V!Cardinality(V!Solved(s)),
                contests |-> {c \in running : \E p \in x2 \ V!Solved(s) : Home[p] = c}]
  <2>1. s \in V!Enlisted /\ V!Attends(s)
    BY DEF V!Allowed
  <2>2. x1[s].tree = [problems |-> x2, solved |-> V!Solved(s)]
    BY <2>1 DEF V!PageInv
  <2>3. V!FromDict(V!NewTree, x1[s].tree) = [problems |-> x2, solved |-> V!Solved(s)]
    BY <2>2 DEF V!FromDict, NoneIsNoRecord
  <2>4. PICK tree : tree = [problems |-> x2, solved |-> V!Solved(s)]
    OBVIOUS
  <2>5. \A c : V!InContest(tree, c) = {p \in x2 : Home[p] = c}
    BY <2>4 DEF V!InContest
  <2>6. \A c \in running : V!InContest(tree, c) # {}
    BY <2>5
  <2>7. \A c : ~(V!InContest(tree, c) \subseteq tree.solved) <=> \E p \in x2 \ V!Solved(s) : Home[p] = c
    BY <2>4, <2>5
  <2>8. V!UserProgress(s, running) =
          [score |-> V!Cardinality(tree.solved),
           contests |-> {c \in running : ~(V!InContest(tree, c) \subseteq tree.solved)}]
    BY <2>3, <2>4, <2>6 DEF V!UserProgress
  <2>9. QED
    BY <2>4, <2>7, <2>8
<1>2. ASSUME NEW c \in V!HeldContests, V!ContestLectureUsers(c) # None
      PROVE  V!ContestLectureUsers(c) = {s \in V!Allowed : V!ContestUsers(c)[s].left}
  BY <1>2 DEF V!ContestLectureUsers, V!ContestUsers
<1>3. QED
  BY <1>1, <1>2, ListIsTrue DEF V!PagesAreTrue

-----------------------------------------------------------------------------
(* The services together.                                                  *)

\* The invariant of the component that is followed.
DataInv ==
  /\ focus = "throttle" => R!BucketInv
  /\ focus = "options" => O!CacheInv
  /\ focus = "chat" => C!ChatInv
  /\ focus = "pages" => V!PageInv

LEMMA DataStart == Init => DataInv
<1> SUFFICES ASSUME Init PROVE DataInv
  OBVIOUS
<1>1. CASE focus = "throttle"
  BY <1>1, BucketInit DEF Init, DataInv
<1>2. CASE focus = "options"
  BY <1>2, CacheInit DEF Init, DataInv
<1>3. CASE focus = "chat"
  BY <1>3, ChatInit DEF Init, DataInv
<1>4. CASE focus = "pages"
  BY <1>4, PagesInit DEF Init, DataInv
<1>5. QED
  BY <1>1, <1>2, <1>3, <1>4 DEF DataInv

LEMMA DataKeep ==
  ASSUME NoneIsNoRecord, DataInv, [Next]_vars
  PROVE  DataInv'
<1>1. focus' = focus
  BY DEF Next, vars
<1>2. CASE focus = "throttle"
  <2>1. R!BucketInv /\ (R!Next \/ UNCHANGED vars)
    BY <1>2 DEF DataInv, Next
  <2>2. QED
    BY <1>1, <1>2, <2>1, BucketStep, BucketStutter DEF DataInv
<1>3. CASE focus = "options"
  <2>1. O!CacheInv /\ (O!Next \/ UNCHANGED vars)
    BY <1>3 DEF DataInv, Next
  <2>2. QED
    BY <1>1, <1>3, <2>1, CacheStep, CacheStutter DEF DataInv
<1>4. CASE focus = "chat"
  <2>1. C!ChatInv /\ (C!Next \/ UNCHANGED vars)
    BY <1>4 DEF DataInv, Next
  <2>2. QED
    BY <1>1, <1>4, <2>1, ChatStep, ChatStutter DEF DataInv
<1>5. CASE focus = "pages"
  <2>1. V!PageInv /\ (V!Next \/ UNCHANGED vars)
    BY <1>5 DEF DataInv, Next
  <2>2. QED
    BY <1>1, <1>5, <2>1, PagesStep, PagesStutter DEF DataInv
<1>6. QED
  BY <1>1, <1>2, <1>3, <1>4, <1>5 DEF DataInv

\* The invariants are kept, of whichever component is followed.
THEOREM DataIsKept ==
  ASSUME NoneIsNoRecord
  PROVE  Spec => []DataInv
<1>1. DataInv /\ [Next]_vars => DataInv'
  BY DataKeep
<1>2. QED
  BY <1>1, DataStart, PTL DEF Spec

\* The bucket grants what it may hold and the time refills, and no more than
\* that but what each refill that died between its two writes gave twice, as
\* long as the requests of a user do not overlap.
THEOREM RateIsKept ==
  ASSUME NoneIsNoRecord
  PROVE  Spec => []RateLimit
<1>1. DataInv => RateLimit
  BY BucketLimits DEF DataInv, RateLimit
<1>2. QED
  BY <1>1, DataIsKept, PTL

\* No thread goes on with an option that was replaced longer ago than its cache
\* lives.
THEOREM OptionsAgeLittle ==
  ASSUME NoneIsNoRecord
  PROVE  Spec => []StaleBound
<1>1. DataInv => StaleBound
  BY CacheLimits DEF DataInv, StaleBound
<1>2. QED
  BY <1>1, DataIsKept, PTL

\* What is stored as an answer of the chat is what the browser was shown but for
\* the characters that a chunk's end cut, wherever the stream breaks off, and
\* nothing when the process died or the statement failed.
THEOREM AnswersAreShown ==
  ASSUME NoneIsNoRecord
  PROVE  Spec => []StoredIsShown
<1>1. DataInv => StoredIsShown
  BY DEF DataInv, StoredIsShown, C!ChatInv
<1>2. QED
  BY <1>1, DataIsKept, PTL

\* Every page shows a student's own results, whoever is before the student in
\* the list and leaves a tree in the dispatcher.
THEOREM PagesShowTheirStudents ==
  ASSUME NoneIsNoRecord
  PROVE  Spec => []PagesAreTrue
<1>1. DataInv => PagesAreTrue
  BY PagesTrue DEF DataInv, PagesAreTrue
<1>2. QED
  BY <1>1, DataIsKept, PTL

====
