---- MODULE SignIn ----
(***************************************************************************)
(* Single sign-on: how an identity of the SSO finds its account, and how   *)
(* the role of an account reaches the SSO, which asks administrators for a *)
(* second factor.  An account is known by its username, which is unique.   *)
(***************************************************************************)
EXTENDS Requests

CONSTANTS
  Accounts,
  Identities,
  Legacy,      \* the imported account of an identity, or None
  Username     \* the account an identity would have by its name

VARIABLES
  account,     \* rows of the table user
  cookie,      \* the signed state cookie of each browser
  reached,     \* history: the accounts that an identity was signed in to
  requireTfa,  \* in the SSO: identities asked for a second factor
  lost,        \* history: a link was overwritten by somebody who had not seen it
  unsynced     \* history: accounts whose role the SSO was not told

signInVars == <<account, cookie, reached, requireTfa, lost, unsynced>>
vars == <<job, requests, overlapped, account, cookie, reached, requireTfa, lost, unsynced>>

Roles == {"Regular User", "TA_Admin", "Admin"}
RequireTfa == {"Admin"}
NoAccount == [there |-> FALSE, role |-> "Regular User", sub |-> None]

\* The accounts of imported users exist, some of them administrators'.
Init ==
  /\ RequestsInit
  /\ account \in [Accounts -> {NoAccount} \cup
                  [there : {TRUE}, role : {"Regular User", "Admin"}, sub : {None}]]
  /\ \A a \in Accounts : account[a].there <=> \E s \in Identities : Legacy[s] = a
  /\ cookie = [t \in Threads |-> FALSE]
  /\ reached = [s \in Identities |-> {}]
  /\ requireTfa = {}
  /\ lost = FALSE /\ unsynced = {}

-----------------------------------------------------------------------------
(* Signing in.                                                             *)

\* A browser (one for each thread) is sent to the SSO with a state cookie.
Start(t) ==
  /\ ~Busy(t)
  /\ AtOnce
  /\ cookie' = [cookie EXCEPT ![t] = TRUE]
  /\ UNCHANGED <<account, reached, requireTfa, lost, unsynced>>

\* The SSO sends the browser back.  Without the cookie, with another state
\* or when the code is refused nothing else happens; the cookie may stay.
CallbackFails(t) ==
  /\ ~Busy(t)
  /\ AtOnce
  /\ \E stays \in BOOLEAN : cookie' = [cookie EXCEPT ![t] = @ /\ stays]
  /\ UNCHANGED <<account, reached, requireTfa, lost, unsynced>>

\* The code is exchanged for an identity, and its account is looked for.
Callback(t, s) ==
  /\ cookie[t]
  /\ Begin(t, [kind |-> "bySub", sub |-> s])
  /\ cookie' = [cookie EXCEPT ![t] = FALSE]
  /\ UNCHANGED <<account, reached, requireTfa, lost, unsynced>>

Doing(t, kind) == Busy(t) /\ job[t].kind = kind

\* The session is opened; a disabled account ends here instead.
Enter(t, a) ==
  /\ reached' = [reached EXCEPT ![job[t].sub] = @ \cup {a}]
  /\ Respond(t)

FindBySub(t) ==
  /\ Doing(t, "bySub")
  /\ \/ \E a \in Accounts : account[a].sub = job[t].sub /\ Enter(t, a)
     \/ /\ \A a \in Accounts : account[a].sub # job[t].sub
        /\ Continue(t, [job[t] EXCEPT !.kind = "byLegacy"])
        /\ UNCHANGED reached
  /\ UNCHANGED <<account, cookie, requireTfa, lost, unsynced>>

\* Mutant: an account that is linked already is taken as well.
UnlinkedAny(a) == a # None /\ account[a].there

Unlinked(a) == a # None /\ account[a].there /\ account[a].sub = None

\* The account is read, to be linked in another statement.
Take(t, a) ==
  Continue(t, [kind |-> "link", sub |-> job[t].sub, account |-> a, seen |-> account[a].sub])

FindByLegacy(t) ==
  LET a == Legacy[job[t].sub] IN
  /\ Doing(t, "byLegacy")
  /\ IF Unlinked(a) THEN Take(t, a) ELSE Continue(t, [job[t] EXCEPT !.kind = "byName"])
  /\ UNCHANGED signInVars

FindByName(t) ==
  LET a == Username[job[t].sub] IN
  /\ Doing(t, "byName")
  /\ IF Unlinked(a) THEN Take(t, a) ELSE Continue(t, [job[t] EXCEPT !.kind = "create"])
  /\ UNCHANGED signInVars

\* user.save(update_fields): only the link.  sso_sub is unique: an identity
\* that has got an account meanwhile makes the statement fail.
Link(t) ==
  LET a == job[t].account
      s == job[t].sub
  IN
  /\ Doing(t, "link")
  /\ IF \E b \in Accounts \ {a} : account[b].sub = s
     THEN Respond(t) /\ UNCHANGED <<account, reached, lost, unsynced>>
     ELSE /\ account' = [account EXCEPT ![a].sub = s]
          /\ lost' = (lost \/ account[a].sub \notin {job[t].seen, s})
          /\ unsynced' = unsynced \cup {a}
          /\ Enter(t, a)
  /\ UNCHANGED <<cookie, requireTfa>>

\* username is unique as well.  The profile, created next, is left out.
Create(t) ==
  LET a == Username[job[t].sub] IN
  /\ Doing(t, "create")
  /\ IF account[a].there \/ \E b \in Accounts : account[b].sub = job[t].sub
     THEN Respond(t) /\ UNCHANGED <<account, reached>>
     ELSE /\ account' = [account EXCEPT ![a] = [there |-> TRUE, role |-> "Regular User",
                                                sub |-> job[t].sub]]
          /\ Enter(t, a)
  /\ UNCHANGED <<cookie, requireTfa, lost, unsynced>>

-----------------------------------------------------------------------------
(* Saves of whole rows, and what the SSO is told.                          *)

\* The row is read: an administrator edits the user and tells the SSO ...
EditUser(t, a, role) ==
  /\ account[a].there
  /\ Begin(t, [kind |-> "edit", account |-> a, row |-> [account[a] EXCEPT !.role = role]])
  /\ UNCHANGED signInVars

\* ... assistantships change the role as well but tell nobody, and other
\* requests save the row as it was.
SaveLater(t, a, role) ==
  /\ account[a].there
  /\ \/ role = account[a].role
     \/ role = "TA_Admin" /\ account[a].role # "Admin"
     \/ role = "Regular User"
  /\ Begin(t, [kind |-> "save", account |-> a, row |-> [account[a] EXCEPT !.role = role]])
  /\ UNCHANGED signInVars

\* Mutant: the SSO is told what the role was.
NeedsTfaBefore(work) == account[work.account].role \in RequireTfa

NeedsTfa(work) == work.row.role \in RequireTfa

Put(work) == [kind |-> "put", account |-> work.account, sub |-> work.row.sub, value |-> NeedsTfa(work)]

Save(t) ==
  LET work == job[t] IN
  /\ Doing(t, "edit") \/ Doing(t, "save")
  /\ account' = [account EXCEPT ![work.account] = work.row]
  /\ lost' = (lost \/ work.row.sub # account[work.account].sub)
  /\ IF work.kind = "edit" /\ work.row.sub # None
     THEN Continue(t, Put(work))
     ELSE Respond(t)
  /\ UNCHANGED <<cookie, reached, requireTfa, unsynced>>

\* The command sync_role_tfa reads the linked accounts and tells the SSO of
\* administrators and, when asked to, of the others.
SyncRole(t, a) ==
  /\ account[a].there /\ account[a].sub # None
  /\ Begin(t, Put([account |-> a, row |-> account[a]]))
  /\ UNCHANGED signInVars

\* set_require_tfa: the call is made, or fails and is forgotten.
PutRequireTfa(t) ==
  LET work == job[t] IN
  /\ Doing(t, "put")
  /\ \/ /\ requireTfa' = IF work.value THEN requireTfa \cup {work.sub} ELSE requireTfa \ {work.sub}
        /\ unsynced' = unsynced \ {work.account}
     \/ /\ unsynced' = unsynced \cup {work.account}
        /\ UNCHANGED requireTfa
  /\ Respond(t)
  /\ UNCHANGED <<account, cookie, reached, lost>>

Next ==
  \E t \in Threads :
    \/ Start(t) \/ CallbackFails(t)
    \/ \E s \in Identities : Callback(t, s)
    \/ FindBySub(t) \/ FindByLegacy(t) \/ FindByName(t) \/ Link(t) \/ Create(t)
    \/ \E a \in Accounts, role \in Roles : EditUser(t, a, role) \/ SaveLater(t, a, role)
    \/ \E a \in Accounts : SyncRole(t, a)
    \/ Save(t) \/ PutRequireTfa(t)

Spec == Init /\ [][Next]_vars

-----------------------------------------------------------------------------
\* An identity always gets the account that it got first, and nobody else
\* gets that account, in spite of sign-ins and saves that overlap, as long as
\* no link is overwritten by a request that had read the row without it.
OneAccountEach ==
  ~lost => \A r, s \in Identities :
             /\ Cardinality(reached[s]) <= 1
             /\ r # s => reached[r] \cap reached[s] = {}

\* The SSO asks every administrator with a link for a second factor, unless
\* a call failed, the link is younger than the role and was not synchronised,
\* or two requests overlapped: the role is saved and sent separately.
AdministratorsNeedTfa ==
  (Quiet /\ ~overlapped) =>
    \A a \in Accounts \ unsynced :
      account[a].sub # None /\ account[a].role \in RequireTfa => account[a].sub \in requireTfa
-----------------------------------------------------------------------------
(* What makes the property inductive.                                      *)


\* A link is a link of an account that exists.
Rows == {r \in [there : BOOLEAN, role : Roles, sub : Identities \cup {None}] :
           r.sub # None => r.there}
Searching == {"bySub", "byLegacy", "byName", "create"}

\* What a thread holds: whom it searches for, an account without a link that
\* it will link, or a row that it will save.
WorkOK(work) ==
  work # None =>
    /\ work.kind \in Searching => work \in [kind : Searching, sub : Identities]
    /\ work.kind = "link" =>
         /\ work.sub \in Identities /\ work.account \in Accounts /\ work.seen = None
         /\ account[work.account].there
    /\ work.kind \in {"edit", "save"} =>
         work.account \in Accounts /\ work.row \in Rows /\ work.row.there

TypesOK ==
  /\ account \in [Accounts -> Rows]
  /\ reached \in [Identities -> SUBSET Accounts]
  /\ JobTable
  /\ \A t \in Threads : WorkOK(job[t])

\* Who was signed in to an account still has its link, and no identity has two.
Linked ==
  /\ \A s \in Identities : \A a \in reached[s] : account[a].sub = s /\ account[a].there
  /\ \A a, b \in Accounts : account[a].sub # None /\ account[a].sub = account[b].sub => a = b

LinkInv == TypesOK /\ (~lost => Linked)

\* What a request holds is what is stored, but for the role that it saves; only
\* the edit of a user, which tells the SSO next, makes an administrator.
Current(work) ==
  /\ work.kind = "link" => account[work.account].sub = None
  /\ work.kind \in {"edit", "save"} => work.row.sub = account[work.account].sub
  /\ work.kind = "save" /\ work.row.role \in RequireTfa =>
       account[work.account].role \in RequireTfa
  /\ work.kind = "put" =>
       /\ work.account \in Accounts
       /\ work.sub = account[work.account].sub /\ work.sub # None
       /\ work.value = (account[work.account].role \in RequireTfa)

\* An administrator with a link is known to the SSO, or it is being told.
Known(a) ==
  account[a].sub # None /\ account[a].role \in RequireTfa =>
    \/ account[a].sub \in requireTfa
    \/ \E t \in Threads : Doing(t, "put") /\ job[t].account = a

Tracked ==
  /\ ~lost /\ Alone
  /\ \A t \in Threads : Busy(t) => Current(job[t])
  /\ \A a \in Accounts \ unsynced : Known(a)

TfaInv == ~overlapped => Tracked
====
