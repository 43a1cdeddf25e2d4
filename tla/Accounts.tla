---- MODULE Accounts ----
(***************************************************************************)
(* One row of the table user with its two pairs of fields that have to fit *)
(* together: two_factor_auth and tfa_token, open_api and open_api_appkey.  *)
(* Every view reads the row at the start of the request and saves all of   *)
(* its fields at the end, so that the later of two saves wins.  The other  *)
(* fields (name, role, password, session keys, reset token) are one bit.   *)
(***************************************************************************)
EXTENDS Requests

VARIABLES
  row,         \* the user's row
  shown,       \* tokens whose QR code the user has been shown
  issued       \* tokens and keys generated by administrators

accountVars == <<row, shown, issued>>
vars == <<job, requests, overlapped, row, shown, issued>>

NewUser == [tfa |-> FALSE, token |-> None, openApi |-> FALSE, appkey |-> None,
            mailed |-> FALSE, other |-> FALSE]

Init ==
  /\ RequestsInit
  /\ row = NewUser
  /\ shown = {} /\ issued = {}

\* rand_str(): a value never seen before.
Fresh == requests + 1

\* The row as the request has changed it, to be saved.
Change(t, changed) ==
  /\ Begin(t, [row |-> changed, shows |-> None])
  /\ UNCHANGED <<row, shown>>

-----------------------------------------------------------------------------
(* The user's own requests.                                                *)

\* A QR code of a new token, while two factor authentication is off.
ShowQR(t) ==
  /\ ~row.tfa
  /\ Begin(t, [row |-> [row EXCEPT !.token = Fresh], shows |-> Fresh])
  /\ UNCHANGED <<row, shown, issued>>

\* The user enters a code: only a token that was shown gives valid ones.
CodeIsValid == row.token \in shown

TurnOn(t) ==
  /\ CodeIsValid
  /\ Change(t, [row EXCEPT !.tfa = TRUE]) /\ UNCHANGED issued

TurnOff(t) ==
  /\ row.tfa /\ CodeIsValid
  /\ Change(t, [row EXCEPT !.tfa = FALSE]) /\ UNCHANGED issued

NewAppkey(t) ==
  /\ row.openApi
  /\ Change(t, [row EXCEPT !.appkey = Fresh]) /\ UNCHANGED issued

\* A link to reset the password is mailed.
ApplyReset(t) ==
  /\ Change(t, [row EXCEPT !.mailed = TRUE]) /\ UNCHANGED issued

\* The user follows the mailed link: the password is set and two factor
\* authentication goes off, the token stays.
ResetPassword(t) ==
  /\ row.mailed
  /\ Change(t, [row EXCEPT !.mailed = FALSE, !.tfa = FALSE]) /\ UNCHANGED issued

\* Saves of the row for other fields: a new session key (the middleware),
\* sessions, the profile, the old single sign-on, assistants, and, with a
\* valid code when two factor authentication is on, e-mail and password.
Touch(t) ==
  /\ Change(t, [row EXCEPT !.other = ~@]) /\ UNCHANGED issued

-----------------------------------------------------------------------------
(* Administrators' requests.                                               *)

\* Keys are made anew only when their switch was off.
Edited(openApi, tfa) ==
  [row EXCEPT !.openApi = openApi, !.tfa = tfa, !.other = ~@,
              !.appkey = IF ~openApi THEN None ELSE IF row.openApi THEN @ ELSE Fresh,
              !.token = IF ~tfa THEN None ELSE IF row.tfa THEN @ ELSE Fresh]

EditUser(t, openApi, tfa) ==
  /\ Change(t, Edited(openApi, tfa))
  /\ issued' = issued \cup {Fresh}

-----------------------------------------------------------------------------
\* Mutant: only the switch of a request is saved, as with update_fields.
SavedSwitch(work) == [row EXCEPT !.tfa = work.row.tfa, !.openApi = work.row.openApi]

\* user.save() writes every field.
Saved(work) == work.row

Save(t) ==
  /\ Busy(t)
  /\ row' = Saved(job[t])
  /\ shown' = shown \cup ({job[t].shows} \ {None})
  /\ Respond(t)
  /\ UNCHANGED issued

Next ==
  \E t \in Threads :
    \/ ShowQR(t) \/ TurnOn(t) \/ TurnOff(t) \/ NewAppkey(t)
    \/ ApplyReset(t) \/ ResetPassword(t) \/ Touch(t)
    \/ \E openApi, tfa \in BOOLEAN : EditUser(t, openApi, tfa)
    \/ Save(t)

Spec == Init /\ [][Next]_vars

-----------------------------------------------------------------------------
\* Two factor authentication is never on without a token, nor with a token
\* that the user was never shown, unless an administrator switched it on;
\* the API is open exactly with a key.  It holds in spite of requests that
\* save rows read long before, since each row as a whole was right.
KeysUsable ==
  /\ row.tfa => row.token \in shown \cup issued
  /\ row.openApi <=> row.appkey # None
-----------------------------------------------------------------------------
(* What makes the property inductive.                                      *)


Rows == [tfa : BOOLEAN, token : Nat \cup {None}, openApi : BOOLEAN,
         appkey : Nat \cup {None}, mailed : BOOLEAN, other : BOOLEAN]

\* A row that would not violate KeysUsable.
Usable(r) ==
  /\ r.tfa => r.token \in shown \cup issued
  /\ r.openApi <=> r.appkey # None

\* KeysUsable is about the row that is stored; any row that a request holds may
\* be stored later, whatever was stored meanwhile, so it has to be usable too.
UsableInv ==
  /\ requests \in Nat
  /\ JobTable
  /\ row \in Rows /\ Usable(row)
  /\ \A t \in Threads : Busy(t) =>
       /\ job[t] \in [row : Rows, shows : Nat \cup {None}]
       /\ Usable(job[t].row)
====
