---- MODULE LlmKeys ----
(***************************************************************************)
(* One key of the LLM gateway: the gateway asks for each call whether the  *)
(* key is valid and reports the tokens afterwards, an administrator        *)
(* revokes the key, and its time runs out.  Every save names its fields,   *)
(* and counters are added to by the database (llm/views/internal.py,       *)
(* llm/views/admin.py).                                                    *)
(***************************************************************************)
EXTENDS Requests

VARIABLES
  key,        \* the key's row: status, total_requests, total_prompt_tokens
  past        \* expires_at has passed

keyVars == <<key, past>>
vars == <<job, requests, overlapped, key, past>>

Init ==
  /\ RequestsInit
  /\ key = [status |-> "active", requests |-> 0, tokens |-> 0]
  /\ past = FALSE

Doing(t, kind) == Busy(t) /\ job[t].kind = kind

\* The row is read.  A key whose time has passed expires, even a revoked one;
\* otherwise an active key is counted, if its scope has the model.
Validate(t) ==
  /\ \/ key.status # "expired" /\ past
        /\ Begin(t, [kind |-> "set", status |-> "expired"])
     \/ key.status = "active" /\ ~past
        /\ Begin(t, [kind |-> "count", row |-> key])
     \/ AtOnce /\ ~Busy(t)
  /\ UNCHANGED keyVars

\* Mutant: every field is saved.
CountedWhole(row) == [row EXCEPT !.requests = key.requests + 1, !.tokens = key.tokens]

\* update_fields and F().
Counted(row) == [key EXCEPT !.requests = @ + 1]

Count(t) ==
  /\ Doing(t, "count")
  /\ key' = Counted(job[t].row)
  /\ Continue(t, [kind |-> "report"])
  /\ UNCHANGED past

\* The call of the gateway ends with a report, or without.
Report(t) ==
  /\ Doing(t, "report")
  /\ \/ key' = [key EXCEPT !.tokens = @ + 1]
     \/ UNCHANGED key
  /\ Respond(t)
  /\ UNCHANGED past

Revoke(t) ==
  /\ IF key.status = "revoked" THEN AtOnce /\ ~Busy(t)
                               ELSE Begin(t, [kind |-> "set", status |-> "revoked"])
  /\ UNCHANGED keyVars

SetStatus(t) ==
  /\ Doing(t, "set")
  /\ key' = [key EXCEPT !.status = job[t].status]
  /\ Respond(t)
  /\ UNCHANGED past

Expire == past' = TRUE /\ UNCHANGED <<job, requests, overlapped, key>>

Next ==
  \/ \E t \in Threads :
       Validate(t) \/ Count(t) \/ Report(t) \/ Revoke(t) \/ SetStatus(t)
  \/ Expire

Spec == Init /\ [][Next]_vars

-----------------------------------------------------------------------------
\* A key that was revoked or has expired is never active again, whatever was
\* read before it was.  (A revoked key may be shown as expired later.)
RevokedForGoodStep == key.status # "active" => key'.status # "active"

RevokedForGood == [][RevokedForGoodStep]_vars
-----------------------------------------------------------------------------
(* What makes the property inductive.                                      *)

StatusInv ==
  /\ JobTable
  /\ key \in [status : {"active", "expired", "revoked"}, requests : Nat, tokens : Nat]
  /\ \A t \in Threads : Doing(t, "set") => job[t].status \in {"expired", "revoked"}
====
