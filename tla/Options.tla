---- MODULE Options ----
(***************************************************************************)
(* The system options: rows of the database that each thread of each       *)
(* worker caches for two seconds (my_property), the languages and the      *)
(* lists derived from them, which are cached a second time.  Of a value    *)
(* only its version counts: how often the option has been set.             *)
(***************************************************************************)
EXTENDS Requests, Sequences

CONSTANTS
  TTL,      \* DEFAULT_SHORT_TTL
  MaxTime   \* bound on the clock

VARIABLES
  replaced, \* history: when each version was replaced by the next
  cached,   \* per thread and name: the value and when it expires, or None
  clock,
  own       \* history: per thread, the last version it has set

optionVars == <<replaced, cached, clock, own>>
vars == <<job, requests, overlapped, replaced, cached, clock, own>>

\* language_names stands for all lists that are derived from languages.
Names == {"languages", "language_names"}

Init ==
  /\ RequestsInit
  /\ replaced = <<>>
  /\ cached = [t \in Threads |-> [n \in Names |-> None]]
  /\ clock = 0
  /\ own = [t \in Threads |-> 0]

\* The row of the option.
Stored == Len(replaced)

-----------------------------------------------------------------------------
Holds(slot) == slot # None /\ clock < slot.expires

\* Mutant: a value lasts from its last use.
KeptRenewed(slot, value) ==
  [value |-> IF Holds(slot) THEN slot.value ELSE value, expires |-> clock + TTL]

\* my_property.__get__: a value that has not expired, or the value that is
\* found now, for TTL.
Kept(slot, value) ==
  IF Holds(slot) THEN slot ELSE [value |-> value, expires |-> clock + TTL]

Get(t) ==
  /\ AtOnce
  /\ cached' = [cached EXCEPT ![t]["languages"] = Kept(@, Stored)]
  /\ UNCHANGED <<replaced, clock, own>>

\* The list is made anew from what the thread gets for the languages.
GetDerived(t) ==
  LET languages == Kept(cached[t]["languages"], Stored) IN
  /\ AtOnce
  /\ cached' = [cached EXCEPT
       ![t]["languages"] = IF Holds(cached[t]["language_names"]) THEN @ ELSE languages,
       ![t]["language_names"] = Kept(@, languages.value)]
  /\ UNCHANGED <<replaced, clock, own>>

\* my_property.__set__: the thread's own cached value goes, those of the
\* other threads and of the derived lists stay.
Set(t) ==
  /\ AtOnce
  /\ replaced' = Append(replaced, clock)
  /\ cached' = [cached EXCEPT ![t]["languages"] = None]
  /\ own' = [own EXCEPT ![t] = Len(replaced')]
  /\ UNCHANGED clock

Tick ==
  /\ clock < MaxTime
  /\ clock' = clock + 1
  /\ UNCHANGED <<job, requests, overlapped, replaced, cached, own>>

Next == (\E t \in Threads : Get(t) \/ GetDerived(t) \/ Set(t)) \/ Tick

Spec == Init /\ [][Next]_vars

-----------------------------------------------------------------------------
\* The value was replaced less than "age" ago, if at all.
NotOlder(value, age) == value < Stored => clock - replaced[value + 1] < age

\* A thread goes on with an option that another has changed for less than two
\* seconds, and for less than four with a list derived from it, for the one
\* cache fills the other; an option that it has set itself it sees at once.
StaleBound ==
  \A t \in Threads, n \in Names :
    Holds(cached[t][n]) =>
      /\ NotOlder(cached[t][n].value, IF n = "languages" THEN TTL ELSE 2 * TTL)
      /\ n = "languages" => cached[t][n].value >= own[t]
-----------------------------------------------------------------------------
(* What makes the property inductive.                                      *)

\* What is cached was the option's value, or that of the languages then cached,
\* TTL before it expires.
SlotOK(slot, age, set) ==
  slot # None =>
    /\ slot \in [value : Nat, expires : Nat]
    /\ slot.expires <= clock + TTL /\ set <= slot.value /\ slot.value <= Stored
    /\ slot.value < Stored => slot.expires <= replaced[slot.value + 1] + age

CacheInv ==
  /\ replaced \in Seq(Nat) /\ clock \in Nat
  /\ own \in [Threads -> 0..Stored]
  /\ cached \in [Threads -> [Names -> [value : Nat, expires : Nat] \cup {None}]]
  /\ \A t \in Threads : /\ SlotOK(cached[t]["languages"], TTL, own[t])
                        /\ SlotOK(cached[t]["language_names"], 2 * TTL, 0)
====
