---- MODULE Throttle ----
(***************************************************************************)
(* The token bucket of a user's submissions (utils/throttling.py): two     *)
(* fields of a Redis hash, read and written in commands of their own.  One *)
(* token is added per tick of the clock (fill_rate).                       *)
(***************************************************************************)
EXTENDS Requests, Integers

CONSTANTS
  Capacity,         \* SysOptions.throttling["user"]
  DefaultCapacity,
  MaxTime           \* bound on the clock

VARIABLES
  stock,    \* last_capacity; None before the first submission
  stamp,    \* last_timestamp
  clock,
  granted,  \* history: submissions let through
  burst,    \* history: those since the last tick
  unstamped \* history: refills whose thread died before it set the time

bucketVars == <<stock, stamp, clock, granted, burst, unstamped>>
vars == <<job, requests, overlapped, stock, stamp, clock, granted, burst, unstamped>>

Init ==
  /\ RequestsInit
  /\ stock = None /\ stamp = None
  /\ clock = 0 /\ granted = 0 /\ burst = 0 /\ unstamped = 0

Doing(t, kind) == Busy(t) /\ job[t].kind = kind

Grant(t) ==
  /\ granted' = granted + 1 /\ burst' = burst + 1
  /\ Respond(t)

\* Where consume() goes with the stock it has found.
Branch(found) == IF found >= 1 THEN [kind |-> "spend"] ELSE [kind |-> "refill"]

Consume(t) ==
  /\ Begin(t, IF stock = None THEN [kind |-> "make"] ELSE Branch(stock))
  /\ UNCHANGED bucketVars

\* _init_key: the capacity, then the time.
MakeStock(t) ==
  /\ Doing(t, "make")
  /\ stock' = DefaultCapacity
  /\ Continue(t, [kind |-> "stamp"])
  /\ UNCHANGED <<stamp, clock, granted, burst, unstamped>>

MakeStamp(t) ==
  /\ Doing(t, "stamp")
  /\ stamp' = clock
  /\ Continue(t, Branch(DefaultCapacity))
  /\ UNCHANGED <<stock, clock, granted, burst, unstamped>>

\* _last_capacity -= 1 reads it a second time; the time stays.
Spend(t) ==
  /\ Doing(t, "spend")
  /\ Continue(t, [kind |-> "set", stock |-> stock - 1])
  /\ UNCHANGED bucketVars

SetStock(t) ==
  /\ Doing(t, "set")
  /\ stock' = job[t].stock
  /\ Grant(t)
  /\ UNCHANGED <<stamp, clock, unstamped>>

\* _try_to_fill
Filled(level, since) ==
  IF level + since < Capacity THEN level + since ELSE Capacity

\* A bucket without a time raises; one that stays empty asks to wait.
Refill(t) ==
  LET filled == Filled(stock, clock - stamp) IN
  /\ Doing(t, "refill")
  /\ IF stamp = None \/ filled < 1
     THEN Respond(t)
     ELSE Continue(t, [kind |-> "refilled", stock |-> filled - 1, now |-> clock])
  /\ UNCHANGED bucketVars

SetRefilled(t) ==
  /\ Doing(t, "refilled")
  /\ stock' = job[t].stock
  /\ Continue(t, [kind |-> "restamp", now |-> job[t].now])
  /\ UNCHANGED <<stamp, clock, granted, burst, unstamped>>

\* Mutant: the time of the last refill is left as it was.
NewStampKept(work) == stamp

NewStamp(work) == work.now

Restamp(t) ==
  /\ Doing(t, "restamp")
  /\ stamp' = NewStamp(job[t])
  /\ Grant(t)
  /\ UNCHANGED <<stock, clock, unstamped>>

\* The process dies, or Redis fails, between any two commands.  A refill that
\* has set the stock and not yet the time leaves the stock to be spent, and the
\* time to be counted once more.
Die(t) ==
  /\ Busy(t)
  /\ unstamped' = unstamped + IF job[t].kind = "restamp" THEN 1 ELSE 0
  /\ Respond(t)
  /\ UNCHANGED <<stock, stamp, clock, granted, burst>>

Tick ==
  /\ clock < MaxTime
  /\ clock' = clock + 1 /\ burst' = 0
  /\ UNCHANGED <<job, requests, overlapped, stock, stamp, granted, unstamped>>

Next ==
  \/ \E t \in Threads :
       \/ Consume(t) \/ MakeStock(t) \/ MakeStamp(t) \/ Die(t)
       \/ Spend(t) \/ SetStock(t) \/ Refill(t) \/ SetRefilled(t) \/ Restamp(t)
  \/ Tick

Spec == Init /\ [][Next]_vars

-----------------------------------------------------------------------------
\* What the refills that died gave without a time: less than a capacity each.
Again == (Capacity - 1) * unstamped

\* A user who submits one request after the other is let through no more often
\* than the default and the rate allow, and, after any pause, no more than the
\* rest of the stock and one capacity at once: time runs from the last refill,
\* not from the last submission, and counts once.  Only a refill that dies
\* between its two writes counts its time twice, and gives less than a capacity
\* too much.  Requests that overlap are excepted, as throttling.py says: they
\* spend the same token.
RateLimit ==
  ~overlapped =>
    /\ granted <= DefaultCapacity + clock + Again
    /\ burst <= 2 * Capacity + Again
-----------------------------------------------------------------------------
(* What makes the property inductive.                                      *)

\* The time that the grants of the past are charged to.
Since == IF stamp = None THEN 0 ELSE stamp

\* A refill that leaves a level and is not stamped yet: the time since the last
\* one pays for the level and the grant that comes with it.
Pays(now, level) ==
  /\ stamp \in Nat /\ now \in Nat /\ now <= clock
  /\ level \in Nat /\ level + 1 <= now - stamp /\ level < Capacity
  /\ granted <= DefaultCapacity + stamp + Again
  /\ burst <= Capacity + Again /\ (now # clock => burst = 0)

WorkOK(work) ==
  /\ work.kind \in {"make", "stamp", "spend", "set", "refill", "refilled", "restamp"}
  /\ work.kind = "make" => stock = None
  /\ work.kind = "stamp" => stock = DefaultCapacity /\ stamp = None /\ granted = 0 /\ burst = 0
  /\ work.kind = "spend" => stock \in Nat /\ stock >= 1
  /\ work.kind = "set" => work.stock \in Nat /\ stock = work.stock + 1
  /\ work.kind = "refill" => stock = 0
  /\ work.kind = "refilled" => stock = 0 /\ Pays(work.now, work.stock)
  /\ work.kind = "restamp" => Pays(work.now, stock)

\* Between refills the grants and the stock are paid for by the default, the
\* time up to the last refill and what died refills gave; a tick later one
\* capacity is left at most.
Ledger ==
  stock # None =>
    /\ granted + stock <= DefaultCapacity + Since + Again
    /\ burst + stock <= 2 * Capacity + Again
    /\ stamp # clock => burst + stock <= Capacity + Again

BucketInv ==
  /\ JobTable /\ clock \in Nat /\ granted \in Nat /\ burst \in Nat /\ unstamped \in Nat
  /\ ~overlapped =>
       /\ Alone /\ Again \in Nat
       /\ stock \in 0..Capacity \cup {None} /\ stamp \in 0..clock \cup {None}
       /\ stock = None => stamp = None /\ granted = 0 /\ burst = 0
       /\ \A t \in Threads : Busy(t) => WorkOK(job[t])
       /\ Ledger \/ \E t \in Threads : Doing(t, "restamp")
====
