---- MODULE TotalsProofs ----
(***************************************************************************)
(* Folds of finite sets, and totals: what they are when a value is added   *)
(* or changed.  What holds of the empty set, and of a set when it holds of *)
(* all smaller ones, holds of every finite set: there is no smallest       *)
(* counterexample.                                                         *)
(***************************************************************************)
EXTENDS Totals, FiniteSetTheorems, WellFoundedInduction, TLAPS

\* Of a nonempty collection of subsets, one has no other member as a subset.
LEMMA SmallestSet ==
  ASSUME NEW S, IsFiniteSet(S), NEW bad \in SUBSET SUBSET S, bad # {}
  PROVE  \E s \in bad : \A r \in SUBSET s : r # s => r \notin bad
<1>1. bad \subseteq FiniteSubsetsOf(S)
  BY FS_Subset DEF FiniteSubsetsOf
<1>2. PICK s \in bad : \A r \in bad : ~(<<r, s>> \in StrictSubsetOrdering(S))
  BY <1>1, FS_StrictSubsetOrderingWellFounded, WFMin
<1>3. ASSUME NEW r \in SUBSET s, r # s, r \in bad PROVE FALSE
  BY <1>2, <1>3 DEF StrictSubsetOrdering
<1>4. QED
  BY <1>2, <1>3

Some(s) == CHOOSE x \in s : TRUE

\* f has the sums of g over the subsets of S.
Adds(f, g, S) ==
  /\ f \in [SUBSET S -> Int] /\ f[{}] = 0
  /\ \A s \in SUBSET S : s # {} => f[s] = g[Some(s)] + f[s \ {Some(s)}]

\* The member that a sum takes first.
LEMMA SomeIn == ASSUME NEW s, s # {} PROVE Some(s) \in s
  BY DEF Some

\* Equal values have equal sums.
LEMMA SumsAgree ==
  ASSUME NEW S, NEW Z, NEW f, NEW g, NEW h, NEW k, Adds(f, g, S), Adds(h, k, Z),
         NEW s \in SUBSET (S \cap Z), IsFiniteSet(s), \A x \in s : g[x] = k[x]
  PROVE  f[s] = h[s]
<1> DEFINE bad == {r \in SUBSET s : f[r] # h[r]}
<1>1. ASSUME bad # {} PROVE FALSE
  <2>1. PICK r \in bad : \A q \in SUBSET r : q # r => q \notin bad
    <3>1. bad \in SUBSET SUBSET s
      OBVIOUS
    <3> HIDE DEF bad
    <3>2. QED
      BY <1>1, <3>1, SmallestSet
  <2>2. CASE r = {}
    BY <2>1, <2>2 DEF Adds
  <2>3. CASE r # {}
    <3>1. PICK x \in r : x = Some(r)
      BY <2>3, SomeIn
    <3>2. f[r] = g[x] + f[r \ {x}] /\ h[r] = k[x] + h[r \ {x}] /\ g[x] = k[x]
      BY <2>3, <3>1 DEF Adds
    <3>3. r \ {x} \in SUBSET r /\ r \ {x} # r /\ r \ {x} \in SUBSET s
      OBVIOUS
    <3>4. f[r \ {x}] = h[r \ {x}]
      BY <2>1, <3>3
    <3>5. QED
      BY <3>2, <3>4
  <2>4. QED
    BY <2>2, <2>3
<1>2. QED
  BY <1>1

\* f starts with base and takes one member after the other, the one that pick
\* names.
FoldsBy(pick, f, step, base, S, V) ==
  /\ f \in [SUBSET S -> V] /\ f[{}] = base
  /\ \A s \in SUBSET S : s # {} => f[s] = step[<<pick[s], f[s \ {pick[s]}]>>]

\* Two that do the same agree.
LEMMA FoldsByAgree ==
  ASSUME NEW S, NEW Z, NEW V, NEW f, NEW h, NEW step, NEW base, NEW pick,
         FoldsBy(pick, f, step, base, S, V), FoldsBy(pick, h, step, base, Z, V),
         NEW s \in SUBSET (S \cap Z), IsFiniteSet(s),
         \A r \in SUBSET s : r # {} => pick[r] \in r
  PROVE  f[s] = h[s]
<1> DEFINE bad == {r \in SUBSET s : f[r] # h[r]}
<1>1. ASSUME bad # {} PROVE FALSE
  <2>1. PICK r \in bad : \A q \in SUBSET r : q # r => q \notin bad
    <3>1. bad \in SUBSET SUBSET s
      OBVIOUS
    <3> HIDE DEF bad
    <3>2. QED
      BY <1>1, <3>1, SmallestSet
  <2>2. CASE r = {}
    BY <2>1, <2>2 DEF FoldsBy
  <2>3. CASE r # {}
    <3>1. PICK x \in r : x = pick[r]
      BY <2>1, <2>3
    <3>2. f[r] = step[<<x, f[r \ {x}]>>] /\ h[r] = step[<<x, h[r \ {x}]>>]
      BY <2>3, <3>1 DEF FoldsBy
    <3>3. r \ {x} \in SUBSET r /\ r \ {x} # r /\ r \ {x} \in SUBSET s
      OBVIOUS
    <3>4. f[r \ {x}] = h[r \ {x}]
      BY <2>1, <3>3
    <3>5. QED
      BY <2>1, <3>2, <3>4
  <2>4. QED
    BY <2>2, <2>3
<1>2. QED
  BY <1>1

\* A finite set can be folded.
LEMMA FoldsByExist ==
  ASSUME NEW S, IsFiniteSet(S), NEW V, NEW base \in V, NEW step, NEW pick,
         \A r \in SUBSET S : r # {} => pick[r] \in r,
         \A x \in S, v \in V : step[<<x, v>>] \in V
  PROVE  \E f : FoldsBy(pick, f, step, base, S, V)
<1> DEFINE bad == {s \in SUBSET S : ~\E f : FoldsBy(pick, f, step, base, s, V)}
           Of(r) == CHOOSE f : FoldsBy(pick, f, step, base, r, V)
<1>1. ASSUME bad # {} PROVE FALSE
  <2>1. PICK s \in bad : \A r \in SUBSET s : r # s => r \notin bad
    <3>1. bad \in SUBSET SUBSET S
      OBVIOUS
    <3> HIDE DEF bad
    <3>2. QED
      BY <1>1, <3>1, SmallestSet
  <2>2. \A r \in SUBSET s : r # s => FoldsBy(pick, Of(r), step, base, r, V) /\ Of(r)[r] \in V
    <3>1. ASSUME NEW r \in SUBSET s, r # s
          PROVE  FoldsBy(pick, Of(r), step, base, r, V) /\ Of(r)[r] \in V
      <4>1. \E f : FoldsBy(pick, f, step, base, r, V)
        BY <2>1, <3>1
      <4>2. FoldsBy(pick, Of(r), step, base, r, V)
        BY <4>1
      <4> HIDE DEF Of
      <4>3. QED
        BY <4>2 DEF FoldsBy
    <3>2. QED
      BY <3>1
  <2> HIDE DEF Of
  <2> DEFINE f == [r \in SUBSET s |-> IF r = {} THEN base
                                      ELSE step[<<pick[r], Of(r \ {pick[r]})[r \ {pick[r]}]>>]]
  <2>3. ASSUME NEW r \in SUBSET s, r # {}
        PROVE  r \ {pick[r]} \in SUBSET s /\ r \ {pick[r]} # s /\ pick[r] \in S
    BY <2>1, <2>3
  <2>4. f \in [SUBSET s -> V] /\ f[{}] = base
    <3>1. ASSUME NEW r \in SUBSET s, r # {}
          PROVE  f[r] \in V
      <4>1. PICK v \in V : v = Of(r \ {pick[r]})[r \ {pick[r]}]
        BY <2>2, <2>3, <3>1
      <4>2. f[r] = step[<<pick[r], v>>]
        BY <3>1, <4>1
      <4>3. QED
        BY <2>3, <3>1, <4>2
    <3>2. QED
      BY <3>1
  <2>5. ASSUME NEW r \in SUBSET s, r # {}
        PROVE  f[r] = step[<<pick[r], f[r \ {pick[r]}]>>]
    <3>1. PICK q \in SUBSET s : q = r \ {pick[r]}
      BY <2>3, <2>5
    <3>2. q # s /\ FoldsBy(pick, Of(q), step, base, q, V)
      BY <2>2, <2>3, <2>5, <3>1
    <3>3. f[q] = Of(q)[q]
      <4>1. CASE q = {}
        BY <3>2, <4>1 DEF FoldsBy
      <4>2. CASE q # {}
        <5>1. PICK w \in SUBSET s : w = q \ {pick[q]}
          BY <2>3, <4>2
        <5>2. w # s /\ FoldsBy(pick, Of(w), step, base, w, V) /\ w \in SUBSET (q \cap w) /\ IsFiniteSet(w)
              /\ \A z \in SUBSET w : z # {} => pick[z] \in z
          <6>1. w # s /\ FoldsBy(pick, Of(w), step, base, w, V)
            BY <2>2, <2>3, <4>2, <5>1
          <6>2. QED
            BY <5>1, <6>1, FS_Subset
        <5>3. Of(q)[w] = Of(w)[w]
          BY <3>2, <5>2, FoldsByAgree
        <5>4. Of(q)[q] = step[<<pick[q], Of(q)[w]>>]
          BY <3>2, <4>2, <5>1 DEF FoldsBy
        <5>5. f[q] = step[<<pick[q], Of(w)[w]>>]
          BY <4>2, <5>1
        <5>6. QED
          BY <5>3, <5>4, <5>5
      <4>3. QED
        BY <4>1, <4>2
    <3>4. f[r] = step[<<pick[r], Of(q)[q]>>]
      BY <2>5, <3>1
    <3>5. QED
      BY <3>1, <3>3, <3>4
  <2>6. FoldsBy(pick, f, step, base, s, V)
    BY <2>4, <2>5 DEF FoldsBy
  <2>7. QED
    BY <2>1, <2>6
<1>2. S \notin bad
  BY <1>1
<1>3. QED
  BY <1>2

\* f takes the members in the order of a sum.
Folds(f, step, base, S, V) ==
  /\ f \in [SUBSET S -> V] /\ f[{}] = base
  /\ \A s \in SUBSET S : s # {} => f[s] = step[<<Some(s), f[s \ {Some(s)}]>>]

LEMMA FoldsExist ==
  ASSUME NEW S, IsFiniteSet(S), NEW V, NEW base \in V, NEW step,
         \A x \in S, v \in V : step[<<x, v>>] \in V
  PROVE  \E f : Folds(f, step, base, S, V)
<1> DEFINE pick == [s \in SUBSET S |-> Some(s)]
<1>1. \A s \in SUBSET S : pick[s] = Some(s)
  OBVIOUS
<1> HIDE DEF pick
<1>2. \A s \in SUBSET S : s # {} => pick[s] \in s
  BY <1>1, SomeIn
<1>3. PICK f : FoldsBy(pick, f, step, base, S, V)
  BY <1>2, FoldsByExist
<1>4. Folds(f, step, base, S, V)
  BY <1>1, <1>3 DEF FoldsBy, Folds
<1>5. QED
  BY <1>4

\* There are sums.
LEMMA SumsExist ==
  ASSUME NEW S, IsFiniteSet(S), NEW g, \A x \in S : g[x] \in Int
  PROVE  \E f : Adds(f, g, S)
<1> DEFINE step == [d \in S \X Int |-> g[d[1]] + d[2]]
<1>1. /\ \A x \in S, v \in Int : step[<<x, v>>] = g[x] + v
      /\ \A x \in S, v \in Int : step[<<x, v>>] \in Int
  OBVIOUS
<1> HIDE DEF step
<1>2. PICK f : Folds(f, step, 0, S, Int)
  <2>1. PICK V : V = Int
    OBVIOUS
  <2>2. PICK zero \in V : zero = 0
    BY <2>1
  <2>3. \A x \in S, v \in V : step[<<x, v>>] \in V
    BY <1>1, <2>1, Zenon
  <2>4. \E f : Folds(f, step, zero, S, V)
    BY <2>3, FoldsExist
  <2>5. QED
    BY <2>1, <2>2, <2>4, Zenon
<1>3. ASSUME NEW s \in SUBSET S, s # {}
      PROVE  f[s] = g[Some(s)] + f[s \ {Some(s)}]
  <2>1. Some(s) \in S /\ s \ {Some(s)} \in SUBSET S
    BY <1>3, SomeIn
  <2>2. PICK v \in Int : v = f[s \ {Some(s)}]
    BY <1>2, <2>1 DEF Folds
  <2>3. QED
    BY <1>1, <1>2, <1>3, <2>1, <2>2 DEF Folds
<1>4. QED
  BY <1>2, <1>3 DEF Folds, Adds

\* Any member may be added last.
LEMMA AnyOrder ==
  ASSUME NEW S, NEW f, NEW g, Adds(f, g, S), \A y \in S : g[y] \in Int,
         NEW s \in SUBSET S, IsFiniteSet(s), NEW x \in s
  PROVE  f[s] = g[x] + f[s \ {x}]
<1> DEFINE bad == {r \in SUBSET s : \E y \in r : f[r] # g[y] + f[r \ {y}]}
<1>1. ASSUME bad # {} PROVE FALSE
  <2>1. PICK r \in bad : \A q \in SUBSET r : q # r => q \notin bad
    <3>1. bad \in SUBSET SUBSET s
      OBVIOUS
    <3> HIDE DEF bad
    <3>2. QED
      BY <1>1, <3>1, SmallestSet
  <2>2. PICK y \in r : f[r] # g[y] + f[r \ {y}]
    OBVIOUS
  <2>3. PICK z \in r : z = Some(r) /\ f[r] = g[z] + f[r \ {z}]
    BY SomeIn DEF Adds
  <2>4. y # z
    BY <2>2, <2>3
  <2>5. f[r \ {z}] = g[y] + f[(r \ {z}) \ {y}] /\ f[r \ {y}] = g[z] + f[(r \ {y}) \ {z}]
    <3>1. r \ {z} \in SUBSET r /\ r \ {z} # r /\ y \in r \ {z} /\ r \ {z} \in SUBSET s
      BY <2>4
    <3>2. r \ {y} \in SUBSET r /\ r \ {y} # r /\ z \in r \ {y} /\ r \ {y} \in SUBSET s
      BY <2>4
    <3>3. r \ {z} \notin bad /\ r \ {y} \notin bad
      BY <2>1, <3>1, <3>2
    <3>4. QED
      BY <3>1, <3>2, <3>3
  <2>6. (r \ {z}) \ {y} = (r \ {y}) \ {z}
    OBVIOUS
  <2>7. PICK rest \in Int : rest = f[(r \ {y}) \ {z}]
    BY DEF Adds
  <2>8. f[r] = g[z] + (g[y] + rest) /\ f[r \ {y}] = g[z] + rest
    BY <2>3, <2>5, <2>6, <2>7
  <2>9. g[y] \in Int /\ g[z] \in Int
    OBVIOUS
  <2>10. QED
    BY <2>2, <2>7, <2>8, <2>9
<1>2. QED
  BY <1>1

\* The sum of values over a set is that of any function that adds them.
LEMMA TotalIsSum ==
  ASSUME NEW S, IsFiniteSet(S), NEW g, \A x \in S : g[x] \in Int
  PROVE  \E f : Adds(f, g, S) /\ Total(g, S) = f[S]
<1> DEFINE Eq(i) == i = [s \in SUBSET S |-> IF s = {} THEN 0
                                            ELSE g[CHOOSE x \in s : TRUE]
                                                 + i[s \ {CHOOSE x \in s : TRUE}]]
           iter == CHOOSE i : Eq(i)
<1>1. PICK f : Adds(f, g, S)
  BY SumsExist
<1>2. Eq(f)
  <2>1. f = [s \in SUBSET S |-> f[s]]
    BY <1>1 DEF Adds
  <2>2. \A s \in SUBSET S : f[s] = IF s = {} THEN 0 ELSE g[CHOOSE x \in s : TRUE]
                                                       + f[s \ {CHOOSE x \in s : TRUE}]
    BY <1>1 DEF Adds, Some
  <2>3. QED
    BY <2>1, <2>2
<1>3. Eq(iter)
  <2> HIDE DEF Eq
  <2> QED BY <1>2
<1>4. Total(g, S) = iter[S]
  BY DEF Total, MapThenSumSet, MapThenFoldSet
<1>5. PICK i : i = iter
  OBVIOUS
<1>6. /\ i[{}] = 0
      /\ \A s \in SUBSET S : s # {} => i[s] = g[Some(s)] + i[s \ {Some(s)}]
  <2> HIDE DEF iter
  <2>1. Eq(i)
    BY <1>3, <1>5
  <2>2. \A s \in SUBSET S : i[s] = IF s = {} THEN 0 ELSE g[CHOOSE x \in s : TRUE]
                                                       + i[s \ {CHOOSE x \in s : TRUE}]
    BY <2>1
  <2>3. QED
    BY <2>2 DEF Some
<1>7. \A s \in SUBSET S : i[s] \in Int
  <2> HIDE DEF iter, Eq
  <2> DEFINE bad == {s \in SUBSET S : i[s] \notin Int}
  <2>1. ASSUME bad # {} PROVE FALSE
    <3>1. PICK s \in bad : \A r \in SUBSET s : r # s => r \notin bad
      <4>1. bad \in SUBSET SUBSET S
        OBVIOUS
      <4> HIDE DEF bad
      <4>2. QED
        BY <2>1, <4>1, SmallestSet
    <3>2. s # {} /\ s \in SUBSET S /\ i[s] \notin Int
      <4>1. s \in SUBSET S /\ i[s] \notin Int
        OBVIOUS
      <4>2. i[{}] \in Int
        BY <1>6
      <4>3. QED
        BY <4>1, <4>2, Zenon
    <3>3. Some(s) \in s
      BY <3>2, SomeIn
    <3>4. i[s \ {Some(s)}] \in Int /\ g[Some(s)] \in Int
      BY <3>1, <3>3
    <3>5. QED
      BY <1>6, <3>2, <3>4
  <2>2. QED
    BY <2>1
<1>8. Adds(i, g, S)
  <2> HIDE DEF iter
  <2>1. i = [s \in SUBSET S |-> i[s]]
    BY <1>3, <1>5
  <2> HIDE DEF Eq
  <2>2. i \in [SUBSET S -> Int]
    BY <1>7, <2>1
  <2>3. QED
    BY <1>6, <2>2 DEF Adds
<1>9. QED
  BY <1>4, <1>5, <1>8

\* No values.
LEMMA TotalOfNone == ASSUME NEW g PROVE Total(g, {}) = 0
<1>1. PICK f : Adds(f, g, {}) /\ Total(g, {}) = f[{}]
  BY TotalIsSum, FS_EmptySet
<1>2. QED
  BY <1>1 DEF Adds

\* One value more.
LEMMA TotalWith ==
  ASSUME NEW S, IsFiniteSet(S), NEW x, x \notin S, NEW g, \A y \in S \cup {x} : g[y] \in Int
  PROVE  Total(g, S) \in Int /\ Total(g, S \cup {x}) = Total(g, S) + g[x]
<1>1. PICK f : Adds(f, g, S) /\ Total(g, S) = f[S]
  BY TotalIsSum
<1>2. PICK Z : Z = S \cup {x}
  OBVIOUS
<1>3. IsFiniteSet(Z) /\ \A y \in Z : g[y] \in Int
  BY <1>2, FS_AddElement
<1>4. PICK e : Adds(e, g, Z) /\ Total(g, Z) = e[Z]
  BY <1>3, TotalIsSum
<1>5. Z \in SUBSET Z /\ x \in Z /\ Z \ {x} = S
  BY <1>2
<1>6. e[Z] = g[x] + e[S]
  BY <1>3, <1>4, <1>5, AnyOrder
<1>7. f[S] = e[S]
  <2>1. S \in SUBSET (S \cap Z)
    BY <1>2
  <2>2. QED
    BY <1>1, <1>4, <2>1, SumsAgree
<1>8. f[S] \in Int /\ g[x] \in Int
  BY <1>1 DEF Adds
<1>9. e[Z] = f[S] + g[x]
  BY <1>6, <1>7, <1>8
<1>10. QED
  BY <1>1, <1>2, <1>4, <1>8, <1>9

\* Equal values.
LEMMA TotalSame ==
  ASSUME NEW S, IsFiniteSet(S), NEW g, NEW h, \A y \in S : g[y] = h[y] /\ h[y] \in Int
  PROVE  Total(g, S) = Total(h, S) /\ Total(g, S) \in Int
<1>1. PICK f : Adds(f, g, S) /\ Total(g, S) = f[S]
  BY TotalIsSum
<1>2. PICK e : Adds(e, h, S) /\ Total(h, S) = e[S]
  BY TotalIsSum
<1>3. S \in SUBSET (S \cap S) /\ f[S] \in Int
  BY <1>1 DEF Adds
<1>4. QED
  BY <1>1, <1>2, <1>3, SumsAgree

\* One value changed.
LEMMA TotalChanged ==
  ASSUME NEW S, IsFiniteSet(S), NEW x \in S, NEW g, NEW h,
         \A y \in S : g[y] \in Int /\ h[y] \in Int, \A y \in S \ {x} : g[y] = h[y]
  PROVE  Total(g, S) \in Int /\ Total(h, S) = Total(g, S) - g[x] + h[x]
<1>1. PICK r : r = S \ {x}
  OBVIOUS
<1>2. IsFiniteSet(r) /\ x \notin r /\ r \cup {x} = S
  BY <1>1, FS_Subset
<1>3. Total(g, r) = Total(h, r)
  BY <1>1, <1>2, TotalSame
<1>4. Total(g, r) \in Int /\ Total(g, r \cup {x}) = Total(g, r) + g[x]
  BY <1>2, TotalWith
<1>5. Total(h, r \cup {x}) = Total(h, r) + h[x]
  BY <1>2, TotalWith
<1>6. g[x] \in Int /\ h[x] \in Int
  OBVIOUS
<1>7. PICK n \in Int : n = Total(g, r)
  BY <1>4
<1>8. Total(g, S) = n + g[x] /\ Total(h, S) = n + h[x]
  BY <1>2, <1>3, <1>4, <1>5, <1>7, Zenon
<1>9. QED
  BY <1>6, <1>8

\* Nothing but zeros.
LEMMA TotalOfZeros ==
  ASSUME NEW S, IsFiniteSet(S), NEW g, \A y \in S : g[y] = 0
  PROVE  Total(g, S) = 0
<1> DEFINE bad == {s \in SUBSET S : Total(g, s) # 0}
<1>1. ASSUME bad # {} PROVE FALSE
  <2>1. PICK s \in bad : \A r \in SUBSET s : r # s => r \notin bad
    <3>1. bad \in SUBSET SUBSET S
      OBVIOUS
    <3> HIDE DEF bad
    <3>2. QED
      BY <1>1, <3>1, SmallestSet
  <2>2. PICK x : x \in s
    BY <2>1, TotalOfNone
  <2>3. PICK r \in SUBSET S : r = s \ {x}
    OBVIOUS
  <2>4. r \cup {x} = s /\ x \notin r /\ IsFiniteSet(r) /\ Total(g, r) = 0
    BY <2>1, <2>2, <2>3, FS_Subset
  <2>5. \A y \in r \cup {x} : g[y] \in Int
    BY <2>2, <2>3
  <2>6. Total(g, r \cup {x}) = Total(g, r) + g[x]
    BY <2>4, <2>5, TotalWith
  <2>7. g[x] = 0 /\ Total(g, s) # 0
    BY <2>2
  <2>8. Total(g, r \cup {x}) = 0
    BY <2>4, <2>6, <2>7
  <2>9. QED
    BY <2>4, <2>7, <2>8, Zenon
<1>2. QED
  BY <1>1

\* Members without a value count for nothing.
LEMMA TotalOfPart ==
  ASSUME NEW S, IsFiniteSet(S), NEW Z \in SUBSET S, NEW g,
         \A y \in S : g[y] \in Int, \A y \in S \ Z : g[y] = 0
  PROVE  Total(g, S) = Total(g, Z) /\ Total(g, Z) \in Int
<1> DEFINE bad == {s \in SUBSET (S \ Z) : Total(g, s \cup Z) # Total(g, Z)}
<1>0. IsFiniteSet(Z) /\ IsFiniteSet(S \ Z)
  BY FS_Subset, FS_Difference
<1>1. ASSUME bad # {} PROVE FALSE
  <2>1. PICK s \in bad : \A r \in SUBSET s : r # s => r \notin bad
    <3>1. bad \in SUBSET SUBSET (S \ Z)
      OBVIOUS
    <3> HIDE DEF bad
    <3>2. QED
      BY <1>0, <1>1, <3>1, SmallestSet
  <2>2. s # {}
    <3>1. {} \cup Z = Z
      OBVIOUS
    <3>2. {} \notin bad
      BY <3>1, Zenon
    <3>3. QED
      BY <3>2
  <2>3. PICK x : x \in s
    BY <2>2
  <2>4. PICK r : r = (s \ {x}) \cup Z
    OBVIOUS
  <2>5. IsFiniteSet(r) /\ x \notin r /\ r \cup {x} = s \cup Z /\ r \cup {x} \subseteq S
    <3>1. r \subseteq S /\ x \notin r /\ r \cup {x} = s \cup Z /\ r \cup {x} \subseteq S
      BY <2>3, <2>4
    <3>2. QED
      BY <3>1, FS_Subset
  <2>6. Total(g, r) = Total(g, Z)
    <3>1. s \ {x} \in SUBSET s /\ s \ {x} # s /\ s \ {x} \in SUBSET (S \ Z)
      BY <2>3
    <3>2. QED
      BY <2>1, <2>4, <3>1
  <2>7. Total(g, r) \in Int /\ Total(g, r \cup {x}) = Total(g, r) + g[x]
    BY <2>5, TotalWith
  <2>8. g[x] = 0 /\ Total(g, s \cup Z) # Total(g, Z)
    BY <2>3
  <2>9. Total(g, r \cup {x}) = Total(g, r)
    BY <2>7, <2>8
  <2>10. QED
    BY <2>5, <2>6, <2>8, <2>9, Zenon
<1>2. S \ Z \notin bad
  BY <1>1
<1>3. (S \ Z) \cup Z = S
  OBVIOUS
<1>4. Total(g, S) = Total(g, Z)
  BY <1>2, <1>3, Zenon
<1>5. Total(g, Z) \in Int
  BY <1>0, TotalSame
<1>6. QED
  BY <1>4, <1>5

\* What is never negative has no negative total.
LEMMA TotalIsNat ==
  ASSUME NEW S, IsFiniteSet(S), NEW g, \A y \in S : g[y] \in Nat
  PROVE  Total(g, S) \in Nat
<1> DEFINE bad == {s \in SUBSET S : Total(g, s) \notin Nat}
<1>1. ASSUME bad # {} PROVE FALSE
  <2>1. PICK s \in bad : \A r \in SUBSET s : r # s => r \notin bad
    <3>1. bad \in SUBSET SUBSET S
      OBVIOUS
    <3> HIDE DEF bad
    <3>2. QED
      BY <1>1, <3>1, SmallestSet
  <2>2. s # {}
    <3>1. {} \notin bad
      BY TotalOfNone
    <3>2. QED
      BY <3>1
  <2>3. PICK x : x \in s
    BY <2>2
  <2>4. PICK r : r = s \ {x}
    OBVIOUS
  <2>5. /\ IsFiniteSet(r) /\ x \notin r /\ r \cup {x} = s /\ r \in SUBSET s /\ r # s
        /\ \A y \in r \cup {x} : g[y] \in Int
    BY <2>3, <2>4, FS_Subset
  <2>6. PICK n \in Nat : n = Total(g, r)
    BY <2>1, <2>5
  <2>7. Total(g, r \cup {x}) = Total(g, r) + g[x]
    BY <2>5, TotalWith
  <2>8. Total(g, s) = n + g[x] /\ g[x] \in Nat
    BY <2>3, <2>5, <2>6, <2>7, Zenon
  <2>9. QED
    BY <2>1, <2>8
<1>2. QED
  BY <1>1

\* A sum of natural numbers that is nothing has only zeros.
LEMMA TotalIsZero ==
  ASSUME NEW S, IsFiniteSet(S), NEW g, \A y \in S : g[y] \in Nat, Total(g, S) = 0, NEW x \in S
  PROVE  g[x] = 0
<1>1. PICK r : r = S \ {x}
  OBVIOUS
<1>2. IsFiniteSet(r) /\ x \notin r /\ r \cup {x} = S
  BY <1>1, FS_Subset
<1>3. Total(g, r) \in Nat
  BY <1>1, <1>2, TotalIsNat
<1>4. Total(g, S) = Total(g, r) + g[x]
  <2>1. \A y \in r \cup {x} : g[y] \in Int
    BY <1>2
  <2>2. Total(g, r \cup {x}) = Total(g, r) + g[x]
    BY <1>2, <2>1, TotalWith
  <2>3. QED
    BY <1>2, <2>2
<1>5. QED
  BY <1>3, <1>4

\* A sum may be taken kind by kind.
LEMMA SumsByKind ==
  ASSUME NEW S, IsFiniteSet(S), NEW K, IsFiniteSet(K), NEW kind \in [S -> K],
         NEW g, \A y \in S : g[y] \in Int
  PROVE  /\ Total(g, S) = Total([k \in K |-> Total(g, {y \in S : kind[y] = k})], K)
         /\ \A k \in K : Total(g, {y \in S : kind[y] = k}) \in Int
<1> DEFINE part(s) == [k \in K |-> Total(g, {y \in s : kind[y] = k})]
           bad == {s \in SUBSET S : Total(g, s) # Total(part(s), K)}
<1>1. ASSUME NEW s \in SUBSET S, NEW k
      PROVE  Total(g, {y \in s : kind[y] = k}) \in Int
  <2>1. PICK r \in SUBSET S : r = {y \in s : kind[y] = k}
    OBVIOUS
  <2>2. IsFiniteSet(r) /\ \A y \in r : g[y] = g[y] /\ g[y] \in Int
    BY FS_Subset
  <2>3. Total(g, r) \in Int
    BY <2>2, TotalSame
  <2>4. QED
    BY <2>1, <2>3
<1>2. ASSUME bad # {} PROVE FALSE
  <2>1. PICK s \in bad : \A r \in SUBSET s : r # s => r \notin bad
    <3>1. bad \in SUBSET SUBSET S
      OBVIOUS
    <3> HIDE DEF bad
    <3>2. QED
      BY <1>2, <3>1, SmallestSet
  <2>2. CASE s = {}
    <3>1. \A k \in K : {y \in s : kind[y] = k} = {}
      BY <2>2
    <3>2. \A k \in K : part(s)[k] = 0
      BY <3>1, TotalOfNone
    <3>3. Total(part(s), K) = 0
      <4>1. PICK z : z = part(s)
        OBVIOUS
      <4>2. \A k \in K : z[k] = 0
        BY <3>2, <4>1
      <4>3. Total(z, K) = 0
        BY <4>2, TotalOfZeros
      <4>4. QED
        BY <4>1, <4>3
    <3>4. QED
      BY <2>2, <3>3, TotalOfNone
  <2>3. CASE s # {}
    <3>1. PICK x \in s : TRUE
      BY <2>3
    <3>2. PICK r : r = s \ {x}
      OBVIOUS
    <3>3. /\ r \in SUBSET S /\ IsFiniteSet(r) /\ x \notin r /\ r \cup {x} = s /\ x \in S
          /\ r \in SUBSET s /\ r # s
      BY <3>1, <3>2, FS_Subset
    <3>4. Total(g, r) = Total(part(r), K)
      BY <2>1, <3>3
    <3>5. Total(g, s) = Total(g, r) + g[x] /\ Total(g, r) \in Int
      BY <3>3, TotalWith
    <3>6. PICK k \in K : k = kind[x]
      BY <3>3
    <3>7. PICK a, b : a = part(r) /\ b = part(s)
      OBVIOUS
    <3>8. \A i \in K : a[i] \in Int /\ b[i] \in Int
      <4>1. ASSUME NEW i \in K
            PROVE  Total(g, {y \in r : kind[y] = i}) \in Int /\ Total(g, {y \in s : kind[y] = i}) \in Int
        <5> HIDE DEF bad, part
        <5>1. s \in SUBSET S
          BY <2>1 DEF bad
        <5>2. QED
          BY <1>1, <3>3, <5>1
      <4>2. QED
        BY <3>7, <4>1
    <3>9. \A i \in K \ {k} : a[i] = b[i]
      <4>1. \A i \in K \ {k} : {y \in r : kind[y] = i} = {y \in s : kind[y] = i}
        BY <3>3, <3>6
      <4>2. QED
        BY <3>7, <4>1
    <3>10. b[k] = a[k] + g[x]
      <4>1. PICK q : q = {y \in r : kind[y] = k}
        OBVIOUS
      <4>2. q \cup {x} = {y \in s : kind[y] = k} /\ x \notin q
        BY <3>3, <3>6, <4>1
      <4>3. IsFiniteSet(q) /\ \A y \in q \cup {x} : g[y] \in Int
        BY <3>3, <4>1, FS_Subset
      <4>4. Total(g, q \cup {x}) = Total(g, q) + g[x]
        <5> HIDE DEF bad, part
        <5>1. x \notin q
          BY <4>2
        <5>2. QED
          BY <4>3, <5>1, TotalWith
      <4>5. QED
        BY <3>7, <4>1, <4>2, <4>4
    <3>11. Total(b, K) = Total(a, K) - a[k] + b[k] /\ Total(a, K) \in Int
      BY <3>8, <3>9, TotalChanged
    <3>12. Total(b, K) = Total(g, s)
      BY <3>3, <3>4, <3>5, <3>7, <3>8, <3>10, <3>11
    <3>13. QED
      BY <2>1, <3>7, <3>12
  <2>4. QED
    BY <2>2, <2>3
<1>3. Total(g, S) = Total(part(S), K)
  BY <1>2
<1>4. QED
  BY <1>1, <1>3

\* The same, with a name for each part and for its sum.
LEMMA TotalByKind ==
  ASSUME NEW S, IsFiniteSet(S), NEW K, IsFiniteSet(K), NEW kind \in [S -> K],
         NEW g, \A y \in S : g[y] \in Int,
         NEW part, \A k \in K : \A y : y \in part[k] <=> y \in S /\ kind[y] = k,
         NEW h, \A k \in K : h[k] = Total(g, part[k])
  PROVE  Total(g, S) = Total(h, K)
<1>1. PICK e : e = [k \in K |-> Total(g, {y \in S : kind[y] = k})]
  OBVIOUS
<1>2. Total(g, S) = Total(e, K) /\ \A k \in K : Total(g, {y \in S : kind[y] = k}) \in Int
  BY <1>1, SumsByKind
<1>3. \A k \in K : part[k] = {y \in S : kind[y] = k}
  OBVIOUS
<1>4. \A k \in K : e[k] = h[k] /\ h[k] \in Int
  BY <1>1, <1>2, <1>3
<1>5. Total(e, K) = Total(h, K)
  BY <1>4, TotalSame
<1>6. QED
  BY <1>2, <1>5

\* Values that are told apart may be summed under other names.
LEMMA TotalOfImage ==
  ASSUME NEW S, IsFiniteSet(S), NEW h, \A x, y \in S : h[x] = h[y] => x = y,
         NEW f, NEW g, \A x \in S : f[x] = g[h[x]] /\ f[x] \in Int
  PROVE  Total(f, S) = Total(g, {h[x] : x \in S}) /\ Total(f, S) \in Int
<1> DEFINE bad == {s \in SUBSET S : Total(f, s) # Total(g, {h[x] : x \in s})}
<1>1. ASSUME bad # {} PROVE FALSE
  <2>1. PICK s \in bad : \A r \in SUBSET s : r # s => r \notin bad
    <3>1. bad \in SUBSET SUBSET S
      OBVIOUS
    <3> HIDE DEF bad
    <3>2. QED
      BY <1>1, <3>1, SmallestSet
  <2>2. CASE s = {}
    <3>1. {h[x] : x \in s} = {}
      BY <2>2
    <3>2. QED
      BY <2>1, <2>2, <3>1, TotalOfNone
  <2>3. CASE s # {}
    <3>1. PICK x \in s : TRUE
      BY <2>3
    <3>2. PICK r : r = s \ {x}
      OBVIOUS
    <3>3. /\ r \in SUBSET S /\ IsFiniteSet(r) /\ x \notin r /\ r \cup {x} = s /\ x \in S
          /\ r \in SUBSET s /\ r # s
      BY <3>1, <3>2, FS_Subset
    <3>4. Total(f, r) = Total(g, {h[y] : y \in r})
      BY <2>1, <3>3
    <3>5. Total(f, s) = Total(f, r) + f[x] /\ Total(f, r) \in Int
      <4>1. \A y \in r \cup {x} : f[y] \in Int
        BY <3>3
      <4> HIDE DEF bad
      <4>2. Total(f, r \cup {x}) = Total(f, r) + f[x] /\ Total(f, r) \in Int
        BY <3>3, <4>1, TotalWith
      <4>3. QED
        BY <3>3, <4>2
    <3>6. PICK q : q = {h[y] : y \in r}
      OBVIOUS
    <3>7. IsFiniteSet(q)
      <4>1. PICK j : j = [y \in r |-> h[y]]
        OBVIOUS
      <4>2. j \in Surjection(r, q)
        BY <3>6, <4>1 DEF Surjection
      <4>3. QED
        BY <3>3, <4>2, FS_Surjection
    <3>8. q \cup {h[x]} = {h[y] : y \in s} /\ h[x] \notin q /\ \A z \in q \cup {h[x]} : g[z] \in Int
      BY <3>3, <3>6
    <3>9. Total(g, q \cup {h[x]}) = Total(g, q) + g[h[x]]
      <4>1. PICK z : z = h[x]
        OBVIOUS
      <4>2. z \notin q /\ \A y \in q \cup {z} : g[y] \in Int
        BY <3>8, <4>1
      <4> HIDE DEF bad
      <4>3. Total(g, q \cup {z}) = Total(g, q) + g[z]
        BY <3>7, <4>2, TotalWith
      <4>4. QED
        BY <4>1, <4>3
    <3>10. QED
      BY <2>1, <3>3, <3>4, <3>5, <3>6, <3>8, <3>9
  <2>4. QED
    BY <2>2, <2>3
<1>2. Total(f, S) = Total(g, {h[x] : x \in S})
  BY <1>1
<1>3. Total(f, S) \in Int
  <2>1. \A y \in S : f[y] = f[y] /\ f[y] \in Int
    OBVIOUS
  <2>2. QED
    BY <2>1, TotalSame
<1>4. QED
  BY <1>2, <1>3
====
