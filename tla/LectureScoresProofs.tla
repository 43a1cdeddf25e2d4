---- MODULE LectureScoresProofs ----
(***************************************************************************)
(* Proofs about the score tree for any finite sets of types, contests and  *)
(* problems, and for every number of threads, operations and submissions:  *)
(* every tree that is stored or computed is well formed, contests are      *)
(* listed once, the totals add up, and the tree that the tasks change bit  *)
(* by bit shows what one made anew would.  The greater part is about the   *)
(* operators on trees: what each of them lists, shows and sums up.         *)
(***************************************************************************)
EXTENDS LectureScoresInv, TotalsProofs

-----------------------------------------------------------------------------
(* Nodes that have others below.                                           *)

\* A member of Partial(A, B).
LEMMA PartialFacts ==
  ASSUME NEW A, NEW B, NEW f
  PROVE  f \in Partial(A, B) <=>
           /\ f = [x \in DOMAIN f |-> f[x]] /\ DOMAIN f \subseteq A
           /\ \A x \in DOMAIN f : f[x] \in B
<1>1. ASSUME f \in Partial(A, B)
      PROVE  /\ f = [x \in DOMAIN f |-> f[x]] /\ DOMAIN f \subseteq A
             /\ \A x \in DOMAIN f : f[x] \in B
  <2>1. PICK D \in SUBSET A : f \in [D -> B]
    BY <1>1 DEF Partial
  <2>2. QED BY <2>1
<1>2. ASSUME f = [x \in DOMAIN f |-> f[x]], DOMAIN f \subseteq A, \A x \in DOMAIN f : f[x] \in B
      PROVE  f \in Partial(A, B)
  <2>1. f \in [DOMAIN f -> B]
    BY <1>2
  <2>2. QED BY <1>2, <2>1 DEF Partial
<1>3. QED BY <1>1, <1>2

\* One node more, or changed.
LEMMA WithIs ==
  ASSUME NEW f, NEW k, NEW v
  PROVE  With(f, k, v) = [x \in DOMAIN f \cup {k} |-> IF x = k THEN v ELSE f[x]]
<1>1. PICK g : g = [x \in DOMAIN f \cup {k} |-> IF x = k THEN v ELSE f[x]] OBVIOUS
<1>2. CASE k \in DOMAIN f
  <2>1. PICK h : h = [f EXCEPT ![k] = v] OBVIOUS
  <2>2. DOMAIN h = DOMAIN g /\ \A x \in DOMAIN g : h[x] = g[x]
    BY <1>1, <1>2, <2>1
  <2>3. h = [x \in DOMAIN h |-> h[x]]
    BY <2>1
  <2>4. g = [x \in DOMAIN g |-> g[x]]
    BY <1>1
  <2>5. h = g
    BY <2>2, <2>3, <2>4
  <2>6. QED BY <1>1, <1>2, <2>1, <2>5 DEF With
<1>3. CASE k \notin DOMAIN f
  BY <1>3 DEF With
<1>4. QED BY <1>2, <1>3

LEMMA WithFacts ==
  ASSUME NEW A, NEW B, NEW f \in Partial(A, B), NEW k \in A, NEW v \in B
  PROVE  /\ With(f, k, v) \in Partial(A, B) /\ DOMAIN With(f, k, v) = DOMAIN f \cup {k}
         /\ With(f, k, v)[k] = v
         /\ \A x \in DOMAIN f \ {k} : With(f, k, v)[x] = f[x]
<1>1. PICK g : g = [x \in DOMAIN f \cup {k} |-> IF x = k THEN v ELSE f[x]] OBVIOUS
<1>2. With(f, k, v) = g
  <2>1. With(f, k, v) = [x \in DOMAIN f \cup {k} |-> IF x = k THEN v ELSE f[x]]
    BY WithIs, Zenon
  <2>2. QED BY <1>1, <2>1, Zenon
<1>3. f = [x \in DOMAIN f |-> f[x]] /\ DOMAIN f \subseteq A /\ \A x \in DOMAIN f : f[x] \in B
  BY PartialFacts
<1>4. DOMAIN g = DOMAIN f \cup {k} /\ g[k] = v /\ \A x \in DOMAIN f \ {k} : g[x] = f[x]
  BY <1>1
<1>5. g \in Partial(A, B)
  <2>1. g = [x \in DOMAIN g |-> g[x]] /\ DOMAIN g \subseteq A /\ \A x \in DOMAIN g : g[x] \in B
    BY <1>1, <1>3, <1>4
  <2>2. QED BY <2>1, PartialFacts
<1>6. QED BY <1>2, <1>4, <1>5

\* One node less.
LEMMA WithoutIs == ASSUME NEW f, NEW k PROVE Without(f, k) = [x \in DOMAIN f \ {k} |-> f[x]]
BY DEF Without, Restrict

LEMMA WithoutFacts ==
  ASSUME NEW A, NEW B, NEW f \in Partial(A, B), NEW k \in A
  PROVE  /\ Without(f, k) \in Partial(A, B) /\ DOMAIN Without(f, k) = DOMAIN f \ {k}
         /\ \A x \in DOMAIN f \ {k} : Without(f, k)[x] = f[x]
<1>1. PICK g : g = [x \in DOMAIN f \ {k} |-> f[x]] OBVIOUS
<1>2. Without(f, k) = g
  BY <1>1, WithoutIs, Zenon
<1>3. f = [x \in DOMAIN f |-> f[x]] /\ DOMAIN f \subseteq A /\ \A x \in DOMAIN f : f[x] \in B
  BY PartialFacts
<1>4. DOMAIN g = DOMAIN f \ {k} /\ \A x \in DOMAIN f \ {k} : g[x] = f[x]
  BY <1>1
<1>5. g \in Partial(A, B)
  <2>1. g = [x \in DOMAIN g |-> g[x]] /\ DOMAIN g \subseteq A /\ \A x \in DOMAIN g : g[x] \in B
    BY <1>1, <1>3, <1>4
  <2>2. QED BY <2>1, PartialFacts
<1>6. QED BY <1>2, <1>4, <1>5

\* A node changed.
LEMMA ExceptFacts ==
  ASSUME NEW A, NEW B, NEW f \in Partial(A, B), NEW k, NEW v \in B
  PROVE  /\ [f EXCEPT ![k] = v] \in Partial(A, B) /\ DOMAIN [f EXCEPT ![k] = v] = DOMAIN f
         /\ k \in DOMAIN f => [f EXCEPT ![k] = v][k] = v
         /\ \A x \in DOMAIN f : x # k => [f EXCEPT ![k] = v][x] = f[x]
<1>1. PICK g : g = [f EXCEPT ![k] = v] OBVIOUS
<1>2. f = [x \in DOMAIN f |-> f[x]] /\ DOMAIN f \subseteq A /\ \A x \in DOMAIN f : f[x] \in B
  BY PartialFacts
<1>3. /\ DOMAIN g = DOMAIN f /\ g = [x \in DOMAIN g |-> g[x]]
      /\ \A x \in DOMAIN f : g[x] = IF x = k THEN v ELSE f[x]
  BY <1>1
<1>4. g \in Partial(A, B)
  <2>1. \A x \in DOMAIN g : g[x] \in B
    BY <1>2, <1>3
  <2>2. QED BY <1>2, <1>3, <2>1, PartialFacts
<1>5. QED BY <1>1, <1>3, <1>4

\* Storing twice is storing once.
LEMMA WithTwice ==
  ASSUME NEW f, NEW k, NEW v, NEW w
  PROVE  [With(f, k, v) EXCEPT ![k] = w] = With(f, k, w)
<1>1. PICK g : g = [x \in DOMAIN f \cup {k} |-> IF x = k THEN v ELSE f[x]] OBVIOUS
<1>2. PICK h : h = [x \in DOMAIN f \cup {k} |-> IF x = k THEN w ELSE f[x]] OBVIOUS
<1>3. With(f, k, v) = g /\ With(f, k, w) = h
  <2>1. With(f, k, v) = [x \in DOMAIN f \cup {k} |-> IF x = k THEN v ELSE f[x]]
    BY WithIs, Zenon
  <2>2. With(f, k, w) = [x \in DOMAIN f \cup {k} |-> IF x = k THEN w ELSE f[x]]
    BY WithIs, Zenon
  <2>3. QED BY <1>1, <1>2, <2>1, <2>2, Zenon
<1>4. PICK e : e = [g EXCEPT ![k] = w] OBVIOUS
<1>5. e = [x \in DOMAIN e |-> e[x]] /\ DOMAIN e = DOMAIN h /\ \A x \in DOMAIN e : e[x] = h[x]
  BY <1>1, <1>2, <1>4
<1>6. e = h
  BY <1>2, <1>5
<1>7. QED BY <1>3, <1>4, <1>6

-----------------------------------------------------------------------------
(* The sums of a node.                                                     *)

\* What a shown child adds to a sum.
Adding(A, kids, field) ==
  [k \in A |-> IF k \in DOMAIN kids /\ kids[k].visible THEN kids[k][field] ELSE 0]

\* The fields of a record of the tree.
LEMMA InfoFields ==
  ASSUME NEW info \in Info, NEW f \in Fields
  PROVE  info[f] \in Nat
BY DEF Info, Fields, Offered, Earned

\* A sum over the shown children is one over all there can be.
LEMMA SumOfAll ==
  ASSUME NEW A, IsFiniteSet(A), NEW kids \in Partial(A, Info), NEW f \in Fields
  PROVE  /\ SumOf(kids, f) = Total(Adding(A, kids, f), A) /\ SumOf(kids, f) \in Nat
<1>1. PICK Z \in SUBSET A : Z = Shown(kids)
  BY PartialFacts DEF Shown
<1>2. PICK h : h = [k \in Z |-> kids[k][f]] OBVIOUS
<1>3. PICK g : g = Adding(A, kids, f) OBVIOUS
<1>4. \A k \in Z : k \in DOMAIN kids /\ kids[k].visible /\ kids[k][f] \in Nat
  BY <1>1, PartialFacts, InfoFields DEF Shown
<1>5. \A k \in A \ Z : ~(k \in DOMAIN kids /\ kids[k].visible)
  BY <1>1 DEF Shown
<1>6. \A k \in Z : g[k] = h[k] /\ h[k] \in Nat
  BY <1>2, <1>3, <1>4 DEF Adding
<1>7. (\A k \in A \ Z : g[k] = 0) /\ \A k \in A : g[k] \in Int
  BY <1>3, <1>5, <1>6 DEF Adding
<1>8. Total(g, A) = Total(g, Z)
  BY <1>7, TotalOfPart
<1>9. IsFiniteSet(Z)
  BY FS_Subset
<1>10. Total(g, Z) = Total(h, Z)
  BY <1>6, <1>9, TotalSame
<1>11. Total(h, Z) \in Nat
  BY <1>6, <1>9, TotalIsNat
<1>12. SumOf(kids, f) = Total(h, Z)
  BY <1>1, <1>2, Zenon DEF SumOf
<1>13. QED BY <1>3, <1>8, <1>10, <1>11, <1>12

\* Children that add the same have the same sum.
LEMMA SumSame ==
  ASSUME NEW A, IsFiniteSet(A), NEW kids \in Partial(A, Info), NEW others \in Partial(A, Info),
         NEW f \in Fields, Adding(A, kids, f) = Adding(A, others, f)
  PROVE  SumOf(kids, f) = SumOf(others, f)
BY SumOfAll, Zenon

\* The fields of a record whose sums are taken.
LEMMA ReCalInfoFacts ==
  ASSUME NEW A, IsFiniteSet(A), NEW kids \in Partial(A, Info), NEW info \in Info,
         NEW m \in BOOLEAN, NEW a \in BOOLEAN
  PROVE  LET r == ReCalInfo(info, kids, m, a) IN
         /\ r \in Info /\ r.visible = info.visible
         /\ \A f \in Offered : r[f] = IF m THEN SumOf(kids, f) ELSE info[f]
         /\ \A f \in Earned : r[f] = IF a THEN SumOf(kids, f) ELSE info[f]
<1>1. PICK r : r = ReCalInfo(info, kids, m, a) OBVIOUS
<1>2. PICK number : number = Cardinality(Shown(kids)) OBVIOUS
<1>3. PICK submitted : submitted = Cardinality({k \in Shown(kids) : kids[k].submitted}) OBVIOUS
<1>4. PICK passed : passed = Cardinality({k \in Shown(kids) : kids[k].passed}) OBVIOUS
<1>5. PICK any \in BOOLEAN : any = \E k \in Shown(kids) : kids[k].submitted OBVIOUS
<1>6. PICK all \in BOOLEAN : all = \A k \in Shown(kids) : kids[k].passed OBVIOUS
<1>7. number \in Nat /\ submitted \in Nat /\ passed \in Nat
  <2>1. IsFiniteSet(DOMAIN kids)
    BY PartialFacts, FS_Subset
  <2>2. /\ Shown(kids) \subseteq DOMAIN kids
        /\ {k \in Shown(kids) : kids[k].submitted} \subseteq DOMAIN kids
        /\ {k \in Shown(kids) : kids[k].passed} \subseteq DOMAIN kids
    BY DEF Shown
  <2>3. QED BY <1>2, <1>3, <1>4, <2>1, <2>2, FS_Subset, FS_CardinalityType
<1>8. PICK sum : sum = [f \in Fields |-> SumOf(kids, f)] OBVIOUS
<1>9. \A f \in Fields : sum[f] \in Nat
  BY <1>8, SumOfAll
<1>10. PICK base : base = IF m THEN [info EXCEPT !.point = sum["point"], !.problems = sum["problems"],
                                                 !.contents = number]
                          ELSE info
  OBVIOUS
<1>11. r = IF ~a THEN base
           ELSE [base EXCEPT !.score = sum["score"], !.subProblems = sum["subProblems"],
                             !.solvedProblems = sum["solvedProblems"],
                             !.subContents = submitted, !.submitted = any,
                             !.solvedContents = passed, !.passed = all]
  <2>1. /\ sum["point"] = SumOf(kids, "point") /\ sum["problems"] = SumOf(kids, "problems")
        /\ sum["score"] = SumOf(kids, "score") /\ sum["subProblems"] = SumOf(kids, "subProblems")
        /\ sum["solvedProblems"] = SumOf(kids, "solvedProblems")
    BY <1>8 DEF Fields, Offered, Earned
  <2>2. QED BY <1>1, <1>2, <1>3, <1>4, <1>5, <1>6, <1>10, <2>1, Zenon DEF ReCalInfo, SumOf, Shown
<1>12. /\ base \in Info /\ base.visible = info.visible
       /\ \A f \in Offered : base[f] = IF m THEN sum[f] ELSE info[f]
       /\ \A f \in Earned : base[f] = info[f]
  <2>1. CASE m
    BY <1>7, <1>9, <1>10, <2>1 DEF Info, Fields, Offered, Earned
  <2>2. CASE ~m
    BY <1>10, <2>2
  <2>3. QED BY <2>1, <2>2
<1>13. /\ r \in Info /\ r.visible = base.visible
       /\ \A f \in Offered : r[f] = base[f]
       /\ \A f \in Earned : r[f] = IF a THEN sum[f] ELSE base[f]
  <2>1. CASE a
    BY ZenonT(60), <1>7, <1>9, <1>11, <1>12, <2>1 DEF Info, Fields, Offered, Earned
  <2>2. CASE ~a
    BY <1>11, <1>12, <2>2
  <2>3. QED BY <2>1, <2>2
<1>14. /\ \A f \in Offered : r[f] = IF m THEN SumOf(kids, f) ELSE info[f]
       /\ \A f \in Earned : r[f] = IF a THEN SumOf(kids, f) ELSE info[f]
  BY <1>8, <1>12, <1>13 DEF Fields
<1>15. QED BY <1>1, <1>12, <1>13, <1>14

-----------------------------------------------------------------------------
(* Trees and their sums.                                                   *)

\* The tree with other contests of one type.
Put(tree, ty, contests) ==
  [tree EXCEPT !.types = [tree.types EXCEPT ![ty] = [tree.types[ty] EXCEPT !.contests = contests]]]

\* The parts of a tree.
LEMMA TreeFacts ==
  ASSUME NEW tree \in Trees
  PROVE  /\ tree = [info |-> tree.info, types |-> tree.types] /\ tree.info \in Info
         /\ tree.types \in [Types -> Branch] /\ Infos(tree.types) \in Partial(Types, Info)
         /\ \A ty \in Types :
              /\ tree.types[ty] = [info |-> tree.types[ty].info, contests |-> tree.types[ty].contests]
              /\ tree.types[ty].info \in Info
              /\ tree.types[ty].contests \in Partial(Contests, NodeType)
<1>1. tree.types \in [Types -> Branch]
  BY DEF Trees
<1>2. Infos(tree.types) \in Partial(Types, Info)
  <2>1. /\ DOMAIN Infos(tree.types) = Types
        /\ Infos(tree.types) = [x \in DOMAIN Infos(tree.types) |-> Infos(tree.types)[x]]
        /\ \A x \in Types : Infos(tree.types)[x] \in Info
    BY <1>1 DEF Infos, Branch
  <2>2. QED BY <2>1, PartialFacts
<1>3. QED BY <1>1, <1>2 DEF Trees, Branch

\* The parts of a contest's node.
LEMMA NodesFacts ==
  ASSUME NEW contests \in Partial(Contests, NodeType)
  PROVE  /\ Infos(contests) \in Partial(Contests, Info)
         /\ DOMAIN Infos(contests) = DOMAIN contests /\ DOMAIN contests \subseteq Contests
         /\ \A c \in DOMAIN contests :
              /\ Infos(contests)[c] = contests[c].info /\ contests[c] \in NodeType
              /\ contests[c] = [info |-> contests[c].info, problems |-> contests[c].problems]
              /\ contests[c].info \in Info /\ contests[c].problems \in Partial(Problems, Info)
<1>1. DOMAIN contests \subseteq Contests /\ \A c \in DOMAIN contests : contests[c] \in NodeType
  BY PartialFacts
<1>2. /\ DOMAIN Infos(contests) = DOMAIN contests
      /\ Infos(contests) = [x \in DOMAIN Infos(contests) |-> Infos(contests)[x]]
      /\ \A c \in DOMAIN contests : Infos(contests)[c] = contests[c].info
  BY DEF Infos
<1>3. \A c \in DOMAIN contests :
        /\ contests[c] = [info |-> contests[c].info, problems |-> contests[c].problems]
        /\ contests[c].info \in Info /\ contests[c].problems \in Partial(Problems, Info)
  BY <1>1 DEF NodeType
<1>4. Infos(contests) \in Partial(Contests, Info)
  BY <1>1, <1>2, <1>3, PartialFacts
<1>5. QED BY <1>1, <1>2, <1>3, <1>4

\* The tree in which the contests of a type are replaced.
LEMMA PutFacts ==
  ASSUME NEW tree \in Trees, NEW ty \in Types, NEW contests \in Partial(Contests, NodeType)
  PROVE  LET r == Put(tree, ty, contests) IN
         /\ r \in Trees /\ r.info = tree.info
         /\ r.types[ty].info = tree.types[ty].info /\ r.types[ty].contests = contests
         /\ \A x \in Types : x # ty => r.types[x] = tree.types[x]
         /\ Infos(r.types) = Infos(tree.types)
<1>1. PICK branch : branch = [tree.types[ty] EXCEPT !.contests = contests] OBVIOUS
<1>2. branch \in Branch /\ branch.info = tree.types[ty].info /\ branch.contests = contests
  BY <1>1, TreeFacts DEF Branch
<1>3. PICK types : types = [tree.types EXCEPT ![ty] = branch] OBVIOUS
<1>4. types \in [Types -> Branch] /\ types[ty] = branch /\ \A x \in Types : x # ty => types[x] = tree.types[x]
  BY <1>2, <1>3, TreeFacts
<1>5. PICK r : r = [tree EXCEPT !.types = types] OBVIOUS
<1>6. r = Put(tree, ty, contests)
  BY <1>1, <1>3, <1>5, Zenon DEF Put
<1>7. r \in Trees /\ r.info = tree.info /\ r.types = types
  BY <1>4, <1>5, TreeFacts DEF Trees
<1>8. Infos(types) = Infos(tree.types)
  <2>1. DOMAIN types = Types /\ DOMAIN tree.types = Types /\ \A x \in Types : types[x].info = tree.types[x].info
    BY <1>2, <1>4, TreeFacts
  <2>2. QED BY <2>1 DEF Infos
<1>9. QED BY <1>2, <1>4, <1>6, <1>7, <1>8

\* A type's sums, then the lecture's.
LEMMA ReCalTypeFacts ==
  ASSUME NEW tree \in Trees, NEW ty \in Types, NEW m \in BOOLEAN, NEW a \in BOOLEAN
  PROVE  LET r == ReCalType(tree, ty, m, a) IN
         /\ r \in Trees
         /\ \A x \in Types : x # ty => r.types[x] = tree.types[x]
         /\ r.types[ty].contests = tree.types[ty].contests
         /\ r.types[ty].info.visible = tree.types[ty].info.visible
         /\ \A f \in Offered :
              /\ r.types[ty].info[f] = IF m THEN SumOf(Infos(tree.types[ty].contests), f)
                                       ELSE tree.types[ty].info[f]
              /\ r.info[f] = IF m THEN SumOf(Infos(r.types), f) ELSE tree.info[f]
         /\ \A f \in Earned :
              /\ r.types[ty].info[f] = IF a THEN SumOf(Infos(tree.types[ty].contests), f)
                                       ELSE tree.types[ty].info[f]
              /\ r.info[f] = IF a THEN SumOf(Infos(r.types), f) ELSE tree.info[f]
<1>1. PICK info : info = ReCalInfo(tree.types[ty].info, Infos(tree.types[ty].contests), m, a)
  OBVIOUS
<1>2. /\ info \in Info /\ info.visible = tree.types[ty].info.visible
      /\ \A f \in Offered : info[f] = IF m THEN SumOf(Infos(tree.types[ty].contests), f)
                                      ELSE tree.types[ty].info[f]
      /\ \A f \in Earned : info[f] = IF a THEN SumOf(Infos(tree.types[ty].contests), f)
                                     ELSE tree.types[ty].info[f]
  <2>1. PICK kids \in Partial(Contests, Info) : kids = Infos(tree.types[ty].contests)
    BY TreeFacts, NodesFacts
  <2>2. tree.types[ty].info \in Info
    BY TreeFacts
  <2>3. QED BY <1>1, <2>1, <2>2, ReCalInfoFacts, RowsAssumption
<1>3. PICK branch : branch = [tree.types[ty] EXCEPT !.info = info] OBVIOUS
<1>4. branch \in Branch /\ branch.info = info /\ branch.contests = tree.types[ty].contests
  BY <1>2, <1>3, TreeFacts DEF Branch
<1>5. PICK types : types = [tree.types EXCEPT ![ty] = branch] OBVIOUS
<1>6. types \in [Types -> Branch] /\ types[ty] = branch /\ \A x \in Types : x # ty => types[x] = tree.types[x]
  BY <1>4, <1>5, TreeFacts
<1>7. PICK top : top = ReCalInfo(tree.info, Infos(types), m, a) OBVIOUS
<1>8. /\ top \in Info
      /\ \A f \in Offered : top[f] = IF m THEN SumOf(Infos(types), f) ELSE tree.info[f]
      /\ \A f \in Earned : top[f] = IF a THEN SumOf(Infos(types), f) ELSE tree.info[f]
  <2>1. PICK kids \in Partial(Types, Info) : kids = Infos(types)
    <3>1. [info |-> tree.info, types |-> types] \in Trees
      BY <1>6, TreeFacts DEF Trees
    <3>2. QED BY <3>1, TreeFacts
  <2>2. tree.info \in Info
    BY TreeFacts
  <2>3. QED BY <1>7, <2>1, <2>2, ReCalInfoFacts, RowsAssumption
<1>9. ReCalType(tree, ty, m, a) = [info |-> top, types |-> types]
  BY <1>1, <1>3, <1>5, <1>7, Zenon DEF ReCalType
<1>10. PICK r : r = [info |-> top, types |-> types] OBVIOUS
<1>11. r \in Trees /\ r.info = top /\ r.types = types
  BY <1>6, <1>8, <1>10 DEF Trees
<1>12. QED BY <1>2, <1>4, <1>6, <1>8, <1>9, <1>10, <1>11

\* The parts of the tree that sums leave alone.
LEMMA ReCalTypeShape ==
  ASSUME NEW tree \in Trees, NEW ty \in Types, NEW m \in BOOLEAN, NEW a \in BOOLEAN
  PROVE  /\ ReCalType(tree, ty, m, a) \in Trees
         /\ \A x \in Types : x # ty => ReCalType(tree, ty, m, a).types[x] = tree.types[x]
         /\ \A x \in Types :
              /\ ReCalType(tree, ty, m, a).types[x].contests = tree.types[x].contests
              /\ ReCalType(tree, ty, m, a).types[x].info.visible = tree.types[x].info.visible
<1>1. PICK r : r = ReCalType(tree, ty, m, a) OBVIOUS
<1>2. /\ r \in Trees
      /\ \A x \in Types : x # ty => r.types[x] = tree.types[x]
      /\ r.types[ty].contests = tree.types[ty].contests
      /\ r.types[ty].info.visible = tree.types[ty].info.visible
  BY <1>1, ReCalTypeFacts
<1>3. \A x \in Types : /\ r.types[x].contests = tree.types[x].contests
                       /\ r.types[x].info.visible = tree.types[x].info.visible
  BY <1>2
<1>4. QED BY <1>1, <1>2, <1>3

\* The sums are taken in f.
Taken(f, m, a) == (f \in Offered /\ m) \/ (f \in Earned /\ a)

\* Sums that are taken again are right; the others stay as right as they were.
LEMMA TypeAdds ==
  ASSUME NEW tree \in Trees, NEW ty \in Types, NEW m \in BOOLEAN, NEW a \in BOOLEAN, NEW f \in Fields,
         \A x \in Types : tree.types[x].info.visible,
         \A x \in Types : x # ty \/ ~Taken(f, m, a) => BranchAdds(tree, x, f),
         ~Taken(f, m, a) => TreeAdds(tree, f)
  PROVE  LET r == ReCalType(tree, ty, m, a) IN
         TreeAdds(r, f) /\ \A x \in Types : BranchAdds(r, x, f)
<1>1. PICK r : r = ReCalType(tree, ty, m, a) OBVIOUS
<1>2. /\ r \in Trees
      /\ \A x \in Types : x # ty => r.types[x] = tree.types[x]
      /\ r.types[ty].contests = tree.types[ty].contests
      /\ r.types[ty].info.visible = tree.types[ty].info.visible
      /\ Taken(f, m, a) =>
           /\ r.types[ty].info[f] = SumOf(Infos(tree.types[ty].contests), f)
           /\ r.info[f] = SumOf(Infos(r.types), f)
      /\ ~Taken(f, m, a) =>
           r.types[ty].info[f] = tree.types[ty].info[f] /\ r.info[f] = tree.info[f]
  BY SMTT(60), <1>1, ReCalTypeFacts DEF Taken, Fields
<1>3. \A x \in Types : BranchAdds(r, x, f)
  <2>1. ASSUME NEW x \in Types, x # ty PROVE BranchAdds(r, x, f)
    BY <1>2, <2>1 DEF BranchAdds
  <2>2. BranchAdds(r, ty, f)
    BY <1>2 DEF BranchAdds
  <2>3. QED BY <2>1, <2>2
<1>4. TreeAdds(r, f)
  <2>1. CASE Taken(f, m, a)
    BY <1>2, <2>1 DEF TreeAdds
  <2>2. CASE ~Taken(f, m, a)
    <3>1. \A x \in Types : r.types[x].info.visible = tree.types[x].info.visible
                           /\ r.types[x].info[f] = tree.types[x].info[f]
      BY <1>2, <2>2
    <3>2. PICK old \in Partial(Types, Info) : old = Infos(tree.types)
      BY TreeFacts
    <3>3. PICK new \in Partial(Types, Info) : new = Infos(r.types)
      BY <1>2, TreeFacts
    <3>4. /\ DOMAIN old = Types /\ DOMAIN new = Types
          /\ \A x \in Types : old[x] = tree.types[x].info /\ new[x] = r.types[x].info
      BY <1>2, <3>2, <3>3, TreeFacts DEF Infos
    <3>5. Adding(Types, old, f) = Adding(Types, new, f)
      BY <3>1, <3>4 DEF Adding
    <3>6. SumOf(old, f) = SumOf(new, f)
      BY <3>5, SumSame, RowsAssumption
    <3>7. QED BY <1>2, <2>2, <3>2, <3>3, <3>6 DEF TreeAdds
  <2>3. QED BY <2>1, <2>2
<1>5. QED BY <1>1, <1>3, <1>4

\* Other contests of one type: sums that are not taken again add up to the same.
LEMMA PutAdds ==
  ASSUME NEW tree \in Trees, NEW ty \in Types, NEW contests \in Partial(Contests, NodeType), NEW f \in Fields,
         Adding(Contests, Infos(contests), f) = Adding(Contests, Infos(tree.types[ty].contests), f),
         NEW x \in Types
  PROVE  LET r == Put(tree, ty, contests) IN
         /\ TreeAdds(tree, f) => TreeAdds(r, f)
         /\ BranchAdds(tree, x, f) => BranchAdds(r, x, f)
<1>1. PICK r : r = Put(tree, ty, contests) OBVIOUS
<1>2. /\ r \in Trees /\ r.info = tree.info
      /\ r.types[ty].info = tree.types[ty].info /\ r.types[ty].contests = contests
      /\ \A y \in Types : y # ty => r.types[y] = tree.types[y]
      /\ Infos(r.types) = Infos(tree.types)
  BY <1>1, PutFacts
<1>3. TreeAdds(tree, f) => TreeAdds(r, f)
  BY <1>2 DEF TreeAdds
<1>4. ASSUME BranchAdds(tree, x, f) PROVE BranchAdds(r, x, f)
  <2>1. CASE x = ty
    <3>1. PICK old \in Partial(Contests, Info) : old = Infos(tree.types[ty].contests)
      BY TreeFacts, NodesFacts
    <3>2. PICK new \in Partial(Contests, Info) : new = Infos(contests)
      BY NodesFacts
    <3>3. SumOf(old, f) = SumOf(new, f)
      BY <3>1, <3>2, SumSame, RowsAssumption
    <3>4. QED BY <1>2, <1>4, <2>1, <3>1, <3>2, <3>3 DEF BranchAdds
  <2>2. CASE x # ty
    BY <1>2, <1>4, <2>2 DEF BranchAdds
  <2>3. QED BY <2>1, <2>2
<1>5. QED BY <1>1, <1>3, <1>4

\* A good tree with other contests of one type, whose sums are taken again or are
\* what they were.
LEMMA PutGood ==
  ASSUME NEW tree \in Trees, Good(tree), NEW ty \in Types, NEW contests \in Partial(Contests, NodeType),
         \A c \in DOMAIN contests : NodeGood(contests[c]),
         NEW m \in BOOLEAN, NEW a \in BOOLEAN,
         \A f \in Fields : ~Taken(f, m, a) =>
           Adding(Contests, Infos(contests), f) = Adding(Contests, Infos(tree.types[ty].contests), f)
  PROVE  Good(ReCalType(Put(tree, ty, contests), ty, m, a))
<1>1. PICK t : t = Put(tree, ty, contests) OBVIOUS
<1>2. /\ t \in Trees
      /\ t.types[ty].info = tree.types[ty].info /\ t.types[ty].contests = contests
      /\ \A y \in Types : y # ty => t.types[y] = tree.types[y]
  BY <1>1, PutFacts
<1>3. PICK r : r = ReCalType(t, ty, m, a) OBVIOUS
<1>4. /\ \A x \in Types : r.types[x].contests = t.types[x].contests
      /\ \A x \in Types : r.types[x].info.visible = t.types[x].info.visible
  BY SMTT(60), <1>2, <1>3, ReCalTypeShape
<1>5. ASSUME NEW f \in Fields
      PROVE  TreeAdds(r, f) /\ \A x \in Types : BranchAdds(r, x, f)
  <2>1. \A x \in Types : t.types[x].info.visible
    BY <1>2 DEF Good
  <2>2. ASSUME NEW x \in Types, x # ty \/ ~Taken(f, m, a)
        PROVE  BranchAdds(t, x, f)
    <3>1. CASE x # ty
      BY <1>2, <3>1 DEF Good, BranchAdds
    <3>2. CASE ~Taken(f, m, a)
      BY <1>1, <3>2, PutAdds DEF Good
    <3>3. QED BY <2>2, <3>1, <3>2
  <2>3. ASSUME ~Taken(f, m, a) PROVE TreeAdds(t, f)
    BY <1>1, <2>3, PutAdds DEF Good
  <2>4. QED BY <1>2, <1>3, <2>1, <2>2, <2>3, TypeAdds
<1>6. \A x \in Types : \A c \in DOMAIN r.types[x].contests : NodeGood(r.types[x].contests[c])
  BY <1>2, <1>4 DEF Good
<1>7. \A x \in Types : r.types[x].info.visible
  BY <1>2, <1>4 DEF Good
<1>8. Good(r)
  BY <1>5, <1>6, <1>7 DEF Good
<1>9. QED BY <1>1, <1>3, <1>8

\* The same when no sums are taken.
LEMMA PutStaysGood ==
  ASSUME NEW tree \in Trees, Good(tree), NEW ty \in Types, NEW contests \in Partial(Contests, NodeType),
         \A c \in DOMAIN contests : NodeGood(contests[c]),
         \A f \in Fields :
           Adding(Contests, Infos(contests), f) = Adding(Contests, Infos(tree.types[ty].contests), f)
  PROVE  Good(Put(tree, ty, contests))
<1>1. PICK t : t = Put(tree, ty, contests) OBVIOUS
<1>2. /\ t.types[ty].info = tree.types[ty].info /\ t.types[ty].contests = contests
      /\ \A y \in Types : y # ty => t.types[y] = tree.types[y]
  BY <1>1, PutFacts
<1>3. \A f \in Fields : TreeAdds(t, f) /\ \A x \in Types : BranchAdds(t, x, f)
  BY <1>1, PutAdds DEF Good
<1>4. \A x \in Types : /\ t.types[x].info.visible
                       /\ \A c \in DOMAIN t.types[x].contests : NodeGood(t.types[x].contests[c])
  BY <1>2 DEF Good
<1>5. Good(t)
  BY <1>3, <1>4 DEF Good
<1>6. QED BY <1>1, <1>5

\* The node of a shown contest whose sums are taken.
Redone(new, node, m, a) ==
  /\ new.problems = node.problems /\ new.info.visible
  /\ \A f \in Fields : new.info[f] = IF Taken(f, m, a) THEN SumOf(node.problems, f) ELSE node.info[f]

\* Putting twice.
LEMMA PutTwice ==
  ASSUME NEW tree \in Trees, NEW ty \in Types, NEW one, NEW other
  PROVE  Put(Put(tree, ty, one), ty, other) = Put(tree, ty, other)
<1>1. PICK branch : branch = tree.types[ty] OBVIOUS
<1>2. branch = [info |-> branch.info, contests |-> branch.contests] /\ tree.types \in [Types -> Branch]
      /\ tree = [info |-> tree.info, types |-> tree.types]
  BY <1>1, TreeFacts
<1>3. PICK b1 : b1 = [branch EXCEPT !.contests = one] OBVIOUS
<1>4. [b1 EXCEPT !.contests = other] = [branch EXCEPT !.contests = other]
  BY <1>2, <1>3
<1>5. PICK b2 : b2 = [branch EXCEPT !.contests = other] OBVIOUS
<1>6. PICK t1 : t1 = [tree.types EXCEPT ![ty] = b1] OBVIOUS
<1>7. [t1 EXCEPT ![ty] = b2] = [tree.types EXCEPT ![ty] = b2] /\ t1[ty] = b1
  BY <1>2, <1>6
<1>8. PICK r1 : r1 = [tree EXCEPT !.types = t1] OBVIOUS
<1>9. PICK t2 : t2 = [tree.types EXCEPT ![ty] = b2] OBVIOUS
<1>10. [r1 EXCEPT !.types = t2] = [tree EXCEPT !.types = t2] /\ r1.types = t1
  BY <1>2, <1>8
<1>11. Put(tree, ty, one) = r1 /\ Put(tree, ty, other) = [tree EXCEPT !.types = t2]
  BY <1>1, <1>3, <1>5, <1>6, <1>8, <1>9, Zenon DEF Put
<1>12. Put(r1, ty, other) = [r1 EXCEPT !.types = t2]
  BY <1>4, <1>5, <1>7, <1>9, <1>10, Zenon DEF Put
<1>13. QED BY <1>10, <1>11, <1>12

\* A node's sums, and where they go.
LEMMA NodeTaken ==
  ASSUME NEW tree \in Trees, NEW ty \in Types, NEW owner \in Types, NEW m \in BOOLEAN, NEW a \in BOOLEAN,
         NEW c \in Contests, NEW node \in NodeType
  PROVE  LET r == ReCalContest(Put(tree, ty, With(tree.types[ty].contests, c, node)), ty, owner, c, m, a) IN
         IF ~node.info.visible THEN r = Put(tree, ty, With(tree.types[ty].contests, c, node))
         ELSE \E new \in NodeType :
                /\ Redone(new, node, m, a)
                /\ r = ReCalType(Put(tree, ty, With(tree.types[ty].contests, c, new)), owner, m, a)
<1>1. PICK contests \in Partial(Contests, NodeType) : contests = tree.types[ty].contests
  BY TreeFacts
<1>2. PICK more \in Partial(Contests, NodeType) :
        /\ more = With(contests, c, node) /\ more[c] = node /\ DOMAIN more = DOMAIN contests \cup {c}
        /\ \A x \in DOMAIN contests \ {c} : more[x] = contests[x]
  <2>1. PICK more : more = With(contests, c, node) OBVIOUS
  <2>2. /\ more \in Partial(Contests, NodeType) /\ DOMAIN more = DOMAIN contests \cup {c} /\ more[c] = node
        /\ \A x \in DOMAIN contests \ {c} : more[x] = contests[x]
    BY <2>1, WithFacts
  <2>3. QED BY <2>1, <2>2
<1>3. PICK t \in Trees : t = Put(tree, ty, more) /\ t.types[ty].contests = more
  BY PutFacts
<1>4. PICK r : r = ReCalContest(t, ty, owner, c, m, a) OBVIOUS
<1>5. r = ReCalContest(Put(tree, ty, With(tree.types[ty].contests, c, node)), ty, owner, c, m, a)
  BY <1>1, <1>2, <1>3, <1>4
<1>6. CASE ~node.info.visible
  <2>1. r = t
    BY <1>2, <1>3, <1>4, <1>6 DEF ReCalContest
  <2>2. QED BY <1>1, <1>2, <1>3, <1>5, <1>6, <2>1
<1>7. CASE node.info.visible
  <2>1. PICK old \in Info : old = node.info
    BY DEF NodeType
  <2>2. PICK kids \in Partial(Problems, Info) : kids = node.problems
    BY DEF NodeType
  <2>3. PICK info : info = ReCalInfo(old, kids, m, a) OBVIOUS
  <2>4. /\ info \in Info /\ info.visible = old.visible
        /\ \A f \in Offered : info[f] = IF m THEN SumOf(kids, f) ELSE old[f]
        /\ \A f \in Earned : info[f] = IF a THEN SumOf(kids, f) ELSE old[f]
    BY <2>3, ReCalInfoFacts, RowsAssumption
  <2>5. PICK new \in NodeType :
          new = [node EXCEPT !.info = info] /\ new.problems = node.problems /\ new.info = info
    <3>1. PICK new : new = [node EXCEPT !.info = info] OBVIOUS
    <3>2. new \in NodeType /\ new.problems = node.problems /\ new.info = info
      BY <2>4, <3>1 DEF NodeType
    <3>3. QED BY <3>1, <3>2
  <2>6. Redone(new, node, m, a)
    BY <1>7, <2>1, <2>2, <2>4, <2>5 DEF Redone, Taken, Fields, Offered, Earned
  <2>7. r = ReCalType(Put(t, ty, [more EXCEPT ![c] = new]), owner, m, a)
    BY <1>2, <1>3, <1>4, <1>7, <2>1, <2>2, <2>3, <2>5, Zenon DEF ReCalContest, Put
  <2>8. PICK last : last = [more EXCEPT ![c] = new] OBVIOUS
  <2>9. last = With(contests, c, new)
    BY <1>2, <2>8, WithTwice
  <2>10. r = ReCalType(Put(tree, ty, With(contests, c, new)), owner, m, a)
    <3>1. Put(t, ty, last) = Put(tree, ty, last)
      BY <1>3, PutTwice
    <3>2. QED BY <2>7, <2>8, <2>9, <3>1
  <2>11. QED BY <1>1, <1>5, <1>7, <2>6, <2>10
<1>8. QED BY <1>6, <1>7

\* What the node of a contest adds to a type.
Before(contests, c, f) ==
  IF c \in DOMAIN contests /\ contests[c].info.visible THEN contests[c].info[f] ELSE 0

\* The problems of a node are shown, and earn nothing before they are submitted.
ProblemsGood(problems) ==
  \A p \in DOMAIN problems :
    problems[p].visible /\ (~problems[p].submitted => \A f \in Earned : problems[p][f] = 0)

LEMMA GoodProblems ==
  ASSUME NEW tree, Good(tree), NEW ty \in Types, NEW c, Listed(tree, ty, c),
         NEW node, node = tree.types[ty].contests[c]
  PROVE  ProblemsGood(node.problems)
<1>1. NodeGood(node)
  BY DEF Good, Listed
<1>2. NodeGood(node) => ProblemsGood(node.problems)
  BY Zenon DEF NodeGood, ProblemsGood
<1>3. QED BY <1>1, <1>2

\* A node changed or added under a type, and its sums taken.
LEMMA NodeChanges ==
  ASSUME NEW tree \in Trees, NEW ty \in Types, NEW owner \in Types, NEW c \in Contests,
         NEW node \in NodeType, NEW m \in BOOLEAN, NEW a \in BOOLEAN
  PROVE  LET r == ReCalContest(Put(tree, ty, With(tree.types[ty].contests, c, node)), ty, owner, c, m, a) IN
         /\ r \in Trees
         /\ \A x \in Types, d \in Contests :
              Listed(r, x, d) <=> Listed(tree, x, d) \/ (x = ty /\ d = c)
<1>1. PICK contests \in Partial(Contests, NodeType) : contests = tree.types[ty].contests
  BY TreeFacts
<1>2. PICK r : r = ReCalContest(Put(tree, ty, With(contests, c, node)), ty, owner, c, m, a) OBVIOUS
<1>3. PICK new \in NodeType : LET u == Put(tree, ty, With(contests, c, new)) IN
                             r = u \/ r = ReCalType(u, owner, m, a)
  BY <1>1, <1>2, NodeTaken
<1>4. PICK more \in Partial(Contests, NodeType) :
        more = With(contests, c, new) /\ DOMAIN more = DOMAIN contests \cup {c}
  <2>1. PICK more : more = With(contests, c, new) OBVIOUS
  <2>2. more \in Partial(Contests, NodeType) /\ DOMAIN more = DOMAIN contests \cup {c}
    BY <2>1, WithFacts
  <2>3. QED BY <2>1, <2>2
<1>5. PICK u \in Trees : /\ u = Put(tree, ty, more) /\ u.types[ty].contests = more
                        /\ \A x \in Types : x # ty => u.types[x] = tree.types[x]
  BY PutFacts
<1>6. r = u \/ r = ReCalType(u, owner, m, a)
  BY <1>3, <1>4, <1>5
<1>7. r \in Trees /\ \A x \in Types : r.types[x].contests = u.types[x].contests
  <2>1. CASE r = u
    BY <2>1
  <2>2. CASE r = ReCalType(u, owner, m, a)
    BY <2>2, ReCalTypeShape, SMTT(60)
  <2>3. QED BY <1>6, <2>1, <2>2
<1>8. \A x \in Types, d \in Contests : Listed(r, x, d) <=> Listed(tree, x, d) \/ (x = ty /\ d = c)
  BY <1>1, <1>4, <1>5, <1>7 DEF Listed
<1>9. QED BY <1>1, <1>2, <1>7, <1>8

\* A type's sums, taken when a contest is added to it.
LEMMA AddingIs ==
  ASSUME NEW contests \in Partial(Contests, NodeType), NEW f
  PROVE  Adding(Contests, Infos(contests), f) = [c \in Contests |-> Before(contests, c, f)]
<1>1. PICK infos : infos = Infos(contests) OBVIOUS
<1>2. DOMAIN infos = DOMAIN contests /\ \A c \in DOMAIN contests : infos[c] = contests[c].info
  BY <1>1 DEF Infos
<1>3. ASSUME NEW c \in Contests
      PROVE  (IF c \in DOMAIN infos /\ infos[c].visible THEN infos[c][f] ELSE 0) = Before(contests, c, f)
  BY <1>2 DEF Before
<1>4. QED BY <1>1, <1>3 DEF Adding

\* A contest's node changed or added: the nodes stay good.
LEMMA MoreContests ==
  ASSUME NEW contests \in Partial(Contests, NodeType), NEW c \in Contests, NEW new \in NodeType,
         NEW more, more = With(contests, c, new)
  PROVE  /\ more \in Partial(Contests, NodeType)
         /\ DOMAIN more = DOMAIN contests \cup {c} /\ more[c] = new
         /\ \A d \in DOMAIN contests \ {c} : more[d] = contests[d]
         /\ NodeGood(new) /\ (\A d \in DOMAIN contests : NodeGood(contests[d]))
              => \A d \in DOMAIN more : NodeGood(more[d])
<1>1. /\ more \in Partial(Contests, NodeType) /\ DOMAIN more = DOMAIN contests \cup {c} /\ more[c] = new
      /\ \A d \in DOMAIN contests \ {c} : more[d] = contests[d]
  BY WithFacts, SMTT(30)
<1>2. QED BY <1>1

\* A sum to which it adds what it added before stays the same.
LEMMA MoreAdds ==
  ASSUME NEW contests \in Partial(Contests, NodeType), NEW c \in Contests, NEW new \in NodeType,
         NEW more, more = With(contests, c, new), NEW f,
         (IF new.info.visible THEN new.info[f] ELSE 0) = Before(contests, c, f)
  PROVE  Adding(Contests, Infos(more), f) = Adding(Contests, Infos(contests), f)
<1>1. /\ more \in Partial(Contests, NodeType)
      /\ DOMAIN more = DOMAIN contests \cup {c} /\ more[c] = new
      /\ \A d \in DOMAIN contests \ {c} : more[d] = contests[d]
  BY MoreContests
<1>2. \A d \in Contests : Before(more, d, f) = Before(contests, d, f)
  BY <1>1 DEF Before
<1>3. QED BY <1>1, <1>2, AddingIs

\* A node changed or added under a type of a good tree: what it adds to a sum that
\* is not taken again is what it added before.
LEMMA NodeStaysGood ==
  ASSUME NEW tree \in Trees, Good(tree), NEW ty \in Types, NEW c \in Contests, NEW node \in NodeType,
         NEW m \in BOOLEAN, NEW a \in BOOLEAN, ProblemsGood(node.problems),
         ~node.info.visible =>
           /\ \A f \in Earned : node.info[f] = 0
           /\ \A f \in Fields : Before(tree.types[ty].contests, c, f) = 0,
         node.info.visible =>
           \A f \in Fields : ~Taken(f, m, a) =>
             /\ node.info[f] = SumOf(node.problems, f)
             /\ node.info[f] = Before(tree.types[ty].contests, c, f)
  PROVE  Good(ReCalContest(Put(tree, ty, With(tree.types[ty].contests, c, node)), ty, ty, c, m, a))
<1>1. PICK contests \in Partial(Contests, NodeType) : contests = tree.types[ty].contests
  BY TreeFacts
<1>2. PICK r : r = ReCalContest(Put(tree, ty, With(contests, c, node)), ty, ty, c, m, a) OBVIOUS
<1>3. \A d \in DOMAIN contests : NodeGood(contests[d])
  BY <1>1 DEF Good
<1>4. ASSUME NEW new \in NodeType, NodeGood(new)
      PROVE  LET more == With(contests, c, new) IN
             more \in Partial(Contests, NodeType) /\ \A d \in DOMAIN more : NodeGood(more[d])
  BY <1>3, <1>4, MoreContests
<1>5. CASE ~node.info.visible
  <2>1. NodeGood(node)
    BY <1>5 DEF NodeGood, ProblemsGood
  <2>2. PICK more \in Partial(Contests, NodeType) :
          more = With(contests, c, node) /\ \A d \in DOMAIN more : NodeGood(more[d])
    BY <1>4, <2>1
  <2>3. r = Put(tree, ty, more)
    BY <1>1, <1>2, <1>5, <2>2, NodeTaken
  <2>4. ASSUME NEW f \in Fields
        PROVE  Adding(Contests, Infos(more), f) = Adding(Contests, Infos(contests), f)
    <3>1. Before(contests, c, f) = 0
      BY <1>1, <1>5
    <3>2. QED BY <1>5, <2>2, <3>1, MoreAdds
  <2>5. Good(r)
    BY <1>1, <2>2, <2>3, <2>4, PutStaysGood
  <2>6. QED BY <1>1, <1>2, <2>5
<1>6. CASE node.info.visible
  <2>1. PICK new \in NodeType : /\ Redone(new, node, m, a)
                               /\ r = ReCalType(Put(tree, ty, With(contests, c, new)), ty, m, a)
    BY <1>1, <1>2, <1>6, NodeTaken
  <2>2. NodeGood(new)
    BY <1>6, <2>1 DEF NodeGood, ProblemsGood, Redone
  <2>3. PICK more \in Partial(Contests, NodeType) :
          more = With(contests, c, new) /\ \A d \in DOMAIN more : NodeGood(more[d])
    BY <1>4, <2>2
  <2>4. ASSUME NEW f \in Fields, ~Taken(f, m, a)
        PROVE  Adding(Contests, Infos(more), f) = Adding(Contests, Infos(contests), f)
    <3>1. new.info.visible /\ new.info[f] = Before(contests, c, f)
      BY <1>1, <1>6, <2>1, <2>4 DEF Redone
    <3>2. QED BY <2>3, <3>1, MoreAdds
  <2>5. Good(r)
    BY <1>1, <2>1, <2>3, <2>4, PutGood
  <2>6. QED BY <1>1, <1>2, <2>5
<1>7. QED BY <1>5, <1>6

-----------------------------------------------------------------------------
(* What the changes do to a tree.                                          *)

\* A node without problems.
LEMMA NoProblems ==
  /\ <<>> \in Partial(Problems, Info) /\ ProblemsGood(<<>>) /\ \A f \in Fields : SumOf(<<>>, f) = 0
<1>1. PICK none : none = <<>> OBVIOUS
<1>2. DOMAIN none = {} /\ none = [x \in DOMAIN none |-> none[x]]
  BY <1>1
<1>3. none \in Partial(Problems, Info)
  BY <1>2, PartialFacts
<1>4. ProblemsGood(none)
  BY <1>2 DEF ProblemsGood
<1>5. \A f \in Fields : SumOf(none, f) = 0
  <2>1. Shown(none) = {}
    BY <1>2 DEF Shown
  <2>2. QED BY <2>1, TotalOfNone DEF SumOf
<1>6. QED BY <1>1, <1>3, <1>4, <1>5

\* A new record earns and offers nothing.
LEMMA NewInfoFacts ==
  /\ NewInfo \in Info /\ ~NewInfo.visible /\ ~NewInfo.submitted /\ \A f \in Fields : NewInfo[f] = 0
BY DEF NewInfo, Info, Fields, Offered, Earned

\* A contest's first node.
LEMMA NewContestFacts ==
  ASSUME NEW row \in Rows
  PROVE  /\ NewContest(row) \in NodeType /\ NewContest(row).problems = <<>>
         /\ NewContest(row).info.visible = row.visible
         /\ \A f \in Fields : NewContest(row).info[f] = 0
<1>1. PICK info : info = [NewInfo EXCEPT !.visible = row.visible] OBVIOUS
<1>2. info \in Info /\ info.visible = row.visible /\ \A f \in Fields : info[f] = 0
  <2>1. row.visible \in BOOLEAN
    BY DEF Rows
  <2>2. NewInfo \in Info /\ \A f \in Fields : NewInfo[f] = 0
    BY NewInfoFacts
  <2>3. info \in Info /\ info.visible = row.visible
    BY <1>1, <2>1, <2>2 DEF Info
  <2>4. \A f \in Fields : info[f] = NewInfo[f]
    BY <1>1, <2>2 DEF Info, Fields, Offered, Earned
  <2>5. QED BY <2>2, <2>3, <2>4
<1>3. PICK node : node = [info |-> info, problems |-> <<>>] OBVIOUS
<1>4. node \in NodeType /\ node.problems = <<>> /\ node.info = info
  BY <1>2, <1>3, NoProblems DEF NodeType
<1>5. node = NewContest(row)
  BY <1>1, <1>3 DEF NewContest
<1>6. QED BY <1>2, <1>4, <1>5

\* Other problems of a listed contest, and its sums taken.
LEMMA ProblemsChange ==
  ASSUME NEW tree \in Trees, NEW ty \in Types, NEW c \in Contests, Listed(tree, ty, c),
         NEW problems \in Partial(Problems, Info), NEW m \in BOOLEAN, NEW a \in BOOLEAN
  PROVE  LET r == ReCalContest([tree EXCEPT !.types[ty].contests[c].problems = problems], ty, ty, c, m, a)
             node == tree.types[ty].contests[c]
         IN /\ r \in Trees /\ \A x \in Types, d \in Contests : Listed(r, x, d) <=> Listed(tree, x, d)
            /\ Good(tree) /\ ProblemsGood(problems)
               /\ (\A f \in Fields : ~Taken(f, m, a) => SumOf(problems, f) = SumOf(node.problems, f))
               => Good(r)
<1>1. PICK contests \in Partial(Contests, NodeType) : contests = tree.types[ty].contests
  BY TreeFacts
<1>2. c \in DOMAIN contests
  BY <1>1 DEF Listed
<1>3. PICK old \in NodeType : old = contests[c]
  BY <1>2, NodesFacts
<1>4. PICK node \in NodeType : /\ node = [old EXCEPT !.problems = problems]
                               /\ node.info = old.info /\ node.problems = problems
  <2>1. PICK node : node = [old EXCEPT !.problems = problems] OBVIOUS
  <2>2. node \in NodeType /\ node.info = old.info /\ node.problems = problems
    BY <2>1 DEF NodeType
  <2>3. QED BY <2>1, <2>2
<1>5. [tree EXCEPT !.types[ty].contests[c].problems = problems] = Put(tree, ty, With(contests, c, node))
  BY <1>1, <1>2, <1>3, <1>4, Zenon DEF With, Put
<1>6. PICK r : r = ReCalContest(Put(tree, ty, With(contests, c, node)), ty, ty, c, m, a) OBVIOUS
<1>7. /\ r \in Trees
      /\ \A x \in Types, d \in Contests : Listed(r, x, d) <=> Listed(tree, x, d) \/ (x = ty /\ d = c)
  BY <1>1, <1>6, NodeChanges
<1>8. ASSUME Good(tree), ProblemsGood(problems),
             \A f \in Fields : ~Taken(f, m, a) => SumOf(problems, f) = SumOf(old.problems, f)
      PROVE  Good(r)
  <2>1. NodeGood(old)
    BY <1>1, <1>2, <1>3, <1>8 DEF Good
  <2>2. ~node.info.visible => /\ \A f \in Earned : node.info[f] = 0
                              /\ \A f \in Fields : Before(tree.types[ty].contests, c, f) = 0
    BY ZenonT(60), <1>1, <1>3, <1>4, <2>1 DEF NodeGood, Before
  <2>3. node.info.visible =>
          \A f \in Fields : ~Taken(f, m, a) =>
            /\ node.info[f] = SumOf(node.problems, f)
            /\ node.info[f] = Before(tree.types[ty].contests, c, f)
    <3>1. node.info = old.info /\ node.problems = problems
      BY <1>4
    <3>2. old.info.visible => \A f \in Fields : old.info[f] = SumOf(old.problems, f)
      BY <2>1 DEF NodeGood
    <3>3. old.info.visible => \A f \in Fields : Before(tree.types[ty].contests, c, f) = old.info[f]
      BY <1>1, <1>2, <1>3 DEF Before
    <3>4. \A f \in Fields : ~Taken(f, m, a) => SumOf(problems, f) = SumOf(old.problems, f)
      BY <1>8
    <3>5. QED BY <3>1, <3>2, <3>3, <3>4
  <2>4. ProblemsGood(node.problems)
    BY <1>4, <1>8
  <2>5. Good(ReCalContest(Put(tree, ty, With(tree.types[ty].contests, c, node)), ty, ty, c, m, a))
    BY <1>8, <2>2, <2>3, <2>4, NodeStaysGood
  <2>6. QED BY <1>1, <1>6, <2>5
<1>9. \A x \in Types, d \in Contests : Listed(r, x, d) <=> Listed(tree, x, d)
  BY <1>7
<1>10. QED BY <1>1, <1>3, <1>5, <1>6, <1>7, <1>8, <1>9

\* A new tree lists nothing, and its sums are right.
LEMMA NewTreeFacts ==
  /\ NewTree \in Trees /\ Good(NewTree)
  /\ \A x \in Types, d \in Contests : ~Listed(NewTree, x, d)
<1>1. PICK tree : tree = NewTree OBVIOUS
<1>2. PICK none : none = <<>> OBVIOUS
<1>3. DOMAIN none = {} /\ none = [x \in DOMAIN none |-> none[x]]
  BY <1>2
<1>4. none \in Partial(Contests, NodeType) /\ Infos(none) = none
  BY <1>3, PartialFacts DEF Infos
<1>5. PICK info : info = [NewInfo EXCEPT !.visible = TRUE] OBVIOUS
<1>6. info \in Info /\ info.visible /\ \A f \in Fields : info[f] = 0
  <2>1. info \in Info /\ info.visible
    BY <1>5, NewInfoFacts DEF Info
  <2>2. \A f \in Fields : info[f] = NewInfo[f]
    BY <1>5, NewInfoFacts DEF Info, Fields, Offered, Earned
  <2>3. QED BY <2>1, <2>2, NewInfoFacts
<1>7. PICK branch : branch = [info |-> info, contests |-> none] OBVIOUS
<1>8. tree = [info |-> NewInfo, types |-> [ty \in Types |-> branch]]
  BY <1>1, <1>2, <1>5, <1>7 DEF NewTree
<1>9. branch \in Branch /\ branch.info = info /\ branch.contests = none
  BY <1>4, <1>6, <1>7 DEF Branch
<1>10. tree \in Trees /\ tree.info = NewInfo /\ tree.types = [ty \in Types |-> branch]
  BY <1>8, <1>9, NewInfoFacts DEF Trees
<1>11. \A x \in Types, d \in Contests : ~Listed(tree, x, d)
  BY <1>3, <1>9, <1>10 DEF Listed
<1>12. ASSUME NEW f \in Fields
       PROVE  TreeAdds(tree, f) /\ \A x \in Types : BranchAdds(tree, x, f)
  <2>1. SumOf(none, f) = 0
    BY <1>2, NoProblems
  <2>2. \A x \in Types : BranchAdds(tree, x, f)
    BY <1>4, <1>6, <1>9, <1>10, <2>1 DEF BranchAdds
  <2>3. PICK kids \in Partial(Types, Info) : kids = Infos(tree.types)
    BY <1>10, TreeFacts
  <2>4. DOMAIN kids = Types /\ \A x \in Types : kids[x] = info
    BY <1>9, <1>10, <2>3 DEF Infos
  <2>5. PICK g : g = Adding(Types, kids, f) OBVIOUS
  <2>6. \A x \in Types : g[x] = 0
    BY <1>6, <2>4, <2>5 DEF Adding
  <2>7. Total(g, Types) = 0
    BY <2>6, TotalOfZeros, RowsAssumption
  <2>8. SumOf(kids, f) = 0
    BY <2>5, <2>7, SumOfAll, RowsAssumption
  <2>9. TreeAdds(tree, f)
    BY <1>10, <2>3, <2>8, NewInfoFacts DEF TreeAdds
  <2>10. QED BY <2>2, <2>9
<1>13. Good(tree)
  BY <1>3, <1>6, <1>9, <1>10, <1>12 DEF Good
<1>14. QED BY <1>1, <1>10, <1>11, <1>13

\* The first step of migrateProblem: the contest is listed.
LEMMA ListedFirst ==
  ASSUME NEW tree \in Trees, NEW row \in Rows, NEW c \in Contests, ~Listed(tree, row.type, c)
  PROVE  LET r == [tree EXCEPT !.types[row.type].contests = With(@, c, NewContest(row))] IN
         /\ r \in Trees /\ (Good(tree) => Good(r))
         /\ \A x \in Types, d \in Contests :
              Listed(r, x, d) <=> Listed(tree, x, d) \/ (x = row.type /\ d = c)
<1>1. PICK ty \in Types : ty = row.type
  BY DEF Rows
<1>2. PICK contests \in Partial(Contests, NodeType) : contests = tree.types[ty].contests
  BY TreeFacts
<1>3. PICK node \in NodeType : /\ node = NewContest(row) /\ node.problems = <<>>
                               /\ \A f \in Fields : node.info[f] = 0
  BY NewContestFacts
<1>4. PICK more \in Partial(Contests, NodeType) :
        /\ more = With(contests, c, node) /\ DOMAIN more = DOMAIN contests \cup {c}
        /\ NodeGood(node) /\ (\A d \in DOMAIN contests : NodeGood(contests[d]))
             => \A d \in DOMAIN more : NodeGood(more[d])
  <2>1. PICK more : more = With(contests, c, node) OBVIOUS
  <2>2. QED BY ZenonT(60), <2>1, MoreContests
<1>5. PICK r \in Trees : /\ r = Put(tree, ty, more) /\ r.types[ty].contests = more
                        /\ \A x \in Types : x # ty => r.types[x] = tree.types[x]
  BY PutFacts
<1>6. r = [tree EXCEPT !.types[row.type].contests = With(@, c, NewContest(row))]
  BY <1>1, <1>2, <1>3, <1>4, <1>5, Zenon DEF Put
<1>7. \A x \in Types, d \in Contests : Listed(r, x, d) <=> Listed(tree, x, d) \/ (x = ty /\ d = c)
  BY <1>2, <1>4, <1>5 DEF Listed
<1>8. ASSUME Good(tree) PROVE Good(r)
  <2>1. NodeGood(node)
    BY <1>3, NoProblems DEF NodeGood, ProblemsGood, Fields
  <2>2. \A d \in DOMAIN more : NodeGood(more[d])
    BY <1>2, <1>4, <1>8, <2>1 DEF Good
  <2>3. \A f \in Fields : Before(contests, c, f) = 0
    BY <1>1, <1>2 DEF Listed, Before
  <2>4. ASSUME NEW f \in Fields
        PROVE  Adding(Contests, Infos(more), f) = Adding(Contests, Infos(contests), f)
    BY <1>3, <1>4, <2>3, MoreAdds
  <2>5. QED BY <1>2, <1>5, <1>8, <2>2, <2>4, PutStaysGood
<1>9. QED BY <1>1, <1>5, <1>6, <1>7, <1>8

\* A line put into a node, or taken from it.
LEMMA ProblemsWith ==
  ASSUME NEW old \in Partial(Problems, Info), NEW p \in Problems, NEW info \in Info
  PROVE  /\ DOMAIN With(old, p, info) = DOMAIN old \cup {p}
         /\ With(old, p, info)[p] = info
         /\ \A x \in DOMAIN old \ {p} : With(old, p, info)[x] = old[x]
<1>1. PICK A : A = Problems OBVIOUS
<1>2. PICK B : B = Info OBVIOUS
<1>3. /\ With(old, p, info) \in Partial(A, B) /\ DOMAIN With(old, p, info) = DOMAIN old \cup {p}
      /\ With(old, p, info)[p] = info
      /\ \A x \in DOMAIN old \ {p} : With(old, p, info)[x] = old[x]
  BY <1>1, <1>2, WithFacts
<1>4. QED BY <1>3

\* Storing a problem's record.
LEMMA ProblemsWithIn ==
  ASSUME NEW old \in Partial(Problems, Info), NEW p \in Problems, NEW info \in Info
  PROVE  With(old, p, info) \in Partial(Problems, Info)
BY WithFacts

\* Removing a problem's record.
LEMMA ProblemsWithout ==
  ASSUME NEW old \in Partial(Problems, Info), NEW p \in Problems
  PROVE  /\ DOMAIN Without(old, p) = DOMAIN old \ {p}
         /\ \A x \in DOMAIN old \ {p} : Without(old, p)[x] = old[x]
<1>1. /\ Without(old, p) \in Partial(Problems, Info) /\ DOMAIN Without(old, p) = DOMAIN old \ {p}
      /\ \A x \in DOMAIN old \ {p} : Without(old, p)[x] = old[x]
  BY WithoutFacts
<1>2. QED BY <1>1

\* What is left is again a table of problems.
LEMMA ProblemsWithoutIn ==
  ASSUME NEW old \in Partial(Problems, Info), NEW p \in Problems
  PROVE  Without(old, p) \in Partial(Problems, Info)
BY WithoutFacts

\* A problem's line put into a node adds to the sums what the old line did.
LEMMA SumWith ==
  ASSUME NEW old \in Partial(Problems, Info), NEW p \in Problems, NEW info \in Info,
         NEW problems, problems = With(old, p, info), NEW f \in Fields,
         (IF info.visible THEN info[f] ELSE 0)
           = IF p \in DOMAIN old /\ old[p].visible THEN old[p][f] ELSE 0
  PROVE  SumOf(problems, f) = SumOf(old, f)
<1>1. /\ problems \in Partial(Problems, Info) /\ DOMAIN problems = DOMAIN old \cup {p} /\ problems[p] = info
      /\ \A x \in DOMAIN old \ {p} : problems[x] = old[x]
  <2>1. problems \in Partial(Problems, Info)
    BY ProblemsWithIn
  <2>2. /\ DOMAIN With(old, p, info) = DOMAIN old \cup {p}
        /\ With(old, p, info)[p] = info
        /\ \A x \in DOMAIN old \ {p} : With(old, p, info)[x] = old[x]
    BY ZenonT(60), ProblemsWith
  <2>3. QED BY <2>1, <2>2
<1>2. \A x \in Problems : (IF x \in DOMAIN problems /\ problems[x].visible THEN problems[x][f] ELSE 0)
                           = IF x \in DOMAIN old /\ old[x].visible THEN old[x][f] ELSE 0
  BY <1>1
<1>3. Adding(Problems, problems, f) = Adding(Problems, old, f)
  BY <1>2 DEF Adding
<1>4. QED BY <1>1, <1>3, SumSame, RowsAssumption

\* A tree of the same shape, but for a contest that may now be listed.
SameList(r, tree, ty, c) ==
  \A x \in Types, d \in Contests : Listed(r, x, d) <=> Listed(tree, x, d) \/ (x = ty /\ d = c)

\* The second step of migrateProblem.
LEMMA ProblemPut ==
  ASSUME NEW tree \in Trees, NEW ty \in Types, NEW c \in Contests, Listed(tree, ty, c),
         NEW p \in Problems, NEW prob \in Rewards
  PROVE  LET old == tree.types[ty].contests[c].problems
             info == IF p \in DOMAIN old THEN old[p] ELSE NewInfo
             r == ReCalContest(
                    [tree EXCEPT !.types[ty].contests[c].problems =
                       With(@, p, [info EXCEPT !.point = prob.point, !.visible = TRUE,
                                               !.contents = 1, !.problems = 1])],
                    ty, ty, c, TRUE, FALSE)
         IN r \in Trees /\ SameList(r, tree, ty, c) /\ (Good(tree) => Good(r))
<1>1. PICK node \in NodeType : node = tree.types[ty].contests[c]
  BY TreeFacts, NodesFacts DEF Listed
<1>2. PICK old \in Partial(Problems, Info) : old = node.problems
  BY DEF NodeType
<1>3. PICK info \in Info : /\ info = IF p \in DOMAIN old THEN old[p] ELSE NewInfo
                           /\ p \notin DOMAIN old => ~info.submitted /\ \A f \in Fields : info[f] = 0
  BY PartialFacts, NewInfoFacts
<1>4. PICK new : new = [info EXCEPT !.point = prob.point, !.visible = TRUE,
                                    !.contents = 1, !.problems = 1]
  OBVIOUS
<1>5. new \in Info /\ new.visible /\ new.submitted = info.submitted /\ \A f \in Earned : new[f] = info[f]
  <2>1. prob.point \in Nat
    BY PointsAssumption DEF Rewards
  <2>2. QED BY <1>4, <2>1 DEF Info, Earned
<1>6. PICK problems : problems = With(old, p, new) OBVIOUS
<1>7. /\ problems \in Partial(Problems, Info) /\ DOMAIN problems = DOMAIN old \cup {p} /\ problems[p] = new
      /\ \A x \in DOMAIN old \ {p} : problems[x] = old[x]
  <2>1. new \in Info
    BY <1>5
  <2>2. problems \in Partial(Problems, Info)
    BY <1>6, <2>1, ProblemsWithIn
  <2>3. /\ DOMAIN problems = DOMAIN old \cup {p} /\ problems[p] = new
        /\ \A x \in DOMAIN old \ {p} : problems[x] = old[x]
    BY <1>6, <2>1, ProblemsWith
  <2>4. QED BY <2>2, <2>3
<1>8. PICK r : r = ReCalContest([tree EXCEPT !.types[ty].contests[c].problems = problems], ty, ty, c, TRUE, FALSE)
  OBVIOUS
<1>9. /\ r \in Trees /\ \A x \in Types, d \in Contests : Listed(r, x, d) <=> Listed(tree, x, d)
      /\ Good(tree) /\ ProblemsGood(problems)
         /\ (\A f \in Fields : ~Taken(f, TRUE, FALSE) => SumOf(problems, f) = SumOf(old, f))
         => Good(r)
  BY ZenonT(60), <1>1, <1>2, <1>7, <1>8, ProblemsChange
<1>10. ASSUME Good(tree) PROVE Good(r)
  <2>1. ProblemsGood(old)
    BY <1>1, <1>2, <1>10, GoodProblems
  <2>2. ~new.submitted => \A f \in Earned : new[f] = 0
    BY <1>3, <1>5, <2>1 DEF ProblemsGood, Fields
  <2>3. ProblemsGood(problems)
    BY <1>5, <1>7, <2>1, <2>2 DEF ProblemsGood
  <2>4. ASSUME NEW f \in Fields, ~Taken(f, TRUE, FALSE) PROVE SumOf(problems, f) = SumOf(old, f)
    <3>1. f \in Earned
      BY <2>4 DEF Taken, Fields
    <3>2. (IF new.visible THEN new[f] ELSE 0)
            = IF p \in DOMAIN old /\ old[p].visible THEN old[p][f] ELSE 0
      BY <1>3, <1>5, <2>1, <3>1 DEF ProblemsGood
    <3>3. QED BY <1>5, <1>6, <3>2, SumWith
  <2>5. QED BY <1>9, <1>10, <2>3, <2>4
<1>11. SameList(r, tree, ty, c)
  BY <1>9 DEF SameList
<1>12. r = ReCalContest(
             [tree EXCEPT !.types[ty].contests[c].problems =
                With(@, p, [(IF p \in DOMAIN tree.types[ty].contests[c].problems
                             THEN tree.types[ty].contests[c].problems[p] ELSE NewInfo)
                              EXCEPT !.point = prob.point, !.visible = TRUE,
                                     !.contents = 1, !.problems = 1])],
             ty, ty, c, TRUE, FALSE)
  BY <1>1, <1>2, <1>3, <1>4, <1>6, <1>8, Zenon
<1>13. QED BY <1>9, <1>10, <1>11, <1>12, Zenon

\* migrateProblem.
LEMMA MigrateProblemFacts ==
  ASSUME NEW tree \in Trees, NEW row \in Rows, NEW c \in Contests, NEW p \in Problems, NEW prob \in Rewards
  PROVE  LET r == MigrateProblem(tree, row, c, p, prob) IN
         r \in Trees /\ SameList(r, tree, row.type, c) /\ (Good(tree) => Good(r))
<1> DEFINE base == IF Listed(tree, row.type, c) THEN tree
                   ELSE [tree EXCEPT !.types[row.type].contests = With(@, c, NewContest(row))]
           old == base.types[row.type].contests[c].problems
           info == IF p \in DOMAIN old THEN old[p] ELSE NewInfo
           last == ReCalContest(
                     [base EXCEPT !.types[row.type].contests[c].problems =
                        With(@, p, [info EXCEPT !.point = prob.point, !.visible = TRUE,
                                                !.contents = 1, !.problems = 1])],
                     row.type, row.type, c, TRUE, FALSE)
<1>1. MigrateProblem(tree, row, c, p, prob) = IF ~prob.visible THEN base ELSE last
  BY Zenon DEF MigrateProblem
<1>2. row.type \in Types
  BY DEF Rows
<1>3. base \in Trees /\ SameList(base, tree, row.type, c) /\ (Good(tree) => Good(base))
  <2>1. CASE Listed(tree, row.type, c)
    BY <2>1 DEF SameList
  <2>2. CASE ~Listed(tree, row.type, c)
    <3> DEFINE first == [tree EXCEPT !.types[row.type].contests = With(@, c, NewContest(row))]
    <3>1. /\ first \in Trees /\ (Good(tree) => Good(first))
          /\ \A x \in Types, d \in Contests :
               Listed(first, x, d) <=> Listed(tree, x, d) \/ (x = row.type /\ d = c)
      BY <2>2, ListedFirst
    <3>2. base = first
      BY <2>2
    <3> HIDE DEF base, first
    <3>3. SameList(first, tree, row.type, c)
      BY <3>1 DEF SameList
    <3>4. QED BY <3>1, <3>2, <3>3
  <2>3. QED BY <2>1, <2>2
<1> HIDE DEF base
<1>4. Listed(base, row.type, c)
  BY <1>2, <1>3 DEF SameList
<1>5. last \in Trees /\ SameList(last, base, row.type, c) /\ (Good(base) => Good(last))
  BY <1>2, <1>3, <1>4, ProblemPut
<1> HIDE DEF last
<1>6. SameList(last, tree, row.type, c)
  BY <1>3, <1>5 DEF SameList
<1>7. QED BY <1>1, <1>3, <1>5, <1>6

\* deleteProblem.
LEMMA RemoveProblemFacts ==
  ASSUME NEW tree \in Trees, NEW row \in Rows, NEW c \in Contests, NEW p \in Problems
  PROVE  LET r == RemoveProblem(tree, row, c, p) IN
         /\ r \in Trees /\ (Good(tree) => Good(r))
         /\ \A x \in Types, d \in Contests : Listed(r, x, d) <=> Listed(tree, x, d)
<1>1. PICK ty \in Types : ty = row.type
  BY DEF Rows
<1>2. CASE Listed(tree, ty, c) /\ p \in DOMAIN tree.types[ty].contests[c].problems
  <2>1. PICK node \in NodeType : node = tree.types[ty].contests[c]
    BY <1>2, TreeFacts, NodesFacts DEF Listed
  <2>2. PICK old \in Partial(Problems, Info) : old = node.problems
    BY DEF NodeType
  <2>3. PICK problems : problems = Without(old, p) OBVIOUS
  <2>4. /\ problems \in Partial(Problems, Info) /\ DOMAIN problems = DOMAIN old \ {p}
        /\ \A x \in DOMAIN old \ {p} : problems[x] = old[x]
    <3>1. problems \in Partial(Problems, Info)
      BY <2>3, ProblemsWithoutIn
    <3>2. QED BY <2>3, <3>1, ProblemsWithout
  <2>5. PICK r : r = ReCalContest([tree EXCEPT !.types[ty].contests[c].problems = problems], ty, ty, c, TRUE, TRUE)
    OBVIOUS
  <2>6. /\ r \in Trees /\ \A x \in Types, d \in Contests : Listed(r, x, d) <=> Listed(tree, x, d)
        /\ Good(tree) /\ ProblemsGood(problems)
           /\ (\A f \in Fields : ~Taken(f, TRUE, TRUE) => SumOf(problems, f) = SumOf(old, f))
           => Good(r)
    BY ZenonT(60), <1>2, <2>1, <2>2, <2>4, <2>5, ProblemsChange
  <2>7. ASSUME Good(tree) PROVE Good(r)
    <3>1. ProblemsGood(old)
      BY <1>2, <2>1, <2>2, <2>7, GoodProblems
    <3>2. ProblemsGood(problems)
      BY <2>4, <3>1 DEF ProblemsGood
    <3>3. \A f \in Fields : Taken(f, TRUE, TRUE)
      BY DEF Taken, Fields
    <3>4. QED BY <2>6, <2>7, <3>2, <3>3
  <2>8. r = RemoveProblem(tree, row, c, p)
    BY <1>1, <1>2, <2>1, <2>2, <2>3, <2>5, Zenon DEF RemoveProblem
  <2>9. QED BY <2>6, <2>7, <2>8
<1>3. CASE ~(Listed(tree, ty, c) /\ p \in DOMAIN tree.types[ty].contests[c].problems)
  BY <1>1, <1>3 DEF RemoveProblem
<1>4. QED BY <1>2, <1>3

\* The same contests under the same types.
SameLists(r, tree) == \A x \in Types, d \in Contests : Listed(r, x, d) <=> Listed(tree, x, d)

\* Replacing the contests of a type by themselves changes nothing.
LEMMA PutSame ==
  ASSUME NEW tree \in Trees, NEW ty \in Types
  PROVE  Put(tree, ty, tree.types[ty].contests) = tree
<1>1. PICK branch : branch = tree.types[ty] OBVIOUS
<1>2. branch = [info |-> branch.info, contests |-> branch.contests] /\ tree.types \in [Types -> Branch]
      /\ tree = [info |-> tree.info, types |-> tree.types]
  BY <1>1, TreeFacts
<1>3. [branch EXCEPT !.contests = branch.contests] = branch
  BY <1>2
<1>4. [tree.types EXCEPT ![ty] = branch] = tree.types
  BY <1>1, <1>2
<1>5. [tree EXCEPT !.types = tree.types] = tree
  BY <1>2
<1>6. QED BY <1>1, <1>3, <1>4, <1>5, Zenon DEF Put

\* The sums of a type taken again in a tree that adds up.
LEMMA ReCalTypeGood ==
  ASSUME NEW tree \in Trees, NEW ty \in Types, NEW m \in BOOLEAN, NEW a \in BOOLEAN
  PROVE  LET r == ReCalType(tree, ty, m, a) IN
         r \in Trees /\ SameLists(r, tree) /\ (Good(tree) => Good(r))
<1>1. PICK r : r = ReCalType(tree, ty, m, a) OBVIOUS
<1>2. /\ r \in Trees
      /\ \A x \in Types : /\ r.types[x].contests = tree.types[x].contests
                          /\ r.types[x].info.visible = tree.types[x].info.visible
  BY <1>1, ReCalTypeShape, SMTT(30)
<1>3. SameLists(r, tree)
  BY <1>2 DEF SameLists, Listed
<1>4. ASSUME Good(tree) PROVE Good(r)
  <2>1. ASSUME NEW f \in Fields PROVE TreeAdds(r, f) /\ \A x \in Types : BranchAdds(r, x, f)
    <3>1. (\A x \in Types : tree.types[x].info.visible /\ BranchAdds(tree, x, f)) /\ TreeAdds(tree, f)
      BY <1>4 DEF Good
    <3>2. QED BY <1>1, <3>1, TypeAdds
  <2>2. \A x \in Types : /\ r.types[x].info.visible
                         /\ \A c \in DOMAIN r.types[x].contests : NodeGood(r.types[x].contests[c])
    BY <1>2, <1>4 DEF Good
  <2>3. QED BY <2>1, <2>2 DEF Good
<1>5. QED BY <1>1, <1>2, <1>3, <1>4

\* A judged submission in the line of its problem.
LEMMA OutcomeFacts ==
  ASSUME NEW info \in Info, NEW sub, IsSub(sub)
  PROVE  /\ Outcome(info, sub) \in Info /\ Outcome(info, sub).visible = info.visible
         /\ Outcome(info, sub).submitted
         /\ \A f \in Offered : Outcome(info, sub)[f] = info[f]
<1>1. PICK ok \in BOOLEAN : ok = (sub.result = "passed") OBVIOUS
<1>2. PICK earned \in Nat : earned = IF ok THEN sub.score ELSE 0
  BY DEF IsSub
<1>3. PICK solved \in Nat : solved = IF ok THEN 1 ELSE 0 OBVIOUS
<1>4. PICK r : r = [info EXCEPT !.score = earned, !.passed = ok,
                               !.solvedContents = solved, !.solvedProblems = solved,
                               !.subProblems = 1, !.subContents = 1, !.submitted = TRUE]
  OBVIOUS
<1>5. r = Outcome(info, sub)
  BY <1>1, <1>2, <1>3, <1>4, Zenon DEF Outcome
<1>6. r \in Info /\ r.visible = info.visible /\ r.submitted /\ \A f \in Offered : r[f] = info[f]
  BY <1>4 DEF Info, Offered
<1>7. QED BY <1>5, <1>6

\* A contest that is not listed: at most the sums of its type are taken again.
LEMMA AssociateUnlisted ==
  ASSUME NEW tree \in Trees, NEW ty \in Types, NEW c \in Contests, NEW sub, ~Listed(tree, ty, c)
  PROVE  Associate(tree, ty, c, sub) \in {tree, ReCalType(tree, ty, FALSE, TRUE)}
<1> DEFINE old == tree.types[ty].contests[c].problems
           p == sub.problem
           put == [tree EXCEPT !.types[ty].contests[c].problems[p] = Outcome(@, sub)]
           r == ReCalContest(put, ty, ty, c, FALSE, TRUE)
<1>1. Associate(tree, ty, c, sub) = IF p \notin DOMAIN old THEN tree ELSE r
  BY Zenon DEF Associate
<1>2. PICK contests \in Partial(Contests, NodeType) : contests = tree.types[ty].contests
  BY TreeFacts
<1>3. c \notin DOMAIN contests /\ contests = [x \in DOMAIN contests |-> contests[x]]
  BY <1>2, PartialFacts DEF Listed
<1>4. ASSUME NEW v PROVE Put(tree, ty, [contests EXCEPT ![c] = v]) = tree
  <2>1. [contests EXCEPT ![c] = v] = contests
    BY <1>3
  <2>2. QED BY <1>2, <2>1, PutSame
<1>5. put = tree
  BY <1>2, <1>4, Zenon DEF Put
<1>6. \A v : [tree EXCEPT !.types[ty].contests[c].info = v] = tree
  BY <1>2, <1>4, Zenon DEF Put
<1> HIDE DEF put
<1>7. r \in {tree, ReCalType(tree, ty, FALSE, TRUE)}
  BY <1>5, <1>6, Zenon DEF ReCalContest
<1>8. QED BY <1>1, <1>7, Zenon

\* associateSubmission.  A contest that is not listed leaves at most the sums of
\* its type taken again.
LEMMA AssociateFacts ==
  ASSUME NEW tree \in Trees, NEW ty \in Types, NEW c \in Contests, NEW sub, IsSub(sub)
  PROVE  LET r == Associate(tree, ty, c, sub) IN
         r \in Trees /\ SameLists(r, tree) /\ (Good(tree) => Good(r))
<1> DEFINE old == tree.types[ty].contests[c].problems
           p == sub.problem
           put == [tree EXCEPT !.types[ty].contests[c].problems[p] = Outcome(@, sub)]
           r == ReCalContest(put, ty, ty, c, FALSE, TRUE)
<1>1. Associate(tree, ty, c, sub) = IF p \notin DOMAIN old THEN tree ELSE r
  BY Zenon DEF Associate
<1>2. p \in Problems
  BY DEF IsSub
<1>3. ASSUME Listed(tree, ty, c), p \in DOMAIN old
      PROVE  r \in Trees /\ SameLists(r, tree) /\ (Good(tree) => Good(r))
  <2>1. PICK node \in NodeType : node = tree.types[ty].contests[c]
    BY <1>3, TreeFacts, NodesFacts DEF Listed
  <2>2. PICK lines \in Partial(Problems, Info) : lines = node.problems /\ lines = old
    BY <2>1 DEF NodeType
  <2>3. PICK info \in Info : info = lines[p]
    BY <1>3, <2>2, PartialFacts
  <2>4. PICK new \in Info : /\ new = Outcome(info, sub) /\ new.visible = info.visible /\ new.submitted
                            /\ \A f \in Offered : new[f] = info[f]
    BY OutcomeFacts
  <2>5. PICK problems : problems = With(lines, p, new) OBVIOUS
  <2>6. problems \in Partial(Problems, Info)
    BY <1>2, <2>5, ProblemsWithIn
  <2>7. /\ DOMAIN problems = DOMAIN lines \cup {p} /\ problems[p] = new
        /\ \A x \in DOMAIN lines \ {p} : problems[x] = lines[x]
    <3>1. /\ DOMAIN With(lines, p, new) = DOMAIN lines \cup {p}
          /\ With(lines, p, new)[p] = new
          /\ \A x \in DOMAIN lines \ {p} : With(lines, p, new)[x] = lines[x]
      BY ZenonT(60), <1>2, ProblemsWith
    <3>2. QED BY <2>5, <3>1
  <2>8. problems = [lines EXCEPT ![p] = new]
    BY <1>3, <2>2, <2>5, Zenon DEF With
  <2>9. PICK last : last = ReCalContest([tree EXCEPT !.types[ty].contests[c].problems = problems],
                                        ty, ty, c, FALSE, TRUE)
    OBVIOUS
  <2>10. r = last
    BY <2>1, <2>2, <2>3, <2>4, <2>8, <2>9, Zenon
  <2>11. /\ last \in Trees /\ \A x \in Types, d \in Contests : Listed(last, x, d) <=> Listed(tree, x, d)
         /\ Good(tree) /\ ProblemsGood(problems)
            /\ (\A f \in Fields : ~Taken(f, FALSE, TRUE) => SumOf(problems, f) = SumOf(lines, f))
            => Good(last)
    BY ZenonT(60), <1>3, <2>1, <2>2, <2>6, <2>9, ProblemsChange
  <2>12. ASSUME Good(tree) PROVE Good(last)
    <3>1. ProblemsGood(lines)
      <4>1. ProblemsGood(node.problems)
        BY <1>3, <2>1, <2>12, GoodProblems
      <4>2. QED BY <2>2, <4>1
    <3>2. ProblemsGood(problems)
      <4>1. new.visible /\ new.submitted
        BY <1>3, <2>2, <2>3, <2>4, <3>1 DEF ProblemsGood
      <4>2. ASSUME NEW q \in DOMAIN problems
            PROVE  /\ problems[q].visible
                   /\ ~problems[q].submitted => \A f \in Earned : problems[q][f] = 0
        <5>1. CASE q = p
          BY <2>7, <4>1, <5>1
        <5>2. CASE q # p
          BY <2>7, <3>1, <5>2 DEF ProblemsGood
        <5>3. QED BY <5>1, <5>2
      <4>3. QED BY <4>2 DEF ProblemsGood
    <3>3. ASSUME NEW f \in Fields, ~Taken(f, FALSE, TRUE) PROVE SumOf(problems, f) = SumOf(lines, f)
      <4>1. f \in Offered
        BY <3>3 DEF Taken, Fields
      <4>2. (IF new.visible THEN new[f] ELSE 0)
              = IF p \in DOMAIN lines /\ lines[p].visible THEN lines[p][f] ELSE 0
        BY <1>3, <2>2, <2>3, <2>4, <4>1
      <4>3. QED BY <1>2, <2>5, <4>2, SumWith
    <3>4. QED BY <2>11, <2>12, <3>2, <3>3
  <2>13. SameLists(last, tree)
    BY <2>11 DEF SameLists
  <2>14. QED BY <2>10, <2>11, <2>12, <2>13, Zenon
<1>4. ASSUME ~Listed(tree, ty, c), NEW u, u = Associate(tree, ty, c, sub)
      PROVE  u \in Trees /\ SameLists(u, tree) /\ (Good(tree) => Good(u))
  <2>1. u = tree \/ u = ReCalType(tree, ty, FALSE, TRUE)
    BY <1>4, AssociateUnlisted
  <2>2. CASE u = tree
    BY <2>2 DEF SameLists
  <2>3. CASE u = ReCalType(tree, ty, FALSE, TRUE)
    BY <2>3, ReCalTypeGood
  <2>4. QED BY <2>1, <2>2, <2>3
<1> HIDE DEF r
<1>5. SameLists(tree, tree)
  BY DEF SameLists
<1>6. PICK u : u = Associate(tree, ty, c, sub) OBVIOUS
<1>7. u \in Trees /\ SameLists(u, tree) /\ (Good(tree) => Good(u))
  BY <1>1, <1>3, <1>4, <1>5, <1>6
<1>8. QED BY <1>6, <1>7

\* Taking the sums again gives a tree.
LEMMA ReCalTypeIn ==
  ASSUME NEW tree \in Trees, NEW ty \in Types, NEW m \in BOOLEAN, NEW a \in BOOLEAN
  PROVE  ReCalType(tree, ty, m, a) \in Trees
BY ReCalTypeShape

\* The parts that sums leave alone.
SameShape(r, tree) ==
  \A x \in Types : /\ r.types[x].contests = tree.types[x].contests
                   /\ r.types[x].info.visible = tree.types[x].info.visible

\* It keeps where contests are listed.
LEMMA ReCalTypeKeeps ==
  ASSUME NEW tree \in Trees, NEW ty \in Types, NEW m \in BOOLEAN, NEW a \in BOOLEAN
  PROVE  SameShape(ReCalType(tree, ty, m, a), tree)
<1>1. /\ ReCalType(tree, ty, m, a) \in Trees
      /\ \A x \in Types : x # ty => ReCalType(tree, ty, m, a).types[x] = tree.types[x]
      /\ \A x \in Types :
           /\ ReCalType(tree, ty, m, a).types[x].contests = tree.types[x].contests
           /\ ReCalType(tree, ty, m, a).types[x].info.visible = tree.types[x].info.visible
  BY ReCalTypeShape
<1>2. QED BY <1>1 DEF SameShape

\* The lecture's sums are right once they are taken.
LEMMA LectureAdds ==
  ASSUME NEW tree \in Trees, NEW ty \in Types, NEW m \in BOOLEAN, NEW a \in BOOLEAN,
         NEW f \in Fields, Taken(f, m, a)
  PROVE  TreeAdds(ReCalType(tree, ty, m, a), f)
<1>1. PICK r : r = ReCalType(tree, ty, m, a) OBVIOUS
<1>2. /\ \A g \in Offered : r.info[g] = IF m THEN SumOf(Infos(r.types), g) ELSE tree.info[g]
      /\ \A g \in Earned : r.info[g] = IF a THEN SumOf(Infos(r.types), g) ELSE tree.info[g]
  BY <1>1, ReCalTypeFacts
<1>3. r.info[f] = SumOf(Infos(r.types), f)
  BY <1>2 DEF Taken
<1>4. QED BY <1>1, <1>3 DEF TreeAdds

\* A contest taken from a type.
LEMMA ContestsWithout ==
  ASSUME NEW contests \in Partial(Contests, NodeType), NEW c \in Contests
  PROVE  /\ DOMAIN Without(contests, c) = DOMAIN contests \ {c}
         /\ \A d \in DOMAIN contests \ {c} : Without(contests, c)[d] = contests[d]
BY WithoutIs

\* What is left is again a table of contests.
LEMMA ContestsWithoutIn ==
  ASSUME NEW contests \in Partial(Contests, NodeType), NEW c \in Contests
  PROVE  Without(contests, c) \in Partial(Contests, NodeType)
BY WithoutFacts

\* deleteContest.
LEMMA RemoveContestFacts ==
  ASSUME NEW tree \in Trees, NEW row \in Rows, NEW c \in Contests
  PROVE  LET r == RemoveContest(tree, row, c) IN
         /\ r \in Trees /\ (Good(tree) => Good(r))
         /\ \A x \in Types, d \in Contests :
              Listed(r, x, d) <=> Listed(tree, x, d) /\ ~(x = row.type /\ d = c)
<1>1. PICK ty \in Types : ty = row.type
  BY DEF Rows
<1>2. CASE Listed(tree, ty, c)
  <2>1. PICK contests \in Partial(Contests, NodeType) : contests = tree.types[ty].contests
    BY TreeFacts
  <2>2. PICK less \in Partial(Contests, NodeType) : less = Without(contests, c)
    BY ContestsWithoutIn
  <2>3. DOMAIN less = DOMAIN contests \ {c} /\ \A d \in DOMAIN contests \ {c} : less[d] = contests[d]
    BY <2>2, ContestsWithout
  <2>4. PICK u \in Trees : /\ u = Put(tree, ty, less) /\ u.types[ty].contests = less
                          /\ \A x \in Types : x # ty => u.types[x] = tree.types[x]
    BY PutFacts
  <2>5. PICK r : r = ReCalType(u, ty, TRUE, TRUE) OBVIOUS
  <2>6. r = RemoveContest(tree, row, c)
    BY <1>1, <1>2, <2>1, <2>2, <2>4, <2>5, Zenon DEF RemoveContest, Put
  <2>7. r \in Trees /\ SameLists(r, u)
    BY <2>5, ReCalTypeGood
  <2>8. \A x \in Types, d \in Contests : Listed(u, x, d) <=> Listed(tree, x, d) /\ ~(x = ty /\ d = c)
    BY <2>1, <2>3, <2>4 DEF Listed
  <2>9. ASSUME Good(tree) PROVE Good(r)
    <3>1. \A d \in DOMAIN less : NodeGood(less[d])
      BY <2>1, <2>3, <2>9 DEF Good
    <3>2. \A f \in Fields : Taken(f, TRUE, TRUE)
      BY DEF Taken, Fields
    <3>3. QED BY <2>4, <2>5, <2>9, <3>1, <3>2, PutGood
  <2>10. QED BY <1>1, <2>6, <2>7, <2>8, <2>9 DEF SameLists
<1>3. CASE ~Listed(tree, ty, c)
  BY <1>1, <1>3 DEF RemoveContest
<1>4. QED BY <1>2, <1>3

\* Hiding a listed contest, moving one that was hidden, and moving or showing one
\* with submissions (Disturbs, for any tree).
Unsettles(tree, row, c) ==
  \E ty \in Types :
    /\ Listed(tree, ty, c)
    /\ LET node == tree.types[ty].contests[c]
           moved == row.type # ty
           toggled == row.visible # node.info.visible
       IN \/ (moved \/ toggled) /\ (~row.visible \/ \E p \in DOMAIN node.problems :
                                                      node.problems[p].submitted)
          \/ moved /\ toggled

\* A node whose problems are not submitted has earned nothing.
LEMMA NothingEarned ==
  ASSUME NEW problems \in Partial(Problems, Info), ProblemsGood(problems),
         \A p \in DOMAIN problems : ~problems[p].submitted, NEW f \in Earned
  PROVE  SumOf(problems, f) = 0
<1>1. PICK g : g = Adding(Problems, problems, f) OBVIOUS
<1>2. \A p \in Problems : g[p] = 0
  BY <1>1 DEF Adding, ProblemsGood
<1>3. Total(g, Problems) = 0
  BY <1>2, TotalOfZeros, RowsAssumption
<1>4. QED BY <1>1, <1>3, SumOfAll, RowsAssumption DEF Fields

\* A node with the visibility of the row.
LEMMA ShownNode ==
  ASSUME NEW tree \in Trees, NEW ty \in Types, NEW c \in Contests, Listed(tree, ty, c), NEW v \in BOOLEAN
  PROVE  \E node \in NodeType : LET old == tree.types[ty].contests[c] IN
           /\ node.problems = old.problems /\ node.info.visible = v
           /\ \A f \in Fields : node.info[f] = old.info[f]
           /\ [tree EXCEPT !.types[ty].contests[c].info.visible = v]
                = Put(tree, ty, With(tree.types[ty].contests, c, node))
<1>1. PICK contests \in Partial(Contests, NodeType) : contests = tree.types[ty].contests
  BY TreeFacts
<1>2. c \in DOMAIN contests
  BY <1>1 DEF Listed
<1>3. PICK old \in NodeType : old = contests[c]
  BY <1>2, NodesFacts
<1>4. PICK info : info = [old.info EXCEPT !.visible = v] OBVIOUS
<1>5. info \in Info /\ info.visible = v /\ \A f \in Fields : info[f] = old.info[f]
  <2>1. old.info \in Info
    BY DEF NodeType
  <2>2. QED BY <1>4, <2>1 DEF Info, Fields, Offered, Earned
<1>6. PICK node : node = [old EXCEPT !.info = info] OBVIOUS
<1>7. node \in NodeType /\ node.info = info /\ node.problems = old.problems
  BY <1>5, <1>6 DEF NodeType
<1>8. [tree EXCEPT !.types[ty].contests[c].info.visible = v] = Put(tree, ty, With(contests, c, node))
  BY <1>1, <1>2, <1>3, <1>4, <1>6, Zenon DEF With, Put
<1>9. QED BY <1>1, <1>3, <1>5, <1>7, <1>8

\* A listed contest is edited and not moved.
LEMMA UpdateContestFacts ==
  ASSUME NEW tree \in Trees, NEW row \in Rows, NEW c \in Contests, Listed(tree, row.type, c)
  PROVE  LET r == UpdateContest(tree, row, row.type, c) IN
         /\ r \in Trees /\ SameLists(r, tree)
         /\ Good(tree) /\ ~Unsettles(tree, row, c) => Good(r)
<1>1. PICK ty \in Types : ty = row.type
  BY DEF Rows
<1>2. row.visible \in BOOLEAN
  BY DEF Rows
<1>3. PICK contests \in Partial(Contests, NodeType) : contests = tree.types[ty].contests
  BY TreeFacts
<1>4. PICK old \in NodeType : old = contests[c] /\ c \in DOMAIN contests
  BY <1>1, <1>3, NodesFacts DEF Listed
<1>5. PICK node \in NodeType :
        /\ node.problems = old.problems /\ node.info.visible = row.visible
        /\ \A f \in Fields : node.info[f] = old.info[f]
        /\ [tree EXCEPT !.types[ty].contests[c].info.visible = row.visible]
             = Put(tree, ty, With(contests, c, node))
  <2>1. Listed(tree, ty, c)
    BY <1>1
  <2>2. PICK v \in BOOLEAN : v = row.visible
    BY <1>2
  <2>3. PICK node \in NodeType : LET prev == tree.types[ty].contests[c] IN
           /\ node.problems = prev.problems /\ node.info.visible = v
           /\ \A f \in Fields : node.info[f] = prev.info[f]
           /\ [tree EXCEPT !.types[ty].contests[c].info.visible = v]
                = Put(tree, ty, With(tree.types[ty].contests, c, node))
    BY <2>1, ShownNode
  <2>4. QED BY <1>3, <1>4, <2>2, <2>3
<1>6. PICK r : r = ReCalContest(Put(tree, ty, With(contests, c, node)), ty, ty, c, TRUE, FALSE)
  OBVIOUS
<1>7. r = UpdateContest(tree, row, row.type, c)
  BY <1>1, <1>5, <1>6, Zenon DEF UpdateContest
<1>8. /\ r \in Trees
      /\ \A x \in Types, d \in Contests : Listed(r, x, d) <=> Listed(tree, x, d) \/ (x = ty /\ d = c)
  BY <1>3, <1>6, NodeChanges
<1>9. SameLists(r, tree)
  BY <1>1, <1>8 DEF SameLists
<1>10. ASSUME Good(tree), ~Unsettles(tree, row, c) PROVE Good(r)
  <2>1. NodeGood(old)
    BY <1>3, <1>4, <1>10 DEF Good
  <2>2. row.visible = old.info.visible
        \/ (row.visible /\ ~old.info.visible /\ \A p \in DOMAIN old.problems : ~old.problems[p].submitted)
    <3>1. Listed(tree, ty, c) /\ tree.types[ty].contests[c] = old
      BY <1>1, <1>3, <1>4
    <3>2. old.info.visible \in BOOLEAN
      BY DEF NodeType, Info
    <3>3. QED BY <1>2, <1>10, <3>1, <3>2 DEF Unsettles
  <2>3. ProblemsGood(node.problems)
    BY <1>5, <2>1 DEF NodeGood, ProblemsGood
  <2>4. ASSUME ~node.info.visible
        PROVE  /\ \A f \in Earned : node.info[f] = 0
               /\ \A f \in Fields : Before(tree.types[ty].contests, c, f) = 0
    <3>1. ~old.info.visible
      BY <1>5, <2>2, <2>4
    <3>2. \A f \in Earned : node.info[f] = 0
      BY <1>5, <2>1, <3>1 DEF NodeGood, Fields
    <3>3. \A f \in Fields : Before(tree.types[ty].contests, c, f) = 0
      BY <1>3, <1>4, <3>1 DEF Before
    <3>4. QED BY <3>2, <3>3
  <2>5. ASSUME node.info.visible, NEW f \in Fields, ~Taken(f, TRUE, FALSE)
        PROVE  /\ node.info[f] = SumOf(node.problems, f)
               /\ node.info[f] = Before(tree.types[ty].contests, c, f)
    <3>1. f \in Earned
      BY <2>5 DEF Taken, Fields
    <3>2. CASE old.info.visible
      BY ZenonT(60), <1>3, <1>4, <1>5, <2>1, <3>2 DEF NodeGood, Before
    <3>3. CASE ~old.info.visible
      <4>1. old.info[f] = 0
        BY <2>1, <3>1, <3>3 DEF NodeGood
      <4>2. node.problems \in Partial(Problems, Info) /\ \A p \in DOMAIN node.problems : ~node.problems[p].submitted
        BY <1>5, <2>2, <2>5, <3>3 DEF NodeType
      <4>3. SumOf(node.problems, f) = 0
        BY <2>3, <3>1, <4>2, NothingEarned
      <4>4. QED BY <1>3, <1>4, <1>5, <3>3, <4>1, <4>3 DEF Before
    <3>4. QED BY <3>2, <3>3
  <2>6. QED BY <1>3, <1>6, <1>10, <2>3, <2>4, <2>5, NodeStaysGood
<1>11. QED BY <1>7, <1>8, <1>9, <1>10

\* A type whose sums are taken, or that is left alone.
LEMMA BranchStays ==
  ASSUME NEW tree \in Trees, NEW ty \in Types, NEW m \in BOOLEAN, NEW a \in BOOLEAN, NEW f \in Fields,
         NEW x \in Types, (x = ty /\ Taken(f, m, a)) \/ (x # ty /\ BranchAdds(tree, x, f))
  PROVE  BranchAdds(ReCalType(tree, ty, m, a), x, f)
<1>1. PICK r : r = ReCalType(tree, ty, m, a) OBVIOUS
<1>2. /\ \A y \in Types : y # ty => r.types[y] = tree.types[y]
      /\ r.types[ty].contests = tree.types[ty].contests
      /\ Taken(f, m, a) => r.types[ty].info[f] = SumOf(Infos(tree.types[ty].contests), f)
  BY SMTT(60), <1>1, ReCalTypeFacts DEF Taken, Fields
<1>3. BranchAdds(r, x, f)
  BY <1>2 DEF BranchAdds
<1>4. QED BY <1>1, <1>3

\* A contest that added nothing is taken from a type.
LEMMA LessAdds ==
  ASSUME NEW contests \in Partial(Contests, NodeType), NEW c \in Contests,
         NEW f, Before(contests, c, f) = 0
  PROVE  Adding(Contests, Infos(Without(contests, c)), f) = Adding(Contests, Infos(contests), f)
<1>1. PICK less \in Partial(Contests, NodeType) : less = Without(contests, c)
  BY ContestsWithoutIn
<1>2. DOMAIN less = DOMAIN contests \ {c} /\ \A d \in DOMAIN contests \ {c} : less[d] = contests[d]
  BY <1>1, ContestsWithout
<1>3. \A d \in Contests : Before(less, d, f) = Before(contests, d, f)
  BY <1>2 DEF Before
<1>4. QED BY <1>1, <1>3, AddingIs

\* What a move is given and makes: the contests of the two types, the moved node.
Moving(tree, to, from, c, node, more, less, moved) ==
  /\ tree \in Trees /\ to \in Types /\ from \in Types /\ to # from /\ c \in Contests
  /\ ~Listed(tree, to, c) /\ Listed(tree, from, c)
  /\ node \in NodeType /\ node = tree.types[from].contests[c]
  /\ more \in Partial(Contests, NodeType) /\ more = With(tree.types[to].contests, c, node)
  /\ DOMAIN more = DOMAIN tree.types[to].contests \cup {c} /\ more[c] = node
  /\ \A d \in DOMAIN tree.types[to].contests : more[d] = tree.types[to].contests[d]
  /\ less \in Partial(Contests, NodeType) /\ less = Without(tree.types[from].contests, c)
  /\ DOMAIN less = DOMAIN tree.types[from].contests \ {c}
  /\ \A d \in DOMAIN less : less[d] = tree.types[from].contests[d]
  /\ moved \in Trees /\ moved = Put(Put(tree, to, more), from, less)
  /\ moved.types[to].contests = more /\ moved.types[from].contests = less
  /\ \A x \in Types : /\ moved.types[x].info = tree.types[x].info
                      /\ x \notin {to, from} => moved.types[x] = tree.types[x]

\* The tree in the middle of a move.
LEMMA MovingFacts ==
  ASSUME NEW tree \in Trees, NEW row \in Rows, NEW c \in Contests, NEW from \in Types,
         Listed(tree, from, c), ~Listed(tree, row.type, c)
  PROVE  \E node, more, less, moved :
           /\ Moving(tree, row.type, from, c, node, more, less, moved)
           /\ MoveContest(tree, row, from, c) = ReCalType(moved, row.type, TRUE, TRUE)
<1>1. PICK to \in Types : to = row.type
  BY DEF Rows
<1>2. to # from
  BY <1>1
<1>3. PICK source \in Partial(Contests, NodeType) : source = tree.types[from].contests
  BY TreeFacts
<1>4. PICK target \in Partial(Contests, NodeType) : target = tree.types[to].contests
  BY TreeFacts
<1>5. c \in DOMAIN source /\ c \notin DOMAIN target
  BY <1>1, <1>3, <1>4 DEF Listed
<1>6. PICK node \in NodeType : node = source[c]
  BY <1>5, NodesFacts
<1>7. PICK more : more = With(target, c, node) OBVIOUS
<1>8. /\ more \in Partial(Contests, NodeType)
      /\ DOMAIN more = DOMAIN target \cup {c} /\ more[c] = node
      /\ \A d \in DOMAIN target : more[d] = target[d]
  BY SMTT(60), <1>5, <1>7, MoreContests
<1>9. PICK less \in Partial(Contests, NodeType) : less = Without(source, c)
  BY ContestsWithoutIn
<1>10. DOMAIN less = DOMAIN source \ {c} /\ \A d \in DOMAIN less : less[d] = source[d]
  <2>1. DOMAIN less = DOMAIN source \ {c} /\ \A d \in DOMAIN source \ {c} : less[d] = source[d]
    BY ZenonT(60), <1>9, ContestsWithout
  <2>2. QED BY <2>1
<1>11. PICK half \in Trees : /\ half = Put(tree, to, more) /\ half.types[to].contests = more
                             /\ half.types[to].info = tree.types[to].info
                             /\ \A x \in Types : x # to => half.types[x] = tree.types[x]
  BY <1>8, PutFacts
<1>12. PICK moved \in Trees : /\ moved = Put(half, from, less) /\ moved.types[from].contests = less
                              /\ moved.types[from].info = half.types[from].info
                              /\ \A x \in Types : x # from => moved.types[x] = half.types[x]
  BY PutFacts
<1>13. [tree EXCEPT !.types[to].contests = more, !.types[from].contests = less] = moved
  BY <1>11, <1>12, Zenon DEF Put
<1>14. MoveContest(tree, row, from, c) = ReCalType(moved, to, TRUE, TRUE)
  <2>1. half.types[from].contests = source
    BY <1>2, <1>3, <1>11
  <2>2. QED BY <1>1, <1>3, <1>4, <1>6, <1>7, <1>9, <1>13, <2>1, Zenon DEF MoveContest
<1>15. \A x \in Types : /\ moved.types[x].info = tree.types[x].info
                        /\ x \notin {to, from} => moved.types[x] = tree.types[x]
  BY <1>11, <1>12
<1>16. moved.types[to].contests = more
  BY <1>2, <1>11, <1>12
<1>17. Moving(tree, to, from, c, node, more, less, moved)
  BY <1>1, <1>2, <1>3, <1>4, <1>6, <1>7, <1>8, <1>9, <1>10, <1>11, <1>12, <1>15, <1>16, ZenonT(60)
     DEF Moving
<1>18. QED BY <1>1, <1>14, <1>17

\* The sums of a moved contest, when it has earned nothing.
LEMMA MoveAdds ==
  ASSUME NEW tree, NEW to, NEW from, NEW c, NEW node, NEW more, NEW less, NEW moved,
         Moving(tree, to, from, c, node, more, less, moved), Good(tree),
         node.info.visible, \A p \in DOMAIN node.problems : ~node.problems[p].submitted,
         NEW f \in Fields
  PROVE  /\ \A x \in Types : x # from \/ f \in Earned =>
              BranchAdds(ReCalType(moved, to, TRUE, TRUE), x, f)
         /\ TreeAdds(ReCalType(moved, to, TRUE, TRUE), f)
<1>1. /\ tree \in Trees /\ to \in Types /\ from \in Types /\ to # from /\ c \in Contests
      /\ node \in NodeType /\ node = tree.types[from].contests[c]
      /\ more \in Partial(Contests, NodeType) /\ more = With(tree.types[to].contests, c, node)
      /\ less \in Partial(Contests, NodeType) /\ less = Without(tree.types[from].contests, c)
      /\ moved \in Trees /\ moved = Put(Put(tree, to, more), from, less)
      /\ \A x \in Types : /\ moved.types[x].info = tree.types[x].info
                          /\ x \notin {to, from} => moved.types[x] = tree.types[x]
  BY DEF Moving
<1>2. to \in Types /\ from \in Types /\ to # from /\ moved \in Trees
  BY <1>1
<1>3. tree \in Trees /\ more \in Partial(Contests, NodeType) /\ less \in Partial(Contests, NodeType)
  BY <1>1
<1>4. c \in Contests /\ node \in NodeType /\ node = tree.types[from].contests[c]
       /\ less = Without(tree.types[from].contests, c)
  BY <1>1
<1>5. moved = Put(Put(tree, to, more), from, less)
  BY <1>1
<1>6. ~Listed(tree, to, c) /\ Listed(tree, from, c)
  BY DEF Moving
<1>7. PICK r : r = ReCalType(moved, to, TRUE, TRUE) OBVIOUS
<1>8. Taken(f, TRUE, TRUE)
  BY DEF Taken, Fields
<1>9. /\ \A x \in Types : tree.types[x].info.visible /\ BranchAdds(tree, x, f)
      /\ TreeAdds(tree, f)
  BY DEF Good
<1>10. TreeAdds(r, f)
  BY <1>7, <1>8, <1>2, LectureAdds
<1>11. ASSUME NEW x \in Types, x # from PROVE BranchAdds(r, x, f)
  <2>1. x # to => BranchAdds(moved, x, f)
    BY <1>1, <1>9, <1>11 DEF BranchAdds
  <2>2. QED BY <1>7, <1>8, <1>11, <1>2, <2>1, BranchStays
<1>12. ASSUME f \in Earned PROVE BranchAdds(r, from, f)
  <2>1. PICK half \in Trees : /\ half = Put(tree, to, more)
                              /\ \A x \in Types : x # to => half.types[x] = tree.types[x]
    BY <1>2, <1>3, PutFacts
  <2>2. PICK source \in Partial(Contests, NodeType) : source = tree.types[from].contests
    BY <1>2, <1>3, TreeFacts
  <2>3. c \in DOMAIN source /\ node = source[c]
    BY <1>6, <1>4, <2>2 DEF Listed
  <2>4. NodeGood(node)
    BY <1>2, <2>2, <2>3 DEF Good
  <2>5. node.info[f] = 0
    <3>1. node.problems \in Partial(Problems, Info) /\ ProblemsGood(node.problems)
      BY <1>4, <2>4 DEF NodeType, NodeGood, ProblemsGood
    <3>2. SumOf(node.problems, f) = 0
      BY <1>12, <3>1, NothingEarned
    <3>3. QED BY <2>4, <3>2 DEF NodeGood
  <2>6. Before(source, c, f) = 0
    BY <2>3, <2>5 DEF Before
  <2>7. Adding(Contests, Infos(less), f) = Adding(Contests, Infos(source), f)
    BY <1>4, <2>2, <2>6, LessAdds
  <2>8. half.types[from].contests = source /\ BranchAdds(half, from, f)
    BY <1>9, <1>2, <2>1, <2>2 DEF BranchAdds
  <2>9. BranchAdds(moved, from, f)
    BY <1>2, <1>3, <1>5, <2>1, <2>7, <2>8, PutAdds
  <2>10. BranchAdds(r, from, f)
    BY <1>7, <1>2, <2>9, BranchStays
  <2>11. QED BY <2>10
<1>13. QED BY <1>7, <1>10, <1>11, <1>12

\* A contest is moved and edited.
LEMMA MoveFacts ==
  ASSUME NEW tree \in Trees, NEW row \in Rows, NEW c \in Contests, NEW from \in Types,
         Listed(tree, from, c), ~Listed(tree, row.type, c)
  PROVE  LET r == UpdateContest(MoveContest(tree, row, from, c), row, from, c) IN
         /\ r \in Trees
         /\ \A x \in Types, d \in Contests :
              Listed(r, x, d) <=> \/ d # c /\ Listed(tree, x, d)
                                  \/ d = c /\ (x = row.type \/ (x # from /\ Listed(tree, x, d)))
         /\ Good(tree) /\ ~Unsettles(tree, row, c) => Good(r)
<1>1. PICK node, more, less, moved :
        /\ Moving(tree, row.type, from, c, node, more, less, moved)
        /\ MoveContest(tree, row, from, c) = ReCalType(moved, row.type, TRUE, TRUE)
  BY MovingFacts
<1>2. PICK to \in Types : to = row.type
  BY DEF Rows
<1>3. row.visible \in BOOLEAN
  BY DEF Rows
<1>4. /\ node \in NodeType /\ node = tree.types[from].contests[c]
      /\ to # from /\ moved \in Trees
      /\ more \in Partial(Contests, NodeType) /\ less \in Partial(Contests, NodeType)
      /\ DOMAIN more = DOMAIN tree.types[to].contests \cup {c} /\ more[c] = node
      /\ \A d \in DOMAIN tree.types[to].contests : more[d] = tree.types[to].contests[d]
      /\ DOMAIN less = DOMAIN tree.types[from].contests \ {c}
      /\ \A d \in DOMAIN less : less[d] = tree.types[from].contests[d]
      /\ moved.types[to].contests = more /\ moved.types[from].contests = less
      /\ \A x \in Types : /\ moved.types[x].info = tree.types[x].info
                          /\ x \notin {to, from} => moved.types[x] = tree.types[x]
  BY <1>1, <1>2 DEF Moving
<1>5. to # from /\ moved \in Trees
  BY <1>4
<1>6. more \in Partial(Contests, NodeType) /\ node \in NodeType /\ more[c] = node
       /\ c \in DOMAIN more
  BY <1>4
<1>7. moved.types[to].contests = more /\ moved.types[from].contests = less
  BY <1>4
<1>8. \A x \in Types : moved.types[x].info = tree.types[x].info
  BY <1>4
<1>9. PICK base : base = ReCalType(moved, to, TRUE, TRUE) OBVIOUS
<1>10. /\ base \in Trees
      /\ \A x \in Types : /\ base.types[x].contests = moved.types[x].contests
                          /\ base.types[x].info.visible = moved.types[x].info.visible
  <2>1. base \in Trees
    BY <1>9, <1>5, ReCalTypeIn
  <2>2. SameShape(base, moved)
    BY <1>9, <1>5, ReCalTypeKeeps
  <2>3. QED BY <2>1, <2>2 DEF SameShape
<1>11. Listed(base, to, c) /\ base.types[to].contests = more
  BY <1>10, <1>6, <1>7 DEF Listed
<1>12. PICK new \in NodeType :
        /\ new.problems = node.problems /\ new.info.visible = row.visible
        /\ \A f \in Fields : new.info[f] = node.info[f]
        /\ [base EXCEPT !.types[to].contests[c].info.visible = row.visible]
             = Put(base, to, With(more, c, new))
  <2>1. PICK v \in BOOLEAN : v = row.visible
    BY <1>3
  <2>2. PICK new \in NodeType : LET prev == base.types[to].contests[c] IN
           /\ new.problems = prev.problems /\ new.info.visible = v
           /\ \A f \in Fields : new.info[f] = prev.info[f]
           /\ [base EXCEPT !.types[to].contests[c].info.visible = v]
                = Put(base, to, With(base.types[to].contests, c, new))
    <3>1. base \in Trees /\ Listed(base, to, c)
      BY <1>10, <1>11
    <3>2. QED BY <3>1, ShownNode
  <2>3. QED BY <1>11, <1>6, <2>1, <2>2
<1>13. PICK r : r = ReCalContest(Put(base, to, With(more, c, new)), to, from, c, TRUE, FALSE)
  OBVIOUS
<1>14. r = UpdateContest(MoveContest(tree, row, from, c), row, from, c)
  BY <1>1, <1>2, <1>9, <1>12, <1>13, Zenon DEF UpdateContest
<1>15. /\ r \in Trees
       /\ \A x \in Types, d \in Contests : Listed(r, x, d) <=> Listed(base, x, d) \/ (x = to /\ d = c)
  BY ZenonT(60), <1>10, <1>11, <1>13, NodeChanges
<1>16. ASSUME NEW x \in Types, NEW d \in Contests
       PROVE  Listed(r, x, d) <=> \/ d # c /\ Listed(tree, x, d)
                                  \/ d = c /\ (x = row.type \/ (x # from /\ Listed(tree, x, d)))
  <2>1. CASE x = to
    BY <1>2, <1>4, <1>10, <1>15, <2>1 DEF Listed
  <2>2. CASE x = from
    BY <1>2, <1>4, <1>10, <1>15, <2>2 DEF Listed
  <2>3. CASE x \notin {to, from}
    BY <1>2, <1>4, <1>10, <1>15, <2>3 DEF Listed
  <2>4. QED BY <2>1, <2>2, <2>3
<1>17. ASSUME Good(tree), ~Unsettles(tree, row, c) PROVE Good(r)
  <2>1. row.visible /\ node.info.visible /\ \A p \in DOMAIN node.problems : ~node.problems[p].submitted
    <3>1. node.info.visible \in BOOLEAN
      BY <1>4 DEF NodeType, Info
    <3>2. row.type # from
      BY <1>2, <1>4
    <3>3. QED BY <1>3, <1>4, <1>17, <3>1, <3>2 DEF Unsettles
  <2>2. NodeGood(node)
    BY <1>4, <1>17 DEF Good, Listed
  <2>3. PICK last \in NodeType : /\ Redone(last, new, TRUE, FALSE)
                                 /\ r = ReCalType(Put(base, to, With(more, c, last)), from, TRUE, FALSE)
    <3>1. base \in Trees /\ base.types[to].contests = more /\ new.info.visible
      BY <1>10, <1>11, <1>12, <2>1
    <3>2. LET s == ReCalContest(Put(base, to, With(base.types[to].contests, c, new)), to, from, c, TRUE, FALSE) IN
          IF ~new.info.visible THEN s = Put(base, to, With(base.types[to].contests, c, new))
          ELSE \E one \in NodeType :
                 /\ Redone(one, new, TRUE, FALSE)
                 /\ s = ReCalType(Put(base, to, With(base.types[to].contests, c, one)), from, TRUE, FALSE)
      BY ZenonT(60), <3>1, NodeTaken
    <3>3. QED BY <1>13, <3>1, <3>2
  <2>4. /\ last.problems = node.problems /\ last.info.visible
        /\ \A f \in Fields : last.info[f] = node.info[f]
    <3>1. last.problems = node.problems /\ last.info.visible
      BY <1>12, <2>3 DEF Redone
    <3>2. ASSUME NEW f \in Fields PROVE last.info[f] = node.info[f]
      <4>1. last.info[f] = IF Taken(f, TRUE, FALSE) THEN SumOf(node.problems, f) ELSE node.info[f]
        BY <1>12, <2>3 DEF Redone
      <4>2. node.info[f] = SumOf(node.problems, f)
        BY <2>1, <2>2 DEF NodeGood
      <4>3. QED BY <4>1, <4>2
    <3>3. QED BY <3>1, <3>2
  <2>5. PICK final \in Partial(Contests, NodeType) :
          /\ final = With(more, c, last)
          /\ DOMAIN final = DOMAIN more \cup {c} /\ final[c] = last
          /\ \A d \in DOMAIN more \ {c} : final[d] = more[d]
    <3>1. PICK final : final = With(more, c, last) OBVIOUS
    <3>2. /\ final \in Partial(Contests, NodeType)
          /\ DOMAIN final = DOMAIN more \cup {c} /\ final[c] = last
          /\ \A d \in DOMAIN more \ {c} : final[d] = more[d]
      BY <1>6, <3>1, MoreContests
    <3>3. QED BY <3>1, <3>2
  <2>6. PICK u \in Trees : /\ u = Put(base, to, final) /\ u.types[to].contests = final
                           /\ u.types[to].info = base.types[to].info
                           /\ \A x \in Types : x # to => u.types[x] = base.types[x]
    BY <1>10, PutFacts
  <2>7. r = ReCalType(u, from, TRUE, FALSE)
    BY <2>3, <2>5, <2>6
  <2>8. ASSUME NEW f \in Fields
        PROVE  TreeAdds(r, f) /\ \A x \in Types : BranchAdds(r, x, f)
    <3>1. /\ \A x \in Types : x # from \/ f \in Earned => BranchAdds(base, x, f)
          /\ TreeAdds(base, f)
      BY <1>1, <1>2, <1>9, <1>17, <2>1, MoveAdds
    <3>2. Adding(Contests, Infos(final), f) = Adding(Contests, Infos(more), f)
      <4>1. (IF last.info.visible THEN last.info[f] ELSE 0) = Before(more, c, f)
        BY ZenonT(60), <1>4, <2>1, <2>4 DEF Before
      <4>2. QED BY <1>4, <2>5, <4>1, MoreAdds
    <3>3. /\ \A x \in Types : x # from \/ f \in Earned => BranchAdds(u, x, f)
          /\ TreeAdds(u, f)
      BY <1>10, <1>11, <2>6, <3>1, <3>2, PutAdds
    <3>4. f \in Earned \/ Taken(f, TRUE, FALSE)
      BY DEF Taken, Fields
    <3>5. \A x \in Types : u.types[x].info.visible
      <4>1. \A x \in Types : tree.types[x].info.visible
        BY <1>17 DEF Good
      <4>2. \A x \in Types : base.types[x].info.visible
        BY <1>10, <1>8, <4>1
      <4>3. QED BY <2>6, <4>2
    <3>6. \A x \in Types : x # from \/ ~Taken(f, TRUE, FALSE) => BranchAdds(u, x, f)
      BY <3>3, <3>4
    <3>7. QED BY <2>7, <3>3, <3>5, <3>6, TypeAdds
  <2>9. \A x \in Types : /\ r.types[x].contests = u.types[x].contests
                         /\ r.types[x].info.visible = u.types[x].info.visible
    BY ZenonT(60), <2>7, ReCalTypeKeeps DEF SameShape
  <2>10. ASSUME NEW x \in Types
         PROVE  /\ r.types[x].info.visible
                /\ \A d \in DOMAIN r.types[x].contests : NodeGood(r.types[x].contests[d])
    <3>1. tree.types[x].info.visible /\ \A d \in DOMAIN tree.types[x].contests : NodeGood(tree.types[x].contests[d])
      BY <1>17 DEF Good
    <3>2. NodeGood(last)
      BY <2>1, <2>2, <2>4 DEF NodeGood
    <3>3. r.types[x].info.visible
      <4>1. base.types[x].info.visible
        BY <1>10, <1>8, <3>1
      <4>2. u.types[x].info.visible
        BY <2>6, <4>1
      <4>3. QED BY <2>9, <4>2
    <3>4. CASE x = to
      <4>1. \A d \in DOMAIN final : NodeGood(final[d])
        BY <1>4, <2>5, <3>1, <3>2, <3>4
      <4>2. QED BY <2>6, <2>9, <3>3, <3>4, <4>1
    <3>5. CASE x = from
      <4>1. \A d \in DOMAIN less : NodeGood(less[d])
        BY <1>4, <3>1, <3>5
      <4>2. QED BY <1>4, <1>10, <2>6, <2>9, <3>3, <3>5, <4>1
    <3>6. CASE x \notin {to, from}
      BY <1>4, <1>10, <2>6, <2>9, <3>1, <3>3, <3>6
    <3>7. QED BY <3>4, <3>5, <3>6
  <2>11. QED BY <2>8, <2>10 DEF Good
<1>18. QED BY <1>14, <1>15, <1>16, <1>17

\* ResContest.migrateContest.
LEMMA MigrateContestFacts ==
  ASSUME NEW tree \in Trees, NEW row \in Rows, NEW c \in Contests
  PROVE  LET r == MigrateContest(tree, row, c) IN
         /\ r \in Trees
         /\ (\A x, y \in Types : Listed(tree, x, c) /\ Listed(tree, y, c) => x = y)
              => \A x \in Types, d \in Contests :
                   Listed(r, x, d) => IF d = c THEN x = row.type ELSE Listed(tree, x, d)
         /\ Good(tree) /\ ~Unsettles(tree, row, c) => Good(r)
<1>1. PICK r : r = MigrateContest(tree, row, c) OBVIOUS
<1>2. PICK others \in SUBSET Types : others = {ty \in Types : Listed(tree, ty, c)} OBVIOUS
<1>3. row.type \in Types
  BY DEF Rows
<1>4. CASE row.type \in others
  <2>1. r = UpdateContest(tree, row, row.type, c)
    BY <1>1, <1>2, <1>4, Zenon DEF MigrateContest
  <2>2. Listed(tree, row.type, c)
    BY <1>2, <1>4
  <2>3. r \in Trees /\ SameLists(r, tree) /\ (Good(tree) /\ ~Unsettles(tree, row, c) => Good(r))
    BY <2>1, <2>2, UpdateContestFacts
  <2>4. ASSUME \A x, y \in Types : Listed(tree, x, c) /\ Listed(tree, y, c) => x = y,
               NEW x \in Types, NEW d \in Contests, Listed(r, x, d)
        PROVE  IF d = c THEN x = row.type ELSE Listed(tree, x, d)
    <3>1. Listed(tree, x, d)
      BY <2>3, <2>4 DEF SameLists
    <3>2. QED BY <1>3, <2>2, <2>4, <3>1
  <2>5. QED BY <1>1, <2>3, <2>4
<1>5. CASE others = {}
  <2>1. r = tree
    BY <1>1, <1>2, <1>5 DEF MigrateContest
  <2>2. QED BY <1>1, <1>2, <1>5, <2>1
<1>6. CASE row.type \notin others /\ others # {}
  <2>1. PICK from \in Types : from = (CHOOSE ty \in others : TRUE) /\ from \in others
    BY <1>6
  <2>2. r = UpdateContest(MoveContest(tree, row, from, c), row, from, c)
    BY <1>1, <1>2, <1>6, <2>1, Zenon DEF MigrateContest
  <2>3. Listed(tree, from, c) /\ ~Listed(tree, row.type, c)
    BY <1>2, <1>3, <1>6, <2>1
  <2>4. /\ r \in Trees
        /\ \A x \in Types, d \in Contests :
             Listed(r, x, d) <=> \/ d # c /\ Listed(tree, x, d)
                                 \/ d = c /\ (x = row.type \/ (x # from /\ Listed(tree, x, d)))
        /\ Good(tree) /\ ~Unsettles(tree, row, c) => Good(r)
    BY <2>2, <2>3, MoveFacts
  <2>5. ASSUME \A x, y \in Types : Listed(tree, x, c) /\ Listed(tree, y, c) => x = y,
               NEW x \in Types, NEW d \in Contests, Listed(r, x, d)
        PROVE  IF d = c THEN x = row.type ELSE Listed(tree, x, d)
    BY <2>3, <2>4, <2>5
  <2>6. QED BY <1>1, <2>4, <2>5
<1>7. QED BY <1>4, <1>5, <1>6

-----------------------------------------------------------------------------
(* Trees made anew.                                                        *)

\* A cleaned record keeps what it offers and forgets what was earned.
LEMMA CleanInfoFacts ==
  ASSUME NEW info \in Info
  PROVE  /\ CleanInfo(info) \in Info /\ CleanInfo(info).visible = info.visible
         /\ \A f \in Offered : CleanInfo(info)[f] = info[f]
         /\ \A f \in Earned : CleanInfo(info)[f] = 0
<1>1. PICK r : r = [NewInfo EXCEPT !.visible = info.visible, !.point = info.point,
                                  !.problems = info.problems, !.contents = info.contents]
  OBVIOUS
<1>2. r \in Info /\ r.visible = info.visible /\ \A f \in Offered : r[f] = info[f]
  BY <1>1, NewInfoFacts DEF Info, Offered
<1>3. \A f \in Earned : r[f] = NewInfo[f]
  BY <1>1, NewInfoFacts DEF Info, Earned
<1>4. r = CleanInfo(info)
  BY <1>1 DEF CleanInfo
<1>5. QED BY <1>2, <1>3, <1>4, NewInfoFacts DEF Fields

\* The sums of cleaned children.
LEMMA CleanSums ==
  ASSUME NEW A, IsFiniteSet(A), NEW kids \in Partial(A, Info), NEW clean \in Partial(A, Info),
         DOMAIN clean = DOMAIN kids, \A k \in DOMAIN kids : clean[k] = CleanInfo(kids[k]),
         NEW f \in Fields
  PROVE  SumOf(clean, f) = IF f \in Offered THEN SumOf(kids, f) ELSE 0
<1>1. \A k \in DOMAIN kids : kids[k] \in Info
  BY PartialFacts
<1>2. \A k \in DOMAIN kids : /\ clean[k].visible = kids[k].visible
                             /\ f \in Offered => clean[k][f] = kids[k][f]
                             /\ f \in Earned => clean[k][f] = 0
  BY <1>1, CleanInfoFacts
<1>3. CASE f \in Offered
  <2>1. Adding(A, clean, f) = Adding(A, kids, f)
    BY <1>2, <1>3 DEF Adding
  <2>2. QED BY <1>3, <2>1, SumSame
<1>4. CASE f \notin Offered
  <2>1. f \in Earned
    BY <1>4 DEF Fields
  <2>2. PICK g : g = Adding(A, clean, f) OBVIOUS
  <2>3. \A k \in A : g[k] = 0
    BY <1>2, <2>1, <2>2 DEF Adding
  <2>4. Total(g, A) = 0
    BY <2>3, TotalOfZeros
  <2>5. QED BY <1>4, <2>2, <2>4, SumOfAll
<1>5. QED BY <1>3, <1>4

\* A cleaned node.
CleanNode(node) ==
  [info |-> CleanInfo(node.info),
   problems |-> [p \in DOMAIN node.problems |-> CleanInfo(node.problems[p])]]

\* So does a cleaned node, and its sums stay right.
LEMMA CleanNodeFacts ==
  ASSUME NEW node \in NodeType
  PROVE  /\ CleanNode(node) \in NodeType /\ CleanNode(node).info = CleanInfo(node.info)
         /\ NodeGood(node) => NodeGood(CleanNode(node))
<1>1. PICK lines \in Partial(Problems, Info) : lines = node.problems
  BY DEF NodeType
<1>2. PICK clean : clean = [p \in DOMAIN lines |-> CleanInfo(lines[p])] OBVIOUS
<1>3. \A p \in DOMAIN lines : lines[p] \in Info
  BY PartialFacts
<1>4. DOMAIN lines \subseteq Problems
  BY PartialFacts
<1>5. \A p \in DOMAIN lines : CleanInfo(lines[p]) \in Info
  BY <1>3, CleanInfoFacts
<1>6. clean \in Partial(Problems, Info) /\ DOMAIN clean = DOMAIN lines
  BY <1>2, <1>4, <1>5, PartialFacts
<1>7. node.info \in Info
  BY DEF NodeType
<1>8. CleanInfo(node.info) \in Info
  BY <1>7, CleanInfoFacts
<1>9. PICK new : new = [info |-> CleanInfo(node.info), problems |-> clean] OBVIOUS
<1>10. new \in NodeType /\ new.info = CleanInfo(node.info) /\ new.problems = clean
  BY <1>6, <1>8, <1>9 DEF NodeType
<1>11. new = CleanNode(node)
  BY <1>1, <1>2, <1>9, Zenon DEF CleanNode
<1>12. ASSUME NodeGood(node) PROVE NodeGood(new)
  <2>1. ASSUME NEW p \in DOMAIN clean
        PROVE  /\ clean[p].visible /\ \A f \in Earned : clean[p][f] = 0
    <3>1. p \in DOMAIN lines /\ clean[p] = CleanInfo(lines[p]) /\ lines[p].visible
      BY <1>1, <1>2, <1>6, <1>12 DEF NodeGood
    <3>2. QED BY <1>3, <3>1, CleanInfoFacts
  <2>2. new.info.visible = node.info.visible
    BY <1>7, <1>10, CleanInfoFacts
  <2>3. \A f \in Earned : new.info[f] = 0
    BY <1>7, <1>10, CleanInfoFacts
  <2>4. ASSUME new.info.visible, NEW f \in Fields PROVE new.info[f] = SumOf(clean, f)
    <3>1. SumOf(clean, f) = IF f \in Offered THEN SumOf(lines, f) ELSE 0
      BY <1>2, <1>6, CleanSums, RowsAssumption
    <3>2. f \in Offered => new.info[f] = node.info[f]
      BY <1>7, <1>10, CleanInfoFacts
    <3>3. node.info[f] = SumOf(lines, f)
      BY <1>1, <1>12, <2>2, <2>4 DEF NodeGood
    <3>4. QED BY <2>3, <3>1, <3>2, <3>3 DEF Fields
  <2>5. QED BY <1>10, <2>1, <2>3, <2>4 DEF NodeGood
<1>13. QED BY <1>10, <1>11, <1>12

\* cleanDataForScorebard.
LEMMA CleanFacts ==
  ASSUME NEW tree \in Trees
  PROVE  Clean(tree) \in Trees /\ SameLists(Clean(tree), tree) /\ (Good(tree) => Good(Clean(tree)))
<1>1. PICK r : r = [info |-> CleanInfo(tree.info),
                    types |-> [ty \in Types |->
                      [info |-> CleanInfo(tree.types[ty].info),
                       contests |-> [c \in DOMAIN tree.types[ty].contests |->
                                       CleanNode(tree.types[ty].contests[c])]]]]
  OBVIOUS
<1>2. r = Clean(tree)
  BY <1>1, Zenon DEF Clean, CleanNode
<1>3. r.info = CleanInfo(tree.info)
  BY <1>1
<1>4. ASSUME NEW ty \in Types
      PROVE  /\ r.types[ty] \in Branch
             /\ r.types[ty].info = CleanInfo(tree.types[ty].info)
             /\ DOMAIN r.types[ty].contests = DOMAIN tree.types[ty].contests
             /\ \A c \in DOMAIN tree.types[ty].contests :
                  r.types[ty].contests[c] = CleanNode(tree.types[ty].contests[c])
  <2>1. PICK contests \in Partial(Contests, NodeType) : contests = tree.types[ty].contests
    BY TreeFacts
  <2>2. PICK clean : clean = [c \in DOMAIN contests |-> CleanNode(contests[c])] OBVIOUS
  <2>3. DOMAIN contests \subseteq Contests /\ \A c \in DOMAIN contests : contests[c] \in NodeType
    BY PartialFacts
  <2>4. \A c \in DOMAIN contests : CleanNode(contests[c]) \in NodeType
    BY <2>3, CleanNodeFacts
  <2>5. clean \in Partial(Contests, NodeType)
    BY <2>2, <2>3, <2>4, PartialFacts
  <2>6. tree.types[ty].info \in Info
    BY TreeFacts
  <2>7. CleanInfo(tree.types[ty].info) \in Info
    BY <2>6, CleanInfoFacts
  <2>8. r.types[ty] = [info |-> CleanInfo(tree.types[ty].info), contests |-> clean]
    BY <1>1, <2>1, <2>2
  <2>9. QED BY <2>1, <2>2, <2>5, <2>7, <2>8 DEF Branch
<1>5. r \in Trees
  <2>1. CleanInfo(tree.info) \in Info
    BY TreeFacts, CleanInfoFacts
  <2>2. r.types = [ty \in Types |-> r.types[ty]] /\ r = [info |-> r.info, types |-> r.types]
    BY <1>1
  <2>3. r.types \in [Types -> Branch]
    BY <1>4, <2>2
  <2>4. QED BY <1>3, <2>1, <2>2, <2>3 DEF Trees
<1>6. SameLists(r, tree)
  BY <1>4 DEF SameLists, Listed
<1>7. ASSUME Good(tree) PROVE Good(r)
  <2>1. ASSUME NEW f \in Fields, NEW ty \in Types PROVE BranchAdds(r, ty, f)
    <3>1. PICK kids \in Partial(Contests, Info) :
            /\ kids = Infos(tree.types[ty].contests) /\ DOMAIN kids = DOMAIN tree.types[ty].contests
            /\ \A c \in DOMAIN kids : kids[c] = tree.types[ty].contests[c].info
      <4>1. PICK contests \in Partial(Contests, NodeType) : contests = tree.types[ty].contests
        BY TreeFacts
      <4>2. QED BY <4>1, NodesFacts
    <3>2. PICK clean \in Partial(Contests, Info) :
            /\ clean = Infos(r.types[ty].contests) /\ DOMAIN clean = DOMAIN r.types[ty].contests
            /\ \A c \in DOMAIN clean : clean[c] = r.types[ty].contests[c].info
      <4>1. PICK contests \in Partial(Contests, NodeType) : contests = r.types[ty].contests
        BY <1>5, TreeFacts
      <4>2. QED BY <4>1, NodesFacts
    <3>3. \A c \in DOMAIN tree.types[ty].contests : tree.types[ty].contests[c] \in NodeType
      BY TreeFacts, NodesFacts
    <3>4. DOMAIN clean = DOMAIN kids /\ \A c \in DOMAIN kids : clean[c] = CleanInfo(kids[c])
      BY <1>4, <3>1, <3>2, <3>3, CleanNodeFacts
    <3>5. SumOf(clean, f) = IF f \in Offered THEN SumOf(kids, f) ELSE 0
      BY <3>4, CleanSums, RowsAssumption
    <3>6. tree.types[ty].info[f] = SumOf(kids, f)
      BY <1>7, <3>1 DEF Good, BranchAdds
    <3>7. r.types[ty].info[f] = IF f \in Offered THEN tree.types[ty].info[f] ELSE 0
      <4>1. tree.types[ty].info \in Info
        BY TreeFacts
      <4>2. QED BY <1>4, <4>1, CleanInfoFacts DEF Fields
    <3>8. QED BY <3>2, <3>5, <3>6, <3>7 DEF BranchAdds
  <2>2. ASSUME NEW f \in Fields PROVE TreeAdds(r, f)
    <3>1. PICK kids \in Partial(Types, Info) :
            kids = Infos(tree.types) /\ DOMAIN kids = Types /\ \A x \in Types : kids[x] = tree.types[x].info
      BY TreeFacts DEF Infos
    <3>2. PICK clean \in Partial(Types, Info) :
            clean = Infos(r.types) /\ DOMAIN clean = Types /\ \A x \in Types : clean[x] = r.types[x].info
      BY <1>5, TreeFacts DEF Infos
    <3>3. \A x \in Types : clean[x] = CleanInfo(kids[x])
      BY <1>4, <3>1, <3>2
    <3>4. SumOf(clean, f) = IF f \in Offered THEN SumOf(kids, f) ELSE 0
      BY <3>1, <3>2, <3>3, CleanSums, RowsAssumption
    <3>5. tree.info[f] = SumOf(kids, f)
      BY <1>7, <3>1 DEF Good, TreeAdds
    <3>6. r.info[f] = IF f \in Offered THEN tree.info[f] ELSE 0
      <4>1. tree.info \in Info
        BY TreeFacts
      <4>2. QED BY <1>3, <4>1, CleanInfoFacts DEF Fields
    <3>7. QED BY <3>2, <3>4, <3>5, <3>6 DEF TreeAdds
  <2>3. ASSUME NEW ty \in Types
        PROVE  /\ r.types[ty].info.visible
               /\ \A c \in DOMAIN r.types[ty].contests : NodeGood(r.types[ty].contests[c])
    <3>1. tree.types[ty].info \in Info /\ tree.types[ty].info.visible
      BY <1>7, TreeFacts DEF Good
    <3>2. r.types[ty].info.visible
      BY <1>4, <3>1, CleanInfoFacts
    <3>3. \A c \in DOMAIN tree.types[ty].contests :
            tree.types[ty].contests[c] \in NodeType /\ NodeGood(tree.types[ty].contests[c])
      BY <1>7, TreeFacts, NodesFacts DEF Good
    <3>4. \A c \in DOMAIN tree.types[ty].contests : NodeGood(CleanNode(tree.types[ty].contests[c]))
      BY <3>3, CleanNodeFacts
    <3>5. QED BY <1>4, <3>2, <3>4
  <2>4. QED BY <2>1, <2>2, <2>3 DEF Good
<1>8. QED BY <1>2, <1>5, <1>6, <1>7

\* Every subset of a finite set is good, when the empty set is and one more member
\* leaves it good.
LEMMA SubsetsIn ==
  ASSUME NEW S, IsFiniteSet(S), NEW G, {} \in G,
         \A s \in SUBSET S : s # {} /\ s \ {Some(s)} \in G => s \in G
  PROVE  S \in G
<1> DEFINE bad == {s \in SUBSET S : s \notin G}
<1>1. ASSUME bad # {} PROVE FALSE
  <2>1. PICK s \in bad : \A r \in SUBSET s : r # s => r \notin bad
    <3>1. bad \in SUBSET SUBSET S OBVIOUS
    <3> HIDE DEF bad
    <3>2. QED BY <1>1, <3>1, SmallestSet
  <2>2. s # {} /\ s \in SUBSET S /\ s \notin G
    <3>1. s \in SUBSET S /\ s \notin G OBVIOUS
    <3>2. QED BY <3>1, Zenon
  <2>3. Some(s) \in s
    BY <2>2, SomeIn
  <2>4. s \ {Some(s)} \in G
    BY <2>1, <2>3
  <2>5. QED BY <2>2, <2>4
<1>2. QED BY <1>1

\* A function that starts in V and takes one member of S after the other, each step
\* from V into V, ends in V.
LEMMA FoldIn ==
  ASSUME NEW S, IsFiniteSet(S), NEW V, NEW i, i[{}] \in V,
         \A s \in SUBSET S : s # {} /\ i[s \ {Some(s)}] \in V => i[s] \in V
  PROVE  i[S] \in V
<1> DEFINE G == {s \in SUBSET S : i[s] \in V}
<1>1. {} \in G /\ \A s \in SUBSET S : s # {} /\ s \ {Some(s)} \in G => s \in G OBVIOUS
<1>2. S \in G
  <2> HIDE DEF G
  <2> QED BY <1>1, SubsetsIn
<1>3. QED BY <1>2

\* The trees that buildLecture goes through.
Building(i, tree) ==
  /\ i[{}] = tree
  /\ \A s \in SUBSET Existing : s # {} =>
       i[s] = MigrateProblem(i[s \ {Some(s)}], contest[Home[Some(s)]], Home[Some(s)], Some(s), problem[Some(s)])

\* buildLecture ends with the last one.
LEMMA BuiltSteps ==
  ASSUME NEW V, NEW tree \in V, IsFiniteSet(Existing),
         \A p \in Existing, tr \in V : MigrateProblem(tr, contest[Home[p]], Home[p], p, problem[p]) \in V
  PROVE  \E i : Building(i, tree) /\ Built(tree) = i[Existing]
<1> DEFINE S == Existing
           M(p, tr) == MigrateProblem(tr, contest[Home[p]], Home[p], p, problem[p])
           Eq(i) == i = [s \in SUBSET S |-> IF s = {} THEN tree
                                            ELSE M(CHOOSE x \in s : TRUE, i[s \ {CHOOSE x \in s : TRUE}])]
           iter == CHOOSE i : Eq(i)
           step == [d \in S \X V |-> M(d[1], d[2])]
<1>1. Built(tree) = iter[S]
  BY DEF Built, FoldSet, MapThenFoldSet
<1>2. \A x \in S, v \in V : M(x, v) \in V OBVIOUS
<1> HIDE DEF M
<1>3. \A x \in S, v \in V : step[<<x, v>>] = M(x, v) /\ step[<<x, v>>] \in V
  BY <1>2
<1> HIDE DEF step
<1> HIDE DEF S
<1>4. PICK f : Folds(f, step, tree, S, V)
  BY <1>3, FoldsExist DEF S
<1>5. Eq(f)
  <2>1. f = [s \in SUBSET S |-> f[s]]
    BY <1>4 DEF Folds
  <2>2. ASSUME NEW s \in SUBSET S, s # {}
        PROVE  f[s] = M(CHOOSE x \in s : TRUE, f[s \ {CHOOSE x \in s : TRUE}])
    <3>1. Some(s) \in S /\ s \ {Some(s)} \in SUBSET S
      BY <2>2, SomeIn
    <3>2. f[s \ {Some(s)}] \in V
      BY <1>4, <3>1 DEF Folds
    <3>3. f[s] = M(Some(s), f[s \ {Some(s)}])
      BY <1>3, <1>4, <2>2, <3>1, <3>2 DEF Folds
    <3>4. QED BY <3>3 DEF Some
  <2>3. f[{}] = tree
    BY <1>4 DEF Folds
  <2>4. QED BY <2>1, <2>2, <2>3
<1>6. Eq(iter)
  <2> HIDE DEF Eq
  <2> QED BY <1>5
<1>7. PICK i : i = iter OBVIOUS
<1>8. /\ i[{}] = tree
      /\ \A s \in SUBSET S : s # {} => i[s] = M(Some(s), i[s \ {Some(s)}])
  <2> HIDE DEF iter
  <2>1. Eq(i)
    BY <1>6, <1>7
  <2>2. \A s \in SUBSET S : i[s] = IF s = {} THEN tree
                                   ELSE M(CHOOSE x \in s : TRUE, i[s \ {CHOOSE x \in s : TRUE}])
    BY <2>1
  <2>3. QED BY <2>2 DEF Some
<1>9. Building(i, tree)
  <2> HIDE DEF iter, Eq
  <2> QED BY <1>8 DEF Building, S, M
<1>10. QED
  <2> HIDE DEF iter, Eq
  <2> QED BY <1>1, <1>7, <1>9 DEF S

\* Where buildLecture ends, when each step stays there.
LEMMA BuiltIn ==
  ASSUME NEW V, NEW tree \in V, IsFiniteSet(Existing),
         \A p \in Existing, tr \in V : MigrateProblem(tr, contest[Home[p]], Home[p], p, problem[p]) \in V
  PROVE  Built(tree) \in V
<1>1. PICK i : Building(i, tree) /\ Built(tree) = i[Existing]
  BY BuiltSteps
<1>2. ASSUME NEW s \in SUBSET Existing, s # {}, i[s \ {Some(s)}] \in V PROVE i[s] \in V
  <2>1. PICK p \in Existing : p = Some(s)
    BY <1>2, SomeIn
  <2>2. i[s] = MigrateProblem(i[s \ {p}], contest[Home[p]], Home[p], p, problem[p])
    BY <1>1, <1>2, <2>1 DEF Building
  <2>3. QED BY <1>2, <2>1, <2>2
<1>3. i[{}] \in V
  BY <1>1 DEF Building
<1>4. i[Existing] \in V
  BY <1>2, <1>3, FoldIn
<1>5. QED BY <1>1, <1>4

\* Those of a tree made anew.
Rebuilding(i, tree, chosen) ==
  /\ i[{}] = tree
  /\ \A s \in SUBSET chosen : s # {} =>
       i[s] = Associate(i[s \ {Some(s)}], contest[Home[Some(s).problem]].type, Home[Some(s).problem], Some(s))

\* So does a rebuild.
LEMMA RebuiltSteps ==
  ASSUME NEW V, NEW chosen, IsFiniteSet(chosen), Clean(Built(NewTree)) \in V,
         \A s \in chosen, tr \in V :
           Associate(tr, contest[Home[s.problem]].type, Home[s.problem], s) \in V
  PROVE  \E i : Rebuilding(i, Clean(Built(NewTree)), chosen) /\ Rebuilt(chosen) = i[chosen]
<1> DEFINE S == chosen
           M(p, tr) == Associate(tr, contest[Home[p.problem]].type, Home[p.problem], p)
           tree == Clean(Built(NewTree))
           Eq(i) == i = [s \in SUBSET S |-> IF s = {} THEN tree
                                            ELSE M(CHOOSE x \in s : TRUE, i[s \ {CHOOSE x \in s : TRUE}])]
           iter == CHOOSE i : Eq(i)
           step == [d \in S \X V |-> M(d[1], d[2])]
<1>1. Rebuilt(chosen) = iter[S]
  BY DEF Rebuilt, FoldSet, MapThenFoldSet
<1>2. \A x \in S, v \in V : M(x, v) \in V OBVIOUS
<1>3. tree \in V OBVIOUS
<1> HIDE DEF M, tree
<1>4. \A x \in S, v \in V : step[<<x, v>>] = M(x, v) /\ step[<<x, v>>] \in V
  BY <1>2
<1> HIDE DEF step
<1> HIDE DEF S
<1>5. PICK f : Folds(f, step, tree, S, V)
  BY <1>4, <1>3, FoldsExist DEF S
<1>6. Eq(f)
  <2>1. f = [s \in SUBSET S |-> f[s]]
    BY <1>5 DEF Folds
  <2>2. ASSUME NEW s \in SUBSET S, s # {}
        PROVE  f[s] = M(CHOOSE x \in s : TRUE, f[s \ {CHOOSE x \in s : TRUE}])
    <3>1. Some(s) \in S /\ s \ {Some(s)} \in SUBSET S
      BY <2>2, SomeIn
    <3>2. f[s \ {Some(s)}] \in V
      BY <1>5, <3>1 DEF Folds
    <3>3. f[s] = M(Some(s), f[s \ {Some(s)}])
      BY <1>4, <1>5, <2>2, <3>1, <3>2 DEF Folds
    <3>4. QED BY <3>3 DEF Some
  <2>3. f[{}] = tree
    BY <1>5 DEF Folds
  <2>4. QED BY <2>1, <2>2, <2>3
<1>7. Eq(iter)
  <2> HIDE DEF Eq
  <2> QED BY <1>6
<1>8. PICK i : i = iter OBVIOUS
<1>9. /\ i[{}] = tree
      /\ \A s \in SUBSET S : s # {} => i[s] = M(Some(s), i[s \ {Some(s)}])
  <2> HIDE DEF iter
  <2>1. Eq(i)
    BY <1>7, <1>8
  <2>2. \A s \in SUBSET S : i[s] = IF s = {} THEN tree
                                   ELSE M(CHOOSE x \in s : TRUE, i[s \ {CHOOSE x \in s : TRUE}])
    BY <2>1
  <2>3. QED BY <2>2 DEF Some
<1>10. Rebuilding(i, tree, chosen)
  <2> HIDE DEF iter, Eq
  <2> QED BY <1>9 DEF Rebuilding, S, M
<1>11. QED
  <2> HIDE DEF iter, Eq
  <2> QED BY <1>1, <1>8, <1>10 DEF S, tree

\* Where it ends.
LEMMA RebuiltIn ==
  ASSUME NEW V, NEW chosen, IsFiniteSet(chosen), Clean(Built(NewTree)) \in V,
         \A s \in chosen, tr \in V :
           Associate(tr, contest[Home[s.problem]].type, Home[s.problem], s) \in V
  PROVE  Rebuilt(chosen) \in V
<1>1. PICK tree \in V : tree = Clean(Built(NewTree)) OBVIOUS
<1>2. PICK i : Rebuilding(i, tree, chosen) /\ Rebuilt(chosen) = i[chosen]
  BY <1>1, RebuiltSteps
<1>3. ASSUME NEW s \in SUBSET chosen, s # {}, i[s \ {Some(s)}] \in V PROVE i[s] \in V
  <2>1. PICK sub \in chosen : sub = Some(s)
    BY <1>3, SomeIn
  <2>2. i[s] = Associate(i[s \ {sub}], contest[Home[sub.problem]].type, Home[sub.problem], sub)
    BY <1>2, <1>3, <2>1 DEF Rebuilding
  <2>3. QED BY <1>3, <2>1, <2>2
<1>4. i[{}] \in V
  BY <1>2 DEF Rebuilding
<1>5. i[chosen] \in V
  BY <1>3, <1>4, FoldIn
<1>6. QED BY <1>2, <1>5

\* The rows that trees are built from.
LEMMA RowFacts ==
  ASSUME RowsInv
  PROVE  /\ IsFiniteSet(Existing) /\ Existing \subseteq Problems
         /\ \A c \in Contests : contest[c].there => contest[c] \in Rows
         /\ \A p \in Existing : /\ Home[p] \in Contests /\ problem[p] \in Rewards
                                /\ contest[Home[p]].there /\ contest[Home[p]] \in Rows
<1>1. Existing \subseteq Problems
  BY DEF Existing
<1>2. IsFiniteSet(Existing)
  BY <1>1, FS_Subset, RowsAssumption
<1>3. \A c \in Contests : contest[c].there => contest[c] \in Rows
  BY DEF RowsInv, NoContest
<1>4. ASSUME NEW p \in Existing
      PROVE  /\ Home[p] \in Contests /\ problem[p] \in Rewards
             /\ contest[Home[p]].there /\ contest[Home[p]] \in Rows
  <2>1. p \in Problems /\ problem[p].there
    BY DEF Existing
  <2>2. Home[p] \in Contests /\ contest[Home[p]].there
    BY <2>1, HomeAssumption DEF RowsInv
  <2>3. problem[p] \in Rewards
    BY <2>1 DEF RowsInv, NoProblem
  <2>4. QED BY <1>3, <2>2, <2>3
<1>5. QED BY <1>1, <1>2, <1>3, <1>4

\* buildLecture.
LEMMA BuiltFacts ==
  ASSUME RowsInv, NEW tree \in Trees
  PROVE  /\ Built(tree) \in Trees
         /\ In(tree, Expected) => In(Built(tree), Expected)
         /\ Good(tree) => Good(Built(tree))
<1> DEFINE V == {tr \in Trees : /\ In(tree, Expected) => In(tr, Expected)
                                /\ Good(tree) => Good(tr)}
<1>1. tree \in V OBVIOUS
<1>2. ASSUME NEW p \in Existing, NEW tr \in V
      PROVE  MigrateProblem(tr, contest[Home[p]], Home[p], p, problem[p]) \in V
  <2>1. PICK row \in Rows : row = contest[Home[p]]
    BY RowFacts
  <2>2. PICK c \in Contests : c = Home[p]
    BY RowFacts
  <2>3. problem[p] \in Rewards /\ p \in Problems
    BY RowFacts
  <2>4. PICK r : r = MigrateProblem(tr, row, c, p, problem[p]) OBVIOUS
  <2>5. r \in Trees /\ SameList(r, tr, row.type, c) /\ (Good(tr) => Good(r))
    BY <2>3, <2>4, MigrateProblemFacts
  <2>6. Expected[c] = row.type
    BY <2>1, <2>2 DEF Expected
  <2>7. In(tr, Expected) => In(r, Expected)
    BY <2>5, <2>6 DEF In, SameList
  <2>8. r \in V
    BY <2>5, <2>7
  <2>9. QED BY <2>1, <2>2, <2>4, <2>8
<1> HIDE DEF V
<1>3. Built(tree) \in V
  BY <1>1, <1>2, RowFacts, BuiltIn
<1>4. QED BY <1>3 DEF V

\* A tree made anew.
LEMMA RebuiltFacts ==
  ASSUME RowsInv, NEW chosen, IsFiniteSet(chosen),
         \A s \in chosen : IsSub(s) /\ problem[s.problem].there
  PROVE  Rebuilt(chosen) \in Trees /\ In(Rebuilt(chosen), Expected) /\ Good(Rebuilt(chosen))
<1> DEFINE V == {tr \in Trees : In(tr, Expected) /\ Good(tr)}
<1>1. Clean(Built(NewTree)) \in V
  <2>1. NewTree \in Trees /\ In(NewTree, Expected) /\ Good(NewTree)
    BY NewTreeFacts DEF In
  <2>2. PICK tree \in Trees : tree = Built(NewTree) /\ In(tree, Expected) /\ Good(tree)
    BY <2>1, BuiltFacts
  <2>3. Clean(tree) \in Trees /\ SameLists(Clean(tree), tree) /\ Good(Clean(tree))
    BY <2>2, CleanFacts
  <2>4. In(Clean(tree), Expected)
    BY <2>2, <2>3 DEF In, SameLists
  <2>5. QED BY <2>2, <2>3, <2>4
<1>2. ASSUME NEW s \in chosen, NEW tr \in V
      PROVE  Associate(tr, contest[Home[s.problem]].type, Home[s.problem], s) \in V
  <2>1. s.problem \in Existing /\ IsSub(s)
    BY DEF IsSub, Existing
  <2>2. PICK c \in Contests : c = Home[s.problem] /\ contest[c] \in Rows
    BY <2>1, RowFacts
  <2>3. PICK ty \in Types : ty = contest[c].type
    BY <2>2 DEF Rows
  <2>4. PICK r : r = Associate(tr, ty, c, s) OBVIOUS
  <2>5. r \in Trees /\ SameLists(r, tr) /\ (Good(tr) => Good(r))
    BY <2>1, <2>4, AssociateFacts
  <2>6. In(r, Expected)
    BY <2>5 DEF In, SameLists
  <2>7. r \in V
    BY <2>5, <2>6
  <2>8. QED BY <2>2, <2>3, <2>4, <2>7
<1> HIDE DEF V
<1>3. Rebuilt(chosen) \in V
  BY <1>1, <1>2, RebuiltIn
<1>4. QED BY <1>3 DEF V

-----------------------------------------------------------------------------
(* The types of the state are kept.                                        *)

\* One thread goes on; the student stays enrolled, operations are begun.
LEMMA ThreadSteps ==
  ASSUME ThreadsInv, ops \in Nat, ops' \in Nat, ops <= ops', enrolled => enrolled',
         NEW t \in Threads,
         NEW at \in {"idle", "copy", "tree", "row", "judgement", "build", "save"}, NEW job, NEW tree,
         pc' = [pc EXCEPT ![t] = at], task' = [task EXCEPT ![t] = job], next' = [next EXCEPT ![t] = tree],
         JobOK(job), StepOK(at, job, tree, enrolled', ops')
  PROVE  ThreadsInv'
<1>1. pc' \in [Threads -> {"idle", "copy", "tree", "row", "judgement", "build", "save"}]
  BY DEF ThreadsInv
<1>2. task' = [u \in Threads |-> task'[u]] /\ next' = [u \in Threads |-> next'[u]]
  BY DEF ThreadsInv
<1>3. ASSUME NEW u \in Threads
      PROVE  JobOK(task'[u]) /\ StepOK(pc'[u], task'[u], next'[u], enrolled', ops')
  <2>1. CASE u = t
    <3>1. pc'[u] = at /\ task'[u] = job /\ next'[u] = tree
      BY <2>1 DEF ThreadsInv
    <3>2. QED BY <3>1
  <2>2. CASE u # t
    <3>1. pc'[u] = pc[u] /\ task'[u] = task[u] /\ next'[u] = next[u]
      BY <2>2 DEF ThreadsInv
    <3>2. JobOK(task[u]) /\ StepOK(pc[u], task[u], next[u], enrolled, ops)
      BY DEF ThreadsInv
    <3>3. StepOK(pc[u], task[u], next[u], enrolled', ops')
      BY <3>2 DEF StepOK
    <3>4. QED BY <3>1, <3>2, <3>3
  <2>3. QED BY <2>1, <2>2
<1>4. QED BY <1>1, <1>2, <1>3 DEF ThreadsInv

\* A new task.
LEMMA ThreadBegins ==
  ASSUME ThreadsInv, ops \in Nat, enrolled => enrolled', NEW t \in Threads,
         NEW at \in {"copy", "tree", "judgement", "build"}, NEW job, NEW why, Begin(t, at, job, why),
         JobOK(job), StepOK(at, job, next[t], enrolled', ops + 1)
  PROVE  ThreadsInv' /\ ops' \in Nat
<1>1. ops' = ops + 1 /\ ops' \in Nat /\ ops <= ops'
  BY DEF Begin
<1>2. pc' = [pc EXCEPT ![t] = at] /\ task' = [task EXCEPT ![t] = job]
  BY DEF Begin
<1>3. next' = [next EXCEPT ![t] = next[t]]
  BY DEF Begin, ThreadsInv
<1>4. PICK tree : tree = next[t] OBVIOUS
<1>5. QED BY <1>1, <1>2, <1>3, <1>4, ThreadSteps

\* An idle thread knows nothing.
LEMMA IdleFacts == ASSUME NEW tree, NEW on, NEW n PROVE JobOK(Idle) /\ StepOK("idle", Idle, tree, on, n)
<1>1. PICK j : j = Idle OBVIOUS
<1>2. j = [kind |-> None, contest |-> None, row |-> None, todo |-> {},
           problem |-> None, prob |-> None, sub |-> None, since |-> None]
  BY <1>1 DEF Idle, Job
<1>3. j.kind \notin Tasks \cup Makers \cup {"judge"}
  BY <1>2, NoneAssumption DEF Tasks, Makers
<1>4. IsJob(j)
  BY <1>2 DEF IsJob
<1>5. JobOK(j)
  BY <1>3, <1>4 DEF JobOK, Tasks
<1>6. StepOK("idle", j, tree, on, n)
  BY DEF StepOK
<1>7. QED BY <1>1, <1>5, <1>6

\* A task ends.
LEMMA ThreadEnds ==
  ASSUME ThreadsInv, ops \in Nat, UNCHANGED <<enrolled, ops>>, NEW t \in Threads, End(t)
  PROVE  ThreadsInv'
<1>1. pc' = [pc EXCEPT ![t] = "idle"] /\ task' = [task EXCEPT ![t] = Idle]
      /\ next' = [next EXCEPT ![t] = None]
  BY DEF End
<1>2. JobOK(Idle) /\ StepOK("idle", Idle, None, enrolled', ops')
  BY IdleFacts
<1>3. PICK none : none = None OBVIOUS
<1>4. PICK idle : idle = Idle OBVIOUS
<1>5. ops' \in Nat /\ ops <= ops' /\ (enrolled => enrolled') OBVIOUS
<1>6. PICK at \in {"idle", "copy", "tree", "row", "judgement", "build", "save"} : at = "idle"
  OBVIOUS
<1>7. QED BY <1>1, <1>2, <1>3, <1>4, <1>5, <1>6, ThreadSteps

\* A thread goes on with the same task.
LEMMA ThreadGoes ==
  ASSUME ThreadsInv, ops \in Nat, UNCHANGED <<enrolled, ops>>, NEW t \in Threads,
         NEW at \in {"copy", "row"}, GoTo(t, at), StepOK(at, task[t], next[t], enrolled, ops)
  PROVE  ThreadsInv'
<1>1. pc' = [pc EXCEPT ![t] = at] /\ task' = [task EXCEPT ![t] = task[t]]
      /\ next' = [next EXCEPT ![t] = next[t]]
  BY DEF GoTo, ThreadsInv
<1>2. JobOK(task[t])
  BY DEF ThreadsInv
<1>3. PICK job : job = task[t] OBVIOUS
<1>4. PICK tree : tree = next[t] OBVIOUS
<1>5. ops' \in Nat /\ ops <= ops' /\ (enrolled => enrolled') OBVIOUS
<1>6. StepOK(at, job, tree, enrolled', ops')
  BY <1>3, <1>4
<1>7. QED BY <1>1, <1>2, <1>3, <1>4, <1>5, <1>6, ThreadSteps

\* No thread goes on.
LEMMA ThreadsStay ==
  ASSUME ThreadsInv, ops \in Nat, ops' \in Nat, ops <= ops', enrolled => enrolled', UNCHANGED <<pc, task, next>>
  PROVE  ThreadsInv'
<1>1. ASSUME NEW u \in Threads
      PROVE  JobOK(task[u]) /\ StepOK(pc[u], task[u], next[u], enrolled', ops')
  <2>1. JobOK(task[u]) /\ StepOK(pc[u], task[u], next[u], enrolled, ops)
    BY DEF ThreadsInv
  <2>2. QED BY <2>1 DEF StepOK
<1>2. QED BY <1>1 DEF ThreadsInv

\* Where a task goes on when the trees are done.
LEMMA AfterTreeThreads ==
  ASSUME ThreadsInv, ops \in Nat, UNCHANGED <<enrolled, ops>>, NEW t \in Threads,
         task[t].kind \in Tasks, AfterTree(t)
  PROVE  ThreadsInv'
<1>1. CASE task[t].kind \in {"createProblem", "editProblem"}
  <2>1. End(t)
    BY <1>1 DEF AfterTree
  <2>2. QED BY <2>1, ThreadEnds
<1>2. CASE task[t].kind = "copy"
  <2>1. GoTo(t, "copy")
    BY <1>2 DEF AfterTree
  <2>2. StepOK("copy", task[t], next[t], enrolled, ops)
    BY <1>2 DEF StepOK
  <2>3. QED BY <2>1, <2>2, ThreadGoes
<1>3. CASE task[t].kind \in {"editContest", "deleteContest", "deleteProblem"}
  <2>1. GoTo(t, "row")
    BY <1>3 DEF AfterTree
  <2>2. StepOK("row", task[t], next[t], enrolled, ops)
    BY <1>3 DEF StepOK
  <2>3. QED BY <2>1, <2>2, ThreadGoes
<1>4. QED BY <1>1, <1>2, <1>3 DEF Tasks

-----------------------------------------------------------------------------
(* The tree that a task computes.                                          *)

\* Where contests are listed when the task t is done.
LEMMA AfterIs ==
  ASSUME NEW t \in Threads, NEW c \in Contests
  PROVE  After(t)[c] = IF c = task[t].contest /\ task[t].kind = "editContest" THEN task[t].row.type
                       ELSE IF c = task[t].contest /\ task[t].kind = "deleteContest" THEN None
                       ELSE Expected[c]
BY DEF After, Expected

\* A problem that is migrated lists its contest under the type of the row.
LEMMA MigrateProblemIn ==
  ASSUME NEW tree \in Trees, NEW row \in Rows, NEW c \in Contests, NEW p \in Problems,
         NEW prob \in Rewards, NEW of, In(tree, of), of[c] = row.type
  PROVE  In(MigrateProblem(tree, row, c, p, prob), of)
<1>1. PICK r : r = MigrateProblem(tree, row, c, p, prob) OBVIOUS
<1>2. SameList(r, tree, row.type, c)
  BY <1>1, MigrateProblemFacts
<1>3. In(r, of)
  BY <1>2 DEF In, SameList
<1>4. QED BY <1>1, <1>3

\* A problem that is removed leaves its contest listed.
LEMMA RemoveProblemIn ==
  ASSUME NEW tree \in Trees, NEW row \in Rows, NEW c \in Contests, NEW p \in Problems, NEW of, In(tree, of)
  PROVE  In(RemoveProblem(tree, row, c, p), of)
<1>1. PICK r : r = RemoveProblem(tree, row, c, p) OBVIOUS
<1>2. \A x \in Types, d \in Contests : Listed(r, x, d) <=> Listed(tree, x, d)
  BY <1>1, RemoveProblemFacts
<1>3. In(r, of)
  BY <1>2 DEF In
<1>4. QED BY <1>1, <1>3

\* Problems are migrated or deleted.
LEMMA ChangedProblem ==
  ASSUME TypeInv, NEW t \in Threads, pc[t] = "tree",
         task[t].kind \in {"copy", "createProblem", "editProblem", "deleteProblem"},
         task[t].kind = "editProblem" => contest[task[t].contest].there
  PROVE  /\ Changed(t) \in Trees
         /\ In(score, Expected) /\ contest[task[t].contest] = task[t].row => In(Changed(t), Expected)
         /\ Good(score) => Good(Changed(t))
<1>1. score \in Trees
  BY DEF TypeInv, TreeInv
<1>2. /\ task[t].contest \in Contests /\ task[t].row \in Rows /\ task[t].problem \in Problems
      /\ task[t].kind # "deleteProblem" => task[t].prob \in Rewards
  <2>1. JobOK(task[t]) /\ StepOK("tree", task[t], next[t], enrolled, ops)
    BY DEF TypeInv, ThreadsInv
  <2>2. QED BY <2>1 DEF JobOK, StepOK, Tasks
<1>3. PICK c \in Contests, p \in Problems : c = task[t].contest /\ p = task[t].problem
  BY <1>2
<1>4. CASE task[t].kind \in {"copy", "createProblem", "editProblem"}
  <2>1. PICK prob \in Rewards : prob = task[t].prob
    BY <1>2, <1>4
  <2>2. PICK row \in Rows : row = RowFor(t)
    BY <1>2, RowFacts DEF RowFor, TypeInv
  <2>3. Changed(t) = MigrateProblem(score, row, c, p, prob)
    BY <1>3, <1>4, <2>1, <2>2, Zenon DEF Changed
  <2>4. MigrateProblem(score, row, c, p, prob) \in Trees
        /\ (Good(score) => Good(MigrateProblem(score, row, c, p, prob)))
    BY <1>1, MigrateProblemFacts
  <2>5. ASSUME In(score, Expected), contest[task[t].contest] = task[t].row
        PROVE  In(MigrateProblem(score, row, c, p, prob), Expected)
    <3>1. Expected[c] = row.type
      BY <1>3, <2>2, <2>5 DEF RowFor, Expected
    <3>2. QED BY <1>1, <2>5, <3>1, MigrateProblemIn
  <2>6. QED BY <2>3, <2>4, <2>5
<1>5. CASE task[t].kind = "deleteProblem"
  <2>1. PICK row \in Rows : row = task[t].row
    BY <1>2
  <2>2. Changed(t) = RemoveProblem(score, row, c, p)
    BY <1>3, <1>5, <2>1 DEF Changed
  <2>3. RemoveProblem(score, row, c, p) \in Trees
        /\ (Good(score) => Good(RemoveProblem(score, row, c, p)))
    BY <1>1, RemoveProblemFacts
  <2>4. In(score, Expected) => In(RemoveProblem(score, row, c, p), Expected)
    BY <1>1, RemoveProblemIn
  <2>5. QED BY <2>2, <2>3, <2>4
<1>6. QED BY <1>4, <1>5

\* A contest is edited or deleted.
LEMMA ChangedContest ==
  ASSUME TypeInv, NEW t \in Threads, pc[t] = "tree", task[t].kind \in {"editContest", "deleteContest"}
  PROVE  /\ Changed(t) \in Trees
         /\ In(score, Expected) /\ (task[t].kind = "deleteContest" => contest[task[t].contest] = task[t].row)
              => In(Changed(t), After(t))
         /\ Good(score) /\ ~(task[t].kind = "editContest" /\ Disturbs(task[t].row, task[t].contest))
              => Good(Changed(t))
<1>1. score \in Trees
  BY DEF TypeInv, TreeInv
<1>2. task[t].contest \in Contests /\ task[t].row \in Rows
  <2>1. JobOK(task[t])
    BY DEF TypeInv, ThreadsInv
  <2>2. QED BY <2>1 DEF JobOK, Tasks
<1>3. PICK c \in Contests, row \in Rows : c = task[t].contest /\ row = task[t].row
  BY <1>2
<1>4. CASE task[t].kind = "editContest"
  <2>1. PICK r : r = MigrateContest(score, row, c) OBVIOUS
  <2>2. Changed(t) = r
    BY <1>3, <1>4, <2>1 DEF Changed
  <2>3. r \in Trees
    BY <1>1, <2>1, MigrateContestFacts
  <2>4. Disturbs(row, c) <=> Unsettles(score, row, c)
    BY Zenon DEF Disturbs, Unsettles
  <2>5. Good(score) /\ ~Unsettles(score, row, c) => Good(r)
    BY <1>1, <2>1, MigrateContestFacts
  <2>6. ASSUME In(score, Expected) PROVE In(r, After(t))
    <3>1. \A x, y \in Types : Listed(score, x, c) /\ Listed(score, y, c) => x = y
      BY <2>6 DEF In
    <3>2. \A x \in Types, d \in Contests :
             Listed(r, x, d) => IF d = c THEN x = row.type ELSE Listed(score, x, d)
      BY <1>1, <2>1, <3>1, MigrateContestFacts
    <3>3. \A d \in Contests : After(t)[d] = IF d = c THEN row.type ELSE Expected[d]
      BY <1>3, <1>4, AfterIs
    <3>4. QED BY <2>6, <3>2, <3>3 DEF In
  <2>7. QED BY <1>3, <1>4, <2>2, <2>3, <2>4, <2>5, <2>6
<1>5. CASE task[t].kind = "deleteContest"
  <2>1. PICK r : r = RemoveContest(score, row, c) OBVIOUS
  <2>2. Changed(t) = r
    BY <1>3, <1>5, <2>1 DEF Changed
  <2>3. r \in Trees /\ (Good(score) => Good(r))
    BY <1>1, <2>1, RemoveContestFacts
  <2>4. ASSUME In(score, Expected), contest[task[t].contest] = task[t].row PROVE In(r, After(t))
    <3>1. \A x \in Types, d \in Contests : Listed(r, x, d) <=> Listed(score, x, d) /\ ~(x = row.type /\ d = c)
      BY <1>1, <2>1, RemoveContestFacts
    <3>2. Expected[c] = row.type
      BY <1>3, <2>4 DEF Expected
    <3>3. \A d \in Contests : After(t)[d] = IF d = c THEN None ELSE Expected[d]
      BY <1>3, <1>5, AfterIs
    <3>4. QED BY <2>4, <3>1, <3>2, <3>3 DEF In
  <2>5. QED BY <1>5, <2>2, <2>3, <2>4
<1>6. QED BY <1>4, <1>5

-----------------------------------------------------------------------------
(* Type correctness: the initial states, and what the actions have in      *)
(* common.                                                                 *)

\* The initial states.
LEMMA TypeInit == Init => TypeInv
<1> SUFFICES ASSUME Init PROVE TypeInv
  OBVIOUS
<1>1. RowsInv
  <2>1. contest \in [Contests -> {NoContest} \cup Rows]
    BY DEF Init
  <2>2. problem \in [Problems -> {NoProblem} \cup Rewards]
    BY DEF Init, Rewards
  <2>3. QED BY <2>1, <2>2 DEF Init, RowsInv
<1>2. SubsInv
  BY FS_EmptySet DEF Init, SubsInv
<1>3. TreeInv
  <2>1. Built(NewTree) \in Trees /\ NewTree \in Trees
    BY <1>1, NewTreeFacts, BuiltFacts
  <2>2. enrolled \in BOOLEAN /\ score = IF enrolled THEN Built(NewTree) ELSE NewTree
    BY DEF Init
  <2>3. QED BY <2>1, <2>2 DEF TreeInv
<1>4. ThreadsInv
  <2>1. pc = [t \in Threads |-> "idle"] /\ task = [t \in Threads |-> Idle] /\ next = [t \in Threads |-> None]
    BY DEF Init
  <2>2. ASSUME NEW t \in Threads
        PROVE  JobOK(task[t]) /\ StepOK(pc[t], task[t], next[t], enrolled, ops)
    <3>1. pc[t] = "idle" /\ task[t] = Idle
      BY <2>1
    <3>2. QED BY <3>1, IdleFacts
  <2>3. QED BY <2>1, <2>2 DEF ThreadsInv
<1>5. ops \in Nat
  BY DEF Init
<1>6. QED BY <1>1, <1>2, <1>3, <1>4, <1>5 DEF TypeInv

\* The rows stay.
LEMMA RowsStay == ASSUME RowsInv, UNCHANGED <<contest, problem>> PROVE RowsInv'
BY DEF RowsInv

\* The submissions stay.
LEMMA SubsStay == ASSUME SubsInv, UNCHANGED <<problem, subs>> PROVE SubsInv'
BY DEF SubsInv

\* The tree stays.
LEMMA TreeStays == ASSUME TreeInv, UNCHANGED <<enrolled, score>> PROVE TreeInv'
BY DEF TreeInv

\* The row of a contest is stored.
LEMMA ContestStored ==
  ASSUME RowsInv, NEW c \in Contests, NEW row \in Rows, contest' = [contest EXCEPT ![c] = row],
         problem' = problem
  PROVE  RowsInv'
<1>1. row.there
  BY DEF Rows
<1>2. QED BY <1>1, HomeAssumption DEF RowsInv

\* The row of a problem is stored.
LEMMA ProblemStored ==
  ASSUME RowsInv, SubsInv, NEW p \in Problems, NEW prob \in Rewards, contest[Home[p]].there,
         problem' = [problem EXCEPT ![p] = prob], UNCHANGED <<contest, subs>>
  PROVE  RowsInv' /\ SubsInv'
<1>1. prob.there
  BY DEF Rewards
<1>2. RowsInv'
  BY <1>1, HomeAssumption DEF RowsInv
<1>3. SubsInv'
  <2>1. \A q \in Problems : problem[q].there => problem'[q].there
    BY <1>1 DEF RowsInv
  <2>2. QED BY <2>1 DEF SubsInv, IsSub
<1>4. QED BY <1>2, <1>3

\* A task on a contest.
LEMMA ContestTask ==
  ASSUME NEW kind \in {"editContest", "deleteContest"}, NEW c \in Contests, NEW row \in Rows, NEW tree,
         NEW on, NEW n
  PROVE  LET j == [Job(kind) EXCEPT !.contest = c, !.row = row]
         IN JobOK(j) /\ StepOK("tree", j, tree, on, n)
<1>1. PICK j : j = [Job(kind) EXCEPT !.contest = c, !.row = row] OBVIOUS
<1>2. j = [kind |-> kind, contest |-> c, row |-> row, todo |-> {},
           problem |-> None, prob |-> None, sub |-> None, since |-> None]
  BY <1>1 DEF Job
<1>3. JobOK(j)
  BY <1>2 DEF JobOK, IsJob, Tasks
<1>4. StepOK("tree", j, tree, on, n)
  BY <1>2 DEF StepOK, Tasks
<1>5. QED BY <1>1, <1>3, <1>4

\* A task on a problem.
LEMMA ProblemTask ==
  ASSUME NEW kind \in {"createProblem", "editProblem", "deleteProblem"}, NEW p \in Problems, NEW row \in Rows,
         NEW prob, kind # "deleteProblem" => prob \in Rewards, NEW tree, NEW on, NEW n
  PROVE  LET j == [Job(kind) EXCEPT !.contest = Home[p], !.row = row, !.problem = p, !.prob = prob]
         IN JobOK(j) /\ StepOK("tree", j, tree, on, n)
<1>1. PICK j : j = [Job(kind) EXCEPT !.contest = Home[p], !.row = row, !.problem = p, !.prob = prob]
  OBVIOUS
<1>2. j = [kind |-> kind, contest |-> Home[p], row |-> row, todo |-> {},
           problem |-> p, prob |-> prob, sub |-> None, since |-> None]
  BY <1>1 DEF Job
<1>3. JobOK(j)
  BY <1>2, HomeAssumption DEF JobOK, IsJob, Tasks
<1>4. StepOK("tree", j, tree, on, n)
  BY <1>2 DEF StepOK, Tasks
<1>5. QED BY <1>1, <1>3, <1>4

\* The copy of a contest.
LEMMA CopyTask ==
  ASSUME NEW c \in Contests, NEW row \in Rows, NEW todo, \A p \in todo : p \in Problems /\ Home[p] = c,
         NEW tree, NEW on, NEW n
  PROVE  LET j == [Job("copy") EXCEPT !.contest = c, !.row = row, !.todo = todo]
         IN JobOK(j) /\ StepOK("copy", j, tree, on, n)
<1>1. PICK j : j = [Job("copy") EXCEPT !.contest = c, !.row = row, !.todo = todo] OBVIOUS
<1>2. j = [kind |-> "copy", contest |-> c, row |-> row, todo |-> todo,
           problem |-> None, prob |-> None, sub |-> None, since |-> None]
  BY <1>1 DEF Job
<1>3. JobOK(j)
  BY <1>2 DEF JobOK, IsJob, Tasks
<1>4. StepOK("copy", j, tree, on, n)
  BY <1>2 DEF StepOK, Tasks
<1>5. QED BY <1>1, <1>3, <1>4

\* A judgement.
LEMMA JudgeTask ==
  ASSUME NEW sub, IsSub(sub), NEW tree, NEW on, NEW n
  PROVE  LET j == [Job("judge") EXCEPT !.sub = sub]
         IN JobOK(j) /\ StepOK("judgement", j, tree, on, n)
<1>1. PICK j : j = [Job("judge") EXCEPT !.sub = sub] OBVIOUS
<1>2. j = [kind |-> "judge", contest |-> None, row |-> None, todo |-> {},
           problem |-> None, prob |-> None, sub |-> sub, since |-> None]
  BY <1>1 DEF Job
<1>3. JobOK(j)
  BY <1>2 DEF JobOK, IsJob, Tasks
<1>4. StepOK("judgement", j, tree, on, n)
  BY <1>2 DEF StepOK, Tasks
<1>5. QED BY <1>1, <1>3, <1>4

\* A tree is to be made from the rows.
LEMMA MakerTask ==
  ASSUME NEW kind \in Makers, NEW tree, NEW on, on, NEW n
  PROVE  JobOK(Job(kind)) /\ StepOK("build", Job(kind), tree, on, n)
<1>1. PICK j : j = Job(kind) OBVIOUS
<1>2. j = [kind |-> kind, contest |-> None, row |-> None, todo |-> {},
           problem |-> None, prob |-> None, sub |-> None, since |-> None]
  BY <1>1 DEF Job
<1>3. JobOK(j)
  BY <1>2 DEF JobOK, IsJob, Tasks, Makers
<1>4. StepOK("build", j, tree, on, n)
  BY <1>2 DEF StepOK, Tasks, Makers
<1>5. QED BY <1>1, <1>3, <1>4

-----------------------------------------------------------------------------
(* Type correctness: one lemma for each action.                            *)

\* An operation of one step.
LEMMA TypeQuick ==
  ASSUME TypeInv, NEW why, Quick(why), enrolled' = enrolled
  PROVE  TreeInv' /\ ThreadsInv' /\ ops' \in Nat
<1>1. ops' = ops + 1 /\ ops \in Nat /\ ops' \in Nat /\ ops <= ops'
  BY DEF Quick, TypeInv
<1>2. TreeInv'
  BY TreeStays DEF Quick, TypeInv
<1>3. ThreadsInv'
  BY <1>1, ThreadsStay DEF Quick, TypeInv
<1>4. QED BY <1>1, <1>2, <1>3

\* A contest is created.
LEMMA TypeCreateContest ==
  ASSUME TypeInv, NEW c \in Contests, NEW row \in Rows, CreateContest(c, row)
  PROVE  TypeInv'
<1>1. RowsInv' /\ SubsInv'
  BY ContestStored, SubsStay DEF CreateContest, TypeInv
<1>2. TreeInv' /\ ThreadsInv' /\ ops' \in Nat
  BY TypeQuick DEF CreateContest
<1>3. QED BY <1>1, <1>2 DEF TypeInv

\* A task begins that changes no row.
LEMMA TypeBegin ==
  ASSUME TypeInv, NEW t \in Threads, NEW at \in {"copy", "tree", "judgement", "build"}, NEW job, NEW why,
         Begin(t, at, job, why), JobOK(job), StepOK(at, job, next[t], enrolled, ops + 1),
         enrolled' = enrolled
  PROVE  ThreadsInv' /\ ops' \in Nat
<1>1. StepOK(at, job, next[t], enrolled', ops + 1) OBVIOUS
<1>2. QED BY <1>1, ThreadBegins DEF TypeInv

\* A contest is copied.
LEMMA TypeCopyContest ==
  ASSUME TypeInv, NEW t \in Threads, NEW c \in Contests, NEW row \in Rows,
         CopyContest(t, c, row, {p \in Problems : Home[p] = c})
  PROVE  TypeInv'
<1>1. RowsInv' /\ SubsInv' /\ TreeInv'
  BY ContestStored, SubsStay, TreeStays DEF CopyContest, TypeInv
<1>2. PICK todo : todo = {p \in Problems : Home[p] = c} OBVIOUS
<1>3. PICK job : job = [Job("copy") EXCEPT !.contest = c, !.row = row, !.todo = todo] OBVIOUS
<1>4. Begin(t, "copy", job, {}) /\ enrolled' = enrolled
  BY <1>2, <1>3 DEF CopyContest
<1>5. JobOK(job) /\ StepOK("copy", job, next[t], enrolled, ops + 1)
  BY <1>2, <1>3, CopyTask
<1>6. ThreadsInv' /\ ops' \in Nat
  BY <1>4, <1>5, TypeBegin
<1>7. QED BY <1>1, <1>6 DEF TypeInv

\* A problem is copied.
LEMMA TypeCopyProblem ==
  ASSUME TypeInv, NEW t \in Threads, NEW p \in Problems, NEW point \in Points, CopyProblem(t, p, point)
  PROVE  TypeInv'
<1>1. PICK copied : copied = [there |-> TRUE, visible |-> TRUE, point |-> point] OBVIOUS
<1>2. copied \in Rewards
  BY <1>1 DEF Rewards
<1>3. PICK old : old = task[t] OBVIOUS
<1>4. PICK job : job = [old EXCEPT !.todo = old.todo \ {p}, !.problem = p, !.prob = copied] OBVIOUS
<1>5. /\ pc[t] = "copy" /\ p \in old.todo /\ contest[old.contest].there
      /\ problem' = [problem EXCEPT ![p] = copied]
      /\ pc' = [pc EXCEPT ![t] = "tree"]
      /\ task' = [task EXCEPT ![t] = job]
      /\ UNCHANGED <<contest, subs, enrolled, score, next, ops>>
  <2>1. /\ pc[t] = "copy" /\ p \in old.todo /\ contest[old.contest].there
        /\ problem' = [problem EXCEPT ![p] = copied]
        /\ pc' = [pc EXCEPT ![t] = "tree"]
        /\ UNCHANGED <<contest, subs, enrolled, score, next, ops>>
    BY <1>1, <1>3 DEF CopyProblem
  <2>2. task' = [task EXCEPT ![t].todo = @ \ {p}, ![t].problem = p, ![t].prob = copied]
    BY <1>1, Zenon DEF CopyProblem
  <2>3. task' = [task EXCEPT ![t] = job]
    BY <1>3, <1>4, <2>2 DEF TypeInv, ThreadsInv
  <2>4. QED BY <1>3, <1>4, <2>1, <2>3
<1>6. JobOK(old) /\ old.kind = "copy"
  BY <1>3, <1>5 DEF TypeInv, ThreadsInv, StepOK
<1>7. old.contest \in Contests /\ old.row \in Rows /\ Home[p] = old.contest
      /\ \A q \in old.todo : q \in Problems /\ Home[q] = old.contest
  BY <1>5, <1>6 DEF JobOK, Tasks
<1>8. job = [kind |-> "copy", contest |-> old.contest, row |-> old.row, todo |-> old.todo \ {p},
             problem |-> p, prob |-> copied, sub |-> old.sub, since |-> old.since]
  <2>1. IsJob(old)
    BY <1>6 DEF JobOK
  <2>2. QED BY <1>4, <1>6, <2>1 DEF IsJob
<1>9. JobOK(job)
  BY <1>7, <1>8 DEF JobOK, IsJob, Tasks
<1>10. StepOK("tree", job, next[t], enrolled', ops')
  BY <1>2, <1>7, <1>8 DEF StepOK, Tasks
<1>11. RowsInv' /\ SubsInv'
  BY <1>2, <1>5, <1>7, ProblemStored DEF TypeInv
<1>12. TreeInv'
  BY <1>5, TreeStays DEF TypeInv
<1>13. ThreadsInv'
  <2>1. next' = [next EXCEPT ![t] = next[t]]
    BY <1>5 DEF TypeInv, ThreadsInv
  <2>2. ThreadsInv /\ ops \in Nat /\ ops' \in Nat /\ ops <= ops' /\ (enrolled => enrolled')
    BY <1>5 DEF TypeInv
  <2>3. PICK tree : tree = next[t] OBVIOUS
  <2>4. QED BY <1>5, <1>9, <1>10, <2>1, <2>2, <2>3, ThreadSteps
<1>14. QED BY <1>5, <1>11, <1>12, <1>13 DEF TypeInv

\* A copy ends.
LEMMA TypeCopyEnds == ASSUME TypeInv, NEW t \in Threads, CopyEnds(t) PROVE TypeInv'
<1>1. RowsInv' /\ SubsInv' /\ TreeInv'
  BY RowsStay, SubsStay, TreeStays DEF CopyEnds, TypeInv
<1>2. UNCHANGED <<enrolled, ops>> /\ End(t)
  BY DEF CopyEnds
<1>3. ThreadsInv'
  BY <1>2, ThreadEnds DEF TypeInv
<1>4. QED BY <1>1, <1>2, <1>3 DEF TypeInv

\* An edit of a contest begins.
LEMMA TypeEditContest ==
  ASSUME TypeInv, NEW t \in Threads, NEW c \in Contests, NEW row \in Rows, EditContest(t, c, row)
  PROVE  TypeInv'
<1>1. RowsInv' /\ SubsInv' /\ TreeInv'
  BY RowsStay, SubsStay, TreeStays DEF EditContest, TypeInv
<1>2. PICK job : job = [Job("editContest") EXCEPT !.contest = c, !.row = row] OBVIOUS
<1>3. Begin(t, "tree", job, {}) /\ enrolled' = enrolled
  BY <1>2 DEF EditContest
<1>4. JobOK(job) /\ StepOK("tree", job, next[t], enrolled, ops + 1)
  BY <1>2, ContestTask
<1>5. ThreadsInv' /\ ops' \in Nat
  BY <1>3, <1>4, TypeBegin
<1>6. QED BY <1>1, <1>5 DEF TypeInv

\* The deletion of a contest begins.
LEMMA TypeDeleteContest ==
  ASSUME TypeInv, NEW t \in Threads, NEW c \in Contests, DeleteContest(t, c)
  PROVE  TypeInv'
<1>1. RowsInv' /\ SubsInv' /\ TreeInv'
  BY RowsStay, SubsStay, TreeStays DEF DeleteContest, TypeInv
<1>2. PICK row \in Rows : row = contest[c]
  BY RowFacts DEF DeleteContest, TypeInv
<1>3. PICK job : job = [Job("deleteContest") EXCEPT !.contest = c, !.row = row] OBVIOUS
<1>4. Begin(t, "tree", job, {}) /\ enrolled' = enrolled
  BY <1>2, <1>3 DEF DeleteContest
<1>5. JobOK(job) /\ StepOK("tree", job, next[t], enrolled, ops + 1)
  BY <1>3, ContestTask
<1>6. ThreadsInv' /\ ops' \in Nat
  BY <1>4, <1>5, TypeBegin
<1>7. QED BY <1>1, <1>6 DEF TypeInv

\* The row of a contest is saved or deleted.
LEMMA TypeContestRow == ASSUME TypeInv, NEW t \in Threads, ContestRow(t) PROVE TypeInv'
<1>1. JobOK(task[t])
  BY DEF TypeInv, ThreadsInv
<1>2. PICK c \in Contests, row \in Rows : c = task[t].contest /\ row = task[t].row
  BY <1>1 DEF ContestRow, JobOK, Tasks
<1>3. PICK lost \in SUBSET Problems : lost = {p \in Problems : Home[p] = c} OBVIOUS
<1>4. UNCHANGED <<enrolled, score, ops>> /\ End(t)
  BY DEF ContestRow
<1>5. TreeInv' /\ ThreadsInv' /\ ops' \in Nat
  BY <1>4, TreeStays, ThreadEnds DEF TypeInv
<1>6. CASE contest' = [contest EXCEPT ![c] = row] /\ UNCHANGED <<problem, subs>>
  <2>1. RowsInv' /\ SubsInv'
    BY <1>6, ContestStored, SubsStay DEF TypeInv
  <2>2. QED BY <1>5, <2>1 DEF TypeInv
<1>7. CASE /\ contest' = [contest EXCEPT ![c] = NoContest]
           /\ problem' = [p \in Problems |-> IF p \in lost THEN NoProblem ELSE problem[p]]
           /\ subs' = {s \in subs : s.problem \notin lost}
  <2>1. RowsInv'
    <3>1. contest' \in [Contests -> {NoContest} \cup Rows]
      BY <1>7 DEF TypeInv, RowsInv
    <3>2. problem' \in [Problems -> {NoProblem} \cup Rewards]
      BY <1>7 DEF TypeInv, RowsInv
    <3>3. ASSUME NEW p \in Problems, problem'[p].there PROVE contest'[Home[p]].there
      <4>1. p \notin lost
        BY <1>7, <3>3 DEF NoProblem
      <4>2. Home[p] # c /\ Home[p] \in Contests /\ problem[p].there
        BY <1>3, <1>7, <3>3, <4>1, HomeAssumption
      <4>3. QED BY <1>7, <4>2 DEF TypeInv, RowsInv
    <3>4. QED BY <3>1, <3>2, <3>3 DEF RowsInv
  <2>2. SubsInv'
    <3>1. IsFiniteSet(subs')
      BY <1>7, FS_Subset DEF TypeInv, SubsInv
    <3>2. ASSUME NEW s \in subs' PROVE IsSub(s) /\ problem'[s.problem].there
      <4>1. s \in subs /\ s.problem \notin lost
        BY <1>7
      <4>2. IsSub(s) /\ problem[s.problem].there /\ s.problem \in Problems
        BY <4>1 DEF TypeInv, SubsInv, IsSub
      <4>3. QED BY <1>7, <4>1, <4>2
    <3>3. QED BY <3>1, <3>2 DEF SubsInv
  <2>3. QED BY <1>5, <2>1, <2>2 DEF TypeInv
<1>8. QED BY <1>2, <1>3, <1>6, <1>7, Zenon DEF ContestRow

\* The row of a problem is saved.
LEMMA TypeSaveProblem ==
  ASSUME TypeInv, NEW t \in Threads, NEW kind \in {"createProblem", "editProblem"}, NEW p \in Problems,
         NEW prob \in Rewards, NEW causes, SaveProblem(t, kind, p, prob, causes)
  PROVE  TypeInv'
<1>1. /\ problem' = [problem EXCEPT ![p] = prob] /\ contest[Home[p]].there
      /\ UNCHANGED <<contest, subs, enrolled, score>>
  BY DEF SaveProblem
<1>2. RowsInv' /\ SubsInv' /\ TreeInv'
  BY <1>1, ProblemStored, TreeStays DEF TypeInv
<1>3. PICK row \in Rows : row = contest[Home[p]]
  BY <1>1, RowFacts, HomeAssumption DEF TypeInv
<1>4. PICK job : job = [Job(kind) EXCEPT !.contest = Home[p], !.row = row, !.problem = p, !.prob = prob]
  OBVIOUS
<1>5. Begin(t, "tree", job, causes) /\ enrolled' = enrolled
  BY <1>3, <1>4 DEF SaveProblem
<1>6. JobOK(job) /\ StepOK("tree", job, next[t], enrolled, ops + 1)
  BY <1>4, ProblemTask
<1>7. ThreadsInv' /\ ops' \in Nat
  BY <1>5, <1>6, TypeBegin
<1>8. QED BY <1>2, <1>7 DEF TypeInv

\* A problem is created.
LEMMA TypeCreateProblem ==
  ASSUME TypeInv, NEW t \in Threads, NEW p \in Problems, NEW prob \in Rewards, CreateProblem(t, p, prob)
  PROVE  TypeInv'
<1>1. SaveProblem(t, "createProblem", p, prob, {})
  BY DEF CreateProblem
<1>2. QED BY <1>1, TypeSaveProblem

\* A problem is edited.
LEMMA TypeEditProblem ==
  ASSUME TypeInv, NEW t \in Threads, NEW p \in Problems, NEW prob \in Rewards, EditProblem(t, p, prob)
  PROVE  TypeInv'
<1>1. PICK causes : SaveProblem(t, "editProblem", p, prob, causes)
  BY DEF EditProblem
<1>2. QED BY <1>1, TypeSaveProblem

\* Submissions are removed.
LEMMA SubsRemoved ==
  ASSUME SubsInv, NEW lost, subs' = subs \ lost, problem' = problem
  PROVE  SubsInv'
BY FS_Subset DEF SubsInv

\* The submissions of a problem are deleted.
LEMMA TypeDeleteSubmissions ==
  ASSUME TypeInv, NEW p \in Problems, DeleteSubmissions(p) PROVE TypeInv'
<1>1. RowsInv' /\ SubsInv'
  BY RowsStay, SubsRemoved DEF DeleteSubmissions, TypeInv
<1>2. TreeInv' /\ ThreadsInv' /\ ops' \in Nat
  BY TypeQuick DEF DeleteSubmissions
<1>3. QED BY <1>1, <1>2 DEF TypeInv

\* The deletion of a problem begins.
LEMMA TypeDeleteProblem ==
  ASSUME TypeInv, NEW t \in Threads, NEW p \in Problems, DeleteProblem(t, p) PROVE TypeInv'
<1>1. RowsInv' /\ SubsInv' /\ TreeInv'
  BY RowsStay, SubsStay, TreeStays DEF DeleteProblem, TypeInv
<1>2. PICK row \in Rows : row = contest[Home[p]]
  BY RowFacts, HomeAssumption DEF DeleteProblem, TypeInv, Existing
<1>3. PICK job : job = [Job("deleteProblem") EXCEPT !.contest = Home[p], !.row = row, !.problem = p]
  OBVIOUS
<1>4. Begin(t, "tree", job, {}) /\ enrolled' = enrolled
  BY <1>2, <1>3 DEF DeleteProblem
<1>5. PICK none : none = None OBVIOUS
<1>6. job = [Job("deleteProblem") EXCEPT !.contest = Home[p], !.row = row, !.problem = p, !.prob = none]
  <2>1. job = [kind |-> "deleteProblem", contest |-> Home[p], row |-> row, todo |-> {},
               problem |-> p, prob |-> None, sub |-> None, since |-> None]
    BY <1>3 DEF Job
  <2>2. QED BY <1>3, <1>5, <2>1 DEF Job
<1>7. JobOK(job) /\ StepOK("tree", job, next[t], enrolled, ops + 1)
  BY <1>6, ProblemTask
<1>8. ThreadsInv' /\ ops' \in Nat
  BY <1>4, <1>7, TypeBegin
<1>9. QED BY <1>1, <1>8 DEF TypeInv

\* The row of a problem is deleted.
LEMMA TypeProblemRow == ASSUME TypeInv, NEW t \in Threads, ProblemRow(t) PROVE TypeInv'
<1>1. UNCHANGED <<enrolled, score, ops>> /\ End(t)
  BY DEF ProblemRow
<1>2. TreeInv' /\ ThreadsInv' /\ ops' \in Nat
  BY <1>1, TreeStays, ThreadEnds DEF TypeInv
<1>3. PICK p : p = task[t].problem OBVIOUS
<1>4. problem' = [problem EXCEPT ![p] = NoProblem] /\ contest' = contest
      /\ subs' = {s \in subs : s.problem # p}
  BY <1>3 DEF ProblemRow, SubsOf
<1>5. RowsInv'
  BY <1>4 DEF TypeInv, RowsInv, NoProblem
<1>6. SubsInv'
  <2>1. IsFiniteSet(subs')
    BY <1>4, FS_Subset DEF TypeInv, SubsInv
  <2>2. ASSUME NEW s \in subs' PROVE IsSub(s) /\ problem'[s.problem].there
    <3>1. s \in subs /\ s.problem # p
      BY <1>4
    <3>2. IsSub(s) /\ problem[s.problem].there /\ s.problem \in Problems
      BY <3>1 DEF TypeInv, SubsInv, IsSub
    <3>3. QED BY <1>4, <3>1, <3>2 DEF TypeInv, RowsInv
  <2>3. QED BY <2>1, <2>2 DEF SubsInv
<1>7. QED BY <1>2, <1>5, <1>6 DEF TypeInv

\* The trees are changed, or nobody is enrolled.
LEMMA ReadTreeCases ==
  ASSUME TypeInv, NEW t \in Threads, ReadTree(t)
  PROVE  /\ UNCHANGED <<contest, problem, subs, enrolled, score, ops>>
         /\ task[t].kind \in Tasks
         /\ \/ AfterTree(t) /\ drift' = drift
            \/ /\ enrolled /\ (task[t].kind = "editProblem" => contest[task[t].contest].there)
               /\ next' = [next EXCEPT ![t] = Changed(t)] /\ pc' = [pc EXCEPT ![t] = "save"]
               /\ task' = task
               /\ drift' = drift \cup IF task[t].kind = "editContest" /\ Disturbs(task[t].row, task[t].contest)
                                      THEN {"edited"} ELSE {}
<1>1. pc[t] = "tree"
  BY DEF ReadTree
<1>2. task[t].kind \in Tasks
  BY <1>1 DEF TypeInv, ThreadsInv, StepOK
<1>3. QED BY <1>2, Zenon DEF ReadTree

\* What a task computes is a tree.
LEMMA ChangedIn ==
  ASSUME TypeInv, NEW t \in Threads, pc[t] = "tree",
         task[t].kind = "editProblem" => contest[task[t].contest].there
  PROVE  Changed(t) \in Trees
<1>1. task[t].kind \in Tasks
  BY DEF TypeInv, ThreadsInv, StepOK
<1>2. CASE task[t].kind \in {"editContest", "deleteContest"}
  BY <1>2, ChangedContest
<1>3. CASE task[t].kind \in {"copy", "createProblem", "editProblem", "deleteProblem"}
  BY <1>3, ChangedProblem
<1>4. QED BY <1>1, <1>2, <1>3 DEF Tasks

\* A task changes the tree that it has read.
LEMMA TypeReadTree == ASSUME TypeInv, NEW t \in Threads, ReadTree(t) PROVE TypeInv'
<1>1. UNCHANGED <<contest, problem, subs, enrolled, score, ops>> /\ task[t].kind \in Tasks /\ pc[t] = "tree"
  BY ReadTreeCases DEF ReadTree
<1>2. RowsInv' /\ SubsInv' /\ TreeInv'
  BY <1>1, RowsStay, SubsStay, TreeStays DEF TypeInv
<1>3. CASE AfterTree(t)
  <2>1. ThreadsInv'
    BY <1>1, <1>3, AfterTreeThreads DEF TypeInv
  <2>2. QED BY <1>1, <1>2, <2>1 DEF TypeInv
<1>4. CASE /\ enrolled /\ (task[t].kind = "editProblem" => contest[task[t].contest].there)
           /\ next' = [next EXCEPT ![t] = Changed(t)] /\ pc' = [pc EXCEPT ![t] = "save"] /\ task' = task
  <2>1. PICK tree \in Trees : tree = Changed(t)
    BY <1>1, <1>4, ChangedIn
  <2>2. PICK job : job = task[t] OBVIOUS
  <2>3. JobOK(job) /\ job.kind \in Tasks
    BY <1>1, <2>2 DEF TypeInv, ThreadsInv
  <2>4. StepOK("save", job, tree, enrolled', ops')
    BY <1>1, <1>4, <2>3 DEF StepOK, Tasks, Makers
  <2>5. task' = [task EXCEPT ![t] = job]
    BY <1>4, <2>2 DEF TypeInv, ThreadsInv
  <2>6. ops \in Nat /\ ops' \in Nat /\ ops <= ops' /\ (enrolled => enrolled') /\ ThreadsInv
    BY <1>1 DEF TypeInv
  <2>7. PICK at \in {"idle", "copy", "tree", "row", "judgement", "build", "save"} : at = "save"
    OBVIOUS
  <2>8. ThreadsInv'
    BY <1>4, <2>1, <2>3, <2>4, <2>5, <2>6, <2>7, ThreadSteps
  <2>9. QED BY <1>1, <1>2, <2>8 DEF TypeInv
<1>5. QED BY <1>3, <1>4, ReadTreeCases

\* A tree is saved.
LEMMA TreeSaved ==
  ASSUME TypeInv, NEW t \in Threads, pc[t] = "save"
  PROVE  enrolled /\ next[t] \in Trees /\ task[t].kind \in Tasks \cup Makers \cup {"judge"}
BY DEF TypeInv, ThreadsInv, StepOK

\* A task saves its tree.
LEMMA TypeSaveTree == ASSUME TypeInv, NEW t \in Threads, SaveTree(t) PROVE TypeInv'
<1>1. RowsInv' /\ SubsInv'
  BY RowsStay, SubsStay DEF SaveTree, TypeInv
<1>2. UNCHANGED <<enrolled, ops>> /\ AfterTree(t) /\ score' = next[t]
  BY DEF SaveTree
<1>3. TreeInv'
  <2>1. enrolled /\ next[t] \in Trees
    BY TreeSaved DEF SaveTree
  <2>2. enrolled' \in BOOLEAN
    BY <1>2 DEF TypeInv, TreeInv
  <2>3. QED BY <1>2, <2>1, <2>2 DEF TreeInv
<1>4. task[t].kind \in Tasks
  BY TreeSaved DEF SaveTree, Makers
<1>5. ThreadsInv'
  BY <1>2, <1>4, AfterTreeThreads DEF TypeInv
<1>6. QED BY <1>1, <1>2, <1>3, <1>5 DEF TypeInv

\* A submission is made.
LEMMA TypeSubmit ==
  ASSUME TypeInv, NEW p \in Problems, NEW key \in 1..MaxSubs, Submit(p, key) PROVE TypeInv'
<1>1. PICK id : subs' = subs \cup {[id |-> id, key |-> key, problem |-> p, result |-> "pending", score |-> 0]}
  BY DEF Submit
<1>2. UNCHANGED <<contest, problem, enrolled>> /\ Quick({}) /\ problem[p].there
  BY DEF Submit
<1>3. RowsInv' /\ TreeInv' /\ ThreadsInv' /\ ops' \in Nat
  BY <1>2, RowsStay, TypeQuick DEF TypeInv
<1>4. SubsInv'
  <2>1. PICK s : s = [id |-> id, key |-> key, problem |-> p, result |-> "pending", score |-> 0]
    OBVIOUS
  <2>2. IsSub(s) /\ s.problem = p
    BY <2>1 DEF IsSub
  <2>3. subs' = subs \cup {s} /\ IsFiniteSet(subs)
    BY <1>1, <2>1 DEF TypeInv, SubsInv
  <2>4. IsFiniteSet(subs')
    BY <2>3, FS_AddElement
  <2>5. QED BY <1>2, <2>2, <2>3, <2>4 DEF TypeInv, SubsInv
<1>5. QED BY <1>3, <1>4 DEF TypeInv

\* A judgement is stored.
LEMMA TypeJudge ==
  ASSUME TypeInv, NEW t \in Threads, NEW s \in subs, NEW result \in {"passed", "failed"},
         NEW late \in BOOLEAN, Judge(t, s, result, late)
  PROVE  TypeInv'
<1>1. PICK judged : judged = [s EXCEPT !.result = result, !.score = IF result = "passed" THEN 1 ELSE 0]
  OBVIOUS
<1>2. PICK why : why = IF enrolled THEN {} ELSE {"unapproved"} OBVIOUS
<1>3. PICK job : job = [Job("judge") EXCEPT !.sub = judged] OBVIOUS
<1>4. /\ subs' = (subs \ {s}) \cup {judged} /\ UNCHANGED <<contest, problem, enrolled>>
      /\ Quick({"late"}) \/ (Begin(t, "judgement", job, why) /\ score' = score)
  BY <1>1, <1>2, <1>3, Zenon DEF Judge
<1>5. IsSub(s) /\ problem[s.problem].there /\ IsFiniteSet(subs)
  BY DEF TypeInv, SubsInv
<1>6. IsSub(judged) /\ judged.problem = s.problem
  BY <1>1, <1>5 DEF IsSub
<1>7. RowsInv'
  BY <1>4, RowsStay DEF TypeInv
<1>8. SubsInv'
  <2>1. IsFiniteSet(subs')
    BY <1>4, <1>5, FS_Subset, FS_AddElement
  <2>2. QED BY <1>4, <1>5, <1>6, <2>1 DEF TypeInv, SubsInv
<1>9. CASE Quick({"late"})
  BY <1>4, <1>7, <1>8, <1>9, TypeQuick DEF TypeInv
<1>10. CASE Begin(t, "judgement", job, why) /\ score' = score
  <2>1. JobOK(job) /\ StepOK("judgement", job, next[t], enrolled, ops + 1)
    BY <1>3, <1>6, JudgeTask
  <2>2. ThreadsInv' /\ ops' \in Nat
    BY <1>4, <1>10, <2>1, TypeBegin
  <2>3. TreeInv'
    BY <1>4, <1>10, TreeStays DEF TypeInv
  <2>4. QED BY <1>7, <1>8, <2>2, <2>3 DEF TypeInv
<1>11. QED BY <1>4, <1>9, <1>10

\* The tree is changed by a judgement, or the judgement ends.
LEMMA ReadForJudgementCases ==
  ASSUME TypeInv, NEW t \in Threads, ReadForJudgement(t)
  PROVE  /\ UNCHANGED <<contest, problem, subs, enrolled, score, ops, drift>>
         /\ task[t].kind = "judge" /\ IsSub(task[t].sub) /\ pc[t] = "judgement"
         /\ \/ End(t)
            \/ \E ty \in Types, c \in Contests :
                 /\ enrolled /\ next' = [next EXCEPT ![t] = Associate(score, ty, c, task[t].sub)]
                 /\ pc' = [pc EXCEPT ![t] = "save"] /\ task' = task
<1>1. pc[t] = "judgement" /\ UNCHANGED <<contest, problem, subs, enrolled, score, ops, drift>>
  BY DEF ReadForJudgement
<1>2. task[t].kind = "judge"
  BY <1>1 DEF TypeInv, ThreadsInv, StepOK
<1>3. IsSub(task[t].sub)
  BY <1>2 DEF TypeInv, ThreadsInv, JobOK
<1>4. PICK c \in Contests : c = Home[task[t].sub.problem]
  BY <1>3, HomeAssumption DEF IsSub
<1>5. ASSUME ~End(t)
      PROVE  /\ enrolled /\ contest[c].there
             /\ next' = [next EXCEPT ![t] = Associate(score, contest[c].type, c, task[t].sub)]
             /\ pc' = [pc EXCEPT ![t] = "save"] /\ task' = task
  BY <1>4, <1>5, Zenon DEF ReadForJudgement
<1>6. contest[c].there => contest[c].type \in Types
  <2>1. contest[c].there => contest[c] \in Rows
    BY RowFacts DEF TypeInv
  <2>2. QED BY <2>1 DEF Rows
<1>7. QED BY <1>1, <1>2, <1>3, <1>5, <1>6

\* A judgement changes the tree that it has read.
LEMMA TypeReadForJudgement == ASSUME TypeInv, NEW t \in Threads, ReadForJudgement(t) PROVE TypeInv'
<1>1. UNCHANGED <<contest, problem, subs, enrolled, score, ops>> /\ task[t].kind = "judge" /\ IsSub(task[t].sub)
  BY ReadForJudgementCases
<1>2. RowsInv' /\ SubsInv' /\ TreeInv'
  BY <1>1, RowsStay, SubsStay, TreeStays DEF TypeInv
<1>3. CASE End(t)
  <2>1. ThreadsInv'
    BY <1>1, <1>3, ThreadEnds DEF TypeInv
  <2>2. QED BY <1>1, <1>2, <2>1 DEF TypeInv
<1>4. ASSUME NEW ty \in Types, NEW c \in Contests, enrolled,
             next' = [next EXCEPT ![t] = Associate(score, ty, c, task[t].sub)],
             pc' = [pc EXCEPT ![t] = "save"], task' = task
      PROVE  TypeInv'
  <2>1. PICK sub : sub = task[t].sub OBVIOUS
  <2>2. PICK tree \in Trees : tree = Associate(score, ty, c, sub)
    BY <1>1, <2>1, AssociateFacts DEF TypeInv, TreeInv
  <2>3. PICK job : job = task[t] OBVIOUS
  <2>4. JobOK(job) /\ job.kind = "judge"
    BY <1>1, <2>3 DEF TypeInv, ThreadsInv
  <2>5. StepOK("save", job, tree, enrolled', ops')
    BY <1>1, <1>4, <2>4 DEF StepOK, Tasks, Makers
  <2>6. task' = [task EXCEPT ![t] = job]
    BY <1>4, <2>3 DEF TypeInv, ThreadsInv
  <2>7. ops \in Nat /\ ops' \in Nat /\ ops <= ops' /\ (enrolled => enrolled') /\ ThreadsInv
    BY <1>1 DEF TypeInv
  <2>8. PICK at \in {"idle", "copy", "tree", "row", "judgement", "build", "save"} : at = "save"
    OBVIOUS
  <2>9. next' = [next EXCEPT ![t] = tree]
    BY <1>4, <2>1, <2>2
  <2>10. ThreadsInv'
    BY <1>4, <2>4, <2>5, <2>6, <2>7, <2>8, <2>9, ThreadSteps
  <2>11. QED BY <1>1, <1>2, <2>10 DEF TypeInv
<1>5. QED BY <1>3, <1>4, ReadForJudgementCases

\* A judgement or a rebuilt tree is saved.
LEMMA TypeSaved ==
  ASSUME TypeInv, NEW t \in Threads, pc[t] = "save", score' = next[t], End(t),
         UNCHANGED <<contest, problem, subs, enrolled, ops>>
  PROVE  TypeInv'
<1>1. UNCHANGED <<contest, problem>> /\ subs' = subs /\ UNCHANGED <<enrolled, ops>> /\ ops' = ops /\ enrolled' = enrolled
  OBVIOUS
<1>2. RowsInv' /\ SubsInv'
  BY <1>1, RowsStay, SubsStay DEF TypeInv
<1>3. TreeInv'
  <2>1. enrolled /\ next[t] \in Trees
    BY TreeSaved
  <2>2. enrolled' \in BOOLEAN
    BY <1>1 DEF TypeInv, TreeInv
  <2>3. QED BY <1>1, <2>1, <2>2 DEF TreeInv
<1>4. ThreadsInv'
  BY <1>1, ThreadEnds DEF TypeInv
<1>5. QED BY <1>1, <1>2, <1>3, <1>4 DEF TypeInv

\* A judgement saves its tree.
LEMMA TypeSaveJudgement == ASSUME TypeInv, NEW t \in Threads, SaveJudgement(t) PROVE TypeInv'
BY TypeSaved DEF SaveJudgement

\* A tree made from the rows is saved.
LEMMA TypeSaveRows == ASSUME TypeInv, NEW t \in Threads, SaveRows(t) PROVE TypeInv'
BY TypeSaved DEF SaveRows

\* A student is approved.
LEMMA TypeApprove == ASSUME TypeInv, NEW t \in Threads, Approve(t) PROVE TypeInv'
<1>1. UNCHANGED <<contest, problem>> /\ subs' = subs /\ score' = score /\ enrolled'
  BY DEF Approve
<1>2. RowsInv' /\ SubsInv'
  BY <1>1, RowsStay, SubsStay DEF TypeInv
<1>3. TreeInv'
  <2>1. enrolled' \in BOOLEAN
    BY DEF Approve
  <2>2. QED BY <1>1, <2>1 DEF TypeInv, TreeInv
<1>4. PICK job : job = Job("approve") OBVIOUS
<1>5. JobOK(job) /\ StepOK("build", job, next[t], enrolled', ops + 1)
  BY <1>1, <1>4, MakerTask DEF Makers
<1>6. Begin(t, "build", job, {})
  BY <1>4 DEF Approve
<1>7. ThreadsInv' /\ ops' \in Nat
  BY <1>1, <1>5, <1>6, ThreadBegins DEF TypeInv
<1>8. QED BY <1>2, <1>3, <1>7 DEF TypeInv

\* A student is enrolled by a list.
LEMMA TypeEnrolByList == ASSUME TypeInv, EnrolByList PROVE TypeInv'
<1>1. UNCHANGED <<contest, problem>> /\ subs' = subs /\ enrolled' = TRUE
  BY DEF EnrolByList
<1>2. UNCHANGED <<score, pc, task, next>> /\ ops' = ops + 1
  BY DEF EnrolByList, Quick
<1>3. RowsInv' /\ SubsInv'
  BY <1>1, RowsStay, SubsStay DEF TypeInv
<1>4. TreeInv'
  BY <1>1, <1>2 DEF TypeInv, TreeInv
<1>5. ops \in Nat /\ ops' \in Nat /\ ops <= ops'
  BY <1>2 DEF TypeInv
<1>6. ThreadsInv'
  BY <1>1, <1>2, <1>5, ThreadsStay DEF TypeInv
<1>7. QED BY <1>3, <1>4, <1>5, <1>6 DEF TypeInv

\* A tree is to be made anew.
LEMMA TypeRecompute ==
  ASSUME TypeInv, NEW t \in Threads, NEW kind \in {"rebuild", "batch"}, Recompute(t, kind) PROVE TypeInv'
<1>1. RowsInv' /\ SubsInv' /\ TreeInv'
  BY RowsStay, SubsStay, TreeStays DEF Recompute, TypeInv
<1>2. PICK job : job = Job(kind) OBVIOUS
<1>3. Begin(t, "build", job, {}) /\ enrolled' = enrolled /\ enrolled
  BY <1>2 DEF Recompute
<1>4. JobOK(job) /\ StepOK("build", job, next[t], enrolled, ops + 1)
  BY <1>2, <1>3, MakerTask DEF Makers
<1>5. ThreadsInv' /\ ops' \in Nat
  BY <1>3, <1>4, TypeBegin
<1>6. QED BY <1>1, <1>5 DEF TypeInv

\* A tree is made from the rows.
LEMMA ChosenFacts ==
  ASSUME RowsInv, SubsInv, NEW chosen \in {Latest, Greatest}
  PROVE  Rebuilt(chosen) \in Trees /\ In(Rebuilt(chosen), Expected) /\ Good(Rebuilt(chosen))
<1>1. chosen \subseteq subs
  BY DEF Latest, Greatest
<1>2. IsFiniteSet(chosen) /\ \A s \in chosen : IsSub(s) /\ problem[s.problem].there
  BY <1>1, FS_Subset DEF SubsInv
<1>3. QED BY <1>2, RebuiltFacts

\* What a tree made from the rows is like.
LEMMA ReadRowsCases ==
  ASSUME TypeInv, NEW t \in Threads, ReadRows(t)
  PROVE  \E tree \in Trees :
           /\ next' = [next EXCEPT ![t] = tree] /\ pc' = [pc EXCEPT ![t] = "save"]
           /\ task' = [task EXCEPT ![t].since = IF \A u \in Threads \ {t} : ~Busy(u) THEN ops ELSE None]
           /\ UNCHANGED <<contest, problem, subs, enrolled, score, ops, drift>>
           /\ task[t].kind \in Makers /\ pc[t] = "build" /\ enrolled
           /\ Good(score) \/ task[t].kind # "approve" => Good(tree)
           /\ In(score, Expected) \/ task[t].kind # "approve" => In(tree, Expected)
<1>1. PICK tree : tree = CASE task[t].kind = "approve" -> Built(score)
                           [] task[t].kind = "rebuild" -> Rebuilt(Latest)
                           [] OTHER -> Rebuilt(Greatest)
  OBVIOUS
<1>2. /\ next' = [next EXCEPT ![t] = tree] /\ pc' = [pc EXCEPT ![t] = "save"]
      /\ task' = [task EXCEPT ![t].since = IF \A u \in Threads \ {t} : ~Busy(u) THEN ops ELSE None]
      /\ UNCHANGED <<contest, problem, subs, enrolled, score, ops, drift>>
      /\ pc[t] = "build"
  BY <1>1, Zenon DEF ReadRows
<1>3. task[t].kind \in Makers /\ enrolled
  BY <1>2 DEF TypeInv, ThreadsInv, StepOK
<1>4. CASE task[t].kind = "approve"
  <2>1. /\ tree \in Trees /\ (In(score, Expected) => In(tree, Expected))
        /\ (Good(score) => Good(tree))
    BY <1>1, <1>4, BuiltFacts DEF TypeInv, TreeInv
  <2>2. QED BY <1>2, <1>3, <1>4, <2>1
<1>5. CASE task[t].kind # "approve"
  <2>1. PICK chosen \in {Latest, Greatest} : tree = Rebuilt(chosen)
    BY <1>1, <1>5
  <2>2. tree \in Trees /\ In(tree, Expected) /\ Good(tree)
    BY <2>1, ChosenFacts DEF TypeInv
  <2>3. QED BY <1>2, <1>3, <2>2
<1>6. QED BY <1>4, <1>5

\* A tree is made from the rows.
LEMMA TypeReadRows == ASSUME TypeInv, NEW t \in Threads, ReadRows(t) PROVE TypeInv'
<1>1. PICK tree \in Trees :
        /\ next' = [next EXCEPT ![t] = tree] /\ pc' = [pc EXCEPT ![t] = "save"]
        /\ task' = [task EXCEPT ![t].since = IF \A u \in Threads \ {t} : ~Busy(u) THEN ops ELSE None]
        /\ UNCHANGED <<contest, problem, subs, enrolled, score, ops>>
        /\ task[t].kind \in Makers /\ enrolled
  BY ReadRowsCases
<1>2. PICK old : old = task[t] OBVIOUS
<1>3. PICK since : since = IF \A u \in Threads \ {t} : ~Busy(u) THEN ops ELSE None OBVIOUS
<1>4. PICK job : job = [old EXCEPT !.since = since] OBVIOUS
<1>5. task' = [task EXCEPT ![t] = job]
  BY <1>1, <1>2, <1>3, <1>4 DEF TypeInv, ThreadsInv
<1>6. JobOK(old) /\ old.kind \in Makers
  BY <1>1, <1>2 DEF TypeInv, ThreadsInv
<1>7. job = [kind |-> old.kind, contest |-> old.contest, row |-> old.row, todo |-> old.todo,
             problem |-> old.problem, prob |-> old.prob, sub |-> old.sub, since |-> since]
  <2>1. IsJob(old)
    BY <1>6 DEF JobOK
  <2>2. QED BY <1>4, <2>1 DEF IsJob
<1>8. JobOK(job)
  BY <1>6, <1>7 DEF JobOK, IsJob, Tasks, Makers
<1>9. ops' \in Nat /\ ops \in Nat /\ ops <= ops' /\ ops' = ops /\ enrolled' /\ ThreadsInv
  BY <1>1 DEF TypeInv
<1>10. StepOK("save", job, tree, enrolled', ops')
  BY <1>3, <1>6, <1>7, <1>9 DEF StepOK, Makers, Tasks
<1>11. PICK at \in {"idle", "copy", "tree", "row", "judgement", "build", "save"} : at = "save"
  OBVIOUS
<1>12. ThreadsInv'
  BY <1>1, <1>5, <1>8, <1>9, <1>10, <1>11, ThreadSteps
<1>13. RowsInv' /\ SubsInv' /\ TreeInv'
  BY <1>1, RowsStay, SubsStay, TreeStays DEF TypeInv
<1>14. QED BY <1>9, <1>12, <1>13 DEF TypeInv

\* Every step keeps the types.
LEMMA TypeNext == ASSUME TypeInv, [Next]_vars PROVE TypeInv'
<1>1. ASSUME NEW t \in Threads, Requests(t) PROVE TypeInv'
  BY <1>1, TypeEditContest, TypeCopyContest, TypeDeleteContest, TypeCreateProblem, TypeEditProblem,
     TypeDeleteProblem, TypeJudge, TypeApprove, TypeRecompute DEF Requests
<1>2. ASSUME NEW t \in Threads, Steps(t) PROVE TypeInv'
  BY <1>2, TypeCopyProblem, TypeCopyEnds, TypeContestRow, TypeProblemRow, TypeReadTree,
     TypeSaveTree,
     TypeReadForJudgement, TypeSaveJudgement, TypeReadRows, TypeSaveRows DEF Steps
<1>3. CASE UNCHANGED vars
  BY <1>3 DEF vars, TypeInv, RowsInv, SubsInv, TreeInv, ThreadsInv
<1>4. QED
  BY <1>1, <1>2, <1>3, TypeCreateContest, TypeSubmit, TypeDeleteSubmissions, TypeEnrolByList
     DEF Next

\* Every step keeps the rows, the trees and the tasks well formed: a thread
\* that saves a tree holds one, for a student who is still enrolled.
THEOREM TypesStay == Spec => []TypeInv
<1>1. Init => TypeInv
  BY TypeInit
<1>2. TypeInv /\ [Next]_vars => TypeInv'
  BY TypeNext
<1>3. QED BY <1>1, <1>2, PTL DEF Spec

-----------------------------------------------------------------------------
(* Where contests are listed: what the steps have in common.               *)

\* A contest of which there is no row is listed nowhere.
LEMMA NewContestIn ==
  ASSUME NEW c \in Contests, NEW row, NEW of, NEW after, NEW tree, In(tree, of), of[c] = None,
         \A d \in Contests : d # c => after[d] = of[d]
  PROVE  In(tree, after)
BY NoneAssumption DEF In

\* A row is stored where there was none, or no row is stored.
Grows == contest' = contest \/ \E c \in Contests, row \in Rows :
                                  ~contest[c].there /\ contest' = [contest EXCEPT ![c] = row]

\* Where contests are to be listed when a row is added.
LEMMA GrowsFacts ==
  ASSUME RowsInv, Grows
  PROVE  /\ \A d \in Contests : contest[d].there => contest'[d] = contest[d]
         /\ \A tree : In(tree, Expected) => In(tree, Expected')
<1>1. CASE contest' = contest
  BY <1>1 DEF Expected
<1>2. ASSUME NEW c \in Contests, NEW row \in Rows, ~contest[c].there, contest' = [contest EXCEPT ![c] = row]
      PROVE  /\ \A d \in Contests : contest[d].there => contest'[d] = contest[d]
             /\ \A tree : In(tree, Expected) => In(tree, Expected')
  <2>1. \A d \in Contests : d # c => contest'[d] = contest[d]
    BY <1>2 DEF RowsInv
  <2>2. \A d \in Contests : d # c => (Expected')[d] = Expected[d]
    BY <2>1 DEF Expected
  <2>3. contest[c] = NoContest
    BY <1>2 DEF RowsInv, Rows
  <2>4. Expected[c] = None
    BY <2>3 DEF Expected, NoContest
  <2>5. ASSUME NEW tree, In(tree, Expected) PROVE In(tree, Expected')
    BY <2>2, <2>4, <2>5, NewContestIn
  <2>6. QED BY <1>2, <2>1, <2>5
<1>3. QED BY <1>1, <1>2 DEF Grows

\* Nothing but an edit and a deletion changes where contests are to be listed.
LEMMA AfterSame ==
  ASSUME NEW t \in Threads, task[t].kind \notin {"editContest", "deleteContest"}
  PROVE  After(t) = Expected
BY DEF After, Expected

\* The same for what a task will leave.
LEMMA AfterGrows ==
  ASSUME RowsInv, Grows, NEW t \in Threads, task'[t] = task[t],
         task[t].kind \in {"editContest", "deleteContest"} => contest[task[t].contest].there,
         NEW tree, In(tree, After(t))
  PROVE  In(tree, After(t)')
<1>1. CASE task[t].kind \notin {"editContest", "deleteContest"}
  <2>1. After(t) = Expected /\ After(t)' = Expected'
    BY <1>1 DEF After, Expected
  <2>2. QED BY <2>1, GrowsFacts
<1>2. CASE task[t].kind \in {"editContest", "deleteContest"}
  <2>1. CASE contest' = contest
    <3>1. After(t)' = After(t)
      BY <2>1 DEF After
    <3>2. QED BY <3>1
  <2>2. ASSUME NEW c \in Contests, NEW row \in Rows, ~contest[c].there,
               contest' = [contest EXCEPT ![c] = row]
        PROVE  In(tree, After(t)')
    <3>1. c # task[t].contest /\ contest[c] = NoContest
      BY <1>2, <2>2 DEF RowsInv, Rows
    <3>2. After(t)[c] = None
      BY <3>1 DEF After, NoContest
    <3>3. \A d \in Contests : d # c => contest'[d] = contest[d]
      BY <2>2 DEF RowsInv
    <3>4. \A d \in Contests : d # c => (After(t)')[d] = After(t)[d]
      BY <3>3 DEF After
    <3>5. QED BY <3>2, <3>4, NewContestIn
  <2>3. QED BY <2>1, <2>2 DEF Grows
<1>3. QED BY <1>1, <1>2

\* What "since" says.
LEMMA SinceFacts ==
  ASSUME TypeInv, NEW t \in Threads, pc[t] = "save", task[t].kind \in Makers
  PROVE  task[t].since # ops + 1
<1>1. task[t].since = None \/ (task[t].since \in Nat /\ task[t].since <= ops)
  BY DEF TypeInv, ThreadsInv, StepOK
<1>2. ops \in Nat /\ None \notin Nat
  BY NoneAssumption DEF TypeInv
<1>3. QED BY <1>1, <1>2

\* An operation that begins spoils the trees made anew.
LEMMA BegunNotAnew ==
  ASSUME TypeInv, ops' = ops + 1, NEW u \in Threads, pc'[u] = "save" => pc[u] = "save" /\ task'[u] = task[u]
  PROVE  ~Anew(u)'
<1>1. SUFFICES ASSUME pc'[u] = "save", task[u].kind \in {"rebuild", "batch"}, task[u].since = ops + 1
               PROVE  FALSE
  BY DEF Anew
<1>2. pc[u] = "save" /\ task[u].kind \in Makers
  BY <1>1 DEF Makers
<1>3. QED BY <1>1, <1>2, SinceFacts

\* So does a step of another thread.
LEMMA StepNotAnew ==
  ASSUME ThreadsInv, ListInv, ops' = ops, NEW t \in Threads, Busy(t), NEW at, NEW job,
         pc' = [pc EXCEPT ![t] = at], task' = [task EXCEPT ![t] = job],
         at = "save" => job.kind \notin {"rebuild", "batch"},
         NEW u \in Threads
  PROVE  ~Anew(u)'
<1>1. CASE u = t
  <2>1. pc'[u] = at /\ task'[u] = job
    BY <1>1 DEF ThreadsInv
  <2>2. QED BY <2>1 DEF Anew
<1>2. CASE u # t
  <2>1. pc'[u] = pc[u] /\ task'[u] = task[u]
    BY <1>2 DEF ThreadsInv
  <2>2. ~Anew(u)
    BY <1>2 DEF ListInv
  <2>3. QED BY <2>1, <2>2 DEF Anew
<1>3. QED BY <1>1, <1>2

\* What Apart says of one thread.
TaskThere(t) ==
  Busy(t) /\ task[t].kind \in Tasks =>
    IF task[t].kind = "editContest" THEN contest[task[t].contest].there
    ELSE contest[task[t].contest] = task[t].row

\* The contest of a task is there.
LEMMA TaskRows ==
  ASSUME TypeInv, NEW t \in Threads, Busy(t), TaskThere(t), task[t].kind \in Tasks
  PROVE  task[t].contest \in Contests /\ contest[task[t].contest].there
<1>1. task[t].contest \in Contests /\ task[t].row \in Rows
  BY DEF TypeInv, ThreadsInv, JobOK
<1>2. QED BY <1>1 DEF TaskThere, Rows

\* It stays when another row is added.
LEMMA TaskGrows ==
  ASSUME TypeInv, Grows, NEW t \in Threads, TaskThere(t), pc'[t] = pc[t], task'[t] = task[t]
  PROVE  TaskThere(t)'
<1>1. SUFFICES ASSUME Busy(t), task[t].kind \in Tasks
               PROVE  IF task[t].kind = "editContest" THEN contest'[task[t].contest].there
                      ELSE contest'[task[t].contest] = task[t].row
  BY DEF TaskThere, Busy
<1>2. task[t].contest \in Contests /\ contest[task[t].contest].there
  BY <1>1, TaskRows
<1>3. contest'[task[t].contest] = contest[task[t].contest]
  BY <1>2, GrowsFacts DEF TypeInv
<1>4. QED BY <1>1, <1>3 DEF TaskThere

\* Apart, by its parts.
LEMMA ApartIs ==
  Apart <=>
    /\ \A t, u \in Threads : Busy(t) /\ Busy(u) /\ t # u => Judging(t) /\ Judging(u)
    /\ \A t \in Threads : TaskThere(t)
    /\ \A t \in Threads : pc[t] = "row" => In(score, After(t))
    /\ (\A t \in Threads : pc[t] # "row") => In(score, Expected)
    /\ \A t \in Threads : pc[t] = "save" => In(next[t], After(t))
BY Zenon DEF Apart, TaskThere

\* An operation of one step.
LEMMA QuickApart ==
  ASSUME TypeInv, Apart, Grows, UNCHANGED <<score, pc, task, next>>
  PROVE  Apart'
<1>1. ASSUME NEW t \in Threads PROVE TaskThere(t)'
  BY <1>1, ApartIs, TaskGrows
<1>2. ASSUME NEW t \in Threads, Busy(t), NEW tree, In(tree, After(t)) PROVE In(tree, After(t)')
  <2>1. task[t].kind \in {"editContest", "deleteContest"} => contest[task[t].contest].there
    BY <1>2, ApartIs, TaskRows DEF Tasks
  <2>2. RowsInv /\ task'[t] = task[t]
    BY DEF TypeInv
  <2>3. QED BY <1>2, <2>1, <2>2, AfterGrows
<1>3. ASSUME NEW t \in Threads, pc'[t] = "row" PROVE In(score', After(t)')
  BY <1>2, <1>3, ApartIs DEF Busy
<1>4. ASSUME NEW t \in Threads, pc'[t] = "save" PROVE In(next'[t], After(t)')
  BY <1>2, <1>4, ApartIs DEF Busy
<1>5. (\A t \in Threads : pc'[t] # "row") => In(score', Expected')
  BY ApartIs, GrowsFacts DEF TypeInv
<1>6. \A t, u \in Threads : Busy(t)' /\ Busy(u)' /\ t # u => Judging(t)' /\ Judging(u)'
  BY ApartIs DEF Busy, Judging
<1>7. QED BY <1>1, <1>3, <1>4, <1>5, <1>6 DEF Apart, TaskThere

\* Operations of one step keep the lists.
LEMMA QuickList ==
  ASSUME TypeInv, ListInv, Grows, NEW why, Quick(why)
  PROVE  ListInv'
<1>1. UNCHANGED <<score, pc, task, next>> /\ drift' = drift \cup why /\ ops' = ops + 1
  BY DEF Quick
<1>2. "overlap" \notin drift' => Apart'
  BY <1>1, QuickApart DEF ListInv
<1>3. \A u \in Threads : ~Anew(u)'
  BY <1>1, BegunNotAnew
<1>4. QED BY <1>2, <1>3 DEF ListInv

\* A task begins.  Nothing else is going on, or there are judgements only.
LEMMA BeginApart ==
  ASSUME TypeInv, Apart, NEW t \in Threads, NEW at \in {"copy", "tree", "judgement", "build"}, NEW job,
         NEW why, Begin(t, at, job, why), "overlap" \notin drift', Grows, score' = score, TaskThere(t)'
  PROVE  Apart'
<1>1. ~Overlaps(job.kind)
  BY DEF Begin
<1>2. \A u \in Threads : Busy(u) => job.kind = "judge" /\ Judging(u)
  BY <1>1 DEF Overlaps
<1>3. pc'[t] = at /\ task'[t] = job /\ next' = next
  BY DEF Begin, TypeInv, ThreadsInv
<1>4. ASSUME NEW u \in Threads, u # t PROVE pc'[u] = pc[u] /\ task'[u] = task[u]
  BY <1>4 DEF Begin, TypeInv, ThreadsInv
<1>5. \A u, v \in Threads : Busy(u)' /\ Busy(v)' /\ u # v => Judging(u)' /\ Judging(v)'
  BY <1>2, <1>3, <1>4 DEF Busy, Judging
<1>6. ASSUME NEW u \in Threads PROVE TaskThere(u)'
  BY <1>4, <1>6, ApartIs, TaskGrows
<1>7. ASSUME NEW u \in Threads PROVE pc[u] # "row" /\ pc'[u] # "row"
  <2>1. pc[u] # "row"
    BY <1>2 DEF TypeInv, ThreadsInv, StepOK, Busy, Judging
  <2>2. QED BY <1>3, <1>4, <2>1
<1>8. In(score', Expected')
  BY <1>7, ApartIs, GrowsFacts DEF TypeInv
<1>9. ASSUME NEW u \in Threads, pc'[u] = "save" PROVE In(next'[u], After(u)')
  <2>1. u # t
    BY <1>3, <1>9
  <2>2. pc[u] = "save" /\ task'[u] = task[u]
    BY <1>4, <1>9, <2>1
  <2>3. task[u].kind = "judge"
    BY <1>2, <2>2 DEF Busy, Judging
  <2>4. After(u) = Expected /\ After(u)' = Expected'
    BY <2>2, <2>3 DEF After, Expected
  <2>5. In(next[u], Expected)
    BY <2>2, <2>4, ApartIs
  <2>6. In(next[u], Expected')
    BY <2>5, GrowsFacts DEF TypeInv
  <2>7. QED BY <1>3, <2>4, <2>6
<1>10. QED BY <1>5, <1>6, <1>7, <1>8, <1>9, Zenon DEF Apart, TaskThere

\* So does a task that begins.
LEMMA BeginList ==
  ASSUME TypeInv, ListInv, NEW t \in Threads, NEW at \in {"copy", "tree", "judgement", "build"}, NEW job,
         NEW why, Begin(t, at, job, why), Grows, score' = score, TaskThere(t)'
  PROVE  ListInv'
<1>1. ASSUME "overlap" \notin drift' PROVE Apart'
  <2>1. "overlap" \notin drift
    BY <1>1 DEF Begin
  <2>2. QED BY <1>1, <2>1, BeginApart DEF ListInv
<1>2. ASSUME NEW u \in Threads PROVE ~Anew(u)'
  <2>1. ops' = ops + 1
    BY DEF Begin
  <2>2. pc'[u] = "save" => pc[u] = "save" /\ task'[u] = task[u]
    BY DEF Begin, TypeInv, ThreadsInv
  <2>3. QED BY <2>1, <2>2, BegunNotAnew
<1>3. QED BY <1>1, <1>2 DEF ListInv

\* A task goes on that is the only one.
LEMMA AloneApart ==
  ASSUME TypeInv, Apart, NEW t \in Threads, Busy(t), ~Judging(t), NEW at, NEW job, NEW tree,
         pc' = [pc EXCEPT ![t] = at], task' = [task EXCEPT ![t] = job], next' = [next EXCEPT ![t] = tree],
         TaskThere(t)',
         IF at = "row" THEN In(score', After(t)') ELSE In(score', Expected'),
         at = "save" => In(tree, After(t)')
  PROVE  Apart'
<1>1. \A u \in Threads : u # t => ~Busy(u)
  BY DEF Apart
<1>2. pc'[t] = at /\ task'[t] = job /\ next'[t] = tree
  BY DEF TypeInv, ThreadsInv
<1>3. \A u \in Threads : u # t => pc'[u] = "idle"
  BY <1>1 DEF TypeInv, ThreadsInv, Busy
<1>4. \A u, v \in Threads : Busy(u)' /\ Busy(v)' /\ u # v => Judging(u)' /\ Judging(v)'
  BY <1>3 DEF Busy
<1>5. \A u \in Threads : TaskThere(u)'
  <2>1. \A u \in Threads : u # t => TaskThere(u)'
    BY <1>3 DEF TaskThere, Busy
  <2>2. QED BY <2>1
<1>6. \A u \in Threads : pc'[u] = "row" => In(score', After(u)')
  BY <1>2, <1>3
<1>7. (\A u \in Threads : pc'[u] # "row") => In(score', Expected')
  BY <1>2
<1>8. \A u \in Threads : pc'[u] = "save" => In(next'[u], After(u)')
  BY <1>2, <1>3
<1>9. QED BY <1>4, <1>5, <1>6, <1>7, <1>8, Zenon DEF Apart, TaskThere

\* A judgement goes on beside others.
LEMMA JudgeApart ==
  ASSUME TypeInv, Apart, NEW t \in Threads, Busy(t), Judging(t), NEW at \in {"idle", "save"}, NEW job, NEW tree,
         pc' = [pc EXCEPT ![t] = at], task' = [task EXCEPT ![t] = job], next' = [next EXCEPT ![t] = tree],
         contest' = contest, at = "save" => job.kind = "judge" /\ In(tree, Expected),
         In(score', Expected)
  PROVE  Apart'
<1>1. \A u \in Threads : Busy(u) => Judging(u)
  BY DEF Apart
<1>2. pc'[t] = at /\ task'[t] = job /\ next'[t] = tree
  BY DEF TypeInv, ThreadsInv
<1>3. \A u \in Threads : u # t => pc'[u] = pc[u] /\ task'[u] = task[u] /\ next'[u] = next[u]
  BY DEF TypeInv, ThreadsInv
<1>4. \A u \in Threads : Busy(u)' => task'[u].kind = "judge" /\ Judging(u)'
  BY <1>1, <1>2, <1>3 DEF Busy, Judging
<1>5. ASSUME NEW u \in Threads PROVE TaskThere(u)'
  BY <1>4 DEF TaskThere, Tasks
<1>6. ASSUME NEW u \in Threads PROVE pc'[u] # "row"
  <2>1. pc[u] # "row"
    BY <1>1 DEF TypeInv, ThreadsInv, StepOK, Busy, Judging
  <2>2. QED BY <1>2, <1>3, <2>1
<1>7. Expected' = Expected
  BY DEF Expected
<1>8. ASSUME NEW u \in Threads, pc'[u] = "save" PROVE In(next'[u], After(u)')
  <2>1. task'[u].kind = "judge"
    BY <1>4, <1>8 DEF Busy
  <2>2. After(u)' = Expected
    BY <2>1 DEF After, Expected
  <2>3. CASE u = t
    BY <1>2, <1>8, <2>2, <2>3
  <2>4. CASE u # t
    <3>1. pc[u] = "save" /\ task[u].kind = "judge" /\ next'[u] = next[u]
      BY <1>3, <1>8, <2>1, <2>4
    <3>2. After(u) = Expected
      BY <3>1, AfterSame
    <3>3. QED BY <2>2, <3>1, <3>2, ApartIs
  <2>5. QED BY <2>3, <2>4
<1>9. QED BY <1>4, <1>5, <1>6, <1>7, <1>8, Zenon DEF Apart, TaskThere

-----------------------------------------------------------------------------
(* Where contests are listed: one lemma for each action.                   *)

\* The contest of a new task is there.
LEMMA TaskBegun ==
  ASSUME ThreadsInv, NEW t \in Threads, NEW at, NEW job, NEW why, Begin(t, at, job, why),
         job.kind \in Tasks => IF job.kind = "editContest" THEN contest'[job.contest].there
                               ELSE contest'[job.contest] = job.row
  PROVE  TaskThere(t)'
<1>1. task'[t] = job
  BY DEF Begin, ThreadsInv
<1>2. QED BY <1>1 DEF TaskThere

\* A contest is created.
LEMMA ListCreateContest ==
  ASSUME TypeInv, ListInv, NEW c \in Contests, NEW row \in Rows, CreateContest(c, row) PROVE ListInv'
<1>1. Grows /\ Quick({})
  BY DEF CreateContest, Grows
<1>2. QED BY <1>1, QuickList

\* A contest is copied.
LEMMA ListCopyContest ==
  ASSUME TypeInv, ListInv, NEW t \in Threads, NEW c \in Contests, NEW row \in Rows, NEW todo,
         CopyContest(t, c, row, todo)
  PROVE  ListInv'
<1>1. PICK job : job = [Job("copy") EXCEPT !.contest = c, !.row = row, !.todo = todo] OBVIOUS
<1>2. Begin(t, "copy", job, {}) /\ contest' = [contest EXCEPT ![c] = row] /\ Grows /\ score' = score
  BY <1>1 DEF CopyContest, Grows
<1>3. job.kind = "copy" /\ job.contest = c /\ job.row = row
  BY <1>1 DEF Job
<1>4. contest'[job.contest] = job.row
  BY <1>2, <1>3 DEF TypeInv, RowsInv
<1>5. TaskThere(t)'
  BY <1>2, <1>3, <1>4, TaskBegun DEF TypeInv
<1>6. QED BY <1>2, <1>5, BeginList

\* An edit of a contest begins.
LEMMA ListEditContest ==
  ASSUME TypeInv, ListInv, NEW t \in Threads, NEW c \in Contests, NEW row \in Rows, EditContest(t, c, row)
  PROVE  ListInv'
<1>1. PICK job : job = [Job("editContest") EXCEPT !.contest = c, !.row = row] OBVIOUS
<1>2. Begin(t, "tree", job, {}) /\ contest' = contest /\ Grows /\ score' = score /\ contest[c].there
  BY <1>1 DEF EditContest, Grows
<1>3. job.kind = "editContest" /\ job.contest = c
  BY <1>1 DEF Job
<1>4. TaskThere(t)'
  BY <1>2, <1>3, TaskBegun DEF TypeInv
<1>5. QED BY <1>2, <1>4, BeginList

\* The deletion of a contest begins.
LEMMA ListDeleteContest ==
  ASSUME TypeInv, ListInv, NEW t \in Threads, NEW c \in Contests, DeleteContest(t, c) PROVE ListInv'
<1>1. PICK job : job = [Job("deleteContest") EXCEPT !.contest = c, !.row = contest[c]] OBVIOUS
<1>2. Begin(t, "tree", job, {}) /\ contest' = contest /\ Grows /\ score' = score
  BY <1>1 DEF DeleteContest, Grows
<1>3. job.kind = "deleteContest" /\ job.contest = c /\ job.row = contest[c]
  BY <1>1 DEF Job
<1>4. TaskThere(t)'
  BY <1>2, <1>3, TaskBegun DEF TypeInv
<1>5. QED BY <1>2, <1>4, BeginList

\* The row of a problem is saved.
LEMMA ListSaveProblem ==
  ASSUME TypeInv, ListInv, NEW t \in Threads, NEW kind \in {"createProblem", "editProblem"}, NEW p \in Problems,
         NEW prob, NEW causes, SaveProblem(t, kind, p, prob, causes)
  PROVE  ListInv'
<1>1. PICK job : job = [Job(kind) EXCEPT !.contest = Home[p], !.row = contest[Home[p]],
                                         !.problem = p, !.prob = prob]
  OBVIOUS
<1>2. Begin(t, "tree", job, causes) /\ contest' = contest /\ Grows /\ score' = score
  BY <1>1 DEF SaveProblem, Grows
<1>3. job.kind = kind /\ job.contest = Home[p] /\ job.row = contest[Home[p]]
  BY <1>1 DEF Job
<1>4. TaskThere(t)'
  BY <1>2, <1>3, TaskBegun DEF TypeInv
<1>5. QED BY <1>2, <1>4, BeginList

\* A problem is created.
LEMMA ListCreateProblem ==
  ASSUME TypeInv, ListInv, NEW t \in Threads, NEW p \in Problems, NEW prob, CreateProblem(t, p, prob)
  PROVE  ListInv'
<1>1. SaveProblem(t, "createProblem", p, prob, {})
  BY DEF CreateProblem
<1>2. QED BY <1>1, ListSaveProblem

\* A problem is edited.
LEMMA ListEditProblem ==
  ASSUME TypeInv, ListInv, NEW t \in Threads, NEW p \in Problems, NEW prob, EditProblem(t, p, prob)
  PROVE  ListInv'
<1>1. PICK causes : SaveProblem(t, "editProblem", p, prob, causes)
  BY DEF EditProblem
<1>2. QED BY <1>1, ListSaveProblem

\* The submissions of a problem are deleted.
LEMMA ListDeleteSubmissions ==
  ASSUME TypeInv, ListInv, NEW p, DeleteSubmissions(p) PROVE ListInv'
<1>1. Grows /\ Quick({"unsubmitted"})
  BY DEF DeleteSubmissions, Grows
<1>2. QED BY <1>1, QuickList

\* A submission is made.
LEMMA ListSubmit == ASSUME TypeInv, ListInv, NEW p, NEW key, Submit(p, key) PROVE ListInv'
<1>1. Grows /\ Quick({})
  BY DEF Submit, Grows
<1>2. QED BY <1>1, QuickList

\* A student is enrolled by a list.
LEMMA ListEnrolByList == ASSUME TypeInv, ListInv, EnrolByList PROVE ListInv'
<1>1. Grows /\ Quick({"unbuilt"})
  BY DEF EnrolByList, Grows
<1>2. QED BY <1>1, QuickList

\* The deletion of a problem begins.
LEMMA ListDeleteProblem ==
  ASSUME TypeInv, ListInv, NEW t \in Threads, NEW p \in Problems, DeleteProblem(t, p) PROVE ListInv'
<1>1. PICK job : job = [Job("deleteProblem") EXCEPT !.contest = Home[p], !.row = contest[Home[p]], !.problem = p]
  OBVIOUS
<1>2. Begin(t, "tree", job, {}) /\ contest' = contest /\ Grows /\ score' = score
  BY <1>1 DEF DeleteProblem, Grows
<1>3. job.kind = "deleteProblem" /\ job.contest = Home[p] /\ job.row = contest[Home[p]]
  BY <1>1 DEF Job
<1>4. TaskThere(t)'
  BY <1>2, <1>3, TaskBegun DEF TypeInv
<1>5. QED BY <1>2, <1>4, BeginList

\* A judgement is stored.
LEMMA ListJudge ==
  ASSUME TypeInv, ListInv, NEW t \in Threads, NEW s, NEW result, NEW late, Judge(t, s, result, late)
  PROVE  ListInv'
<1>1. PICK judged : judged = [s EXCEPT !.result = result, !.score = IF result = "passed" THEN 1 ELSE 0]
  OBVIOUS
<1>2. PICK why : why = IF enrolled THEN {} ELSE {"unapproved"} OBVIOUS
<1>3. PICK job : job = [Job("judge") EXCEPT !.sub = judged] OBVIOUS
<1>4. /\ contest' = contest
      /\ Quick({"late"}) \/ (Begin(t, "judgement", job, why) /\ score' = score)
  BY <1>1, <1>2, <1>3, Zenon DEF Judge
<1>5. Grows
  BY <1>4 DEF Grows
<1>6. CASE Quick({"late"})
  BY <1>5, <1>6, QuickList
<1>7. CASE Begin(t, "judgement", job, why) /\ score' = score
  <2>1. job.kind = "judge"
    BY <1>3 DEF Job
  <2>2. TaskThere(t)'
    BY <1>7, <2>1, TaskBegun DEF TypeInv, Tasks
  <2>3. QED BY <1>5, <1>7, <2>2, BeginList
<1>8. QED BY <1>4, <1>6, <1>7

\* A tree is to be made from the rows.
LEMMA ListBeginMaker ==
  ASSUME TypeInv, ListInv, NEW t \in Threads, NEW kind \in Makers, Begin(t, "build", Job(kind), {}),
         UNCHANGED <<contest, score>>
  PROVE  ListInv'
<1>1. PICK job : job = Job(kind) OBVIOUS
<1>2. job.kind \notin Tasks
  BY <1>1 DEF Job, Tasks, Makers
<1>3. Begin(t, "build", job, {}) /\ Grows
  BY <1>1 DEF Grows
<1>4. TaskThere(t)'
  BY <1>2, <1>3, TaskBegun DEF TypeInv
<1>5. QED BY <1>3, <1>4, BeginList

\* A student is approved.
LEMMA ListApprove == ASSUME TypeInv, ListInv, NEW t \in Threads, Approve(t) PROVE ListInv'
BY ListBeginMaker DEF Approve, Makers

\* A tree is to be made anew.
LEMMA ListRecompute ==
  ASSUME TypeInv, ListInv, NEW t \in Threads, NEW kind \in {"rebuild", "batch"}, Recompute(t, kind)
  PROVE  ListInv'
BY ListBeginMaker DEF Recompute, Makers

\* The only task ends.
LEMMA EndsApart ==
  ASSUME TypeInv, Apart, NEW t \in Threads, Busy(t), ~Judging(t), End(t), In(score', Expected')
  PROVE  Apart'
<1>1. PICK at : at = "idle" OBVIOUS
<1>2. PICK job : job = Idle OBVIOUS
<1>3. PICK tree : tree = None OBVIOUS
<1>4. pc' = [pc EXCEPT ![t] = at] /\ task' = [task EXCEPT ![t] = job] /\ next' = [next EXCEPT ![t] = tree]
  BY <1>1, <1>2, <1>3 DEF End
<1>5. TaskThere(t)'
  BY <1>1, <1>4 DEF TaskThere, Busy, TypeInv, ThreadsInv
<1>6. QED BY <1>1, <1>4, <1>5, AloneApart

\* When a task ends no tree is made anew.
LEMMA EndsNotAnew ==
  ASSUME ThreadsInv, ListInv, ops' = ops, NEW t \in Threads, Busy(t), End(t), NEW u \in Threads
  PROVE  ~Anew(u)'
<1>1. PICK at : at = "idle" OBVIOUS
<1>2. PICK job : job = Idle OBVIOUS
<1>3. pc' = [pc EXCEPT ![t] = at] /\ task' = [task EXCEPT ![t] = job]
  BY <1>1, <1>2 DEF End
<1>4. QED BY <1>1, <1>3, StepNotAnew

\* It goes on to the row, or to the next problem of a copy.
LEMMA GoesApart ==
  ASSUME TypeInv, Apart, NEW t \in Threads, Busy(t), ~Judging(t), NEW at \in {"copy", "row"}, GoTo(t, at),
         contest' = contest, IF at = "row" THEN In(score', After(t)) ELSE In(score', Expected)
  PROVE  Apart'
<1>1. PICK job : job = task[t] OBVIOUS
<1>2. PICK tree : tree = next[t] OBVIOUS
<1>3. pc' = [pc EXCEPT ![t] = at] /\ task' = [task EXCEPT ![t] = job] /\ next' = [next EXCEPT ![t] = tree]
      /\ task' = task
  BY <1>1, <1>2 DEF GoTo, TypeInv, ThreadsInv
<1>4. TaskThere(t)'
  <2>1. TaskThere(t)
    BY ApartIs
  <2>2. QED BY <1>3, <2>1 DEF TaskThere
<1>5. After(t)' = After(t) /\ Expected' = Expected
  BY <1>3 DEF After, Expected
<1>6. IF at = "row" THEN In(score', After(t)') ELSE In(score', Expected')
  BY <1>5
<1>7. at # "save" OBVIOUS
<1>8. QED BY <1>3, <1>4, <1>6, <1>7, AloneApart

\* Nor when it goes on without a tree.
LEMMA GoesNotAnew ==
  ASSUME ThreadsInv, ListInv, ops' = ops, NEW t \in Threads, Busy(t), NEW at \in {"copy", "row"}, GoTo(t, at),
         NEW u \in Threads
  PROVE  ~Anew(u)'
<1>1. PICK job : job = task[t] OBVIOUS
<1>2. pc' = [pc EXCEPT ![t] = at] /\ task' = [task EXCEPT ![t] = job] /\ at # "save"
  BY <1>1 DEF GoTo, ThreadsInv
<1>3. QED BY <1>2, StepNotAnew

\* A task that has changed the tree, or had none to change.
LEMMA AfterTreeList ==
  ASSUME TypeInv, ListInv, NEW t \in Threads, Busy(t), task[t].kind \in Tasks, AfterTree(t),
         UNCHANGED <<contest, ops, drift>>, Apart => In(score', After(t))
  PROVE  ListInv'
<1>1. ops' = ops /\ contest' = contest /\ drift' = drift /\ ThreadsInv /\ ~Judging(t)
  BY DEF TypeInv, Tasks, Judging
<1>2. CASE task[t].kind \in {"createProblem", "editProblem"}
  <2>1. End(t)
    BY <1>2 DEF AfterTree
  <2>2. After(t) = Expected /\ Expected' = Expected
    BY <1>1, <1>2 DEF After, Expected
  <2>3. Apart => Apart'
    BY <1>1, <2>1, <2>2, EndsApart
  <2>4. QED BY <1>1, <2>1, <2>3, EndsNotAnew DEF ListInv
<1>3. CASE task[t].kind = "copy"
  <2>1. GoTo(t, "copy")
    BY <1>3 DEF AfterTree
  <2>2. After(t) = Expected
    BY <1>3, AfterSame
  <2>3. PICK at \in {"copy", "row"} : at = "copy" OBVIOUS
  <2>4. Apart => Apart'
    BY <1>1, <2>1, <2>2, <2>3, GoesApart
  <2>5. QED BY <1>1, <2>1, <2>3, <2>4, GoesNotAnew DEF ListInv
<1>4. CASE task[t].kind \in {"editContest", "deleteContest", "deleteProblem"}
  <2>1. GoTo(t, "row")
    BY <1>4 DEF AfterTree
  <2>2. PICK at \in {"copy", "row"} : at = "row" OBVIOUS
  <2>3. Apart => Apart'
    BY <1>1, <2>1, <2>2, GoesApart
  <2>4. QED BY <1>1, <2>1, <2>2, <2>3, GoesNotAnew DEF ListInv
<1>5. QED BY <1>2, <1>3, <1>4 DEF Tasks

\* A copy ends.
LEMMA ListCopyEnds == ASSUME TypeInv, ListInv, NEW t \in Threads, CopyEnds(t) PROVE ListInv'
<1>1. pc[t] = "copy" /\ End(t) /\ contest' = contest /\ score' = score /\ ops' = ops /\ drift' = drift
  BY DEF CopyEnds
<1>2. Busy(t) /\ ~Judging(t) /\ ThreadsInv
  BY <1>1 DEF TypeInv, ThreadsInv, StepOK, Busy, Judging
<1>3. ASSUME Apart PROVE Apart'
  <2>1. \A u \in Threads : pc[u] # "row"
    BY <1>1, <1>2, <1>3 DEF Apart, Busy
  <2>2. In(score, Expected) /\ Expected' = Expected
    BY <1>1, <1>3, <2>1, ApartIs DEF Expected
  <2>3. QED BY <1>1, <1>2, <1>3, <2>2, EndsApart
<1>4. QED BY <1>1, <1>2, <1>3, EndsNotAnew DEF ListInv

\* A problem is copied.
LEMMA ListCopyProblem ==
  ASSUME TypeInv, ListInv, NEW t \in Threads, NEW p \in Problems, NEW point, CopyProblem(t, p, point)
  PROVE  ListInv'
<1>1. PICK copied : copied = [there |-> TRUE, visible |-> TRUE, point |-> point] OBVIOUS
<1>2. /\ pc[t] = "copy" /\ pc' = [pc EXCEPT ![t] = "tree"] /\ next' = next
      /\ contest' = contest /\ score' = score /\ ops' = ops /\ drift' = drift
  BY DEF CopyProblem
<1>3. task' = [task EXCEPT ![t].todo = @ \ {p}, ![t].problem = p, ![t].prob = copied]
  BY <1>1, Zenon DEF CopyProblem
<1>4. PICK old : old = task[t] OBVIOUS
<1>5. PICK job : job = [old EXCEPT !.todo = old.todo \ {p}, !.problem = p, !.prob = copied] OBVIOUS
<1>6. task' = [task EXCEPT ![t] = job]
  BY <1>3, <1>4, <1>5 DEF TypeInv, ThreadsInv
<1>7. IsJob(old) /\ old.kind = "copy"
  BY <1>2, <1>4 DEF TypeInv, ThreadsInv, StepOK, JobOK
<1>8. job.kind = "copy" /\ job.contest = old.contest /\ job.row = old.row
  BY <1>5, <1>7 DEF IsJob
<1>9. Busy(t) /\ ~Judging(t) /\ ThreadsInv
  BY <1>2, <1>4, <1>7 DEF TypeInv, Busy, Judging
<1>10. task'[t] = job
  BY <1>6 DEF TypeInv, ThreadsInv
<1>11. PICK tree : tree = next[t] OBVIOUS
<1>12. next' = [next EXCEPT ![t] = tree]
  BY <1>2, <1>11 DEF TypeInv, ThreadsInv
<1>13. PICK at : at = "tree" OBVIOUS
<1>14. ASSUME Apart PROVE Apart'
  <2>1. \A u \in Threads : pc[u] # "row"
    BY <1>2, <1>9, <1>14 DEF Apart, Busy
  <2>2. In(score', Expected')
    BY <1>2, <1>14, <2>1, ApartIs DEF Expected
  <2>3. contest[old.contest] = old.row
    BY <1>4, <1>7, <1>9, <1>14, ApartIs DEF TaskThere, Tasks
  <2>4. TaskThere(t)'
    BY <1>2, <1>8, <1>10, <2>3 DEF TaskThere
  <2>5. QED BY <1>2, <1>6, <1>9, <1>12, <1>13, <1>14, <2>2, <2>4, AloneApart
<1>15. ASSUME NEW u \in Threads PROVE ~Anew(u)'
  BY <1>2, <1>6, <1>9, <1>13, StepNotAnew
<1>16. QED BY <1>2, <1>14, <1>15 DEF ListInv

\* The row of a contest is saved or deleted.
LEMMA ListContestRow == ASSUME TypeInv, ListInv, NEW t \in Threads, ContestRow(t) PROVE ListInv'
<1>1. pc[t] = "row" /\ End(t) /\ score' = score /\ ops' = ops /\ drift' = drift
      /\ task[t].kind \in {"editContest", "deleteContest"}
  BY DEF ContestRow
<1>2. PICK c \in Contests : c = task[t].contest
  BY <1>1 DEF TypeInv, ThreadsInv, JobOK, Tasks
<1>3. contest' = [contest EXCEPT ![c] = IF task[t].kind = "editContest" THEN task[t].row ELSE NoContest]
  BY <1>1, <1>2 DEF ContestRow
<1>4. Busy(t) /\ ~Judging(t) /\ ThreadsInv
  BY <1>1 DEF TypeInv, Busy, Judging
<1>5. ASSUME Apart PROVE Apart'
  <2>1. In(score, After(t))
    BY <1>1, <1>5, ApartIs
  <2>2. \A d \in Contests : (Expected')[d] = After(t)[d]
    BY <1>1, <1>2, <1>3 DEF Expected, After, TypeInv, RowsInv, NoContest
  <2>3. In(score', Expected')
    BY <1>1, <2>1, <2>2 DEF In
  <2>4. QED BY <1>1, <1>4, <1>5, <2>3, EndsApart
<1>6. QED BY <1>1, <1>4, <1>5, EndsNotAnew DEF ListInv

\* The row of a problem is deleted.
LEMMA ListProblemRow == ASSUME TypeInv, ListInv, NEW t \in Threads, ProblemRow(t) PROVE ListInv'
<1>1. pc[t] = "row" /\ End(t) /\ score' = score /\ ops' = ops /\ drift' = drift /\ contest' = contest
      /\ task[t].kind = "deleteProblem"
  BY DEF ProblemRow
<1>2. Busy(t) /\ ~Judging(t) /\ ThreadsInv
  BY <1>1 DEF TypeInv, Busy, Judging
<1>3. ASSUME Apart PROVE Apart'
  <2>1. In(score, After(t))
    BY <1>1, <1>3, ApartIs
  <2>2. After(t) = Expected'
    BY <1>1 DEF Expected, After
  <2>3. QED BY <1>1, <1>2, <1>3, <2>1, <2>2, EndsApart
<1>4. QED BY <1>1, <1>2, <1>3, EndsNotAnew DEF ListInv

\* A tree in which no contest is listed.
LEMMA NothingListed == ASSUME NEW of PROVE In(NewTree, of)
BY NewTreeFacts DEF In

\* A task changes the tree that it has read.
LEMMA ListReadTree == ASSUME TypeInv, ListInv, NEW t \in Threads, ReadTree(t) PROVE ListInv'
<1>1. /\ contest' = contest /\ enrolled' = enrolled /\ score' = score /\ ops' = ops
      /\ UNCHANGED <<contest, ops>> /\ task[t].kind \in Tasks /\ pc[t] = "tree"
  BY ReadTreeCases DEF ReadTree
<1>2. Busy(t) /\ ~Judging(t) /\ ThreadsInv
  BY <1>1 DEF TypeInv, Tasks, Busy, Judging
<1>3. ASSUME Apart
      PROVE  /\ In(score, Expected)
             /\ task[t].kind # "editContest" => contest[task[t].contest] = task[t].row
             /\ contest[task[t].contest].there
  <2>1. \A u \in Threads : pc[u] # "row"
    BY <1>1, <1>2, <1>3 DEF Apart, Busy
  <2>2. In(score, Expected)
    BY <1>3, <2>1, ApartIs
  <2>3. TaskThere(t)
    BY <1>3, ApartIs
  <2>4. task[t].kind # "editContest" => contest[task[t].contest] = task[t].row
    BY <1>1, <1>2, <2>3 DEF TaskThere
  <2>5. contest[task[t].contest].there
    BY <1>1, <1>2, <2>3, TaskRows
  <2>6. QED BY <2>2, <2>4, <2>5
<1>4. CASE ~enrolled /\ AfterTree(t) /\ drift' = drift
  <2>1. score = NewTree
    BY <1>4 DEF TypeInv, TreeInv
  <2>2. In(score', After(t))
    BY <1>1, <2>1, NothingListed
  <2>3. UNCHANGED <<contest, ops, drift>>
    BY <1>1, <1>4
  <2>4. AfterTree(t)
    BY <1>4
  <2>5. QED BY <1>1, <1>2, <2>2, <2>3, <2>4, AfterTreeList
<1>5. CASE task[t].kind = "editProblem" /\ AfterTree(t) /\ drift' = drift
  <2>1. After(t) = Expected
    BY <1>5, AfterSame
  <2>2. Apart => In(score', After(t))
    BY <1>1, <1>3, <2>1
  <2>3. UNCHANGED <<contest, ops, drift>>
    BY <1>1, <1>5
  <2>4. AfterTree(t)
    BY <1>5
  <2>5. QED BY <1>1, <1>2, <2>2, <2>3, <2>4, AfterTreeList
<1>6. CASE /\ task[t].kind = "editProblem" => contest[task[t].contest].there
           /\ next' = [next EXCEPT ![t] = Changed(t)] /\ pc' = [pc EXCEPT ![t] = "save"] /\ task' = task
           /\ drift' = drift \cup IF task[t].kind = "editContest" /\ Disturbs(task[t].row, task[t].contest)
                                  THEN {"edited"} ELSE {}
  <2>1. PICK tree : tree = Changed(t) OBVIOUS
  <2>2. PICK at : at = "save" OBVIOUS
  <2>3. PICK job : job = task[t] OBVIOUS
  <2>4. pc' = [pc EXCEPT ![t] = at] /\ task' = [task EXCEPT ![t] = job] /\ next' = [next EXCEPT ![t] = tree]
    BY <1>6, <2>1, <2>2, <2>3 DEF TypeInv, ThreadsInv
  <2>5. ASSUME Apart PROVE Apart'
    <3>1. In(tree, After(t))
      <4>1. CASE task[t].kind \in {"editContest", "deleteContest"}
        BY <1>1, <1>3, <2>1, <2>5, <4>1, ChangedContest
      <4>2. CASE task[t].kind \in {"copy", "createProblem", "editProblem", "deleteProblem"}
        <5>1. In(Changed(t), Expected)
          BY <1>1, <1>3, <2>5, <4>2, ChangedProblem
        <5>2. After(t) = Expected
          BY <4>2, AfterSame
        <5>3. QED BY <2>1, <5>1, <5>2
      <4>3. QED BY <1>1, <4>1, <4>2 DEF Tasks
    <3>2. After(t)' = After(t) /\ Expected' = Expected
      BY <1>1, <1>6 DEF After, Expected
    <3>3. TaskThere(t)'
      <4>1. TaskThere(t)
        BY <2>5, ApartIs
      <4>2. QED BY <1>1, <1>2, <1>6, <4>1 DEF TaskThere
    <3>4. In(score', Expected')
      BY <1>1, <1>3, <2>5, <3>2
    <3>5. In(tree, After(t)') /\ at # "row"
      BY <2>2, <3>1, <3>2
    <3>6. QED BY <1>2, <2>4, <2>5, <3>3, <3>4, <3>5, AloneApart
  <2>6. ASSUME NEW u \in Threads PROVE ~Anew(u)'
    <3>1. job.kind \notin {"rebuild", "batch"}
      BY <1>1, <2>3 DEF Tasks
    <3>2. QED BY <1>1, <1>2, <2>4, <3>1, StepNotAnew
  <2>7. "overlap" \notin drift' => "overlap" \notin drift
    BY <1>6
  <2>8. QED BY <2>5, <2>6, <2>7 DEF ListInv
<1>7. \/ ~enrolled /\ AfterTree(t) /\ drift' = drift
      \/ task[t].kind = "editProblem" /\ AfterTree(t) /\ drift' = drift
      \/ /\ task[t].kind = "editProblem" => contest[task[t].contest].there
         /\ next' = [next EXCEPT ![t] = Changed(t)] /\ pc' = [pc EXCEPT ![t] = "save"] /\ task' = task
         /\ drift' = drift \cup IF task[t].kind = "editContest" /\ Disturbs(task[t].row, task[t].contest)
                                THEN {"edited"} ELSE {}
  BY Zenon DEF ReadTree
<1>8. QED BY <1>4, <1>5, <1>6, <1>7

\* A task saves its tree.
LEMMA ListSaveTree == ASSUME TypeInv, ListInv, NEW t \in Threads, SaveTree(t) PROVE ListInv'
<1>1. UNCHANGED <<contest, ops, drift>> /\ AfterTree(t) /\ score' = next[t] /\ pc[t] = "save" /\ Busy(t)
  BY DEF SaveTree, Busy
<1>2. task[t].kind \in Tasks
  BY TreeSaved DEF SaveTree, Makers
<1>3. Apart => In(score', After(t))
  BY <1>1, ApartIs
<1>4. QED BY <1>1, <1>2, <1>3, AfterTreeList

\* While a judgement goes on no row is changed.
LEMMA JudgingFacts ==
  ASSUME TypeInv, Apart, NEW t \in Threads, Busy(t), Judging(t)
  PROVE  In(score, Expected) /\ (pc[t] = "save" => In(next[t], Expected))
<1>1. \A u \in Threads : pc[u] # "row"
  BY DEF Apart, TypeInv, ThreadsInv, StepOK, Busy, Judging
<1>2. After(t) = Expected
  BY AfterSame DEF Judging
<1>3. QED BY <1>1, <1>2, ApartIs

\* A judgement changes the tree that it has read.
LEMMA ListReadForJudgement == ASSUME TypeInv, ListInv, NEW t \in Threads, ReadForJudgement(t) PROVE ListInv'
<1>1. /\ contest' = contest /\ score' = score /\ ops' = ops /\ drift' = drift
      /\ task[t].kind = "judge" /\ IsSub(task[t].sub) /\ pc[t] = "judgement"
  BY ReadForJudgementCases
<1>2. Busy(t) /\ Judging(t) /\ ThreadsInv
  BY <1>1 DEF TypeInv, Busy, Judging
<1>3. CASE End(t)
  <2>1. PICK at \in {"idle", "save"} : at = "idle" OBVIOUS
  <2>2. PICK job : job = Idle OBVIOUS
  <2>3. PICK tree : tree = None OBVIOUS
  <2>4. pc' = [pc EXCEPT ![t] = at] /\ task' = [task EXCEPT ![t] = job] /\ next' = [next EXCEPT ![t] = tree]
    BY <1>3, <2>1, <2>2, <2>3 DEF End
  <2>5. ASSUME Apart PROVE Apart'
    <3>1. In(score', Expected)
      BY <1>1, <1>2, <2>5, JudgingFacts
    <3>2. at # "save"
      BY <2>1
    <3>3. QED BY <1>1, <1>2, <2>4, <2>5, <3>1, <3>2, JudgeApart
  <2>6. QED BY <1>1, <1>2, <1>3, <2>5, EndsNotAnew DEF ListInv
<1>4. ASSUME NEW ty \in Types, NEW c \in Contests,
             next' = [next EXCEPT ![t] = Associate(score, ty, c, task[t].sub)],
             pc' = [pc EXCEPT ![t] = "save"], task' = task
      PROVE  ListInv'
  <2>1. PICK sub : sub = task[t].sub OBVIOUS
  <2>2. PICK tree : tree = Associate(score, ty, c, sub) OBVIOUS
  <2>3. SameLists(tree, score)
    BY <1>1, <2>1, <2>2, AssociateFacts DEF TypeInv, TreeInv
  <2>4. PICK at \in {"idle", "save"} : at = "save" OBVIOUS
  <2>5. PICK job : job = task[t] OBVIOUS
  <2>6. pc' = [pc EXCEPT ![t] = at] /\ task' = [task EXCEPT ![t] = job] /\ next' = [next EXCEPT ![t] = tree]
    BY <1>4, <2>1, <2>2, <2>4, <2>5 DEF TypeInv, ThreadsInv
  <2>7. job.kind = "judge"
    BY <1>1, <2>5
  <2>8. ASSUME Apart PROVE Apart'
    <3>1. In(score', Expected) /\ In(score, Expected)
      BY <1>1, <1>2, <2>8, JudgingFacts
    <3>2. In(tree, Expected)
      BY <2>3, <3>1 DEF In, SameLists
    <3>3. QED BY <1>1, <1>2, <2>6, <2>7, <2>8, <3>1, <3>2, JudgeApart
  <2>9. ASSUME NEW u \in Threads PROVE ~Anew(u)'
    <3>1. job.kind \notin {"rebuild", "batch"}
      BY <2>7
    <3>2. QED BY <1>1, <1>2, <2>6, <3>1, StepNotAnew
  <2>10. QED BY <1>1, <2>8, <2>9 DEF ListInv
<1>5. QED BY <1>3, <1>4, ReadForJudgementCases

\* A judgement saves its tree.
LEMMA ListSaveJudgement == ASSUME TypeInv, ListInv, NEW t \in Threads, SaveJudgement(t) PROVE ListInv'
<1>1. /\ pc[t] = "save" /\ Judging(t) /\ score' = next[t] /\ End(t) /\ contest' = contest /\ ops' = ops
      /\ \E why : drift' = drift \cup why
  BY DEF SaveJudgement
<1>2. Busy(t) /\ ThreadsInv
  BY <1>1 DEF TypeInv, Busy
<1>3. PICK at \in {"idle", "save"} : at = "idle" OBVIOUS
<1>4. PICK job : job = Idle OBVIOUS
<1>5. PICK tree : tree = None OBVIOUS
<1>6. pc' = [pc EXCEPT ![t] = at] /\ task' = [task EXCEPT ![t] = job] /\ next' = [next EXCEPT ![t] = tree]
  BY <1>1, <1>3, <1>4, <1>5 DEF End
<1>7. ASSUME Apart PROVE Apart'
  <2>1. In(score', Expected)
    BY <1>1, <1>2, <1>7, JudgingFacts
  <2>2. at # "save"
    BY <1>3
  <2>3. QED BY <1>1, <1>2, <1>6, <1>7, <2>1, <2>2, JudgeApart
<1>8. QED BY <1>1, <1>2, <1>7, EndsNotAnew DEF ListInv

\* A tree is made from the rows.
LEMMA ListReadRows == ASSUME TypeInv, ListInv, NEW t \in Threads, ReadRows(t) PROVE ListInv'
<1>1. PICK tree \in Trees :
        /\ next' = [next EXCEPT ![t] = tree] /\ pc' = [pc EXCEPT ![t] = "save"]
        /\ task' = [task EXCEPT ![t].since = IF \A u \in Threads \ {t} : ~Busy(u) THEN ops ELSE None]
        /\ UNCHANGED <<contest, problem, subs, enrolled, score, ops, drift>>
        /\ task[t].kind \in Makers /\ pc[t] = "build"
        /\ In(score, Expected) \/ task[t].kind # "approve" => In(tree, Expected)
  BY ReadRowsCases
<1>2. PICK since : since = IF \A u \in Threads \ {t} : ~Busy(u) THEN ops ELSE None OBVIOUS
<1>3. PICK old : old = task[t] OBVIOUS
<1>4. PICK job : job = [old EXCEPT !.since = since] OBVIOUS
<1>5. PICK at : at = "save" OBVIOUS
<1>6. pc' = [pc EXCEPT ![t] = at] /\ task' = [task EXCEPT ![t] = job] /\ next' = [next EXCEPT ![t] = tree]
  BY <1>1, <1>2, <1>3, <1>4, <1>5 DEF TypeInv, ThreadsInv
<1>7. contest' = contest /\ score' = score /\ ops' = ops /\ drift' = drift /\ ThreadsInv /\ ops \in Nat
  BY <1>1 DEF TypeInv
<1>8. Busy(t) /\ ~Judging(t)
  BY <1>1 DEF Busy, Judging, Makers
<1>9. IsJob(old) /\ old.kind \in Makers
  BY <1>1, <1>3 DEF TypeInv, ThreadsInv, JobOK
<1>10. job.kind = old.kind /\ job.since = since
  BY <1>4, <1>9 DEF IsJob
<1>11. pc'[t] = "save" /\ task'[t] = job /\ next'[t] = tree
  BY <1>5, <1>6 DEF TypeInv, ThreadsInv
<1>12. \A u \in Threads : u # t => pc'[u] = pc[u] /\ task'[u] = task[u] /\ next'[u] = next[u]
  BY <1>6 DEF TypeInv, ThreadsInv
<1>13. Expected' = Expected /\ After(t)' = Expected
  BY <1>7, <1>9, <1>10, <1>11 DEF After, Expected, Makers
<1>14. ASSUME Apart PROVE Apart'
  <2>1. \A u \in Threads : pc[u] # "row"
    BY <1>1, <1>8, <1>14 DEF Apart, Busy
  <2>2. In(score, Expected) /\ In(tree, Expected)
    BY <1>1, <1>14, <2>1, ApartIs
  <2>3. TaskThere(t)'
    BY <1>9, <1>10, <1>11 DEF TaskThere, Makers, Tasks
  <2>4. In(score', Expected') /\ In(tree, After(t)') /\ at # "row"
    BY <1>5, <1>7, <1>13, <2>2
  <2>5. QED BY <1>6, <1>8, <1>14, <2>3, <2>4, AloneApart
<1>15. ASSUME NEW u \in Threads, Anew(u)'
       PROVE  In(next'[u], Expected') /\ \A v \in Threads \ {u} : ~Busy(v)'
  <2>1. CASE u = t
    <3>1. job.kind # "approve" /\ job.since = ops
      BY <1>7, <1>11, <1>15, <2>1 DEF Anew
    <3>2. \A v \in Threads \ {t} : ~Busy(v)
      BY <1>2, <1>7, <1>10, <3>1, NoneAssumption
    <3>3. In(tree, Expected)
      BY <1>1, <1>3, <1>10, <3>1
    <3>4. QED BY <1>11, <1>12, <1>13, <2>1, <3>2, <3>3 DEF Busy
  <2>2. CASE u # t
    <3>1. Anew(u)
      BY <1>7, <1>12, <1>15, <2>2 DEF Anew
    <3>2. QED BY <1>8, <2>2, <3>1 DEF ListInv
  <2>3. QED BY <2>1, <2>2
<1>16. QED BY <1>7, <1>14, <1>15 DEF ListInv

\* A tree made from the rows is saved.
LEMMA ListSaveRows == ASSUME TypeInv, ListInv, NEW t \in Threads, SaveRows(t) PROVE ListInv'
<1>1. PICK anew \in BOOLEAN : anew <=> task[t].kind # "approve" /\ task[t].since = ops OBVIOUS
<1>2. PICK other : other = IF task[t].kind = "batch" /\ (~anew \/ Greatest # Latest) THEN {"batch"} ELSE {}
  OBVIOUS
<1>3. /\ pc[t] = "save" /\ task[t].kind \in Makers /\ score' = next[t] /\ End(t)
      /\ contest' = contest /\ ops' = ops /\ drift' = (IF anew THEN {} ELSE drift) \cup other
  BY <1>1, <1>2 DEF SaveRows, Makers
<1>4. Busy(t) /\ ~Judging(t) /\ ThreadsInv /\ Expected' = Expected
  BY <1>3 DEF TypeInv, Busy, Judging, Makers, Expected
<1>5. ASSUME "overlap" \notin drift' PROVE Apart'
  <2>1. CASE anew
    <3>1. Anew(t)
      BY <1>1, <1>3, <2>1 DEF Anew, Makers
    <3>2. In(next[t], Expected) /\ \A u \in Threads \ {t} : ~Busy(u)
      BY <3>1 DEF ListInv
    <3>3. \A u \in Threads : pc'[u] = "idle"
      BY <1>3, <3>2 DEF End, Busy, TypeInv, ThreadsInv
    <3>4. In(score', Expected')
      BY <1>3, <1>4, <3>2
    <3>5. QED BY <3>3, <3>4 DEF Apart, Busy
  <2>2. CASE ~anew
    <3>1. Apart
      BY <1>3, <1>5, <2>2 DEF ListInv
    <3>2. After(t) = Expected
      BY <1>3, AfterSame DEF Makers
    <3>3. In(score', Expected')
      BY <1>3, <1>4, <3>1, <3>2, ApartIs
    <3>4. QED BY <1>3, <1>4, <3>1, <3>3, EndsApart
  <2>3. QED BY <2>1, <2>2
<1>6. QED BY <1>3, <1>4, <1>5, EndsNotAnew DEF ListInv

\* The initial states list each contest once.
LEMMA ListInit == ASSUME Init, TypeInv PROVE ListInv
<1>1. \A t \in Threads : pc[t] = "idle"
  BY DEF Init
<1>2. In(NewTree, Expected)
  BY NothingListed
<1>3. In(Built(NewTree), Expected)
  BY <1>2, NewTreeFacts, BuiltFacts DEF TypeInv
<1>4. In(score, Expected)
  BY <1>2, <1>3 DEF Init
<1>5. Apart
  BY <1>1, <1>4 DEF Apart, Busy
<1>6. QED BY <1>1, <1>5 DEF ListInv, Anew

\* Every step keeps the lists.
LEMMA ListNext == ASSUME TypeInv, ListInv, [Next]_vars PROVE ListInv'
<1>1. ASSUME NEW t \in Threads, Requests(t) PROVE ListInv'
  BY <1>1, ListEditContest, ListCopyContest, ListDeleteContest, ListCreateProblem, ListEditProblem,
     ListDeleteProblem, ListJudge, ListApprove, ListRecompute DEF Requests
<1>2. ASSUME NEW t \in Threads, Steps(t) PROVE ListInv'
  BY <1>2, ListCopyProblem, ListCopyEnds, ListContestRow, ListProblemRow, ListReadTree,
     ListSaveTree,
     ListReadForJudgement, ListSaveJudgement, ListReadRows, ListSaveRows DEF Steps
<1>3. CASE UNCHANGED vars
  BY <1>3 DEF vars, ListInv, Apart, Anew, Busy, Judging, After, Expected
<1>4. QED
  BY <1>1, <1>2, <1>3, ListCreateContest, ListSubmit, ListDeleteSubmissions, ListEnrolByList
     DEF Next

\* The contests of the stored tree are listed where their rows say, or will
\* say.
LEMMA ListedOnceFollows == ASSUME TypeInv, ListInv PROVE ListedOnce
<1>1. SUFFICES ASSUME "overlap" \notin drift, NEW n \in Nodes(score), NEW m \in Nodes(score), n[2] = m[2]
               PROVE  n = m
  BY DEF ListedOnce
<1>2. PICK x \in Types, y \in Types, c \in Contests : n = <<x, c>> /\ m = <<y, c>> /\ Listed(score, x, c) /\ Listed(score, y, c)
  BY <1>1 DEF Nodes
<1>3. PICK of : In(score, of)
  BY <1>1 DEF ListInv, Apart
<1>4. of[c] = x /\ of[c] = y
  BY <1>2, <1>3 DEF In
<1>5. QED BY <1>2, <1>4

\* A contest is never listed under two types, unless two tasks overlap: every
\* task that changes the tree leaves each contest where its row is, or where
\* it will be when the task has saved the row.
THEOREM ListedOnceStays == Spec => []ListedOnce
<1>1. Init => TypeInv /\ ListInv
  BY TypeInit, ListInit
<1>2. TypeInv /\ ListInv /\ [Next]_vars => TypeInv' /\ ListInv'
  BY TypeNext, ListNext
<1>3. TypeInv /\ ListInv => ListedOnce
  BY ListedOnceFollows
<1>4. QED BY <1>1, <1>2, <1>3, PTL DEF Spec

-----------------------------------------------------------------------------
(* The sums: what the steps have in common.                                *)

\* No thread goes on but those that begin.
LEMMA SumBegin ==
  ASSUME TypeInv, SumInv, ops' = ops + 1, UNCHANGED <<score, next>>,
         \A u \in Threads : pc'[u] = "save" => pc[u] = "save" /\ task'[u] = task[u],
         "edited" \notin drift' => "edited" \notin drift
  PROVE  SumInv'
<1>1. \A u \in Threads : ~Anew(u)'
  BY BegunNotAnew
<1>2. QED BY <1>1 DEF SumInv

\* An operation of one step keeps the sums.
LEMMA SumQuick == ASSUME TypeInv, SumInv, NEW why, Quick(why) PROVE SumInv'
<1>1. ops' = ops + 1 /\ UNCHANGED <<score, next>> /\ pc' = pc /\ task' = task /\ drift' = drift \cup why
  BY DEF Quick, TypeInv, ThreadsInv
<1>2. QED BY <1>1, SumBegin

\* So does a task that begins.
LEMMA SumBegins ==
  ASSUME TypeInv, SumInv, NEW t \in Threads, NEW at \in {"copy", "tree", "judgement", "build"}, NEW job, NEW why,
         Begin(t, at, job, why), score' = score
  PROVE  SumInv'
<1>1. ops' = ops + 1 /\ UNCHANGED <<score, next>> /\ drift \subseteq drift'
  BY DEF Begin
<1>2. \A u \in Threads : pc'[u] = "save" => pc[u] = "save" /\ task'[u] = task[u]
  BY DEF Begin, TypeInv, ThreadsInv
<1>3. QED BY <1>1, <1>2, SumBegin

\* A thread goes on.
LEMMA SumGoes ==
  ASSUME TypeInv, SumInv, NEW t \in Threads, NEW at, NEW job, NEW tree,
         pc' = [pc EXCEPT ![t] = at], task' = [task EXCEPT ![t] = job], next' = [next EXCEPT ![t] = tree],
         "edited" \notin drift' => "edited" \notin drift /\ Good(score') /\ (at = "save" => Good(tree)),
         \A u \in Threads : ~Anew(u)'
  PROVE  SumInv'
<1>1. pc'[t] = at /\ next'[t] = tree
  BY DEF TypeInv, ThreadsInv
<1>2. \A u \in Threads : u # t => pc'[u] = pc[u] /\ next'[u] = next[u]
  BY DEF TypeInv, ThreadsInv
<1>3. QED BY <1>1, <1>2 DEF SumInv

\* A task that ends keeps the sums of the tree it leaves.
LEMMA SumEnds ==
  ASSUME TypeInv, ListInv, SumInv, NEW t \in Threads, Busy(t), End(t), ops' = ops,
         "edited" \notin drift' => "edited" \notin drift /\ Good(score')
  PROVE  SumInv'
<1>1. PICK at : at = "idle" OBVIOUS
<1>2. PICK job : job = Idle OBVIOUS
<1>3. PICK tree : tree = None OBVIOUS
<1>4. pc' = [pc EXCEPT ![t] = at] /\ task' = [task EXCEPT ![t] = job] /\ next' = [next EXCEPT ![t] = tree]
  BY <1>1, <1>2, <1>3 DEF End
<1>5. \A u \in Threads : ~Anew(u)'
  BY EndsNotAnew DEF TypeInv
<1>6. QED BY <1>1, <1>4, <1>5, SumGoes

\* So does one that goes on.
LEMMA SumAfterTree ==
  ASSUME TypeInv, ListInv, SumInv, NEW t \in Threads, Busy(t), AfterTree(t), UNCHANGED <<ops, drift>>,
         task[t].kind \in Tasks, "edited" \notin drift => Good(score')
  PROVE  SumInv'
<1>1. CASE End(t)
  BY <1>1, SumEnds
<1>2. ASSUME NEW at \in {"copy", "row"}, GoTo(t, at) PROVE SumInv'
  <2>1. PICK job : job = task[t] OBVIOUS
  <2>2. PICK tree : tree = next[t] OBVIOUS
  <2>3. pc' = [pc EXCEPT ![t] = at] /\ task' = [task EXCEPT ![t] = job] /\ next' = [next EXCEPT ![t] = tree]
        /\ at # "save"
    BY <1>2, <2>1, <2>2 DEF GoTo, TypeInv, ThreadsInv
  <2>4. \A u \in Threads : ~Anew(u)'
    BY <1>2, GoesNotAnew DEF TypeInv
  <2>5. QED BY <2>3, <2>4, SumGoes
<1>3. QED BY <1>1, <1>2 DEF AfterTree, Tasks

\* The sums: the actions.
LEMMA SumBeginnings ==
  ASSUME TypeInv, SumInv,
         \/ \E t \in Threads : Requests(t)
         \/ \E c \in Contests, row \in Rows : CreateContest(c, row)
         \/ \E p \in Problems, key \in 1..MaxSubs : Submit(p, key)
         \/ \E p \in Problems : DeleteSubmissions(p)
         \/ EnrolByList
  PROVE  SumInv'
<1>1. (\E why : Quick(why)) \/
      \E t \in Threads, at \in {"copy", "tree", "judgement", "build"} :
        \E job, why : Begin(t, at, job, why) /\ score' = score
  <2>1. ASSUME NEW t \in Threads, Requests(t)
        PROVE  (\E why : Quick(why)) \/ \E at \in {"copy", "tree", "judgement", "build"} :
                                          \E job, why : Begin(t, at, job, why) /\ score' = score
    <3>1. CASE \E c \in Contests, row \in Rows : EditContest(t, c, row)
      BY <3>1 DEF EditContest
    <3>2. CASE \E c \in Contests, row \in Rows : CopyContest(t, c, row, {p \in Problems : Home[p] = c})
      BY <3>2 DEF CopyContest
    <3>3. CASE \E c \in Contests : DeleteContest(t, c)
      BY <3>3 DEF DeleteContest
    <3>4. CASE \E p \in Problems, prob \in Rewards : CreateProblem(t, p, prob)
      BY <3>4 DEF CreateProblem, SaveProblem
    <3>5. CASE \E p \in Problems, prob \in Rewards : EditProblem(t, p, prob)
      <4>1. PICK p \in Problems, prob \in Rewards :
                 \E causes : SaveProblem(t, "editProblem", p, prob, causes)
        BY <3>5 DEF EditProblem
      <4>2. QED BY <4>1 DEF SaveProblem
    <3>6. CASE \E p \in Problems : DeleteProblem(t, p)
      BY <3>6 DEF DeleteProblem
    <3>7. CASE \E s \in subs, result \in {"passed", "failed"}, late \in BOOLEAN : Judge(t, s, result, late)
      BY <3>7 DEF Judge
    <3>8. CASE Approve(t)
      BY <3>8 DEF Approve
    <3>9. CASE \E kind \in {"rebuild", "batch"} : Recompute(t, kind)
      BY <3>9 DEF Recompute
    <3>10. QED BY <2>1, <3>1, <3>2, <3>3, <3>4, <3>5, <3>6, <3>7, <3>8, <3>9 DEF Requests
  <2>2. QED BY <2>1 DEF CreateContest, Submit, DeleteSubmissions, EnrolByList
<1>2. QED BY <1>1, SumQuick, SumBegins

\* A problem is copied.
LEMMA SumCopyProblem ==
  ASSUME TypeInv, ListInv, SumInv, NEW t \in Threads, NEW p \in Problems, NEW point, CopyProblem(t, p, point)
  PROVE  SumInv'
<1>1. /\ pc[t] = "copy" /\ pc' = [pc EXCEPT ![t] = "tree"] /\ next' = next
      /\ score' = score /\ ops' = ops /\ drift' = drift
      /\ \A u \in Threads : u # t => task'[u] = task[u]
  BY DEF CopyProblem, TypeInv, ThreadsInv
<1>2. \A u \in Threads : pc'[u] = "save" => pc[u] = "save" /\ u # t
  BY <1>1 DEF TypeInv, ThreadsInv
<1>3. \A u \in Threads : ~Anew(u)'
  <2>1. \A u \in Threads \ {t} : ~Anew(u)
    BY <1>1 DEF ListInv, Busy
  <2>2. QED BY <1>1, <1>2, <2>1 DEF Anew
<1>4. QED BY <1>1, <1>2, <1>3 DEF SumInv

\* Tasks end that save no tree.
LEMMA SumEndings ==
  ASSUME TypeInv, ListInv, SumInv, NEW t \in Threads, CopyEnds(t) \/ ContestRow(t) \/ ProblemRow(t)
  PROVE  SumInv'
<1>1. Busy(t) /\ End(t) /\ score' = score /\ ops' = ops /\ drift' = drift
  BY DEF CopyEnds, ContestRow, ProblemRow, Busy
<1>2. QED BY <1>1, SumEnds DEF SumInv

\* A task changes the tree that it has read.
LEMMA SumReadTree == ASSUME TypeInv, ListInv, SumInv, NEW t \in Threads, ReadTree(t) PROVE SumInv'
<1>1. /\ score' = score /\ ops' = ops /\ task[t].kind \in Tasks /\ pc[t] = "tree" /\ Busy(t)
  BY ReadTreeCases DEF ReadTree, Busy
<1>2. CASE AfterTree(t) /\ drift' = drift
  <2>1. UNCHANGED <<ops, drift>> /\ AfterTree(t) /\ ("edited" \notin drift => Good(score'))
    BY <1>1, <1>2 DEF SumInv
  <2>2. QED BY <1>1, <2>1, SumAfterTree
<1>3. CASE /\ task[t].kind = "editProblem" => contest[task[t].contest].there
           /\ next' = [next EXCEPT ![t] = Changed(t)] /\ pc' = [pc EXCEPT ![t] = "save"] /\ task' = task
           /\ drift' = drift \cup IF task[t].kind = "editContest" /\ Disturbs(task[t].row, task[t].contest)
                                  THEN {"edited"} ELSE {}
  <2>1. PICK tree : tree = Changed(t) OBVIOUS
  <2>2. PICK at : at = "save" OBVIOUS
  <2>3. PICK job : job = task[t] OBVIOUS
  <2>4. pc' = [pc EXCEPT ![t] = at] /\ task' = [task EXCEPT ![t] = job] /\ next' = [next EXCEPT ![t] = tree]
    BY <1>3, <2>1, <2>2, <2>3 DEF TypeInv, ThreadsInv
  <2>5. ASSUME "edited" \notin drift' PROVE "edited" \notin drift /\ Good(score') /\ Good(tree)
    <3>1. "edited" \notin drift /\ ~(task[t].kind = "editContest" /\ Disturbs(task[t].row, task[t].contest))
      BY <1>3, <2>5
    <3>2. Good(score)
      BY <3>1 DEF SumInv
    <3>3. CASE task[t].kind \in {"editContest", "deleteContest"}
      BY <1>1, <2>1, <3>1, <3>2, <3>3, ChangedContest
    <3>4. CASE task[t].kind \in {"copy", "createProblem", "editProblem", "deleteProblem"}
      BY <1>1, <1>3, <2>1, <3>1, <3>2, <3>4, ChangedProblem
    <3>5. QED BY <1>1, <3>1, <3>2, <3>3, <3>4 DEF Tasks
  <2>6. ASSUME NEW u \in Threads PROVE ~Anew(u)'
    <3>1. job.kind \notin {"rebuild", "batch"} /\ ThreadsInv
      BY <1>1, <2>3 DEF Tasks, TypeInv
    <3>2. QED BY <1>1, <2>4, <3>1, StepNotAnew
  <2>7. QED BY <2>4, <2>5, <2>6, SumGoes
<1>4. QED BY <1>2, <1>3, ReadTreeCases

\* A task saves its tree.
LEMMA SumSaveTree == ASSUME TypeInv, ListInv, SumInv, NEW t \in Threads, SaveTree(t) PROVE SumInv'
<1>1. UNCHANGED <<ops, drift>> /\ AfterTree(t) /\ score' = next[t] /\ pc[t] = "save" /\ Busy(t)
  BY DEF SaveTree, Busy
<1>2. task[t].kind \in Tasks
  BY TreeSaved DEF SaveTree, Makers
<1>3. "edited" \notin drift => Good(score')
  BY <1>1 DEF SumInv
<1>4. QED BY <1>1, <1>2, <1>3, SumAfterTree

\* A judgement changes the tree that it has read.
LEMMA SumReadForJudgement ==
  ASSUME TypeInv, ListInv, SumInv, NEW t \in Threads, ReadForJudgement(t) PROVE SumInv'
<1>1. /\ score' = score /\ ops' = ops /\ drift' = drift
      /\ task[t].kind = "judge" /\ IsSub(task[t].sub) /\ pc[t] = "judgement"
  BY ReadForJudgementCases
<1>2. Busy(t) /\ ThreadsInv
  BY <1>1 DEF TypeInv, Busy
<1>3. CASE End(t)
  BY <1>1, <1>2, <1>3, SumEnds DEF SumInv
<1>4. ASSUME NEW ty \in Types, NEW c \in Contests,
             next' = [next EXCEPT ![t] = Associate(score, ty, c, task[t].sub)],
             pc' = [pc EXCEPT ![t] = "save"], task' = task
      PROVE  SumInv'
  <2>1. PICK sub : sub = task[t].sub OBVIOUS
  <2>2. PICK tree : tree = Associate(score, ty, c, sub) OBVIOUS
  <2>3. Good(score) => Good(tree)
    BY <1>1, <2>1, <2>2, AssociateFacts DEF TypeInv, TreeInv
  <2>4. PICK at : at = "save" OBVIOUS
  <2>5. PICK job : job = task[t] OBVIOUS
  <2>6. pc' = [pc EXCEPT ![t] = at] /\ task' = [task EXCEPT ![t] = job] /\ next' = [next EXCEPT ![t] = tree]
    BY <1>4, <2>1, <2>2, <2>4, <2>5 DEF TypeInv, ThreadsInv
  <2>7. ASSUME NEW u \in Threads PROVE ~Anew(u)'
    <3>1. job.kind \notin {"rebuild", "batch"}
      BY <1>1, <2>5
    <3>2. QED BY <1>1, <1>2, <2>6, <3>1, StepNotAnew
  <2>8. "edited" \notin drift' => "edited" \notin drift /\ Good(score') /\ (at = "save" => Good(tree))
    BY <1>1, <2>3 DEF SumInv
  <2>9. QED BY <2>6, <2>7, <2>8, SumGoes
<1>5. QED BY <1>3, <1>4, ReadForJudgementCases

\* A judgement saves its tree.
LEMMA SumSaveJudgement ==
  ASSUME TypeInv, ListInv, SumInv, NEW t \in Threads, SaveJudgement(t) PROVE SumInv'
<1>1. /\ pc[t] = "save" /\ score' = next[t] /\ End(t) /\ ops' = ops /\ Busy(t)
      /\ \E why : drift' = drift \cup why
  BY DEF SaveJudgement, Busy
<1>2. "edited" \notin drift' => "edited" \notin drift /\ Good(score')
  BY <1>1 DEF SumInv
<1>3. QED BY <1>1, <1>2, SumEnds

\* A tree is made from the rows.
LEMMA SumReadRows == ASSUME TypeInv, ListInv, SumInv, NEW t \in Threads, ReadRows(t) PROVE SumInv'
<1>1. PICK tree \in Trees :
        /\ next' = [next EXCEPT ![t] = tree] /\ pc' = [pc EXCEPT ![t] = "save"]
        /\ task' = [task EXCEPT ![t].since = IF \A u \in Threads \ {t} : ~Busy(u) THEN ops ELSE None]
        /\ UNCHANGED <<contest, problem, subs, enrolled, score, ops, drift>>
        /\ task[t].kind \in Makers /\ pc[t] = "build"
        /\ Good(score) \/ task[t].kind # "approve" => Good(tree)
  BY ReadRowsCases
<1>2. score' = score /\ ops' = ops /\ drift' = drift /\ Busy(t)
  BY <1>1 DEF Busy
<1>3. PICK old : old = task[t] OBVIOUS
<1>4. PICK since : since = IF \A u \in Threads \ {t} : ~Busy(u) THEN ops ELSE None OBVIOUS
<1>5. PICK job : job = [old EXCEPT !.since = since] OBVIOUS
<1>6. task' = [task EXCEPT ![t] = job]
  BY <1>1, <1>3, <1>4, <1>5 DEF TypeInv, ThreadsInv
<1>7. IsJob(old)
  BY <1>3 DEF TypeInv, ThreadsInv, JobOK
<1>8. pc'[t] = "save" /\ task'[t] = job /\ next'[t] = tree /\ job.kind = old.kind
  BY <1>1, <1>5, <1>6, <1>7 DEF TypeInv, ThreadsInv, IsJob
<1>9. \A u \in Threads : u # t => pc'[u] = pc[u] /\ task'[u] = task[u] /\ next'[u] = next[u]
  BY <1>1, <1>6 DEF TypeInv, ThreadsInv
<1>10. ASSUME NEW u \in Threads, Anew(u)' PROVE Good(next'[u])
  <2>1. CASE u = t
    <3>1. old.kind # "approve"
      BY <1>8, <1>10, <2>1 DEF Anew
    <3>2. QED BY <1>1, <1>3, <1>8, <2>1, <3>1
  <2>2. CASE u # t
    <3>1. Anew(u)
      BY <1>2, <1>9, <1>10, <2>2 DEF Anew
    <3>2. QED BY <1>9, <2>2, <3>1 DEF SumInv
  <2>3. QED BY <2>1, <2>2
<1>11. ASSUME "edited" \notin drift', NEW u \in Threads, pc'[u] = "save" PROVE Good(next'[u])
  <2>1. CASE u = t
    BY <1>1, <1>2, <1>8, <1>11, <2>1 DEF SumInv
  <2>2. CASE u # t
    BY <1>2, <1>9, <1>11, <2>2 DEF SumInv
  <2>3. QED BY <2>1, <2>2
<1>12. QED BY <1>2, <1>10, <1>11 DEF SumInv

\* A tree made from the rows is saved.
LEMMA SumSaveRows == ASSUME TypeInv, ListInv, SumInv, NEW t \in Threads, SaveRows(t) PROVE SumInv'
<1>1. PICK anew \in BOOLEAN : anew <=> task[t].kind # "approve" /\ task[t].since = ops OBVIOUS
<1>2. PICK other : other = IF task[t].kind = "batch" /\ (~anew \/ Greatest # Latest) THEN {"batch"} ELSE {}
  OBVIOUS
<1>3. /\ pc[t] = "save" /\ task[t].kind \in Makers /\ score' = next[t] /\ End(t) /\ Busy(t)
      /\ ops' = ops /\ drift' = (IF anew THEN {} ELSE drift) \cup other
  BY <1>1, <1>2 DEF SaveRows, Makers, Busy
<1>4. CASE anew
  <2>1. Anew(t)
    BY <1>1, <1>3, <1>4 DEF Anew, Makers
  <2>2. Good(score')
    BY <1>3, <2>1 DEF SumInv
  <2>3. \A u \in Threads : pc'[u] = "idle"
    BY <1>3, <2>1 DEF End, Busy, TypeInv, ThreadsInv, ListInv
  <2>4. QED BY <2>2, <2>3 DEF SumInv, Anew
<1>5. CASE ~anew
  <2>1. "edited" \notin drift' => "edited" \notin drift /\ Good(score')
    BY <1>3, <1>5 DEF SumInv
  <2>2. QED BY <1>3, <2>1, SumEnds
<1>6. QED BY <1>4, <1>5

\* The sums of the initial states.
LEMMA SumInit == ASSUME Init, TypeInv PROVE SumInv
<1>1. Good(NewTree) /\ Good(Built(NewTree))
  BY NewTreeFacts, BuiltFacts DEF TypeInv
<1>2. Good(score)
  BY <1>1 DEF Init
<1>3. \A t \in Threads : pc[t] = "idle"
  BY DEF Init
<1>4. QED BY <1>2, <1>3 DEF SumInv, Anew

\* Every step keeps the sums.
LEMMA SumNext == ASSUME TypeInv, ListInv, SumInv, [Next]_vars PROVE SumInv'
<1>1. ASSUME NEW t \in Threads, Steps(t) PROVE SumInv'
  BY <1>1, SumCopyProblem, SumEndings, SumReadTree, SumSaveTree,
     SumReadForJudgement, SumSaveJudgement, SumReadRows, SumSaveRows DEF Steps
<1>2. CASE UNCHANGED vars
  BY <1>2 DEF vars, SumInv, Anew
<1>3. QED BY <1>1, <1>2, SumBeginnings DEF Next

\* The totals are sums of what is shown.
LEMMA TotalsFollow == ASSUME TypeInv, SumInv PROVE TotalsAddUp
<1>1. SUFFICES ASSUME Good(score), NEW total \in Fields
               PROVE  /\ score.info[total] = Total([ty \in Types |-> score.types[ty].info[total]], Types)
                      /\ \A ty \in Types :
                           LET nodes == score.types[ty].contests
                               shown == {c \in DOMAIN nodes : nodes[c].info.visible}
                           IN score.types[ty].info[total] =
                                Total([c \in shown |-> nodes[c].info[total]], shown)
  BY Zenon DEF TotalsAddUp, SumInv, Fields, Offered, Earned
<1>2. score \in Trees
  BY DEF TypeInv, TreeInv
<1>3. score.info[total] = Total([ty \in Types |-> score.types[ty].info[total]], Types)
  <2>1. PICK types \in [Types -> Branch] : types = score.types
    BY <1>2 DEF Trees
  <2>2. DOMAIN Infos(types) = Types /\ \A ty \in Types : Infos(types)[ty] = types[ty].info
    BY DEF Infos
  <2>3. Shown(Infos(types)) = Types
    BY <1>1, <2>1, <2>2 DEF Shown, Good
  <2>4. [ty \in Types |-> Infos(types)[ty][total]] = [ty \in Types |-> types[ty].info[total]]
    BY <2>2
  <2>5. SumOf(Infos(types), total) = Total([ty \in Types |-> types[ty].info[total]], Types)
    BY <2>3, <2>4 DEF SumOf
  <2>6. QED BY <1>1, <2>1, <2>5 DEF Good, TreeAdds
<1>4. ASSUME NEW ty \in Types
      PROVE  LET nodes == score.types[ty].contests
                 shown == {c \in DOMAIN nodes : nodes[c].info.visible}
             IN score.types[ty].info[total] = Total([c \in shown |-> nodes[c].info[total]], shown)
  <2>1. PICK nodes : nodes = score.types[ty].contests OBVIOUS
  <2>2. PICK shown : shown = {c \in DOMAIN nodes : nodes[c].info.visible} OBVIOUS
  <2>3. DOMAIN Infos(nodes) = DOMAIN nodes /\ \A c \in DOMAIN nodes : Infos(nodes)[c] = nodes[c].info
    BY DEF Infos
  <2>4. Shown(Infos(nodes)) = shown
    BY <2>2, <2>3 DEF Shown
  <2>5. [c \in shown |-> Infos(nodes)[c][total]] = [c \in shown |-> nodes[c].info[total]]
    BY <2>2, <2>3
  <2>6. score.types[ty].info[total] = SumOf(Infos(nodes), total)
    BY <1>1, <2>1 DEF Good, BranchAdds
  <2>7. score.types[ty].info[total] = Total([c \in shown |-> nodes[c].info[total]], shown)
    BY <2>4, <2>5, <2>6 DEF SumOf
  <2>8. QED BY <2>1, <2>2, <2>7
<1>5. QED BY <1>3, <1>4

\* The totals of the lecture and of its types are the sums of what is shown
\* below them, whatever overlaps and whatever is lost, unless a contest was
\* hidden or moved since the tree was made.
THEOREM TotalsAlwaysAddUp == Spec => []TotalsAddUp
<1>1. Init => TypeInv /\ ListInv /\ SumInv
  BY TypeInit, ListInit, SumInit
<1>2. TypeInv /\ ListInv /\ SumInv /\ [Next]_vars => TypeInv' /\ ListInv' /\ SumInv'
  BY TypeNext, ListNext, SumNext
<1>3. TypeInv /\ SumInv => TotalsAddUp
  BY TotalsFollow
<1>4. QED BY <1>1, <1>2, <1>3, PTL DEF Spec

-----------------------------------------------------------------------------
(* Trees that differ in one node.                                          *)

\* The node of c under ty has other problems; the others are what they were.
Swapped(r, tree, ty, c, page, v) ==
  /\ r \in Trees
  /\ \A x \in Types, d \in Contests :
       /\ Listed(r, x, d) <=> Listed(tree, x, d) \/ (x = ty /\ d = c)
       /\ Listed(tree, x, d) /\ ~(x = ty /\ d = c) =>
            Vis(r, x, d) = Vis(tree, x, d) /\ Page(r, x, d) = Page(tree, x, d)
  /\ Vis(r, ty, c) = v /\ Page(r, ty, c) = page

\* A tree of the same shape.
LEMMA SwappedShape ==
  ASSUME NEW r \in Trees, NEW u, NEW tree, NEW ty \in Types, NEW c \in Contests, NEW page, NEW v,
         Swapped(u, tree, ty, c, page, v), \A x \in Types : r.types[x].contests = u.types[x].contests
  PROVE  Swapped(r, tree, ty, c, page, v)
<1>1. \A x \in Types, d \in Contests : /\ Listed(r, x, d) <=> Listed(u, x, d)
                                       /\ Vis(r, x, d) = Vis(u, x, d) /\ Page(r, x, d) = Page(u, x, d)
  BY DEF Listed, Vis, Page
<1>2. QED BY <1>1 DEF Swapped

\* A node stored.
LEMMA PutSwaps ==
  ASSUME NEW tree \in Trees, NEW ty \in Types, NEW c \in Contests, NEW node \in NodeType
  PROVE  Swapped(Put(tree, ty, With(tree.types[ty].contests, c, node)), tree, ty, c,
                 node.problems, node.info.visible)
<1>1. PICK contests \in Partial(Contests, NodeType) : contests = tree.types[ty].contests
  BY TreeFacts
<1>2. PICK more \in Partial(Contests, NodeType) :
        /\ more = With(contests, c, node) /\ DOMAIN more = DOMAIN contests \cup {c} /\ more[c] = node
        /\ \A d \in DOMAIN contests \ {c} : more[d] = contests[d]
  <2>1. PICK more : more = With(contests, c, node) OBVIOUS
  <2>2. /\ more \in Partial(Contests, NodeType) /\ DOMAIN more = DOMAIN contests \cup {c} /\ more[c] = node
        /\ \A d \in DOMAIN contests \ {c} : more[d] = contests[d]
    BY <2>1, WithFacts
  <2>3. QED BY <2>1, <2>2
<1>3. PICK r \in Trees : /\ r = Put(tree, ty, more) /\ r.types[ty].contests = more
                        /\ \A x \in Types : x # ty => r.types[x] = tree.types[x]
  BY PutFacts
<1>4. \A d \in Contests : Listed(r, ty, d) <=> Listed(tree, ty, d) \/ d = c
  BY <1>1, <1>2, <1>3 DEF Listed
<1>5. \A d \in Contests : Listed(tree, ty, d) /\ d # c =>
        Vis(r, ty, d) = Vis(tree, ty, d) /\ Page(r, ty, d) = Page(tree, ty, d)
  BY <1>1, <1>2, <1>3 DEF Listed, Vis, Page
<1>6. \A x \in Types, d \in Contests : x # ty =>
        /\ Listed(r, x, d) <=> Listed(tree, x, d)
        /\ Vis(r, x, d) = Vis(tree, x, d) /\ Page(r, x, d) = Page(tree, x, d)
  BY <1>3 DEF Listed, Vis, Page
<1>7. Vis(r, ty, c) = node.info.visible /\ Page(r, ty, c) = node.problems
  BY <1>2, <1>3 DEF Vis, Page
<1>8. Swapped(r, tree, ty, c, node.problems, node.info.visible)
  BY <1>4, <1>5, <1>6, <1>7 DEF Swapped
<1>9. QED BY <1>1, <1>2, <1>3, <1>8

\* A node stored, and its sums taken.
LEMMA NodeSwaps ==
  ASSUME NEW tree \in Trees, NEW ty \in Types, NEW owner \in Types, NEW c \in Contests,
         NEW node \in NodeType, NEW m \in BOOLEAN, NEW a \in BOOLEAN
  PROVE  Swapped(ReCalContest(Put(tree, ty, With(tree.types[ty].contests, c, node)), ty, owner, c, m, a),
                 tree, ty, c, node.problems, node.info.visible)
<1>1. PICK contests \in Partial(Contests, NodeType) : contests = tree.types[ty].contests
  BY TreeFacts
<1>2. PICK r : r = ReCalContest(Put(tree, ty, With(contests, c, node)), ty, owner, c, m, a) OBVIOUS
<1>3. CASE ~node.info.visible
  <2>1. r = Put(tree, ty, With(contests, c, node))
    BY <1>1, <1>2, <1>3, NodeTaken
  <2>2. QED BY <1>1, <1>2, <2>1, PutSwaps
<1>4. CASE node.info.visible
  <2>1. PICK new \in NodeType :
          Redone(new, node, m, a) /\ r = ReCalType(Put(tree, ty, With(contests, c, new)), owner, m, a)
    BY <1>1, <1>2, <1>4, NodeTaken
  <2>2. new.problems = node.problems /\ new.info.visible = node.info.visible
    <3>1. new.info \in Info /\ node.info \in Info
      BY DEF NodeType
    <3>2. new.info.visible \in BOOLEAN /\ node.info.visible \in BOOLEAN
      BY <3>1 DEF Info
    <3>3. QED BY <1>4, <2>1, <3>2 DEF Redone
  <2>3. PICK u : u = Put(tree, ty, With(contests, c, new)) OBVIOUS
  <2>4. Swapped(u, tree, ty, c, node.problems, node.info.visible)
    BY <1>1, <2>2, <2>3, PutSwaps
  <2>5. u \in Trees
    BY <2>4 DEF Swapped
  <2>6. r \in Trees /\ \A x \in Types : r.types[x].contests = u.types[x].contests
    <3>1. r = ReCalType(u, owner, m, a)
      BY <2>1, <2>3
    <3>2. QED BY <2>5, <3>1, ReCalTypeShape, SMTT(60)
  <2>7. Swapped(r, tree, ty, c, node.problems, node.info.visible)
    BY <2>4, <2>6, SwappedShape
  <2>8. QED BY <1>1, <1>2, <2>7
<1>5. QED BY <1>3, <1>4

\* Other problems of a listed contest, and its sums taken.
LEMMA ProblemsSwap ==
  ASSUME NEW tree \in Trees, NEW ty \in Types, NEW c \in Contests, Listed(tree, ty, c),
         NEW problems \in Partial(Problems, Info), NEW m \in BOOLEAN, NEW a \in BOOLEAN
  PROVE  Swapped(ReCalContest([tree EXCEPT !.types[ty].contests[c].problems = problems], ty, ty, c, m, a),
                 tree, ty, c, problems, Vis(tree, ty, c))
<1>1. PICK contests \in Partial(Contests, NodeType) : contests = tree.types[ty].contests
  BY TreeFacts
<1>2. c \in DOMAIN contests
  BY <1>1 DEF Listed
<1>3. PICK old \in NodeType : old = contests[c]
  BY <1>2, NodesFacts
<1>4. PICK node \in NodeType : /\ node = [old EXCEPT !.problems = problems]
                               /\ node.info = old.info /\ node.problems = problems
  <2>1. PICK node : node = [old EXCEPT !.problems = problems] OBVIOUS
  <2>2. node \in NodeType /\ node.info = old.info /\ node.problems = problems
    BY <2>1 DEF NodeType
  <2>3. QED BY <2>1, <2>2
<1>5. [tree EXCEPT !.types[ty].contests[c].problems = problems] = Put(tree, ty, With(contests, c, node))
  BY <1>1, <1>2, <1>3, <1>4, Zenon DEF With, Put
<1>6. PICK r : r = ReCalContest(Put(tree, ty, With(contests, c, node)), ty, ty, c, m, a) OBVIOUS
<1>7. Swapped(r, tree, ty, c, node.problems, node.info.visible)
  BY <1>1, <1>6, NodeSwaps
<1>8. node.info.visible = Vis(tree, ty, c)
  BY <1>1, <1>3, <1>4 DEF Vis
<1>9. QED BY <1>4, <1>5, <1>6, <1>7, <1>8

\* The lines of a listed contest.
LEMMA PageFacts ==
  ASSUME NEW tree \in Trees, NEW ty \in Types, NEW c \in Contests, Listed(tree, ty, c)
  PROVE  /\ Page(tree, ty, c) \in Partial(Problems, Info) /\ Vis(tree, ty, c) \in BOOLEAN
         /\ \A p \in DOMAIN Page(tree, ty, c) : p \in Problems /\ Page(tree, ty, c)[p] \in Info
<1>1. PICK contests \in Partial(Contests, NodeType) : contests = tree.types[ty].contests
  BY TreeFacts
<1>2. PICK node \in NodeType : node = contests[c]
  BY <1>1, NodesFacts DEF Listed
<1>3. node.problems \in Partial(Problems, Info) /\ node.info.visible \in BOOLEAN
  BY DEF NodeType, Info
<1>4. \A p \in DOMAIN node.problems : p \in Problems /\ node.problems[p] \in Info
  BY <1>3, PartialFacts
<1>5. QED BY <1>1, <1>2, <1>3, <1>4 DEF Page, Vis

\* Stored after another change of the same node.
LEMMA SwappedTwice ==
  ASSUME NEW tree, NEW u, NEW r, NEW ty \in Types, NEW c \in Contests, NEW page, NEW v, NEW more, NEW w,
         Swapped(u, tree, ty, c, page, v), Swapped(r, u, ty, c, more, w)
  PROVE  Swapped(r, tree, ty, c, more, w)
<1>1. ASSUME NEW x \in Types, NEW d \in Contests
      PROVE  /\ Listed(r, x, d) <=> Listed(tree, x, d) \/ (x = ty /\ d = c)
             /\ Listed(tree, x, d) /\ ~(x = ty /\ d = c) =>
                  Vis(r, x, d) = Vis(tree, x, d) /\ Page(r, x, d) = Page(tree, x, d)
  BY Zenon DEF Swapped
<1>2. QED BY <1>1, Zenon DEF Swapped

\* A contest is listed under ty alone, and the others are what they were.
Settled(r, tree, ty, c, page, v) ==
  /\ \A x \in Types, d \in Contests : d # c =>
       /\ Listed(r, x, d) <=> Listed(tree, x, d)
       /\ Listed(tree, x, d) => Vis(r, x, d) = Vis(tree, x, d) /\ Page(r, x, d) = Page(tree, x, d)
  /\ \A x \in Types : Listed(r, x, c) <=> x = ty
  /\ Vis(r, ty, c) = v /\ Page(r, ty, c) = page

\* That is so of a changed node.
LEMMA SwappedSettles ==
  ASSUME NEW tree, NEW r, NEW ty \in Types, NEW c \in Contests, NEW page, NEW v,
         Swapped(r, tree, ty, c, page, v), \A x \in Types : Listed(tree, x, c) => x = ty
  PROVE  Settled(r, tree, ty, c, page, v)
BY Zenon DEF Swapped, Settled

\* The tree is right when the changed node is.
LEMMA RightSettled ==
  ASSUME NEW tree, NEW r, NEW ty \in Types, NEW c \in Contests, NEW page, NEW v,
         Settled(r, tree, ty, c, page, v),
         NEW con, NEW prob, NEW truth, Right(tree, con, prob, truth),
         NEW con2, NEW prob2, NEW truth2,
         con2[c].there, con2[c].type = ty, con2[c].visible = v,
         \A d \in Contests : d # c => con2[d] = con[d],
         \A p \in Problems : Home[p] # c => prob2[p] = prob[p] /\ (\A i \in truth[p] : i \in truth2[p]),
         \A p \in Problems : p \in DOMAIN page <=> prob2[p].visible /\ Home[p] = c,
         \A p \in Problems : p \in DOMAIN page => Offers(page[p], prob2[p]) /\ page[p] \in truth2[p]
  PROVE  Right(r, con2, prob2, truth2)
<1>1. ASSUME NEW x \in Types, NEW d \in Contests, Listed(r, x, d)
      PROVE  con2[d].there /\ con2[d].type = x /\ Vis(r, x, d) = con2[d].visible
  <2>1. CASE d = c
    BY <1>1, <2>1 DEF Settled
  <2>2. CASE d # c
    <3>1. Listed(tree, x, d) /\ Vis(r, x, d) = Vis(tree, x, d)
      BY <1>1, <2>2 DEF Settled
    <3>2. QED BY <2>2, <3>1 DEF Right
  <2>3. QED BY <2>1, <2>2
<1>2. ASSUME NEW x \in Types, NEW d \in Contests, NEW p \in Problems
      PROVE  /\ Holds(r, x, d, p) <=> prob2[p].visible /\ d = Home[p] /\ x = con2[d].type
             /\ Holds(r, x, d, p) => Offers(Line(r, x, d, p), prob2[p]) /\ Line(r, x, d, p) \in truth2[p]
  <2>1. CASE d = c
    <3>1. Listed(r, x, d) <=> x = ty
      BY <2>1 DEF Settled
    <3>2. x = ty => Page(r, x, d) = page
      BY <2>1 DEF Settled
    <3>3. QED BY <2>1, <3>1, <3>2 DEF Holds, Line
  <2>2. CASE d # c
    <3>1. /\ Listed(r, x, d) <=> Listed(tree, x, d)
          /\ Listed(tree, x, d) => Page(r, x, d) = Page(tree, x, d)
      BY <2>2 DEF Settled
    <3>2. /\ Holds(r, x, d, p) <=> Holds(tree, x, d, p)
          /\ Holds(tree, x, d, p) => Line(r, x, d, p) = Line(tree, x, d, p)
      BY <3>1 DEF Holds, Line
    <3>3. /\ Holds(tree, x, d, p) <=> prob[p].visible /\ d = Home[p] /\ x = con[d].type
          /\ Holds(tree, x, d, p) => Offers(Line(tree, x, d, p), prob[p]) /\ Line(tree, x, d, p) \in truth[p]
      BY DEF Right
    <3>4. CASE Home[p] = d
      <4>1. prob2[p] = prob[p] /\ (\A i \in truth[p] : i \in truth2[p]) /\ con2[d] = con[d]
        BY <2>2, <3>4
      <4>2. QED BY <3>2, <3>3, <4>1
    <3>5. CASE Home[p] # d
      BY <3>2, <3>3, <3>5
    <3>6. QED BY <3>4, <3>5
  <2>3. QED BY <2>1, <2>2
<1>3. QED BY <1>1, <1>2, ZenonT(60) DEF Right

\* In a right tree a contest is listed where its row says.
LEMMA RightLists ==
  ASSUME NEW tree, NEW con, NEW prob, NEW truth, Right(tree, con, prob, truth)
  PROVE  /\ \A x \in Types, d \in Contests : Listed(tree, x, d) => con[d].there /\ con[d].type = x
         /\ \A p \in Problems : prob[p].visible /\ con[Home[p]].type \in Types =>
              Holds(tree, con[Home[p]].type, Home[p], p)
<1>1. \A p \in Problems : Home[p] \in Contests
  BY HomeAssumption
<1>2. QED BY <1>1 DEF Right

\* What a line may tell does not depend on what it offers.
Sound(truth) ==
  \A p \in Problems : \A i, j \in Info : Alike(i, j) /\ i \in truth[p] => j \in truth[p]

\* The lines of a contest before a problem is migrated, none if it is not listed.
OldPage(tree, ty, c) == IF Listed(tree, ty, c) THEN Page(tree, ty, c) ELSE <<>>

\* The lines after: a visible problem has its line, with what it has earned.
Migrated(page, old, p, prob) ==
  /\ page \in Partial(Problems, Info)
  /\ \A x \in Problems : x \in DOMAIN page <=> x \in DOMAIN old \/ (prob.visible /\ x = p)
  /\ \A x \in DOMAIN old : ~(prob.visible /\ x = p) => page[x] = old[x]
  /\ prob.visible => /\ Offers(page[p], prob)
                     /\ Alike(page[p], IF p \in DOMAIN old THEN old[p] ELSE NewInfo)

\* A line that is migrated.
LEMMA LinePut ==
  ASSUME NEW old \in Partial(Problems, Info), NEW p \in Problems, NEW prob \in Rewards, prob.visible
  PROVE  LET info == IF p \in DOMAIN old THEN old[p] ELSE NewInfo
         IN Migrated(With(old, p, [info EXCEPT !.point = prob.point, !.visible = TRUE,
                                               !.contents = 1, !.problems = 1]), old, p, prob)
<1>1. PICK info \in Info : info = IF p \in DOMAIN old THEN old[p] ELSE NewInfo
  BY PartialFacts, NewInfoFacts
<1>2. PICK new : new = [info EXCEPT !.point = prob.point, !.visible = TRUE,
                                    !.contents = 1, !.problems = 1]
  OBVIOUS
<1>3. prob.point \in Nat
  BY PointsAssumption DEF Rewards
<1>4. new \in Info
  BY <1>2, <1>3 DEF Info
<1>5. Offers(new, prob)
  BY <1>2, <1>3 DEF Info, Offers
<1>6. Alike(new, info)
  BY <1>2, <1>3 DEF Info, Alike, Earned
<1>7. PICK page : page = With(old, p, new) OBVIOUS
<1>8. page \in Partial(Problems, Info)
  BY <1>4, <1>7, ProblemsWithIn
<1>9. /\ DOMAIN page = DOMAIN old \cup {p} /\ page[p] = new
      /\ \A x \in DOMAIN old \ {p} : page[x] = old[x]
  BY <1>4, <1>7, ProblemsWith
<1>10. Migrated(page, old, p, prob)
  BY <1>1, <1>5, <1>6, <1>8, <1>9 DEF Migrated
<1>11. QED BY <1>1, <1>2, <1>7, <1>10, Zenon

\* migrateProblem changes one node.
LEMMA MigrateSwaps ==
  ASSUME NEW tree \in Trees, NEW row \in Rows, NEW c \in Contests, NEW p \in Problems, NEW prob \in Rewards
  PROVE  \E page : /\ Migrated(page, OldPage(tree, row.type, c), p, prob)
                   /\ Swapped(MigrateProblem(tree, row, c, p, prob), tree, row.type, c, page,
                              IF Listed(tree, row.type, c) THEN Vis(tree, row.type, c) ELSE row.visible)
<1>1. PICK ty \in Types : ty = row.type
  BY DEF Rows
<1>2. PICK base : base = IF Listed(tree, ty, c) THEN tree
                  ELSE [tree EXCEPT !.types[ty].contests = With(@, c, NewContest(row))]
  OBVIOUS
<1>3. PICK old : old = OldPage(tree, ty, c) OBVIOUS
<1>4. PICK v : v = IF Listed(tree, ty, c) THEN Vis(tree, ty, c) ELSE row.visible OBVIOUS
<1>5. old \in Partial(Problems, Info)
  BY <1>3, PageFacts, NoProblems DEF OldPage
<1>6. Swapped(base, tree, ty, c, old, v)
  <2>1. CASE Listed(tree, ty, c)
    BY <1>2, <1>3, <1>4, <2>1 DEF Swapped, OldPage
  <2>2. CASE ~Listed(tree, ty, c)
    <3>1. PICK contests \in Partial(Contests, NodeType) : contests = tree.types[ty].contests
      BY TreeFacts
    <3>2. PICK node \in NodeType : node = NewContest(row) /\ node.problems = <<>> /\ node.info.visible = row.visible
      BY NewContestFacts
    <3>3. base = [tree EXCEPT !.types[ty].contests = With(contests, c, node)]
      BY <1>2, <2>2, <3>1, <3>2, Zenon
    <3>4. base = Put(tree, ty, With(contests, c, node))
      BY <3>3, Zenon DEF Put
    <3>5. Swapped(base, tree, ty, c, node.problems, node.info.visible)
      BY <3>1, <3>4, PutSwaps
    <3>6. QED BY <1>3, <1>4, <2>2, <3>2, <3>5 DEF OldPage
  <2>3. QED BY <2>1, <2>2
<1>7. CASE ~prob.visible
  <2>1. MigrateProblem(tree, row, c, p, prob) = base
    BY <1>1, <1>2, <1>7, Zenon DEF MigrateProblem
  <2>2. Migrated(old, old, p, prob)
    BY <1>5, <1>7 DEF Migrated
  <2>3. QED BY <1>1, <1>3, <1>4, <1>6, <2>1, <2>2
<1>8. CASE prob.visible
  <2>1. PICK page : page = With(old, p, [(IF p \in DOMAIN old THEN old[p] ELSE NewInfo)
                              EXCEPT !.point = prob.point, !.visible = TRUE, !.contents = 1, !.problems = 1])
    OBVIOUS
  <2>2. Migrated(page, old, p, prob)
    BY <1>5, <1>8, <2>1, LinePut, Zenon
  <2>3. PICK r : r = ReCalContest([base EXCEPT !.types[ty].contests[c].problems = page], ty, ty, c, TRUE, FALSE)
    BY Zenon
  <2>4. old = base.types[ty].contests[c].problems /\ Vis(base, ty, c) = v
    BY <1>6 DEF Swapped, Page
  <2>5. r = MigrateProblem(tree, row, c, p, prob)
    <3>1. r = ReCalContest(
                [base EXCEPT !.types[ty].contests[c].problems =
                   With(@, p, [(IF p \in DOMAIN base.types[ty].contests[c].problems
                                THEN base.types[ty].contests[c].problems[p] ELSE NewInfo)
                                 EXCEPT !.point = prob.point, !.visible = TRUE,
                                        !.contents = 1, !.problems = 1])],
                ty, ty, c, TRUE, FALSE)
      BY <2>1, <2>3, <2>4, Zenon
    <3> DEFINE first == IF Listed(tree, row.type, c) THEN tree
                        ELSE [tree EXCEPT !.types[row.type].contests = With(@, c, NewContest(row))]
               lines == first.types[row.type].contests[c].problems
               info == IF p \in DOMAIN lines THEN lines[p] ELSE NewInfo
               last == ReCalContest(
                         [first EXCEPT !.types[row.type].contests[c].problems =
                            With(@, p, [info EXCEPT !.point = prob.point, !.visible = TRUE,
                                                    !.contents = 1, !.problems = 1])],
                         row.type, row.type, c, TRUE, FALSE)
    <3>2. MigrateProblem(tree, row, c, p, prob) = last
      BY <1>8, Zenon DEF MigrateProblem
    <3>3. first = base
      BY <1>1, <1>2
    <3>4. last = r
      BY <1>1, <3>1, <3>3, ZenonT(60)
    <3>5. QED BY <3>2, <3>4, Zenon
  <2>6. base \in Trees /\ Listed(base, ty, c) /\ page \in Partial(Problems, Info)
    BY <1>6, <2>2 DEF Swapped, Migrated
  <2>7. Swapped(r, base, ty, c, page, v)
    BY <2>3, <2>4, <2>6, ProblemsSwap, Zenon
  <2>8. Swapped(r, tree, ty, c, page, v)
    BY <1>6, <2>7, SwappedTwice
  <2>9. QED BY <1>1, <1>3, <1>4, <2>2, <2>5, <2>8
<1>9. QED BY <1>7, <1>8

\* A problem is migrated: the tree is right again.
LEMMA MigrateRight ==
  ASSUME NEW tree \in Trees, NEW con, NEW prob \in [Problems -> {NoProblem} \cup Rewards], NEW truth, Sound(truth),
         NEW p \in Problems, Nearly(tree, con, prob, truth, p),
         NEW row \in Rows, con[Home[p]] = row, prob[p] \in Rewards
  PROVE  Right(MigrateProblem(tree, row, Home[p], p, prob[p]), con, prob, truth)
<1>1. PICK old \in {NoProblem} \cup Rewards :
        /\ Right(tree, con, [prob EXCEPT ![p] = old], truth)
        /\ old.visible => prob[p].visible
        /\ prob[p].visible /\ ~old.visible => NewInfo \in truth[p]
  BY DEF Nearly
<1>2. PICK prob1 : prob1 = [prob EXCEPT ![p] = old] OBVIOUS
<1>3. prob1[p] = old /\ \A q \in Problems : q # p => prob1[q] = prob[q]
  BY <1>2
<1>4. PICK c \in Contests : c = Home[p]
  BY HomeAssumption
<1>5. PICK ty \in Types : ty = row.type
  BY DEF Rows
<1>6. PICK r : r = MigrateProblem(tree, row, c, p, prob[p]) OBVIOUS
<1>7. PICK v : v = IF Listed(tree, ty, c) THEN Vis(tree, ty, c) ELSE row.visible OBVIOUS
<1>8. PICK page : Migrated(page, OldPage(tree, ty, c), p, prob[p]) /\ Swapped(r, tree, ty, c, page, v)
  BY <1>5, <1>6, <1>7, MigrateSwaps
<1>9. Right(tree, con, prob1, truth)
  BY <1>1, <1>2
<1>10. \A x \in Types : Listed(tree, x, c) => x = ty
  BY <1>4, <1>5, <1>9 DEF Right
<1>11. Settled(r, tree, ty, c, page, v)
  BY <1>8, <1>10, SwappedSettles
<1>12. con[c].there /\ con[c].type = ty /\ con[c].visible = v
  BY <1>4, <1>5, <1>7, <1>9, ZenonT(60) DEF Right, Rows
<1>13. PICK lines : lines = OldPage(tree, ty, c) OBVIOUS
<1>14. \A q \in Problems : q \in DOMAIN lines <=> Holds(tree, ty, c, q)
  BY <1>13 DEF OldPage, Holds
<1>15. \A q \in Problems : q \in DOMAIN lines => lines[q] = Line(tree, ty, c, q) /\ lines[q] \in Info
  BY <1>13, PageFacts DEF OldPage, Holds, Line
<1>16. \A q \in Problems : q \in DOMAIN lines <=> prob1[q].visible /\ c = Home[q]
  BY <1>9, <1>12, <1>14 DEF Right
<1>17. \A q \in Problems : q \in DOMAIN lines => Offers(lines[q], prob1[q]) /\ lines[q] \in truth[q]
  BY <1>9, <1>14, <1>15 DEF Right
<1>18. \A q \in Problems : q \in DOMAIN page <=> prob[q].visible /\ Home[q] = c
  BY <1>1, <1>3, <1>4, <1>8, <1>13, <1>16 DEF Migrated
<1>19. ASSUME NEW q \in Problems, q \in DOMAIN page PROVE Offers(page[q], prob[q]) /\ page[q] \in truth[q]
  <2>1. CASE q = p
    <3>1. prob[p].visible
      BY <1>18, <1>19, <2>1
    <3>2. Offers(page[p], prob[p]) /\ Alike(page[p], IF p \in DOMAIN lines THEN lines[p] ELSE NewInfo)
      BY <1>8, <1>13, <3>1 DEF Migrated
    <3>3. page[p] \in Info
      BY <1>8, <1>19, <2>1, PartialFacts DEF Migrated
    <3>4. PICK info \in Info : info = IF p \in DOMAIN lines THEN lines[p] ELSE NewInfo
      BY <1>15, NewInfoFacts
    <3>5. info \in truth[p]
      BY <1>1, <1>3, <1>4, <1>16, <1>17, <3>1, <3>4
    <3>6. Alike(info, page[p])
      BY <3>2, <3>4 DEF Alike
    <3>7. page[p] \in truth[p]
      BY <3>3, <3>4, <3>5, <3>6 DEF Sound
    <3>8. QED BY <2>1, <3>2, <3>7
  <2>2. CASE q # p
    <3>1. q \in DOMAIN lines /\ page[q] = lines[q]
      BY <1>8, <1>13, <1>19, <2>2 DEF Migrated
    <3>2. QED BY <1>3, <1>17, <2>2, <3>1
  <2>3. QED BY <2>1, <2>2
<1>20. \A q \in Problems : Home[q] # c => prob[q] = prob1[q] /\ (\A i \in truth[q] : i \in truth[q])
  BY <1>3, <1>4
<1>21. Right(r, con, prob, truth)
  BY <1>9, <1>11, <1>12, <1>18, <1>19, <1>20, RightSettled
<1>22. QED BY <1>4, <1>6, <1>21

\* A tree with the same contests is as right, and tells no more of problems that
\* are not shown.
LEMMA RightTells ==
  ASSUME NEW tree, NEW r, \A x \in Types : r.types[x].contests = tree.types[x].contests,
         NEW con, NEW prob, NEW truth, Right(tree, con, prob, truth), NEW truth2,
         \A p \in Problems : prob[p].visible => \A i \in truth[p] : i \in truth2[p]
  PROVE  Right(r, con, prob, truth2)
<1>1. ASSUME NEW x \in Types, NEW d \in Contests
      PROVE  /\ Listed(r, x, d) <=> Listed(tree, x, d)
             /\ Vis(r, x, d) = Vis(tree, x, d) /\ Page(r, x, d) = Page(tree, x, d)
  BY DEF Listed, Vis, Page
<1>2. ASSUME NEW x \in Types, NEW d \in Contests, NEW p \in Problems
      PROVE  /\ Holds(r, x, d, p) <=> Holds(tree, x, d, p)
             /\ Line(r, x, d, p) = Line(tree, x, d, p)
  BY <1>1 DEF Holds, Line
<1>3. \A x \in Types, d \in Contests : Listed(r, x, d) =>
        con[d].there /\ con[d].type = x /\ Vis(r, x, d) = con[d].visible
  BY <1>1 DEF Right
<1>4. \A x \in Types, d \in Contests, p \in Problems :
        Holds(r, x, d, p) <=> prob[p].visible /\ d = Home[p] /\ x = con[d].type
  BY <1>2 DEF Right
<1>5. \A x \in Types, d \in Contests, p \in Problems : Holds(r, x, d, p) =>
        Offers(Line(r, x, d, p), prob[p]) /\ Line(r, x, d, p) \in truth2[p]
  BY <1>2, <1>4 DEF Right
<1>6. QED BY <1>3, <1>4, <1>5, Zenon DEF Right

\* Rows that list the same contests and show the same problems.
LEMMA RightRows ==
  ASSUME NEW tree, NEW con, NEW prob, NEW truth, Right(tree, con, prob, truth), NEW prob2,
         \A p \in Problems : prob2[p] = prob[p] \/ (~prob2[p].visible /\ ~prob[p].visible)
  PROVE  Right(tree, con, prob2, truth)
BY DEF Right, Offers

\* The lines of a listed contest in a right tree.
LEMMA RightPage ==
  ASSUME NEW tree \in Trees, NEW con, NEW prob, NEW truth, Right(tree, con, prob, truth),
         NEW ty \in Types, NEW c \in Contests, Listed(tree, ty, c), NEW page, page = Page(tree, ty, c)
  PROVE  /\ page \in Partial(Problems, Info) /\ Vis(tree, ty, c) = con[c].visible
         /\ con[c].there /\ con[c].type = ty
         /\ \A x \in Types : Listed(tree, x, c) => x = ty
         /\ \A q \in Problems : q \in DOMAIN page <=> prob[q].visible /\ Home[q] = c
         /\ \A q \in Problems : q \in DOMAIN page =>
              page[q] \in Info /\ Offers(page[q], prob[q]) /\ page[q] \in truth[q]
<1>1. page \in Partial(Problems, Info)
  BY PageFacts
<1>2. con[c].there /\ con[c].type = ty /\ Vis(tree, ty, c) = con[c].visible
      /\ \A x \in Types : Listed(tree, x, c) => x = ty
  BY DEF Right
<1>3. \A q \in Problems : (q \in DOMAIN page <=> Holds(tree, ty, c, q)) /\ page[q] = Line(tree, ty, c, q)
  BY DEF Holds, Line
<1>4. \A q \in Problems : q \in DOMAIN page <=> prob[q].visible /\ Home[q] = c
  BY <1>2, <1>3 DEF Right
<1>5. \A q \in Problems : q \in DOMAIN page => Offers(page[q], prob[q]) /\ page[q] \in truth[q]
  BY <1>3 DEF Right
<1>6. \A q \in Problems : q \in DOMAIN page => page[q] \in Info
  BY PageFacts
<1>7. QED BY <1>1, <1>2, <1>4, <1>5, <1>6

\* deleteProblem: the tree is right when the row has gone.
LEMMA RemoveRight ==
  ASSUME NEW tree \in Trees, NEW con, NEW prob, prob = [q \in Problems |-> prob[q]], NEW truth,
         Right(tree, con, prob, truth), NEW p \in Problems, NEW row \in Rows, con[Home[p]] = row
  PROVE  Right(RemoveProblem(tree, row, Home[p], p), con, [prob EXCEPT ![p] = NoProblem], truth)
<1>1. PICK c \in Contests : c = Home[p]
  BY HomeAssumption
<1>2. PICK ty \in Types : ty = row.type
  BY DEF Rows
<1>3. PICK prob2 : prob2 = [prob EXCEPT ![p] = NoProblem] OBVIOUS
<1>4. ~prob2[p].visible /\ \A q \in Problems : q # p => prob2[q] = prob[q]
  BY <1>3 DEF NoProblem
<1>5. PICK r : r = RemoveProblem(tree, row, c, p) OBVIOUS
<1>6. CASE Listed(tree, ty, c) /\ p \in DOMAIN Page(tree, ty, c)
  <2>1. PICK old \in Partial(Problems, Info) : old = Page(tree, ty, c)
    BY <1>6, PageFacts
  <2>2. PICK page : page = Without(old, p) OBVIOUS
  <2>3. page \in Partial(Problems, Info)
    BY <2>2, ProblemsWithoutIn
  <2>4. DOMAIN page = DOMAIN old \ {p} /\ \A x \in DOMAIN old \ {p} : page[x] = old[x]
    BY <2>2, ProblemsWithout
  <2>5. r = ReCalContest([tree EXCEPT !.types[ty].contests[c].problems = page], ty, ty, c, TRUE, TRUE)
    BY <1>2, <1>5, <1>6, <2>1, <2>2, Zenon DEF RemoveProblem, Page
  <2>6. Swapped(r, tree, ty, c, page, Vis(tree, ty, c))
    BY <1>6, <2>3, <2>5, ProblemsSwap
  <2>7. /\ Vis(tree, ty, c) = con[c].visible
        /\ con[c].there /\ con[c].type = ty
        /\ \A x \in Types : Listed(tree, x, c) => x = ty
        /\ \A q \in Problems : q \in DOMAIN old <=> prob[q].visible /\ Home[q] = c
        /\ \A q \in Problems : q \in DOMAIN old => Offers(old[q], prob[q]) /\ old[q] \in truth[q]
    BY <1>6, <2>1, RightPage
  <2>8. Settled(r, tree, ty, c, page, Vis(tree, ty, c))
    BY <2>6, <2>7, SwappedSettles
  <2>9. \A q \in Problems : q \in DOMAIN page <=> prob2[q].visible /\ Home[q] = c
    BY <1>4, <2>4, <2>7
  <2>10. \A q \in Problems : q \in DOMAIN page => Offers(page[q], prob2[q]) /\ page[q] \in truth[q]
    BY <1>4, <2>4, <2>7
  <2>11. \A q \in Problems : Home[q] # c => prob2[q] = prob[q] /\ (\A i \in truth[q] : i \in truth[q])
    BY <1>1, <1>4
  <2>12. Right(r, con, prob2, truth)
    BY <2>7, <2>8, <2>9, <2>10, <2>11, RightSettled
  <2>13. QED BY <1>1, <1>3, <1>5, <2>12
<1>7. CASE ~(Listed(tree, ty, c) /\ p \in DOMAIN Page(tree, ty, c))
  <2>1. r = tree
    BY <1>2, <1>5, <1>7 DEF RemoveProblem, Page
  <2>2. ~prob[p].visible
    BY <1>1, <1>2, <1>7 DEF Right, Holds
  <2>3. Right(r, con, prob2, truth)
    <3>1. \A q \in Problems : prob2[q] = prob[q] \/ (~prob2[q].visible /\ ~prob[q].visible)
      BY <1>4, <2>2
    <3>2. Right(tree, con, prob2, truth)
      BY <3>1, RightRows, Zenon
    <3>3. QED BY <2>1, <3>2
  <2>4. QED BY <1>1, <1>3, <1>5, <2>3
<1>8. QED BY <1>6, <1>7

\* A submission in a line: the line tells of nothing else.
LEMMA OutcomeTells ==
  ASSUME NEW info \in Info, NEW sub, IsSub(sub)
  PROVE  /\ Outcome(info, sub) \in Info /\ Alike(Outcome(info, sub), Outcome(NewInfo, sub))
         /\ \A prob : Offers(info, prob) => Offers(Outcome(info, sub), prob)
<1>1. PICK ok \in BOOLEAN : ok = (sub.result = "passed") OBVIOUS
<1>2. PICK earned \in Nat : earned = IF ok THEN sub.score ELSE 0
  BY DEF IsSub
<1>3. PICK solved \in Nat : solved = IF ok THEN 1 ELSE 0 OBVIOUS
<1>4. ASSUME NEW i \in Info
      PROVE  /\ Outcome(i, sub).score = earned /\ Outcome(i, sub).passed = ok
             /\ Outcome(i, sub).solvedProblems = solved /\ Outcome(i, sub).subProblems = 1
             /\ Outcome(i, sub).submitted
             /\ Outcome(i, sub).visible = i.visible /\ Outcome(i, sub).point = i.point
             /\ Outcome(i, sub).problems = i.problems
  <2>1. PICK r : r = [i EXCEPT !.score = earned, !.passed = ok,
                               !.solvedContents = solved, !.solvedProblems = solved,
                               !.subProblems = 1, !.subContents = 1, !.submitted = TRUE]
    OBVIOUS
  <2>2. r = Outcome(i, sub)
    BY <1>1, <1>2, <1>3, <2>1, Zenon DEF Outcome
  <2>3. /\ r.score = earned /\ r.passed = ok /\ r.solvedProblems = solved /\ r.subProblems = 1
        /\ r.submitted = TRUE /\ r.visible = i.visible /\ r.point = i.point /\ r.problems = i.problems
    BY <2>1 DEF Info
  <2>4. QED BY <2>2, <2>3
<1>5. PICK i \in Info : i = NewInfo
  BY NewInfoFacts
<1>6. Alike(Outcome(info, sub), Outcome(i, sub))
  <2>1. /\ Outcome(info, sub).submitted = TRUE /\ Outcome(i, sub).submitted = TRUE
        /\ Outcome(info, sub).passed = ok /\ Outcome(i, sub).passed = ok
    <3>1. PICK r, u : r = Outcome(info, sub) /\ u = Outcome(i, sub) OBVIOUS
    <3>2. r \in Info /\ u \in Info
      BY <3>1, OutcomeFacts
    <3>3. r.submitted \in BOOLEAN /\ u.submitted \in BOOLEAN
      BY <3>2 DEF Info
    <3>4. QED BY <1>4, <3>1, <3>3
  <2>2. \A f \in Earned : Outcome(info, sub)[f] = Outcome(i, sub)[f]
    BY <1>4 DEF Earned
  <2>3. QED BY <2>1, <2>2 DEF Alike
<1>7. \A prob : Offers(info, prob) => Offers(Outcome(info, sub), prob)
  BY <1>4 DEF Offers
<1>8. Outcome(info, sub) \in Info
  BY OutcomeFacts
<1>9. QED BY <1>5, <1>6, <1>7, <1>8

\* associateSubmission.
LEMMA AssociateRight ==
  ASSUME NEW tree \in Trees, NEW con, NEW prob, NEW truth, truth = [p \in Problems |-> truth[p]],
         Right(tree, con, prob, truth), NEW sub, IsSub(sub),
         NEW c \in Contests, c = Home[sub.problem], NEW ty \in Types, ty = con[c].type
  PROVE  Right(Associate(tree, ty, c, sub), con, prob, Telling(truth, sub))
<1>1. PICK p \in Problems : p = sub.problem
  BY DEF IsSub
<1>2. PICK truth2 : truth2 = Telling(truth, sub) OBVIOUS
<1>3. /\ truth2[p] = {info \in Info : Alike(info, Outcome(NewInfo, sub))}
      /\ \A q \in Problems : q # p => truth2[q] = truth[q]
  BY <1>1, <1>2 DEF Telling
<1>4. PICK r : r = Associate(tree, ty, c, sub) OBVIOUS
<1>5. CASE ~Listed(tree, ty, c) \/ p \notin DOMAIN Page(tree, ty, c)
  <2>1. r \in {tree, ReCalType(tree, ty, FALSE, TRUE)}
    <3>1. CASE ~Listed(tree, ty, c)
      BY <1>4, <3>1, AssociateUnlisted
    <3>2. CASE p \notin DOMAIN Page(tree, ty, c)
      BY <1>1, <1>4, <3>2, Zenon DEF Associate, Page
    <3>3. QED BY <1>5, <3>1, <3>2
  <2>2. \A x \in Types : r.types[x].contests = tree.types[x].contests
    <3>1. CASE r = ReCalType(tree, ty, FALSE, TRUE)
      <4>1. SameShape(r, tree)
        BY <3>1, ReCalTypeKeeps
      <4>2. QED BY <4>1 DEF SameShape
    <3>2. QED BY <2>1, <3>1
  <2>3. ~prob[p].visible
    BY <1>1, <1>5 DEF Right, Holds
  <2>4. \A q \in Problems : prob[q].visible => \A i \in truth[q] : i \in truth2[q]
    BY <1>3, <2>3
  <2>5. Right(r, con, prob, truth2)
    BY <2>2, <2>4, RightTells
  <2>6. QED BY <1>2, <1>4, <2>5
<1>6. CASE Listed(tree, ty, c) /\ p \in DOMAIN Page(tree, ty, c)
  <2>1. PICK old \in Partial(Problems, Info) : old = Page(tree, ty, c)
    BY <1>6, PageFacts
  <2>2. /\ Vis(tree, ty, c) = con[c].visible
        /\ con[c].there /\ con[c].type = ty
        /\ \A x \in Types : Listed(tree, x, c) => x = ty
        /\ \A q \in Problems : q \in DOMAIN old <=> prob[q].visible /\ Home[q] = c
        /\ \A q \in Problems : q \in DOMAIN old =>
             old[q] \in Info /\ Offers(old[q], prob[q]) /\ old[q] \in truth[q]
    BY <1>6, <2>1, RightPage, SMTT(60)
  <2>3. PICK info \in Info : info = old[p]
    BY <1>6, <2>1, <2>2
  <2>4. PICK new \in Info : /\ new = Outcome(info, sub) /\ Alike(new, Outcome(NewInfo, sub))
                            /\ Offers(new, prob[p])
    BY <1>6, <2>1, <2>2, <2>3, OutcomeTells
  <2>5. PICK page : page = [old EXCEPT ![p] = new] OBVIOUS
  <2>6. /\ page \in Partial(Problems, Info) /\ DOMAIN page = DOMAIN old
        /\ p \in DOMAIN old => page[p] = new
        /\ \A x \in DOMAIN old : x # p => page[x] = old[x]
    BY <2>5, ExceptFacts
  <2>7. r = ReCalContest([tree EXCEPT !.types[ty].contests[c].problems = page], ty, ty, c, FALSE, TRUE)
    BY <1>1, <1>4, <1>6, <2>1, <2>3, <2>4, <2>5, Zenon DEF Associate, Page
  <2>8. Swapped(r, tree, ty, c, page, Vis(tree, ty, c))
    BY <1>6, <2>6, <2>7, ProblemsSwap, Zenon
  <2>9. Settled(r, tree, ty, c, page, Vis(tree, ty, c))
    BY <2>2, <2>8, SwappedSettles
  <2>10. \A q \in Problems : q \in DOMAIN page => Offers(page[q], prob[q]) /\ page[q] \in truth2[q]
    BY <1>3, <2>2, <2>4, <2>6
  <2>11. \A q \in Problems : q \in DOMAIN page <=> prob[q].visible /\ Home[q] = c
    BY <2>2, <2>6
  <2>12. \A q \in Problems : Home[q] # c => prob[q] = prob[q] /\ (\A i \in truth[q] : i \in truth2[q])
    BY <1>1, <1>3
  <2>13. Right(r, con, prob, truth2)
    BY <2>2, <2>9, <2>10, <2>11, <2>12, RightSettled
  <2>14. QED BY <1>2, <1>4, <2>13
<1>7. QED BY <1>5, <1>6

\* A contest whose row has gone, or that is not listed: the tree is right without it.
LEMMA RightGone ==
  ASSUME NEW tree, NEW r, NEW c \in Contests,
         \A x \in Types : ~Listed(r, x, c),
         \A x \in Types, d \in Contests : d # c =>
           /\ Listed(r, x, d) <=> Listed(tree, x, d)
           /\ Listed(tree, x, d) => Vis(r, x, d) = Vis(tree, x, d) /\ Page(r, x, d) = Page(tree, x, d),
         NEW con, NEW prob, NEW truth, Right(tree, con, prob, truth), NEW con2, NEW prob2,
         \A d \in Contests : d # c => con2[d] = con[d],
         \A p \in Problems : Home[p] # c => prob2[p] = prob[p],
         \A p \in Problems : Home[p] = c => ~prob2[p].visible
  PROVE  Right(r, con2, prob2, truth)
<1>1. ASSUME NEW x \in Types, NEW d \in Contests, Listed(r, x, d)
      PROVE  con2[d].there /\ con2[d].type = x /\ Vis(r, x, d) = con2[d].visible
  BY <1>1 DEF Right
<1>2. ASSUME NEW x \in Types, NEW d \in Contests, NEW p \in Problems
      PROVE  /\ Holds(r, x, d, p) <=> prob2[p].visible /\ d = Home[p] /\ x = con2[d].type
             /\ Holds(r, x, d, p) => Offers(Line(r, x, d, p), prob2[p]) /\ Line(r, x, d, p) \in truth[p]
  <2>1. CASE d = c
    BY <2>1 DEF Holds
  <2>2. CASE d # c
    <3>1. /\ Holds(r, x, d, p) <=> Holds(tree, x, d, p)
          /\ Holds(tree, x, d, p) => Line(r, x, d, p) = Line(tree, x, d, p)
      BY <2>2 DEF Holds, Line
    <3>2. /\ Holds(tree, x, d, p) <=> prob[p].visible /\ d = Home[p] /\ x = con[d].type
          /\ Holds(tree, x, d, p) => Offers(Line(tree, x, d, p), prob[p]) /\ Line(tree, x, d, p) \in truth[p]
      BY DEF Right
    <3>3. CASE Home[p] = d
      <4>1. prob2[p] = prob[p] /\ con2[d] = con[d]
        BY <2>2, <3>3
      <4>2. QED BY <3>1, <3>2, <4>1
    <3>4. CASE Home[p] # d
      BY <3>1, <3>2, <3>4
    <3>5. QED BY <3>3, <3>4
  <2>3. QED BY <2>1, <2>2
<1>3. QED BY <1>1, <1>2, ZenonT(60) DEF Right

\* The node of an edited contest.
LEMMA UpdateSwaps ==
  ASSUME NEW tree \in Trees, NEW row \in Rows, NEW c \in Contests, Listed(tree, row.type, c),
         NEW owner \in Types
  PROVE  Swapped(UpdateContest(tree, row, owner, c), tree, row.type, c, Page(tree, row.type, c), row.visible)
<1>1. PICK ty \in Types : ty = row.type
  BY DEF Rows
<1>2. PICK v \in BOOLEAN : v = row.visible
  BY DEF Rows
<1>3. PICK contests \in Partial(Contests, NodeType) : contests = tree.types[ty].contests
  BY TreeFacts
<1>4. PICK node \in NodeType :
        /\ node.problems = Page(tree, ty, c) /\ node.info.visible = v
        /\ [tree EXCEPT !.types[ty].contests[c].info.visible = v] = Put(tree, ty, With(contests, c, node))
  <2>1. Listed(tree, ty, c)
    BY <1>1
  <2>2. PICK node \in NodeType : LET old == tree.types[ty].contests[c] IN
           /\ node.problems = old.problems /\ node.info.visible = v
           /\ \A f \in Fields : node.info[f] = old.info[f]
           /\ [tree EXCEPT !.types[ty].contests[c].info.visible = v]
                = Put(tree, ty, With(tree.types[ty].contests, c, node))
    BY <2>1, ShownNode, SMTT(60)
  <2>3. QED BY <1>3, <2>2 DEF Page
<1>5. PICK r : r = ReCalContest(Put(tree, ty, With(contests, c, node)), ty, owner, c, TRUE, FALSE)
  OBVIOUS
<1>6. r = UpdateContest(tree, row, owner, c)
  BY <1>1, <1>2, <1>4, <1>5, Zenon DEF UpdateContest
<1>7. Swapped(r, tree, ty, c, node.problems, node.info.visible)
  BY <1>3, <1>5, NodeSwaps
<1>8. QED BY <1>1, <1>2, <1>4, <1>6, <1>7

\* A contest that is moved and edited is listed where its row says.
LEMMA MoveSettles ==
  ASSUME NEW tree \in Trees, NEW row \in Rows, NEW c \in Contests, NEW from \in Types,
         Listed(tree, from, c), ~Listed(tree, row.type, c), \A x \in Types : Listed(tree, x, c) => x = from
  PROVE  Settled(UpdateContest(MoveContest(tree, row, from, c), row, from, c), tree, row.type, c,
                 Page(tree, from, c), row.visible)
<1>1. PICK node, more, less, moved :
        /\ Moving(tree, row.type, from, c, node, more, less, moved)
        /\ MoveContest(tree, row, from, c) = ReCalType(moved, row.type, TRUE, TRUE)
  BY MovingFacts, Zenon
<1>2. PICK to \in Types : to = row.type
  BY DEF Rows
<1>3. /\ to # from /\ moved \in Trees /\ node = tree.types[from].contests[c]
      /\ DOMAIN more = DOMAIN tree.types[to].contests \cup {c} /\ more[c] = node
      /\ \A d \in DOMAIN tree.types[to].contests : more[d] = tree.types[to].contests[d]
      /\ DOMAIN less = DOMAIN tree.types[from].contests \ {c}
      /\ \A d \in DOMAIN less : less[d] = tree.types[from].contests[d]
      /\ moved.types[to].contests = more /\ moved.types[from].contests = less
      /\ \A x \in Types : x \notin {to, from} => moved.types[x] = tree.types[x]
  BY <1>1, <1>2, Zenon DEF Moving
<1>4. PICK u \in Trees : /\ u = MoveContest(tree, row, from, c)
                         /\ \A x \in Types : u.types[x].contests = moved.types[x].contests
  <2>1. PICK u : u = ReCalType(moved, to, TRUE, TRUE) OBVIOUS
  <2>2. u \in Trees
    BY <1>3, <2>1, ReCalTypeIn
  <2>3. SameShape(u, moved)
    BY <1>3, <2>1, ReCalTypeKeeps
  <2>4. QED BY <1>1, <1>2, <2>1, <2>2, <2>3 DEF SameShape
<1>5. /\ \A d \in Contests : Listed(u, to, d) <=> Listed(tree, to, d) \/ d = c
      /\ \A d \in Contests : Listed(tree, to, d) =>
           Vis(u, to, d) = Vis(tree, to, d) /\ Page(u, to, d) = Page(tree, to, d)
      /\ Page(u, to, c) = Page(tree, from, c)
  BY <1>3, <1>4, SMTT(60) DEF Listed, Vis, Page
<1>6. /\ \A d \in Contests : Listed(u, from, d) <=> Listed(tree, from, d) /\ d # c
      /\ \A d \in Contests : Listed(tree, from, d) /\ d # c =>
           Vis(u, from, d) = Vis(tree, from, d) /\ Page(u, from, d) = Page(tree, from, d)
  BY <1>3, <1>4 DEF Listed, Vis, Page
<1>7. \A x \in Types, d \in Contests : x \notin {to, from} =>
        /\ Listed(u, x, d) <=> Listed(tree, x, d)
        /\ Vis(u, x, d) = Vis(tree, x, d) /\ Page(u, x, d) = Page(tree, x, d)
  BY <1>3, <1>4, SMTT(60) DEF Listed, Vis, Page
<1>8. PICK r : r = UpdateContest(u, row, from, c) OBVIOUS
<1>9. PICK v, page : v = row.visible /\ page = Page(tree, from, c) OBVIOUS
<1>10. Swapped(r, u, to, c, page, v)
  <2>1. Listed(u, row.type, c)
    BY <1>2, <1>5
  <2>2. Swapped(r, u, row.type, c, Page(u, row.type, c), row.visible)
    BY <1>8, <2>1, UpdateSwaps
  <2>3. QED BY <1>2, <1>5, <1>9, <2>2
<1>11. ASSUME NEW x \in Types, NEW d \in Contests, d # c
       PROVE  /\ Listed(r, x, d) <=> Listed(tree, x, d)
              /\ Listed(tree, x, d) => Vis(r, x, d) = Vis(tree, x, d) /\ Page(r, x, d) = Page(tree, x, d)
  <2>1. /\ Listed(u, x, d) <=> Listed(tree, x, d)
        /\ Listed(tree, x, d) => Vis(u, x, d) = Vis(tree, x, d) /\ Page(u, x, d) = Page(tree, x, d)
    BY <1>5, <1>6, <1>7, <1>11
  <2>2. /\ Listed(r, x, d) <=> Listed(u, x, d)
        /\ Listed(u, x, d) => Vis(r, x, d) = Vis(u, x, d) /\ Page(r, x, d) = Page(u, x, d)
    BY <1>10, <1>11 DEF Swapped
  <2>3. QED BY <2>1, <2>2
<1>12. \A x \in Types : Listed(r, x, c) <=> x = to
  <2>1. \A x \in Types : Listed(r, x, c) <=> Listed(u, x, c) \/ x = to
    BY <1>10 DEF Swapped
  <2>2. \A x \in Types : Listed(u, x, c) <=> x = to
    BY <1>3, <1>5, <1>6, <1>7
  <2>3. QED BY <2>1, <2>2
<1>13. Vis(r, to, c) = v /\ Page(r, to, c) = page
  BY <1>10 DEF Swapped
<1>14. Settled(r, tree, to, c, page, v)
  BY <1>11, <1>12, <1>13, Zenon DEF Settled
<1>15. QED BY <1>2, <1>4, <1>8, <1>9, <1>14

\* ResContest.migrateContest: the tree is right when the row is saved.
LEMMA MigrateContestRight ==
  ASSUME NEW tree \in Trees, NEW con, con = [d \in Contests |-> con[d]], NEW prob, NEW truth,
         Right(tree, con, prob, truth), NEW c \in Contests, NEW row \in Rows, con[c] \in Rows
  PROVE  Right(MigrateContest(tree, row, c), [con EXCEPT ![c] = row], prob, truth)
<1>1. PICK r : r = MigrateContest(tree, row, c) OBVIOUS
<1>2. PICK con2 : con2 = [con EXCEPT ![c] = row] OBVIOUS
<1>3. con2[c] = row /\ \A d \in Contests : d # c => con2[d] = con[d]
  BY <1>2
<1>4. PICK others \in SUBSET Types : others = {ty \in Types : Listed(tree, ty, c)} OBVIOUS
<1>5. PICK to \in Types : to = row.type
  BY DEF Rows
<1>6. PICK v : v = row.visible OBVIOUS
<1>7. row.there
  BY DEF Rows
<1>8. ASSUME NEW from \in Types, Listed(tree, from, c), Settled(r, tree, to, c, Page(tree, from, c), v)
      PROVE  Right(r, con2, prob, truth)
  <2>1. PICK page : page = Page(tree, from, c) OBVIOUS
  <2>2. /\ \A q \in Problems : q \in DOMAIN page <=> prob[q].visible /\ Home[q] = c
        /\ \A q \in Problems : q \in DOMAIN page => Offers(page[q], prob[q]) /\ page[q] \in truth[q]
    BY <1>8, <2>1, RightPage
  <2>3. con2[c].there /\ con2[c].type = to /\ con2[c].visible = v
    BY <1>3, <1>5, <1>6, <1>7
  <2>4. \A q \in Problems : Home[q] # c => prob[q] = prob[q] /\ (\A i \in truth[q] : i \in truth[q])
    OBVIOUS
  <2>5. Settled(r, tree, to, c, page, v)
    BY <1>8, <2>1
  <2>6. QED BY <1>3, <2>2, <2>3, <2>4, <2>5, RightSettled
<1>9. \A x, y \in Types : Listed(tree, x, c) /\ Listed(tree, y, c) => x = y
  BY DEF Right
<1>10. CASE row.type \in others
  <2>1. r = UpdateContest(tree, row, row.type, c)
    BY <1>1, <1>4, <1>10, Zenon DEF MigrateContest
  <2>2. Listed(tree, row.type, c)
    BY <1>4, <1>10
  <2>3. Swapped(r, tree, to, c, Page(tree, to, c), v)
    BY <1>5, <1>6, <2>1, <2>2, UpdateSwaps
  <2>4. Settled(r, tree, to, c, Page(tree, to, c), v)
    BY <1>5, <1>9, <2>2, <2>3, SwappedSettles
  <2>5. Right(r, con2, prob, truth)
    BY <1>5, <1>8, <2>2, <2>4
  <2>6. QED BY <1>1, <1>2, <2>5
<1>11. CASE others = {}
  <2>1. r = tree
    BY <1>1, <1>4, <1>11 DEF MigrateContest
  <2>2. \A x \in Types : ~Listed(tree, x, c)
    BY <1>4, <1>11
  <2>3. \A q \in Problems : Home[q] = c => ~prob[q].visible
    <3>1. con[c].type \in Types
      BY DEF Rows
    <3>2. QED BY <2>2, <3>1 DEF Right, Holds
  <2>4. Right(r, con2, prob, truth)
    BY <1>3, <2>1, <2>2, <2>3, RightGone
  <2>5. QED BY <1>1, <1>2, <2>4
<1>12. CASE row.type \notin others /\ others # {}
  <2>1. PICK from \in Types : from = (CHOOSE ty \in others : TRUE) /\ from \in others
    BY <1>12
  <2>2. r = UpdateContest(MoveContest(tree, row, from, c), row, from, c)
    BY <1>1, <1>4, <1>12, <2>1, Zenon DEF MigrateContest
  <2>3. Listed(tree, from, c) /\ ~Listed(tree, row.type, c)
    BY <1>4, <1>5, <1>12, <2>1
  <2>4. Settled(r, tree, to, c, Page(tree, from, c), v)
    BY <1>5, <1>6, <1>9, <2>2, <2>3, MoveSettles
  <2>5. Right(r, con2, prob, truth)
    BY <1>8, <2>3, <2>4
  <2>6. QED BY <1>1, <1>2, <2>5
<1>13. QED BY <1>10, <1>11, <1>12

\* deleteContest: the tree is right when the rows have gone.
LEMMA RemoveContestRight ==
  ASSUME NEW tree \in Trees, NEW con, con = [d \in Contests |-> con[d]], NEW prob, NEW truth,
         Right(tree, con, prob, truth), NEW c \in Contests, NEW row \in Rows, con[c] = row,
         NEW prob2, \A p \in Problems : prob2[p] = IF Home[p] = c THEN NoProblem ELSE prob[p]
  PROVE  Right(RemoveContest(tree, row, c), [con EXCEPT ![c] = NoContest], prob2, truth)
<1>1. PICK r : r = RemoveContest(tree, row, c) OBVIOUS
<1>2. PICK con2 : con2 = [con EXCEPT ![c] = NoContest] OBVIOUS
<1>3. \A d \in Contests : d # c => con2[d] = con[d]
  BY <1>2
<1>4. PICK ty \in Types : ty = row.type
  BY DEF Rows
<1>5. \A x \in Types : Listed(tree, x, c) => x = ty
  BY <1>4 DEF Right
<1>6. \A p \in Problems : (Home[p] # c => prob2[p] = prob[p]) /\ (Home[p] = c => ~prob2[p].visible)
  BY DEF NoProblem
<1>7. /\ \A x \in Types : ~Listed(r, x, c)
      /\ \A x \in Types, d \in Contests : d # c =>
           /\ Listed(r, x, d) <=> Listed(tree, x, d)
           /\ Listed(tree, x, d) => Vis(r, x, d) = Vis(tree, x, d) /\ Page(r, x, d) = Page(tree, x, d)
  <2>1. CASE Listed(tree, ty, c)
    <3>1. PICK contests \in Partial(Contests, NodeType) : contests = tree.types[ty].contests
      BY TreeFacts
    <3>2. PICK less \in Partial(Contests, NodeType) : less = Without(contests, c)
      BY ContestsWithoutIn
    <3>3. DOMAIN less = DOMAIN contests \ {c} /\ \A d \in DOMAIN contests \ {c} : less[d] = contests[d]
      BY <3>2, ContestsWithout, ZenonT(60)
    <3>4. PICK u \in Trees : /\ u = Put(tree, ty, less) /\ u.types[ty].contests = less
                            /\ \A x \in Types : x # ty => u.types[x] = tree.types[x]
      BY PutFacts
    <3>5. r = ReCalType(u, ty, TRUE, TRUE)
      BY <1>1, <1>4, <2>1, <3>1, <3>2, <3>4, Zenon DEF RemoveContest, Put
    <3>6. SameShape(r, u)
      BY <3>5, ReCalTypeKeeps
    <3>7. \A x \in Types : r.types[x].contests = u.types[x].contests
      BY <3>6 DEF SameShape
    <3>8. \A x \in Types : ~Listed(r, x, c)
      BY <1>5, <3>3, <3>4, <3>7 DEF Listed
    <3>9. ASSUME NEW d \in Contests, d # c
          PROVE  /\ Listed(r, ty, d) <=> Listed(tree, ty, d)
                 /\ Listed(tree, ty, d) => Vis(r, ty, d) = Vis(tree, ty, d) /\ Page(r, ty, d) = Page(tree, ty, d)
      BY <3>1, <3>3, <3>4, <3>7, <3>9, SMTT(60) DEF Listed, Vis, Page
    <3>10. ASSUME NEW d \in Contests, NEW x \in Types, x # ty
           PROVE  /\ Listed(r, x, d) <=> Listed(tree, x, d)
                  /\ Vis(r, x, d) = Vis(tree, x, d) /\ Page(r, x, d) = Page(tree, x, d)
      BY <3>4, <3>7, <3>10 DEF Listed, Vis, Page
    <3>11. QED BY <3>8, <3>9, <3>10
  <2>2. CASE ~Listed(tree, ty, c)
    <3>1. r = tree
      BY <1>1, <1>4, <2>2 DEF RemoveContest
    <3>2. QED BY <1>5, <2>2, <3>1
  <2>3. QED BY <2>1, <2>2
<1>8. Right(r, con2, prob2, truth)
  BY <1>3, <1>6, <1>7, RightGone
<1>9. QED BY <1>1, <1>2, <1>8

\* Lines that have earned nothing.
Fresh == [p \in Problems |-> {info \in Info : Alike(info, NewInfo)}]

\* What lines tell when some submissions are put into fresh ones.
Chosen(s) ==
  [p \in Problems |->
     {info \in Info : \/ (\A r \in s : r.problem # p) /\ Alike(info, NewInfo)
                      \/ \E r \in s : r.problem = p /\ Alike(info, Outcome(NewInfo, r))}]

\* A line tells what another does that has earned the same.
LEMMA AlikeFacts ==
  ASSUME NEW i, NEW j, NEW k, Alike(i, j)
  PROVE  Alike(j, i) /\ Alike(i, i) /\ (Alike(j, k) => Alike(i, k)) /\ (Alike(i, k) => Alike(j, k))
BY DEF Alike

\* Fresh lines.
LEMMA FreshFacts == Sound(Fresh) /\ \A p \in Problems : NewInfo \in Fresh[p]
<1>1. ASSUME NEW p \in Problems, NEW i \in Info, NEW j \in Info, Alike(i, j), i \in Fresh[p] PROVE j \in Fresh[p]
  <2>1. Alike(i, NewInfo)
    BY <1>1 DEF Fresh
  <2>2. Alike(j, NewInfo)
    BY <1>1, <2>1, AlikeFacts
  <2>3. QED BY <2>2 DEF Fresh
<1>2. ASSUME NEW p \in Problems PROVE NewInfo \in Fresh[p]
  <2>1. NewInfo \in Info /\ Alike(NewInfo, NewInfo)
    BY NewInfoFacts DEF Alike
  <2>2. QED BY <2>1 DEF Fresh
<1>3. QED BY <1>1, <1>2 DEF Sound

\* A new tree is right when no problem is shown.
LEMMA NewTreeRight ==
  ASSUME NEW con, NEW prob, NEW truth, \A p \in Problems : ~prob[p].visible
  PROVE  Right(NewTree, con, prob, truth)
<1>1. \A x \in Types, d \in Contests : ~Listed(NewTree, x, d)
  BY NewTreeFacts
<1>2. QED BY <1>1 DEF Right, Holds

\* The problems of a set, and no others.
Part(s) == [p \in Problems |-> IF p \in s THEN problem[p] ELSE NoProblem]

\* buildLecture makes a right tree.
LEMMA BuiltRight ==
  ASSUME RowsInv
  PROVE  Built(NewTree) \in Trees /\ Right(Built(NewTree), contest, problem, Fresh)
<1>1. NewTree \in Trees /\ IsFiniteSet(Existing)
  BY NewTreeFacts, RowFacts
<1>2. ASSUME NEW p \in Existing
      PROVE  /\ p \in Problems /\ Home[p] \in Contests /\ problem[p] \in Rewards
             /\ contest[Home[p]] \in Rows
  BY RowFacts
<1>3. ASSUME NEW p \in Existing, NEW tr \in Trees
      PROVE  MigrateProblem(tr, contest[Home[p]], Home[p], p, problem[p]) \in Trees
  <2>1. PICK row \in Rows, c \in Contests : row = contest[Home[p]] /\ c = Home[p]
    BY <1>2
  <2>2. PICK prob \in Rewards : prob = problem[p]
    BY <1>2
  <2>3. MigrateProblem(tr, row, c, p, prob) \in Trees
    BY <1>2, MigrateProblemFacts
  <2>4. QED BY <2>1, <2>2, <2>3
<1>4. PICK i : Building(i, NewTree) /\ Built(NewTree) = i[Existing]
  BY <1>1, <1>3, BuiltSteps
<1> DEFINE G == {s \in SUBSET Existing : i[s] \in Trees /\ Right(i[s], contest, Part(s), Fresh)}
<1>5. {} \in G
  <2>1. \A p \in Problems : ~Part({})[p].visible
    BY DEF Part, NoProblem
  <2>2. i[{}] = NewTree
    BY <1>4 DEF Building
  <2>3. QED BY <1>1, <2>1, <2>2, NewTreeRight
<1>6. ASSUME NEW s \in SUBSET Existing, s # {}, s \ {Some(s)} \in G PROVE s \in G
  <2>1. PICK p \in Existing : p = Some(s) /\ p \in s
    BY <1>6, SomeIn
  <2>2. PICK tr \in Trees : tr = i[s \ {p}] /\ Right(tr, contest, Part(s \ {p}), Fresh)
    BY <1>6, <2>1
  <2>3. i[s] = MigrateProblem(tr, contest[Home[p]], Home[p], p, problem[p])
    BY <1>4, <1>6, <2>1, <2>2 DEF Building
  <2>4. PICK prob : prob = Part(s) OBVIOUS
  <2>5. /\ prob \in [Problems -> {NoProblem} \cup Rewards] /\ prob[p] = problem[p] /\ prob[p] \in Rewards
        /\ Part(s \ {p}) = [prob EXCEPT ![p] = NoProblem]
    <3>1. \A q \in s : problem[q] \in Rewards
      BY <1>2
    <3>2. p \in Problems
      BY <1>2
    <3>3. prob = [q \in Problems |-> IF q \in s THEN problem[q] ELSE NoProblem]
      BY <2>4 DEF Part
    <3>4. prob \in [Problems -> {NoProblem} \cup Rewards] /\ prob[p] = problem[p] /\ prob[p] \in Rewards
      BY <2>1, <3>1, <3>2, <3>3
    <3>5. Part(s \ {p}) = [prob EXCEPT ![p] = NoProblem]
      BY <2>1, <3>2, <3>3 DEF Part
    <3>6. QED BY <3>4, <3>5
  <2>6. Nearly(tr, contest, prob, Fresh, p)
    <3>1. Right(tr, contest, [prob EXCEPT ![p] = NoProblem], Fresh)
      BY <2>2, <2>5
    <3>2. ~NoProblem.visible /\ NewInfo \in Fresh[p]
      BY <1>2, FreshFacts DEF NoProblem
    <3>3. QED BY <3>1, <3>2 DEF Nearly
  <2>7. PICK row \in Rows : row = contest[Home[p]]
    BY <1>2
  <2>8. Right(MigrateProblem(tr, row, Home[p], p, prob[p]), contest, prob, Fresh)
    BY <1>2, <2>5, <2>6, <2>7, FreshFacts, MigrateRight
  <2>9. i[s] \in Trees
    BY <1>3, <2>3
  <2>10. Right(i[s], contest, Part(s), Fresh)
    BY <2>3, <2>4, <2>5, <2>7, <2>8
  <2>11. QED BY <2>9, <2>10
<1>7. Existing \in G
  <2> HIDE DEF G
  <2> QED BY <1>1, <1>5, <1>6, SubsetsIn
<1>8. Part(Existing) = problem
  <2>1. \A p \in Problems : p \notin Existing => problem[p] = NoProblem
    BY DEF RowsInv, Existing, Rewards
  <2>2. problem = [p \in Problems |-> problem[p]]
    BY DEF RowsInv
  <2>3. Part(Existing) = [p \in Problems |-> problem[p]]
    BY <2>1 DEF Part
  <2>4. QED BY <2>2, <2>3
<1>9. QED BY <1>4, <1>7, <1>8

\* A cleaned tree is right, and tells of nothing.
LEMMA CleanRight ==
  ASSUME NEW tree \in Trees, NEW con, NEW prob, NEW truth, Right(tree, con, prob, truth)
  PROVE  Right(Clean(tree), con, prob, Fresh)
<1>1. PICK r : r = Clean(tree) OBVIOUS
<1>2. ASSUME NEW x \in Types, NEW d \in Contests
      PROVE  /\ Listed(r, x, d) <=> Listed(tree, x, d)
             /\ Listed(tree, x, d) =>
                  /\ Vis(r, x, d) = Vis(tree, x, d)
                  /\ DOMAIN Page(r, x, d) = DOMAIN Page(tree, x, d)
                  /\ \A p \in DOMAIN Page(tree, x, d) : Page(r, x, d)[p] = CleanInfo(Page(tree, x, d)[p])
  <2>1. r.types[x].contests = [c \in DOMAIN tree.types[x].contests |->
           [info |-> CleanInfo(tree.types[x].contests[c].info),
            problems |-> [p \in DOMAIN tree.types[x].contests[c].problems |->
                            CleanInfo(tree.types[x].contests[c].problems[p])]]]
    BY <1>1 DEF Clean
  <2>2. Listed(r, x, d) <=> Listed(tree, x, d)
    BY <2>1 DEF Listed
  <2>3. ASSUME Listed(tree, x, d)
        PROVE  /\ Vis(r, x, d) = CleanInfo(tree.types[x].contests[d].info).visible
               /\ Page(r, x, d) = [p \in DOMAIN Page(tree, x, d) |-> CleanInfo(Page(tree, x, d)[p])]
    <3>1. r.types[x].contests[d] =
            [info |-> CleanInfo(tree.types[x].contests[d].info),
             problems |-> [p \in DOMAIN tree.types[x].contests[d].problems |->
                             CleanInfo(tree.types[x].contests[d].problems[p])]]
      BY <2>1, <2>3 DEF Listed
    <3>2. QED BY <3>1 DEF Vis, Page
  <2>4. ASSUME Listed(tree, x, d) PROVE CleanInfo(tree.types[x].contests[d].info).visible = Vis(tree, x, d)
    BY DEF CleanInfo, NewInfo, Vis
  <2>5. QED BY <2>2, <2>3, <2>4
<1>3. ASSUME NEW info \in Info
      PROVE  /\ CleanInfo(info) \in Info /\ Alike(CleanInfo(info), NewInfo)
             /\ \A p : Offers(info, p) => Offers(CleanInfo(info), p)
  <2>1. CleanInfo(info) \in Info
    BY CleanInfoFacts
  <2>2. Alike(CleanInfo(info), NewInfo)
    BY DEF CleanInfo, NewInfo, Alike, Earned
  <2>3. \A p : Offers(info, p) => Offers(CleanInfo(info), p)
    BY DEF CleanInfo, NewInfo, Offers
  <2>4. QED BY <2>1, <2>2, <2>3
<1>4. ASSUME NEW x \in Types, NEW d \in Contests, NEW p \in Problems
      PROVE  /\ Holds(r, x, d, p) <=> Holds(tree, x, d, p)
             /\ Holds(tree, x, d, p) => /\ Line(r, x, d, p) = CleanInfo(Line(tree, x, d, p))
                                        /\ Line(tree, x, d, p) \in Info
  <2>1. Holds(r, x, d, p) <=> Holds(tree, x, d, p)
    BY <1>2 DEF Holds
  <2>2. Holds(tree, x, d, p) => Line(r, x, d, p) = CleanInfo(Line(tree, x, d, p))
    BY <1>2 DEF Holds, Line
  <2>3. Holds(tree, x, d, p) => Line(tree, x, d, p) \in Info
    BY PageFacts DEF Holds, Line
  <2>4. QED BY <2>1, <2>2, <2>3
<1>5. \A x \in Types, d \in Contests : Listed(r, x, d) =>
        con[d].there /\ con[d].type = x /\ Vis(r, x, d) = con[d].visible
  BY <1>2 DEF Right
<1>6. \A x \in Types, d \in Contests, p \in Problems :
        Holds(r, x, d, p) <=> prob[p].visible /\ d = Home[p] /\ x = con[d].type
  BY <1>4 DEF Right
<1>7. ASSUME NEW x \in Types, NEW d \in Contests, NEW p \in Problems, Holds(r, x, d, p)
      PROVE  Offers(Line(r, x, d, p), prob[p]) /\ Line(r, x, d, p) \in Fresh[p]
  <2>1. PICK info \in Info : info = Line(tree, x, d, p) /\ Line(r, x, d, p) = CleanInfo(info)
    BY <1>4, <1>7
  <2>2. Offers(info, prob[p])
    BY <1>4, <1>7, <2>1 DEF Right
  <2>3. CleanInfo(info) \in Info /\ Alike(CleanInfo(info), NewInfo) /\ Offers(CleanInfo(info), prob[p])
    BY <1>3, <2>2
  <2>4. QED BY <2>1, <2>3 DEF Fresh
<1>8. Right(r, con, prob, Fresh)
  BY <1>5, <1>6, <1>7, Zenon DEF Right
<1>9. QED BY <1>1, <1>8

\* A tree made anew is right, and tells of the chosen submissions.
LEMMA RebuiltRight ==
  ASSUME RowsInv, NEW chosen, IsFiniteSet(chosen),
         \A s \in chosen : IsSub(s) /\ problem[s.problem].there
  PROVE  Right(Rebuilt(chosen), contest, problem, Chosen(chosen))
<1>1. PICK built \in Trees : built = Built(NewTree) /\ Right(built, contest, problem, Fresh)
  BY BuiltRight
<1>2. PICK tree \in Trees : tree = Clean(Built(NewTree)) /\ Right(tree, contest, problem, Fresh)
  BY <1>1, CleanFacts, CleanRight
<1>3. ASSUME NEW s \in chosen
      PROVE  IsSub(s) /\ Home[s.problem] \in Contests /\ contest[Home[s.problem]].type \in Types
  <2>1. s.problem \in Existing /\ IsSub(s)
    BY DEF IsSub, Existing
  <2>2. Home[s.problem] \in Contests /\ contest[Home[s.problem]] \in Rows
    BY <2>1, RowFacts
  <2>3. QED BY <2>1, <2>2 DEF Rows
<1>4. ASSUME NEW s \in chosen, NEW tr \in Trees
      PROVE  Associate(tr, contest[Home[s.problem]].type, Home[s.problem], s) \in Trees
  BY <1>3, AssociateFacts
<1>5. PICK i : Rebuilding(i, tree, chosen) /\ Rebuilt(chosen) = i[chosen]
  BY <1>2, <1>4, RebuiltSteps
<1> DEFINE G == {s \in SUBSET chosen : i[s] \in Trees /\ Right(i[s], contest, problem, Chosen(s))}
<1>6. {} \in G
  <2>1. Chosen({}) = Fresh
    BY DEF Chosen, Fresh
  <2>2. i[{}] = tree
    BY <1>5 DEF Rebuilding
  <2>3. QED BY <1>2, <2>1, <2>2
<1>7. ASSUME NEW s \in SUBSET chosen, s # {}, s \ {Some(s)} \in G PROVE s \in G
  <2>1. PICK sub \in chosen : sub = Some(s) /\ sub \in s
    BY <1>7, SomeIn
  <2>2. PICK less : less = s \ {sub} OBVIOUS
  <2>3. PICK tr \in Trees : tr = i[less] /\ Right(tr, contest, problem, Chosen(less))
    BY <1>7, <2>1, <2>2
  <2>4. PICK c \in Contests : c = Home[sub.problem]
    BY <1>3
  <2>5. PICK ty \in Types : ty = contest[c].type
    BY <1>3, <2>4
  <2>6. PICK r : r = Associate(tr, ty, c, sub) OBVIOUS
  <2>7. i[s] = r
    BY <1>5, <1>7, <2>1, <2>2, <2>3, <2>4, <2>5, <2>6 DEF Rebuilding
  <2>8. r \in Trees
    BY <1>4, <2>4, <2>5, <2>6
  <2>9. PICK truth : truth = Chosen(less) OBVIOUS
  <2>10. truth = [p \in Problems |-> truth[p]]
    BY <2>9 DEF Chosen
  <2>11. IsSub(sub)
    BY <1>3
  <2>12. Right(r, contest, problem, Telling(truth, sub))
    BY <2>3, <2>4, <2>5, <2>6, <2>9, <2>10, <2>11, AssociateRight
  <2>13. ASSUME NEW p \in Problems, NEW info \in Telling(truth, sub)[p] PROVE info \in Chosen(s)[p]
    <3>1. CASE p = sub.problem
      <4>1. info \in Info /\ Alike(info, Outcome(NewInfo, sub))
        BY <2>10, <2>13, <3>1 DEF Telling
      <4>2. QED BY <2>1, <3>1, <4>1 DEF Chosen
    <3>2. CASE p # sub.problem
      <4>1. info \in Chosen(less)[p]
        BY <2>9, <2>10, <2>13, <3>2 DEF Telling
      <4>2. info \in Info
        BY <4>1 DEF Chosen
      <4>3. CASE (\A q \in less : q.problem # p) /\ Alike(info, NewInfo)
        BY <2>2, <3>2, <4>2, <4>3 DEF Chosen
      <4>4. CASE \E q \in less : q.problem = p /\ Alike(info, Outcome(NewInfo, q))
        BY <2>2, <4>2, <4>4 DEF Chosen
      <4>5. QED BY <4>1, <4>3, <4>4 DEF Chosen
    <3>3. QED BY <3>1, <3>2
  <2>14. Right(r, contest, problem, Chosen(s))
    BY <2>12, <2>13, RightTells
  <2>15. QED BY <2>7, <2>8, <2>14
<1>8. chosen \in G
  <2> HIDE DEF G
  <2> QED BY <1>6, <1>7, SubsetsIn
<1>9. QED BY <1>5, <1>8

-----------------------------------------------------------------------------
(* What right trees show.                                                  *)

\* A line of a shown contest.
Shows(tree, ty, c, p) == Holds(tree, ty, c, p) /\ Vis(tree, ty, c)

\* What it adds to the sums.
Share(tree, ty, c, f) == [p \in Problems |-> IF Shows(tree, ty, c, p) THEN Line(tree, ty, c, p)[f] ELSE 0]

\* Trees that show the same lines.
Twins(a, b) ==
  \A ty \in Types, c \in Contests, p \in Problems :
    /\ Shows(a, ty, c, p) <=> Shows(b, ty, c, p)
    /\ Shows(a, ty, c, p) => LET i == Line(a, ty, c, p)
                                 j == Line(b, ty, c, p)
                             IN Alike(i, j) /\ i.visible /\ j.visible /\ \A f \in Fields : i[f] = j[f]

\* What a contest adds to the sums of its type.
LEMMA BeforeIs ==
  ASSUME NEW tree \in Trees, Good(tree), NEW ty \in Types, NEW c \in Contests, NEW f \in Fields
  PROVE  /\ Before(tree.types[ty].contests, c, f) = Total(Share(tree, ty, c, f), Problems)
         /\ Total(Share(tree, ty, c, f), Problems) \in Nat
<1>1. PICK contests \in Partial(Contests, NodeType) : contests = tree.types[ty].contests
  BY TreeFacts
<1>2. PICK g : g = Share(tree, ty, c, f) OBVIOUS
<1>3. CASE c \in DOMAIN contests /\ contests[c].info.visible
  <2>1. PICK node \in NodeType : node = contests[c]
    BY <1>3, NodesFacts
  <2>2. PICK page \in Partial(Problems, Info) : page = node.problems
    BY DEF NodeType
  <2>3. NodeGood(node)
    BY <1>1, <1>3, <2>1 DEF Good
  <2>4. node.info[f] = SumOf(page, f) /\ \A p \in DOMAIN page : page[p].visible
    BY <1>3, <2>1, <2>2, <2>3 DEF NodeGood
  <2>5. \A p \in Problems : Shows(tree, ty, c, p) <=> p \in DOMAIN page
    BY <1>1, <1>3, <2>1, <2>2 DEF Shows, Holds, Listed, Page, Vis
  <2>6. \A p \in Problems : Line(tree, ty, c, p) = page[p]
    BY <1>1, <2>1, <2>2 DEF Line, Page
  <2>7. g = Adding(Problems, page, f)
    BY <1>2, <2>4, <2>5, <2>6 DEF Share, Adding
  <2>8. SumOf(page, f) = Total(g, Problems) /\ SumOf(page, f) \in Nat
    BY <2>7, SumOfAll, RowsAssumption
  <2>9. Before(contests, c, f) = node.info[f]
    BY <1>3, <2>1 DEF Before
  <2>10. QED BY <1>1, <1>2, <2>4, <2>8, <2>9
<1>4. CASE ~(c \in DOMAIN contests /\ contests[c].info.visible)
  <2>1. \A p \in Problems : ~Shows(tree, ty, c, p)
    BY <1>1, <1>4 DEF Shows, Holds, Listed, Vis
  <2>2. \A p \in Problems : g[p] = 0
    BY <1>2, <2>1 DEF Share
  <2>3. Total(g, Problems) = 0
    BY <2>2, TotalOfZeros, RowsAssumption
  <2>4. Before(contests, c, f) = 0
    BY <1>4 DEF Before
  <2>5. QED BY <1>1, <1>2, <2>3, <2>4
<1>5. QED BY <1>3, <1>4

\* The sums of trees that show the same lines are the same.
LEMMA TwinsAdd ==
  ASSUME NEW a \in Trees, NEW b \in Trees, Good(a), Good(b), Twins(a, b), NEW f \in Fields
  PROVE  a.info[f] = b.info[f] /\ \A ty \in Types : a.types[ty].info[f] = b.types[ty].info[f]
<1>1. ASSUME NEW ty \in Types PROVE a.types[ty].info[f] = b.types[ty].info[f]
  <2>1. ASSUME NEW c \in Contests
        PROVE  Before(a.types[ty].contests, c, f) = Before(b.types[ty].contests, c, f)
    <3>1. ASSUME NEW p \in Problems
          PROVE  (IF Shows(a, ty, c, p) THEN Line(a, ty, c, p)[f] ELSE 0)
                   = IF Shows(b, ty, c, p) THEN Line(b, ty, c, p)[f] ELSE 0
      BY DEF Twins
    <3>2. Share(a, ty, c, f) = Share(b, ty, c, f)
      BY <3>1 DEF Share
    <3>3. QED BY <3>2, BeforeIs
  <2>2. PICK ones \in Partial(Contests, NodeType) : ones = a.types[ty].contests
    BY TreeFacts
  <2>3. PICK others \in Partial(Contests, NodeType) : others = b.types[ty].contests
    BY TreeFacts
  <2>4. Adding(Contests, Infos(ones), f) = Adding(Contests, Infos(others), f)
    <3>1. \A c \in Contests : Before(ones, c, f) = Before(others, c, f)
      BY <2>1, <2>2, <2>3
    <3>2. /\ Adding(Contests, Infos(ones), f) = [c \in Contests |-> Before(ones, c, f)]
          /\ Adding(Contests, Infos(others), f) = [c \in Contests |-> Before(others, c, f)]
      BY AddingIs
    <3>3. QED BY <3>1, <3>2
  <2>5. Infos(ones) \in Partial(Contests, Info) /\ Infos(others) \in Partial(Contests, Info)
    BY NodesFacts
  <2>6. SumOf(Infos(ones), f) = SumOf(Infos(others), f)
    BY <2>4, <2>5, SumSame, RowsAssumption
  <2>7. BranchAdds(a, ty, f) /\ BranchAdds(b, ty, f)
    BY DEF Good
  <2>8. QED BY <2>2, <2>3, <2>6, <2>7 DEF BranchAdds
<1>2. a.info[f] = b.info[f]
  <2>1. Infos(a.types) \in Partial(Types, Info) /\ Infos(b.types) \in Partial(Types, Info)
    BY TreeFacts
  <2>2. DOMAIN a.types = Types /\ DOMAIN b.types = Types
    BY TreeFacts
  <2>3. \A ty \in Types : a.types[ty].info.visible /\ b.types[ty].info.visible
    BY DEF Good
  <2>4. \A ty \in Types : Infos(a.types)[ty] = a.types[ty].info /\ Infos(b.types)[ty] = b.types[ty].info
    BY <2>2 DEF Infos
  <2>5. DOMAIN Infos(a.types) = Types /\ DOMAIN Infos(b.types) = Types
    BY <2>2 DEF Infos
  <2>6. Adding(Types, Infos(a.types), f) = Adding(Types, Infos(b.types), f)
    BY <1>1, <2>3, <2>4, <2>5 DEF Adding
  <2>7. SumOf(Infos(a.types), f) = SumOf(Infos(b.types), f)
    BY <2>1, <2>6, SumSame, RowsAssumption
  <2>8. QED BY <2>7 DEF Good, TreeAdds
<1>3. QED BY <1>1, <1>2

\* The lines of a tree.
LEMMA LinesAre ==
  ASSUME NEW tree \in Trees
  PROVE  Lines(tree) = {l \in Types \X Contests \X Problems :
                          Shows(tree, l[1], l[2], l[3]) /\ Line(tree, l[1], l[2], l[3]).visible}
<1> DEFINE L == {l \in Types \X Contests \X Problems :
                   Shows(tree, l[1], l[2], l[3]) /\ Line(tree, l[1], l[2], l[3]).visible}
<1>1. ASSUME NEW l \in Lines(tree) PROVE l \in L
  <2>1. PICK n \in {m \in Nodes(tree) : Node(tree, m).info.visible} :
          l \in {<<n[1], n[2], p>> : p \in {q \in DOMAIN Node(tree, n).problems : Node(tree, n).problems[q].visible}}
    BY DEF Lines
  <2>2. n \in Types \X Contests /\ Listed(tree, n[1], n[2]) /\ Node(tree, n).info.visible
    BY <2>1 DEF Nodes
  <2>3. PICK p \in DOMAIN Node(tree, n).problems : l = <<n[1], n[2], p>> /\ Node(tree, n).problems[p].visible
    BY <2>1
  <2>4. PICK ty \in Types, c \in Contests : ty = n[1] /\ c = n[2]
    BY <2>2
  <2>5. Listed(tree, ty, c) /\ p \in DOMAIN Page(tree, ty, c) /\ Vis(tree, ty, c) /\ Page(tree, ty, c)[p].visible
    BY <2>2, <2>3, <2>4 DEF Node, Page, Vis
  <2>6. p \in Problems
    BY <2>5, PageFacts
  <2>7. l = <<ty, c, p>> /\ l \in Types \X Contests \X Problems /\ l[1] = ty /\ l[2] = c /\ l[3] = p
    BY <2>3, <2>4, <2>6
  <2>8. Shows(tree, ty, c, p) /\ Line(tree, ty, c, p).visible
    BY <2>5 DEF Shows, Holds, Line
  <2>9. QED BY <2>7, <2>8
<1>2. ASSUME NEW l \in L PROVE l \in Lines(tree)
  <2>1. PICK ty \in Types, c \in Contests, p \in Problems :
          l = <<ty, c, p>> /\ Shows(tree, ty, c, p) /\ Line(tree, ty, c, p).visible
    BY <1>2
  <2>2. PICK n : n = <<ty, c>> OBVIOUS
  <2>3. n \in Types \X Contests /\ n[1] = ty /\ n[2] = c
    BY <2>2
  <2>4. n \in Nodes(tree) /\ Node(tree, n).info.visible
    BY <2>1, <2>3 DEF Nodes, Node, Shows, Holds, Vis
  <2>5. p \in DOMAIN Node(tree, n).problems /\ Node(tree, n).problems[p].visible
    BY <2>1, <2>3 DEF Node, Shows, Holds, Line, Page
  <2>6. l = <<n[1], n[2], p>>
    BY <2>1, <2>3
  <2>7. QED BY <2>4, <2>5, <2>6 DEF Lines
<1>3. QED BY <1>1, <1>2

\* Trees that show the same lines show the same.
LEMMA TwinsShow ==
  ASSUME NEW a \in Trees, NEW b \in Trees, Good(a), Good(b), Twins(a, b)
  PROVE  View(a) = View(b)
<1>1. \A f \in Fields : a.info[f] = b.info[f] /\ \A ty \in Types : a.types[ty].info[f] = b.types[ty].info[f]
  BY TwinsAdd
<1>2. Totals(a.info) = Totals(b.info) /\ \A ty \in Types : Totals(a.types[ty].info) = Totals(b.types[ty].info)
  BY <1>1 DEF Totals, Fields, Offered, Earned
<1>3. Lines(a) = Lines(b)
  <2>1. \A l \in Types \X Contests \X Problems :
          Shows(a, l[1], l[2], l[3]) /\ Line(a, l[1], l[2], l[3]).visible
            <=> Shows(b, l[1], l[2], l[3]) /\ Line(b, l[1], l[2], l[3]).visible
    BY DEF Twins
  <2>2. QED BY <2>1, LinesAre
<1>4. ASSUME NEW l \in Lines(a)
      PROVE  LET i == Node(a, l).problems[l[3]]
                 j == Node(b, l).problems[l[3]]
             IN <<i.point, i.score, i.submitted, i.passed>> = <<j.point, j.score, j.submitted, j.passed>>
  <2>1. l \in Types \X Contests \X Problems /\ Shows(a, l[1], l[2], l[3])
    BY LinesAre
  <2>2. PICK ty \in Types, c \in Contests, p \in Problems : ty = l[1] /\ c = l[2] /\ p = l[3]
    BY <2>1
  <2>3. PICK i, j : i = Line(a, ty, c, p) /\ j = Line(b, ty, c, p) OBVIOUS
  <2>4. Alike(i, j) /\ \A f \in Fields : i[f] = j[f]
    BY <2>1, <2>2, <2>3 DEF Twins
  <2>5. i.point = j.point /\ i.score = j.score /\ i.submitted = j.submitted /\ i.passed = j.passed
    BY <2>4 DEF Alike, Fields, Offered, Earned
  <2>6. i = Node(a, l).problems[l[3]] /\ j = Node(b, l).problems[l[3]]
    BY <2>2, <2>3 DEF Line, Page, Node
  <2>7. QED BY <2>5, <2>6
<1>5. QED BY <1>2, <1>3, <1>4, Zenon DEF View

\* Right trees whose lines tell the same are twins.
LEMMA RightTwins ==
  ASSUME NEW a, NEW b, NEW con, NEW prob, NEW ones, NEW others,
         Right(a, con, prob, ones), Right(b, con, prob, others),
         \A p \in Problems : \A i \in ones[p], j \in others[p] : Alike(i, j)
  PROVE  Twins(a, b)
<1>1. ASSUME NEW ty \in Types, NEW c \in Contests, NEW p \in Problems
      PROVE  /\ Shows(a, ty, c, p) <=> Shows(b, ty, c, p)
             /\ Shows(a, ty, c, p) => Holds(a, ty, c, p) /\ Holds(b, ty, c, p)
  <2>1. Holds(a, ty, c, p) <=> Holds(b, ty, c, p)
    BY DEF Right
  <2>2. Listed(a, ty, c) /\ Listed(b, ty, c) => Vis(a, ty, c) = Vis(b, ty, c)
    BY DEF Right
  <2>3. QED BY <2>1, <2>2 DEF Shows, Holds
<1>2. ASSUME NEW ty \in Types, NEW c \in Contests, NEW p \in Problems, Shows(a, ty, c, p),
             NEW i, NEW j, i = Line(a, ty, c, p), j = Line(b, ty, c, p)
      PROVE  Alike(i, j) /\ i.visible /\ j.visible /\ \A f \in Fields : i[f] = j[f]
  <2>1. Holds(a, ty, c, p) /\ Holds(b, ty, c, p)
    BY <1>1, <1>2
  <2>2. Offers(i, prob[p]) /\ i \in ones[p] /\ Offers(j, prob[p]) /\ j \in others[p]
    BY <1>2, <2>1 DEF Right
  <2>3. Alike(i, j)
    BY <2>2
  <2>4. QED BY <2>2, <2>3 DEF Offers, Alike, Fields, Offered
<1>3. QED BY <1>1, <1>2 DEF Twins

-----------------------------------------------------------------------------
(* Submissions and what lines may tell of them.                            *)

\* Among finitely many submissions one has the greatest number.
LEMMA GreatestExists ==
  ASSUME NEW S, IsFiniteSet(S), S # {}, \A s \in S : s.id \in Nat
  PROVE  \E s \in S : \A r \in S : r.id <= s.id
<1> DEFINE G == {R \in SUBSET S : R = {} \/ \E s \in R : \A r \in R : r.id <= s.id}
<1>1. {} \in G OBVIOUS
<1>2. ASSUME NEW R \in SUBSET S, R # {}, R \ {Some(R)} \in G PROVE R \in G
  <2>1. PICK x \in R : x = Some(R)
    BY <1>2, SomeIn
  <2>2. CASE R \ {x} = {}
    <3>1. R = {x} /\ x.id \in Nat
      BY <2>2
    <3>2. \A r \in R : r.id <= x.id
      BY <3>1
    <3>3. QED BY <3>2
  <2>3. ASSUME NEW y \in R \ {x}, \A r \in R \ {x} : r.id <= y.id PROVE R \in G
    <3>1. x.id \in Nat /\ y.id \in Nat /\ \A r \in R : r.id \in Nat OBVIOUS
    <3>2. CASE x.id <= y.id
      <4>1. \A r \in R : r.id <= y.id
        BY <2>3, <3>2
      <4>2. QED BY <4>1
    <3>3. CASE ~(x.id <= y.id)
      <4>1. \A r \in R : r.id <= x.id
        BY <2>3, <3>1, <3>3
      <4>2. QED BY <4>1
    <3>4. QED BY <3>2, <3>3
  <2>4. R \ {x} = {} \/ \E y \in R \ {x} : \A r \in R \ {x} : r.id <= y.id
    BY <1>2, <2>1
  <2>5. QED BY <2>2, <2>3, <2>4
<1>3. S \in G
  <2> HIDE DEF G
  <2>1. QED BY <1>1, <1>2, SubsetsIn
<1>4. QED BY <1>3

\* The problem of a submission has a latest one.
LEMMA LatestExists ==
  ASSUME SubsInv, Numbered, NEW p, SubsOf(p) # {}
  PROVE  \E s \in SubsOf(p) : s \in Latest
<1>1. PICK S : S = SubsOf(p) OBVIOUS
<1>2. S \subseteq subs /\ S # {}
  BY <1>1 DEF SubsOf
<1>3. IsFiniteSet(S) /\ \A s \in S : s.id \in Nat
  BY <1>2, FS_Subset DEF SubsInv, Numbered
<1>4. PICK s \in S : \A r \in S : r.id <= s.id
  BY <1>2, <1>3, GreatestExists
<1>5. s \in subs /\ s.problem = p
  BY <1>1, <1>4 DEF SubsOf
<1>6. \A r \in SubsOf(s.problem) : r.id <= s.id
  BY <1>1, <1>4, <1>5
<1>7. QED BY <1>1, <1>5, <1>6 DEF Latest

\* It has only one.
LEMMA LatestOne ==
  ASSUME Numbered, NEW r \in Latest, NEW s \in Latest, r.problem = s.problem
  PROVE  r = s
<1>1. r \in subs /\ s \in subs
  BY DEF Latest
<1>2. r.id <= s.id /\ s.id <= r.id
  BY <1>1 DEF Latest, SubsOf
<1>3. QED BY <1>1, <1>2 DEF Numbered

\* A submission that is not the latest has a later one.
LEMMA LaterExists ==
  ASSUME Numbered, NEW s \in subs, s \notin Latest
  PROVE  \E r \in SubsOf(s.problem) : r.id > s.id
<1>1. PICK r \in SubsOf(s.problem) : ~(r.id <= s.id)
  BY DEF Latest
<1>2. r.id \in Nat /\ s.id \in Nat
  BY DEF Numbered, SubsOf
<1>3. QED BY <1>1, <1>2

\* The number of a new submission.
LEMMA NewNumber ==
  ASSUME SubsInv, Numbered, NEW id, id = 1 + Max({s.id : s \in subs} \cup {0})
  PROVE  id \in Nat /\ \A s \in subs : s.id < id
<1>1. PICK I : I = {s.id : s \in subs} \cup {0} OBVIOUS
<1>2. \E m \in I : m \in Nat /\ \A n \in I : m >= n
  <2>1. CASE subs = {}
    <3>1. I = {0}
      BY <1>1, <2>1
    <3>2. QED BY <3>1
  <2>2. CASE subs # {}
    <3>1. IsFiniteSet(subs) /\ \A s \in subs : s.id \in Nat
      BY DEF SubsInv, Numbered
    <3>2. PICK s \in subs : \A r \in subs : r.id <= s.id
      BY <2>2, <3>1, GreatestExists
    <3>3. s.id \in I /\ s.id \in Nat
      BY <1>1, <3>1
    <3>4. \A n \in I : s.id >= n
      BY <1>1, <3>1, <3>2
    <3>5. QED BY <3>3, <3>4
  <2>3. QED BY <2>1, <2>2
<1>3. PICK max : max = Max(I) OBVIOUS
<1>4. max = CHOOSE m \in I : \A n \in I : m >= n
  BY <1>3 DEF Max
<1>5. max \in I /\ \A n \in I : max >= n
  BY <1>2, <1>4
<1>6. \A n \in I : n \in Nat
  BY <1>1 DEF Numbered
<1>7. max \in Nat /\ id = 1 + max
  BY <1>1, <1>3, <1>5, <1>6
<1>8. ASSUME NEW s \in subs PROVE s.id < id
  <2>1. s.id \in I
    BY <1>1
  <2>2. max >= s.id /\ s.id \in Nat
    BY <1>5, <1>6, <2>1
  <2>3. QED BY <1>7, <2>2
<1>9. QED BY <1>7, <1>8

\* What lines may tell, of one problem.
LEMMA TruthIs ==
  ASSUME NEW p \in Problems
  PROVE  \A info : info \in Truth[p] <=> info \in Info /\ Told(info, p)
BY DEF Truth

\* Lines that have earned the same may tell the same.
LEMMA TruthSound == Sound(Truth)
<1>1. ASSUME NEW p \in Problems, NEW i \in Info, NEW j \in Info, Alike(i, j), Told(i, p) PROVE Told(j, p)
  <2>1. \A k : Alike(i, k) => Alike(j, k)
    BY <1>1, AlikeFacts
  <2>2. QED BY <1>1, <2>1 DEF Told
<1>2. ASSUME NEW p \in Problems, NEW i \in Info, NEW j \in Info, Alike(i, j) /\ i \in Truth[p]
      PROVE  j \in Truth[p]
  <2>1. Told(i, p)
    BY <1>2, TruthIs
  <2>2. Told(j, p)
    BY <1>1, <1>2, <2>1
  <2>3. QED BY <2>2, TruthIs
<1>3. QED BY <1>2 DEF Sound

\* A line of a problem without submissions has earned nothing.
LEMMA NothingTold ==
  ASSUME NEW p \in Problems, SubsOf(p) = {}
  PROVE  NewInfo \in Truth[p]
<1>1. NewInfo \in Info
  BY NewInfoFacts
<1>2. Alike(NewInfo, NewInfo)
  BY DEF Alike
<1>3. Told(NewInfo, p)
  BY <1>2 DEF Told
<1>4. QED BY <1>1, <1>3, TruthIs

\* Anything may be told while a submission is awaited.
LEMMA AwaitedTold ==
  ASSUME NEW p \in Problems, NEW s \in SubsOf(p), Awaited(s)
  PROVE  \A i \in Info : i \in Truth[p]
<1>1. \A i : Told(i, p)
  BY DEF Told
<1>2. QED BY <1>1, TruthIs

\* Nothing more may be told of a problem whose submissions stay, and that are still
\* awaited if they were.
LEMMA TruthStays ==
  ASSUME NEW p \in Problems, SubsOf(p)' = SubsOf(p), \A s \in SubsOf(p) : Awaited(s) => Awaited(s)'
  PROVE  \A i \in Truth[p] : i \in Truth'[p]
<1>1. ASSUME NEW s \in SubsOf(p), s \in Latest PROVE s \in Latest'
  <2>1. s \in SubsOf(p)' /\ s.problem = p
    BY <1>1 DEF SubsOf
  <2>2. \A r \in SubsOf(p)' : r.id <= s.id
    BY <1>1, <2>1 DEF Latest
  <2>3. QED BY <2>1, <2>2 DEF Latest, SubsOf
<1>2. ASSUME NEW i, Told(i, p) PROVE Told(i, p)'
  BY <1>1, <1>2 DEF Told
<1>3. ASSUME NEW i \in Truth[p] PROVE i \in Truth'[p]
  <2>1. i \in Info /\ Told(i, p)
    BY <1>3, TruthIs
  <2>2. Told(i, p)'
    BY <1>2, <2>1
  <2>3. QED BY <2>1, <2>2 DEF Truth
<1>4. QED BY <1>3

\* The latest submissions, when nothing is chosen but them.
LEMMA ChosenTold ==
  ASSUME SubsInv, Numbered, NEW p \in Problems
  PROVE  \A i \in Chosen(Latest)[p] : i \in Truth[p]
<1>1. ASSUME NEW i \in Chosen(Latest)[p] PROVE i \in Truth[p]
  <2>1. /\ i \in Info
        /\ \/ (\A r \in Latest : r.problem # p) /\ Alike(i, NewInfo)
           \/ \E r \in Latest : r.problem = p /\ Alike(i, Outcome(NewInfo, r))
    BY <1>1 DEF Chosen
  <2>2. CASE (\A r \in Latest : r.problem # p) /\ Alike(i, NewInfo)
    <3>1. SubsOf(p) = {}
      BY <2>2, LatestExists DEF SubsOf
    <3>2. QED BY <2>1, <2>2, <3>1, TruthIs DEF Told
  <2>3. ASSUME NEW r \in Latest, r.problem = p, Alike(i, Outcome(NewInfo, r)) PROVE i \in Truth[p]
    <3>1. r \in SubsOf(p)
      BY <2>3 DEF Latest, SubsOf
    <3>2. QED BY <2>1, <2>3, <3>1, TruthIs DEF Told
  <2>4. QED BY <2>1, <2>2, <2>3
<1>2. QED BY <1>1

\* A new tree made with the latest submissions tells the truth.
LEMMA LatestRight ==
  ASSUME TypeInv, Numbered
  PROVE  Right(Rebuilt(Latest), contest, problem, Truth)
<1>1. Latest \subseteq subs
  BY DEF Latest
<1>2. IsFiniteSet(Latest) /\ \A s \in Latest : IsSub(s) /\ problem[s.problem].there
  BY <1>1, FS_Subset DEF TypeInv, SubsInv
<1>3. PICK tree : tree = Rebuilt(Latest) OBVIOUS
<1>4. PICK told : told = Chosen(Latest) OBVIOUS
<1>5. Right(tree, contest, problem, told)
  BY <1>2, <1>3, <1>4, RebuiltRight DEF TypeInv
<1>6. \A p \in Problems : problem[p].visible => \A i \in told[p] : i \in Truth[p]
  BY <1>4, ChosenTold DEF TypeInv
<1>7. Right(tree, contest, problem, Truth)
  BY <1>5, <1>6, RightTells
<1>8. QED BY <1>3, <1>7

\* A tree that is built before any submission is judged tells the truth.
LEMMA FreshTold ==
  ASSUME AllPending, NEW p \in Problems
  PROVE  \A i \in Fresh[p] : i \in Truth[p]
<1>1. CASE SubsOf(p) = {}
  BY <1>1, TruthIs DEF Fresh, Told
<1>2. ASSUME NEW s \in SubsOf(p) PROVE \A i \in Fresh[p] : i \in Truth[p]
  <2>1. Awaited(s)
    BY <1>2 DEF AllPending, Awaited, SubsOf
  <2>2. QED BY <1>2, <2>1, AwaitedTold DEF Fresh
<1>3. QED BY <1>1, <1>2

-----------------------------------------------------------------------------
(* What the steps have in common.                                          *)

\* A problem that is shown is there, and so is its contest.
LEMMA ShownThere ==
  ASSUME RowsInv, NEW p \in Problems
  PROVE  (problem[p].visible => problem[p].there) /\ (problem[p].there => contest[Home[p]].there)
<1>1. problem[p] \in {NoProblem} \cup Rewards
  BY DEF RowsInv
<1>2. \A r \in Rewards : r.there
  BY DEF Rewards
<1>3. ~NoProblem.visible
  BY DEF NoProblem
<1>4. QED BY <1>1, <1>2, <1>3 DEF RowsInv

\* A tree stays right when a row is added where no problem is shown.
LEMMA RightGrows ==
  ASSUME NEW tree, NEW con, NEW prob, NEW truth, Right(tree, con, prob, truth), NEW con2,
         \A d \in Contests : con2[d] = con[d] \/
           (~con[d].there /\ \A p \in Problems : Home[p] = d => ~prob[p].visible)
  PROVE  Right(tree, con2, prob, truth)
<1>1. ASSUME NEW x \in Types, NEW d \in Contests, Listed(tree, x, d) PROVE con2[d] = con[d]
  BY <1>1 DEF Right
<1>2. ASSUME NEW x \in Types, NEW d \in Contests, NEW p \in Problems
      PROVE  Holds(tree, x, d, p) <=> prob[p].visible /\ d = Home[p] /\ x = con2[d].type
  <2>1. Holds(tree, x, d, p) <=> prob[p].visible /\ d = Home[p] /\ x = con[d].type
    BY DEF Right
  <2>2. CASE con2[d] = con[d]
    BY <2>1, <2>2
  <2>3. CASE ~con[d].there /\ \A q \in Problems : Home[q] = d => ~prob[q].visible
    BY <2>1, <2>3
  <2>4. QED BY <2>2, <2>3
<1>3. ASSUME NEW x \in Types, NEW d \in Contests, Listed(tree, x, d)
      PROVE  con2[d].there /\ con2[d].type = x /\ Vis(tree, x, d) = con2[d].visible
  BY <1>1, <1>3 DEF Right
<1>4. ASSUME NEW x \in Types, NEW d \in Contests, NEW p \in Problems, Holds(tree, x, d, p)
      PROVE  Offers(Line(tree, x, d, p), prob[p]) /\ Line(tree, x, d, p) \in truth[p]
  BY <1>4 DEF Right
<1>5. QED BY <1>2, <1>3, <1>4 DEF Right

\* Nothing that lines may tell is lost.
Tells == \A p \in Problems : \A i \in Truth[p] : i \in Truth'[p]

\* A tree stays right when a contest is added and more may be told.
LEMMA RightKept ==
  ASSUME RowsInv, Grows, Tells, NEW tree, Right(tree, contest, problem, Truth)
  PROVE  Right(tree, contest', problem, Truth')
<1>1. ASSUME NEW d \in Contests
      PROVE  contest'[d] = contest[d] \/
               (~contest[d].there /\ \A p \in Problems : Home[p] = d => ~problem[p].visible)
  <2>1. contest'[d] = contest[d] \/ ~contest[d].there
    BY GrowsFacts
  <2>2. QED BY <2>1, ShownThere
<1>2. PICK con : con = contest' OBVIOUS
<1>3. Right(tree, con, problem, Truth)
  BY <1>1, <1>2, RightGrows
<1>4. PICK truth : truth = Truth' OBVIOUS
<1>5. \A p \in Problems : \A i \in Truth[p] : i \in truth[p]
  BY <1>4 DEF Tells
<1>6. Right(tree, con, problem, truth)
  BY <1>3, <1>5, RightTells
<1>7. QED BY <1>2, <1>4, <1>6

\* The same for what is to come.
LEMMA RightAfterKept ==
  ASSUME TypeInv, Grows, Tells, problem' = problem, NEW t \in Threads, task'[t] = task[t],
         Busy(t), TaskThere(t), NEW tree, Right(tree, RowsAfter(t), ProblemsAfter(t), Truth)
  PROVE  Right(tree, RowsAfter(t)', ProblemsAfter(t)', Truth')
<1>1. PICK con : con = RowsAfter(t) OBVIOUS
<1>2. PICK con2 : con2 = RowsAfter(t)' OBVIOUS
<1>3. PICK prob : prob = ProblemsAfter(t) OBVIOUS
<1>4. ProblemsAfter(t)' = prob
  BY <1>3 DEF ProblemsAfter
<1>5. RowsInv /\ contest = [d \in Contests |-> contest[d]] /\ contest' = [d \in Contests |-> contest'[d]]
  BY DEF TypeInv, RowsInv, Grows
<1>6. ASSUME NEW d \in Contests
      PROVE  con2[d] = con[d] \/ (~con[d].there /\ \A p \in Problems : Home[p] = d => ~prob[p].visible)
  <2>1. task[t].kind \in {"editContest", "deleteContest"} => contest[task[t].contest].there
    BY TaskRows DEF Tasks
  <2>2. CASE contest'[d] = contest[d]
    BY <1>1, <1>2, <1>5, <2>2 DEF RowsAfter
  <2>3. CASE contest'[d] # contest[d]
    <3>1. ~contest[d].there
      BY <1>5, <2>3, GrowsFacts
    <3>2. \A p \in Problems : Home[p] = d => ~problem[p].visible
      BY <1>5, <3>1, ShownThere
    <3>3. con[d] = contest[d]
      BY <1>1, <1>5, <2>1, <3>1 DEF RowsAfter
    <3>4. ASSUME NEW p \in Problems, Home[p] = d PROVE ~prob[p].visible
      <4>1. prob[p] = problem[p] \/ prob[p] = NoProblem
        BY <1>3 DEF ProblemsAfter, TypeInv, RowsInv
      <4>2. QED BY <3>2, <3>4, <4>1 DEF NoProblem
    <3>5. QED BY <3>1, <3>3, <3>4
  <2>4. QED BY <2>2, <2>3
<1>7. Right(tree, con2, prob, Truth)
  BY <1>1, <1>3, <1>6, RightGrows
<1>8. PICK truth : truth = Truth' OBVIOUS
<1>9. \A p \in Problems : \A i \in Truth[p] : i \in truth[p]
  BY <1>8 DEF Tells
<1>10. Right(tree, con2, prob, truth)
  BY <1>7, <1>9, RightTells
<1>11. QED BY <1>2, <1>4, <1>8, <1>10

\* A problem that is to be migrated.
LEMMA NearlyKept ==
  ASSUME RowsInv, Grows, Tells, problem' = problem, NEW tree, NEW p \in Problems,
         Nearly(tree, contest, problem, Truth, p), contest[Home[p]].there
  PROVE  Nearly(tree, contest', problem', Truth', p)
<1>1. PICK old \in {NoProblem} \cup Rewards :
        /\ Right(tree, contest, [problem EXCEPT ![p] = old], Truth)
        /\ old.visible => problem[p].visible
        /\ problem[p].visible /\ ~old.visible => NewInfo \in Truth[p]
  BY DEF Nearly
<1>2. PICK prob : prob = [problem EXCEPT ![p] = old] OBVIOUS
<1>3. PICK con : con = contest' OBVIOUS
<1>4. PICK truth : truth = Truth' OBVIOUS
<1>5. ASSUME NEW d \in Contests
      PROVE  con[d] = contest[d] \/ (~contest[d].there /\ \A q \in Problems : Home[q] = d => ~prob[q].visible)
  <2>1. con[d] = contest[d] \/ ~contest[d].there
    BY <1>3, GrowsFacts
  <2>2. ASSUME ~contest[d].there, NEW q \in Problems, Home[q] = d PROVE ~prob[q].visible
    <3>1. q # p
      BY <2>2
    <3>2. prob[q] = problem[q]
      BY <1>2, <3>1 DEF RowsInv
    <3>3. QED BY <2>2, <3>2, ShownThere
  <2>3. QED BY <2>1, <2>2
<1>6. Right(tree, con, prob, Truth)
  BY <1>1, <1>2, <1>5, RightGrows
<1>7. \A q \in Problems : \A i \in Truth[q] : i \in truth[q]
  BY <1>4 DEF Tells
<1>8. Right(tree, con, prob, truth)
  BY <1>6, <1>7, RightTells
<1>9. problem[p].visible /\ ~old.visible => NewInfo \in truth[p]
  BY <1>1, <1>7
<1>10. QED BY <1>1, <1>2, <1>3, <1>4, <1>8, <1>9 DEF Nearly

\* A judgement that is to be told.
LEMMA TellingKept ==
  ASSUME RowsInv, Grows, Tells, NEW sub, NEW tree, Right(tree, contest, problem, Telling(Truth, sub))
  PROVE  Right(tree, contest', problem, Telling(Truth', sub))
<1>1. PICK told : told = Telling(Truth, sub) OBVIOUS
<1>2. PICK truth : truth = Telling(Truth', sub) OBVIOUS
<1>3. PICK con : con = contest' OBVIOUS
<1>4. ASSUME NEW d \in Contests
      PROVE  con[d] = contest[d] \/
               (~contest[d].there /\ \A p \in Problems : Home[p] = d => ~problem[p].visible)
  <2>1. con[d] = contest[d] \/ ~contest[d].there
    BY <1>3, GrowsFacts
  <2>2. QED BY <2>1, ShownThere
<1>5. Right(tree, con, problem, told)
  BY <1>1, <1>4, RightGrows
<1>6. ASSUME NEW p \in Problems, NEW i \in told[p] PROVE i \in truth[p]
  <2>1. CASE p = sub.problem
    BY <1>1, <1>2, <1>6, <2>1 DEF Telling, Truth
  <2>2. CASE p # sub.problem
    <3>1. told[p] = Truth[p] /\ truth[p] = Truth'[p]
      BY <1>1, <1>2, <2>2 DEF Telling, Truth
    <3>2. QED BY <1>6, <3>1 DEF Tells
  <2>3. QED BY <2>1, <2>2
<1>7. Right(tree, con, problem, truth)
  BY <1>5, <1>6, RightTells
<1>8. QED BY <1>2, <1>3, <1>7

-----------------------------------------------------------------------------
(* What a tree shows: threads that wait, begin, go on and end.             *)

\* A thread that stays where it is, while contests are added and more may be told.
LEMMA ThreadShowsKept ==
  ASSUME TypeInv, Grows, Tells, UNCHANGED <<problem, score>>, NEW t \in Threads, TaskThere(t),
         pc'[t] = pc[t], task'[t] = task[t], next'[t] = next[t],
         task[t].kind = "approve" /\ AllPending => AllPending',
         ThreadShows(t)
  PROVE  ThreadShows(t)'
<1>1. problem' = problem /\ score' = score /\ RowsInv
  BY DEF TypeInv
<1>2. ASSUME pc[t] = "row" PROVE Right(score', RowsAfter(t)', ProblemsAfter(t)', Truth')
  <2>1. Right(score, RowsAfter(t), ProblemsAfter(t), Truth) /\ Busy(t)
    BY <1>2 DEF ThreadShows, Busy
  <2>2. Right(score, RowsAfter(t)', ProblemsAfter(t)', Truth')
    BY <1>1, <2>1, RightAfterKept
  <2>3. QED BY <1>1, <2>2
<1>3. ASSUME pc[t] = "tree", task[t].kind \in Adders
      PROVE  Nearly(score', contest', problem', Truth', task'[t].problem)
  <2>1. Nearly(score, contest, problem, Truth, task[t].problem) /\ Busy(t)
    BY <1>3 DEF ThreadShows, Busy
  <2>2. task[t].problem \in Problems /\ task[t].contest = Home[task[t].problem] /\ task[t].kind \in Tasks
    BY <1>3 DEF TypeInv, ThreadsInv, JobOK, StepOK, Adders, Tasks
  <2>3. contest[task[t].contest].there
    BY <2>1, <2>2, TaskRows
  <2>4. PICK p \in Problems : p = task[t].problem
    BY <2>2
  <2>5. Nearly(score, contest', problem', Truth', p)
    BY <1>1, <2>1, <2>2, <2>3, <2>4, NearlyKept
  <2>6. QED BY <1>1, <2>4, <2>5
<1>4. ASSUME pc[t] = "save", task[t].kind \in Tasks \cup {"approve", "rebuild"}
      PROVE  Right(next'[t], RowsAfter(t)', ProblemsAfter(t)', Truth')
  <2>1. Right(next[t], RowsAfter(t), ProblemsAfter(t), Truth) /\ Busy(t)
    BY <1>4 DEF ThreadShows, Busy
  <2>2. PICK tree : tree = next[t] OBVIOUS
  <2>3. Right(tree, RowsAfter(t)', ProblemsAfter(t)', Truth')
    BY <1>1, <2>1, <2>2, RightAfterKept
  <2>4. QED BY <2>2, <2>3
<1>5. ASSUME pc[t] = "save", Judging(t)
      PROVE  Right(next'[t], contest', problem', Telling(Truth', task'[t].sub))
  <2>1. PICK sub : sub = task[t].sub OBVIOUS
  <2>2. PICK tree : tree = next[t] OBVIOUS
  <2>3. Right(tree, contest, problem, Telling(Truth, sub))
    BY <1>5, <2>1, <2>2 DEF ThreadShows
  <2>4. Right(tree, contest', problem, Telling(Truth', sub))
    BY <1>1, <2>3, TellingKept
  <2>5. QED BY <1>1, <2>1, <2>2, <2>4
<1>6. pc[t] # "idle" /\ task[t].kind = "approve" => score' = NewTree /\ AllPending'
  BY <1>1 DEF ThreadShows
<1>7. Judging(t)' <=> Judging(t)
  BY DEF Judging
<1>8. QED BY <1>2, <1>3, <1>4, <1>5, <1>6, <1>7 DEF ThreadShows

\* A thread without a task shows nothing and knows nothing.
LEMMA IdleShows ==
  ASSUME NEW t \in Threads, pc'[t] = "idle"
  PROVE  ThreadShows(t)' /\ (task'[t].kind = None => TaskKnown(t)')
<1>1. ThreadShows(t)'
  BY DEF ThreadShows
<1>2. ASSUME task'[t].kind = None PROVE TaskKnown(t)'
  BY <1>2, NoneAssumption DEF TaskKnown, Judging
<1>3. QED BY <1>1, <1>2

\* While only one thread is busy, the tree shows what it has to at that step.
LEMMA LoneShows ==
  ASSUME NEW t \in Threads, \A u \in Threads : u # t => pc'[u] = "idle", enrolled', Calm', ThreadShows(t)'
  PROVE  Showing'
<1>1. \A u \in Threads : ThreadShows(u)'
  BY IdleShows
<1>2. QED BY <1>1, Zenon DEF Showing

\* Its task is no judgement: what lines may tell depends on the rows alone.
LEMMA NoneAwaited ==
  ASSUME \A u \in Threads : ~Judging(u), NEW p \in Problems, SubsOf(p)' = SubsOf(p)
  PROVE  \A i \in Truth[p] : i \in Truth'[p]
<1>1. ASSUME NEW s, Awaited(s) PROVE Awaited(s)'
  <2>1. s.result = "pending"
    BY <1>1 DEF Awaited
  <2>2. QED BY <2>1 DEF Awaited
<1>2. QED BY <1>1, TruthStays

LEMMA NoneTells == ASSUME \A u \in Threads : ~Judging(u), subs' = subs PROVE Tells
<1>1. \A p \in Problems : SubsOf(p)' = SubsOf(p)
  BY DEF SubsOf
<1>2. QED BY <1>1, NoneAwaited DEF Tells

\* An idle thread judges nothing.
LEMMA IdleJudges ==
  ASSUME Lone, NEW t \in Threads, pc[t] = "idle" PROVE ~Judging(t)
BY NoneAssumption DEF Lone, Judging

\* One thread goes on; if it is to save a judgement, no other is.
LEMMA LoneSteps ==
  ASSUME ThreadsInv, Lone, NEW t \in Threads, NEW at, NEW job,
         pc' = [pc EXCEPT ![t] = at], task' = [task EXCEPT ![t] = job],
         at = "idle" => job.kind = None,
         at = "save" /\ job.kind = "judge" => \A u \in Threads : ~(Judging(u) /\ pc[u] = "save")
  PROVE  Lone'
<1>1. pc'[t] = at /\ task'[t] = job
  BY DEF ThreadsInv
<1>2. \A u \in Threads : u # t => pc'[u] = pc[u] /\ task'[u] = task[u]
  BY DEF ThreadsInv
<1>3. ASSUME NEW u \in Threads, pc'[u] = "idle" PROVE task'[u].kind = None
  BY <1>1, <1>2, <1>3 DEF Lone
<1>4. ASSUME NEW u \in Threads, NEW v \in Threads, Judging(u)', Judging(v)', pc'[u] = "save", pc'[v] = "save"
      PROVE  u = v
  <2>1. \A w \in Threads : w # t /\ Judging(w)' => Judging(w)
    BY <1>2 DEF Judging
  <2>2. Judging(t)' => job.kind = "judge"
    BY <1>1 DEF Judging
  <2>3. CASE u # t /\ v # t
    BY <1>2, <1>4, <2>1, <2>3 DEF Lone
  <2>4. CASE u = t /\ v # t
    BY <1>1, <1>2, <1>4, <2>1, <2>2, <2>4
  <2>5. CASE u # t /\ v = t
    BY <1>1, <1>2, <1>4, <2>1, <2>2, <2>5
  <2>6. QED BY <2>3, <2>4, <2>5
<1>5. QED BY <1>3, <1>4 DEF Lone

\* The submissions that stay keep their numbers.
LEMMA NumbersStay == ASSUME Numbered, subs' \subseteq subs PROVE Numbered'
BY DEF Numbered

\* Nothing is told apart from what is still pending.
LEMMA PendingStay == ASSUME AllPending, subs' \subseteq subs PROVE AllPending'
BY DEF AllPending

\* No tree is made anew.
LEMMA NotMadeAnew == ASSUME NEW t \in Threads, ~Anew(t)' PROVE MadeAnew(t)'
BY DEF MadeAnew

\* One thread at work, and not on a judgement, while the tree is what it should be.
Alone(t) ==
  /\ Showing /\ Apart /\ TaskKnown(t)
  /\ \A u \in Threads : u # t => pc[u] = "idle"
  /\ \A u \in Threads : ~Judging(u)

\* When a task that is no judgement is busy, no other is.
LEMMA AloneIs ==
  ASSUME ThreadsInv, Lone, NEW t \in Threads, Busy(t), ~Judging(t), Showing, Apart, TaskKnown(t)
  PROVE  Alone(t)
<1>1. \A u \in Threads : u # t => pc[u] = "idle"
  BY DEF Apart, Busy
<1>2. QED BY <1>1, IdleJudges DEF Alone

LEMMA AloneTells == ASSUME NEW t, Alone(t), subs' = subs PROVE Tells
BY NoneTells DEF Alone

LEMMA AloneShows ==
  ASSUME ThreadsInv, NEW t \in Threads, Alone(t), NEW at, pc' = [pc EXCEPT ![t] = at],
         enrolled', Calm', ThreadShows(t)'
  PROVE  Showing'
<1>1. \A u \in Threads : u # t => pc'[u] = "idle"
  BY DEF ThreadsInv, Alone
<1>2. QED BY <1>1, LoneShows

\* A step of a task that is the only one.
LEMMA AloneSteps ==
  ASSUME TypeInv, ListInv, ShowInv, NEW t \in Threads, Busy(t), ~Judging(t), NEW at, NEW job,
         pc' = [pc EXCEPT ![t] = at], task' = [task EXCEPT ![t] = job],
         at = "idle" => job.kind = None, job.kind # "judge",
         \A u \in Threads : MadeAnew(u)', subs' \subseteq subs, drift \subseteq drift',
         drift' = {} /\ Alone(t) => Showing' /\ TaskKnown(t)'
  PROVE  ShowInv'
<1>1. Numbered' /\ Lone'
  BY NumbersStay, LoneSteps DEF ShowInv, TypeInv
<1>2. ASSUME drift' = {} PROVE Showing' /\ \A u \in Threads : TaskKnown(u)'
  <2>1. drift = {}
    BY <1>2
  <2>2. Showing /\ TaskKnown(t) /\ Apart
    BY <2>1 DEF ShowInv, ListInv
  <2>3. ThreadsInv /\ Lone
    BY DEF TypeInv, ShowInv
  <2>4. Alone(t)
    BY <2>2, <2>3, AloneIs
  <2>5. \A u \in Threads : u # t => pc'[u] = "idle"
    BY <2>3, <2>4 DEF ThreadsInv, Alone
  <2>6. Showing' /\ TaskKnown(t)'
    BY <1>2, <2>4
  <2>7. ASSUME NEW u \in Threads, u # t PROVE TaskKnown(u)'
    BY <1>1, <2>5, <2>7, IdleShows DEF Lone
  <2>8. QED BY <2>6, <2>7
<1>3. QED BY <1>1, <1>2 DEF ShowInv

\* A task begins that is no judgement.
LEMMA BeginShows ==
  ASSUME TypeInv, ListInv, ShowInv, NEW t \in Threads, NEW at \in {"copy", "tree", "build"}, NEW job, NEW why,
         Begin(t, at, job, why), job.kind # "judge", subs' = subs,
         (/\ drift' = {} /\ Showing
          /\ \A u \in Threads : pc[u] = "idle" /\ ~Judging(u)
          /\ \A u \in Threads : u # t => pc'[u] = "idle"
          /\ pc'[t] = at /\ task'[t] = job)
           => Showing' /\ TaskKnown(t)'
  PROVE  ShowInv'
<1>1. pc' = [pc EXCEPT ![t] = at] /\ task' = [task EXCEPT ![t] = job] /\ ops' = ops + 1 /\ ~Busy(t)
      /\ drift' = drift \cup why \cup IF Overlaps(job.kind) THEN {"overlap"} ELSE {}
  BY DEF Begin
<1>2. ThreadsInv /\ Lone /\ Numbered
  BY DEF TypeInv, ShowInv
<1>3. Numbered' /\ Lone'
  BY <1>1, <1>2, NumbersStay, LoneSteps
<1>4. ASSUME NEW u \in Threads PROVE MadeAnew(u)'
  <2>1. pc'[u] = "save" => pc[u] = "save" /\ task'[u] = task[u]
    BY <1>1, <1>2 DEF ThreadsInv
  <2>2. QED BY <1>1, <2>1, BegunNotAnew, NotMadeAnew
<1>5. ASSUME drift' = {} PROVE Showing' /\ \A u \in Threads : TaskKnown(u)'
  <2>1. drift = {} /\ ~Overlaps(job.kind)
    BY <1>1, <1>5
  <2>2. Showing
    BY <2>1 DEF ShowInv
  <2>3. \A u \in Threads : pc[u] = "idle"
    BY <2>1 DEF Overlaps, Busy
  <2>4. \A u \in Threads : ~Judging(u)
    BY <1>2, <2>3, IdleJudges
  <2>5. pc'[t] = at /\ task'[t] = job /\ \A u \in Threads : u # t => pc'[u] = "idle"
    BY <1>1, <1>2, <2>3 DEF ThreadsInv
  <2>6. Showing' /\ TaskKnown(t)'
    BY <1>5, <2>2, <2>3, <2>4, <2>5
  <2>7. ASSUME NEW u \in Threads, u # t PROVE TaskKnown(u)'
    BY <1>3, <2>5, <2>7, IdleShows DEF Lone
  <2>8. QED BY <2>6, <2>7
<1>6. QED BY <1>3, <1>4, <1>5 DEF ShowInv

\* An operation of one step that loses nothing.
LEMMA QuickShows ==
  ASSUME TypeInv, ListInv, ShowInv, NEW why, Quick(why), Grows, UNCHANGED <<problem, enrolled>>,
         Numbered', Tells, subs \subseteq subs', AllPending => AllPending'
  PROVE  ShowInv'
<1>1. UNCHANGED <<score, pc, task, next>> /\ drift' = drift \cup why /\ ops' = ops + 1
  BY DEF Quick
<1>2. score' = score /\ pc' = pc /\ task' = task /\ next' = next /\ problem' = problem /\ enrolled' = enrolled
  BY <1>1
<1>3. Lone'
  BY <1>2 DEF ShowInv, Lone, Judging
<1>4. ASSUME NEW u \in Threads PROVE MadeAnew(u)'
  BY <1>1, BegunNotAnew, NotMadeAnew
<1>5. ASSUME drift' = {} PROVE Showing' /\ \A u \in Threads : TaskKnown(u)'
  <2>1. Showing /\ (\A u \in Threads : TaskKnown(u)) /\ Apart
    BY <1>1, <1>5 DEF ShowInv, ListInv
  <2>2. ASSUME NEW u \in Threads PROVE TaskKnown(u)'
    BY <1>2, <2>1 DEF TaskKnown, Judging
  <2>3. ASSUME enrolled, NEW u \in Threads PROVE ThreadShows(u)'
    <3>1. TaskThere(u) /\ ThreadShows(u)
      BY <2>1, <2>3, ApartIs DEF Showing
    <3>2. QED BY <1>1, <1>2, <3>1, ThreadShowsKept
  <2>4. ASSUME enrolled PROVE Calm'
    <3>1. SUFFICES ASSUME \A u \in Threads : ~Astray(u)'
                   PROVE  Right(score', contest', problem', Truth')
      BY DEF Calm
    <3>2. \A u \in Threads : ~Astray(u)
      BY <1>2, <3>1 DEF Astray
    <3>3. Right(score, contest, problem, Truth) /\ RowsInv
      BY <2>1, <2>4, <3>2 DEF Showing, Calm, TypeInv
    <3>4. Right(score, contest', problem, Truth')
      BY <3>3, RightKept DEF TypeInv, TreeInv
    <3>5. QED BY <1>2, <3>4
  <2>5. Showing'
    BY <1>2, <2>1, <2>3, <2>4 DEF Showing
  <2>6. QED BY <2>2, <2>5
<1>6. QED BY <1>3, <1>4, <1>5 DEF ShowInv

\* An operation of one step that is one of the causes of drift.
LEMMA QuickDrifts ==
  ASSUME TypeInv, ListInv, ShowInv, NEW why, Quick(why), why # {}, Numbered'
  PROVE  ShowInv'
<1>1. UNCHANGED <<score, pc, task, next>> /\ drift' = drift \cup why /\ ops' = ops + 1
  BY DEF Quick
<1>2. Lone'
  BY <1>1 DEF ShowInv, Lone, Judging
<1>3. ASSUME NEW u \in Threads PROVE MadeAnew(u)'
  BY <1>1, BegunNotAnew, NotMadeAnew
<1>4. drift' # {}
  BY <1>1
<1>5. QED BY <1>2, <1>3, <1>4 DEF ShowInv

-----------------------------------------------------------------------------
(* What a tree shows: operations that begin.                               *)

\* Before a task begins the tree is right; it still is when rows are only added.
LEMMA QuietCalm ==
  ASSUME ThreadsInv, Lone, Calm, \A u \in Threads : pc[u] = "idle" /\ ~Judging(u)
  PROVE  Right(score, contest, problem, Truth)
<1>1. \A u \in Threads : ~Astray(u)
  BY DEF Astray
<1>2. QED BY <1>1 DEF Calm

\* A task that begins without a change of a row: the tree is as right as before.
LEMMA RightBegun ==
  ASSUME RowsInv, Grows, Tells, UNCHANGED <<problem, score>>, Right(score, contest, problem, Truth)
  PROVE  Calm'
<1>1. problem' = problem /\ score' = score OBVIOUS
<1>2. PICK tree : tree = score OBVIOUS
<1>3. Right(tree, contest', problem, Truth')
  BY <1>2, RightKept
<1>4. QED BY <1>1, <1>2, <1>3 DEF Calm

\* A task of a student that is not enrolled changes nothing that is pending.
LEMMA NotEnrolled ==
  ASSUME ~enrolled, enrolled' = enrolled, Showing, subs' \subseteq subs
  PROVE  Showing'
BY PendingStay DEF Showing

\* A task begins that is no judgement and changes no row of a problem.
LEMMA BeginCalm ==
  ASSUME TypeInv, ListInv, ShowInv, NEW t \in Threads, NEW at \in {"copy", "tree", "build"}, NEW job, NEW why,
         Begin(t, at, job, why), job.kind \notin {"judge", "approve"}, at = "tree" => job.kind \notin Adders,
         Grows, UNCHANGED <<problem, subs, enrolled, score>>,
         job.kind = "copy" => \A p \in job.todo : ~problem[p].there
  PROVE  ShowInv'
<1>1. problem' = problem /\ subs' = subs /\ enrolled' = enrolled /\ score' = score OBVIOUS
<1>2. ASSUME drift' = {}, Showing, \A u \in Threads : pc[u] = "idle" /\ ~Judging(u),
             \A u \in Threads : u # t => pc'[u] = "idle", pc'[t] = at, task'[t] = job
      PROVE  Showing' /\ TaskKnown(t)'
  <2>1. TaskKnown(t)'
    BY <1>1, <1>2 DEF TaskKnown, Judging
  <2>2. ThreadShows(t)'
    BY <1>2 DEF ThreadShows, Judging
  <2>3. ASSUME enrolled PROVE Showing'
    <3>1. RowsInv /\ ThreadsInv /\ Lone /\ Calm
      BY <1>2, <2>3 DEF TypeInv, ShowInv, Showing
    <3>2. Right(score, contest, problem, Truth)
      BY <1>2, <3>1, QuietCalm
    <3>3. Tells
      BY <1>1, <1>2, NoneTells
    <3>4. Calm'
      BY <3>1, <3>2, <3>3, RightBegun
    <3>5. QED BY <1>1, <1>2, <2>2, <2>3, <3>4, LoneShows
  <2>4. QED BY <1>1, <1>2, <2>1, <2>3, NotEnrolled
<1>3. (/\ drift' = {} /\ Showing
       /\ \A u \in Threads : pc[u] = "idle" /\ ~Judging(u)
       /\ \A u \in Threads : u # t => pc'[u] = "idle"
       /\ pc'[t] = at /\ task'[t] = job)
        => Showing' /\ TaskKnown(t)'
  BY <1>2
<1>4. QED BY <1>1, <1>3, BeginShows

\* A contest is created.
LEMMA ShowCreateContest ==
  ASSUME TypeInv, ListInv, ShowInv, NEW c \in Contests, NEW row \in Rows, CreateContest(c, row)
  PROVE  ShowInv'
<1>1. Grows /\ Quick({}) /\ problem' = problem /\ subs' = subs /\ enrolled' = enrolled
  BY DEF CreateContest, Grows
<1>2. pc' = pc /\ task' = task
  BY <1>1 DEF Quick
<1>3. ASSUME NEW s, Awaited(s) PROVE Awaited(s)'
  BY <1>2, <1>3 DEF Awaited, Judging
<1>4. \A p \in Problems : SubsOf(p)' = SubsOf(p)
  BY <1>1 DEF SubsOf
<1>5. Tells
  BY <1>3, <1>4, TruthStays DEF Tells
<1>6. Numbered' /\ (AllPending => AllPending')
  BY <1>1, NumbersStay, PendingStay DEF ShowInv
<1>7. PICK why : why = {} OBVIOUS
<1>8. QED BY <1>1, <1>5, <1>6, <1>7, QuickShows

\* A contest is copied: its problems are not there yet.
LEMMA ShowCopyContest ==
  ASSUME TypeInv, ListInv, ShowInv, NEW t \in Threads, NEW c \in Contests, NEW row \in Rows,
         CopyContest(t, c, row, {p \in Problems : Home[p] = c})
  PROVE  ShowInv'
<1>1. PICK todo : todo = {p \in Problems : Home[p] = c} OBVIOUS
<1>2. PICK job : job = [Job("copy") EXCEPT !.contest = c, !.row = row, !.todo = todo] OBVIOUS
<1>3. /\ Begin(t, "copy", job, {}) /\ Grows /\ UNCHANGED <<problem, subs, enrolled, score>>
      /\ ~contest[c].there
  BY <1>1, <1>2 DEF CopyContest, Grows
<1>4. job.kind = "copy" /\ job.todo = todo
  BY <1>2 DEF Job
<1>5. ASSUME NEW p \in todo PROVE ~problem[p].there
  BY <1>1, <1>3, <1>5, ShownThere DEF TypeInv
<1>6. PICK at \in {"copy", "tree", "build"} : at = "copy" OBVIOUS
<1>7. PICK why : why = {} OBVIOUS
<1>8. job.kind \notin {"judge", "approve"} /\ at # "tree"
  BY <1>4, <1>6
<1>9. QED BY <1>3, <1>4, <1>5, <1>6, <1>7, <1>8, BeginCalm

\* An edit of a contest begins.
LEMMA ShowEditContest ==
  ASSUME TypeInv, ListInv, ShowInv, NEW t \in Threads, NEW c \in Contests, NEW row \in Rows,
         EditContest(t, c, row)
  PROVE  ShowInv'
<1>1. PICK job : job = [Job("editContest") EXCEPT !.contest = c, !.row = row] OBVIOUS
<1>2. Begin(t, "tree", job, {}) /\ Grows /\ UNCHANGED <<problem, subs, enrolled, score>>
  BY <1>1 DEF EditContest, Grows
<1>3. job.kind = "editContest"
  BY <1>1 DEF Job
<1>4. job.kind \notin {"judge", "approve", "copy"} /\ job.kind \notin Adders
  BY <1>3 DEF Adders
<1>5. PICK at \in {"copy", "tree", "build"} : at = "tree" OBVIOUS
<1>6. PICK why : why = {} OBVIOUS
<1>7. QED BY <1>2, <1>4, <1>5, <1>6, BeginCalm

\* The deletion of a contest begins.
LEMMA ShowDeleteContest ==
  ASSUME TypeInv, ListInv, ShowInv, NEW t \in Threads, NEW c \in Contests, DeleteContest(t, c)
  PROVE  ShowInv'
<1>1. PICK job : job = [Job("deleteContest") EXCEPT !.contest = c, !.row = contest[c]] OBVIOUS
<1>2. Begin(t, "tree", job, {}) /\ Grows /\ UNCHANGED <<problem, subs, enrolled, score>>
  BY <1>1 DEF DeleteContest, Grows
<1>3. job.kind = "deleteContest"
  BY <1>1 DEF Job
<1>4. job.kind \notin {"judge", "approve", "copy"} /\ job.kind \notin Adders
  BY <1>3 DEF Adders
<1>5. PICK at \in {"copy", "tree", "build"} : at = "tree" OBVIOUS
<1>6. PICK why : why = {} OBVIOUS
<1>7. QED BY <1>2, <1>4, <1>5, <1>6, BeginCalm

\* The deletion of a problem begins.
LEMMA ShowDeleteProblem ==
  ASSUME TypeInv, ListInv, ShowInv, NEW t \in Threads, NEW p \in Problems, DeleteProblem(t, p)
  PROVE  ShowInv'
<1>1. PICK job : job = [Job("deleteProblem") EXCEPT !.contest = Home[p], !.row = contest[Home[p]], !.problem = p]
  OBVIOUS
<1>2. Begin(t, "tree", job, {}) /\ Grows /\ UNCHANGED <<problem, subs, enrolled, score>>
  BY <1>1 DEF DeleteProblem, Grows
<1>3. job.kind = "deleteProblem"
  BY <1>1 DEF Job
<1>4. job.kind \notin {"judge", "approve", "copy"} /\ job.kind \notin Adders
  BY <1>3 DEF Adders
<1>5. PICK at \in {"copy", "tree", "build"} : at = "tree" OBVIOUS
<1>6. PICK why : why = {} OBVIOUS
<1>7. QED BY <1>2, <1>4, <1>5, <1>6, BeginCalm

\* A tree is to be made anew.
LEMMA ShowRecompute ==
  ASSUME TypeInv, ListInv, ShowInv, NEW t \in Threads, NEW kind \in {"rebuild", "batch"}, Recompute(t, kind)
  PROVE  ShowInv'
<1>1. PICK job : job = Job(kind) OBVIOUS
<1>2. Begin(t, "build", job, {}) /\ Grows /\ UNCHANGED <<problem, subs, enrolled, score>>
  BY <1>1 DEF Recompute, Grows
<1>3. job.kind = kind
  BY <1>1 DEF Job
<1>4. job.kind \notin {"judge", "approve", "copy"}
  BY <1>3
<1>5. PICK at \in {"copy", "tree", "build"} : at = "build" OBVIOUS
<1>6. PICK why : why = {} OBVIOUS
<1>7. QED BY <1>2, <1>4, <1>5, <1>6, BeginCalm

\* A student is approved: nothing has been judged, and the tree is new.
LEMMA ShowApprove ==
  ASSUME TypeInv, ListInv, ShowInv, NEW t \in Threads, Approve(t)
  PROVE  ShowInv'
<1>1. PICK job : job = Job("approve") OBVIOUS
<1>2. /\ Begin(t, "build", job, {}) /\ ~enrolled /\ enrolled'
      /\ contest' = contest /\ problem' = problem /\ subs' = subs /\ score' = score
  BY <1>1 DEF Approve
<1>3. job.kind = "approve"
  BY <1>1 DEF Job
<1>4. PICK at \in {"copy", "tree", "build"} : at = "build" OBVIOUS
<1>5. PICK why : why = {} OBVIOUS
<1>6. ASSUME drift' = {}, Showing, \A u \in Threads : pc[u] = "idle" /\ ~Judging(u),
             \A u \in Threads : u # t => pc'[u] = "idle", pc'[t] = at, task'[t] = job
      PROVE  Showing' /\ TaskKnown(t)'
  <2>1. TaskKnown(t)'
    BY <1>3, <1>4, <1>6 DEF TaskKnown, Judging
  <2>2. score = NewTree /\ AllPending
    BY <1>2, <1>6 DEF Showing, TypeInv, TreeInv
  <2>3. AllPending'
    BY <1>2, <2>2 DEF AllPending
  <2>4. ThreadShows(t)'
    BY <1>2, <1>3, <1>4, <1>6, <2>2, <2>3 DEF ThreadShows, Judging
  <2>5. Astray(t)'
    BY <1>3, <1>4, <1>6 DEF Astray
  <2>6. Calm'
    BY <2>5 DEF Calm
  <2>7. QED BY <1>2, <1>6, <2>1, <2>4, <2>6, LoneShows
<1>7. (/\ drift' = {} /\ Showing
       /\ \A u \in Threads : pc[u] = "idle" /\ ~Judging(u)
       /\ \A u \in Threads : u # t => pc'[u] = "idle"
       /\ pc'[t] = at /\ task'[t] = job)
        => Showing' /\ TaskKnown(t)'
  BY <1>6
<1>8. job.kind # "judge"
  BY <1>3
<1>9. QED BY <1>2, <1>4, <1>5, <1>7, <1>8, BeginShows

-----------------------------------------------------------------------------
(* What a tree shows: rows of problems.                                    *)

\* The row of a problem is saved: the tree is nearly right if nothing of it is to
\* be taken back, or to be told.
LEMMA RowSaved ==
  ASSUME RowsInv, NEW p \in Problems, NEW prob \in Rewards, problem' = [problem EXCEPT ![p] = prob],
         contest' = contest, score' = score, Tells, Right(score, contest, problem, Truth),
         problem[p].visible => prob.visible,
         prob.visible /\ ~problem[p].visible => SubsOf(p) = {}
  PROVE  Nearly(score', contest', problem', Truth', p)
<1>1. PICK old \in {NoProblem} \cup Rewards : old = problem[p]
  BY DEF RowsInv
<1>2. [problem' EXCEPT ![p] = old] = problem
  BY <1>1 DEF RowsInv
<1>3. PICK tree : tree = score OBVIOUS
<1>4. PICK truth : truth = Truth' OBVIOUS
<1>5. \A q \in Problems : \A i \in Truth[q] : i \in truth[q]
  BY <1>4 DEF Tells
<1>6. Right(tree, contest, problem, truth)
  BY <1>3, <1>5, RightTells
<1>7. problem'[p] = prob
  BY DEF RowsInv
<1>8. prob.visible /\ ~old.visible => NewInfo \in truth[p]
  BY <1>1, <1>5, NothingTold
<1>9. Right(score', contest', [problem' EXCEPT ![p] = old], Truth')
  BY <1>2, <1>3, <1>4, <1>6
<1>10. QED BY <1>1, <1>4, <1>7, <1>8, <1>9 DEF Nearly

\* A task begins with the row of a problem.
LEMMA ShowSaveProblem ==
  ASSUME TypeInv, ListInv, ShowInv, NEW t \in Threads, NEW kind \in {"createProblem", "editProblem"},
         NEW p \in Problems, NEW prob \in Rewards, NEW causes, SaveProblem(t, kind, p, prob, causes),
         enrolled /\ causes = {} =>
           (problem[p].visible => prob.visible) /\ (prob.visible /\ ~problem[p].visible => SubsOf(p) = {})
  PROVE  ShowInv'
<1>1. PICK job : job = [Job(kind) EXCEPT !.contest = Home[p], !.row = contest[Home[p]],
                                         !.problem = p, !.prob = prob]
  OBVIOUS
<1>2. /\ Begin(t, "tree", job, causes) /\ problem' = [problem EXCEPT ![p] = prob]
      /\ contest' = contest /\ subs' = subs /\ enrolled' = enrolled /\ score' = score
  BY <1>1 DEF SaveProblem
<1>3. job.kind = kind /\ job.problem = p /\ job.prob = prob
  BY <1>1 DEF Job
<1>4. PICK at \in {"copy", "tree", "build"} : at = "tree" OBVIOUS
<1>5. ASSUME drift' = {}, Showing, \A u \in Threads : pc[u] = "idle" /\ ~Judging(u),
             \A u \in Threads : u # t => pc'[u] = "idle", pc'[t] = at, task'[t] = job
      PROVE  Showing' /\ TaskKnown(t)'
  <2>1. RowsInv /\ ThreadsInv /\ Lone
    BY DEF TypeInv, ShowInv
  <2>2. problem'[p] = prob
    BY <1>2, <2>1 DEF RowsInv
  <2>3. TaskKnown(t)'
    BY <1>3, <1>4, <1>5, <2>2 DEF TaskKnown, Judging
  <2>4. ASSUME enrolled PROVE Showing'
    <3>1. causes = {}
      BY <1>2, <1>5 DEF Begin
    <3>2. Right(score, contest, problem, Truth)
      BY <1>5, <2>1, <2>4, QuietCalm DEF Showing
    <3>3. Tells
      BY <1>2, <1>5, NoneTells
    <3>4. Nearly(score', contest', problem', Truth', p)
      BY <1>2, <2>1, <2>4, <3>1, <3>2, <3>3, RowSaved
    <3>5. task'[t].problem = p /\ pc'[t] = "tree" /\ task'[t].kind \in {"createProblem", "editProblem"}
      BY <1>3, <1>4, <1>5
    <3>6. ThreadShows(t)'
      BY <3>4, <3>5 DEF ThreadShows, Judging
    <3>7. Astray(t)'
      BY <3>5 DEF Astray, Adders
    <3>8. Calm'
      BY <3>7 DEF Calm
    <3>9. QED BY <1>2, <1>5, <2>4, <3>6, <3>8, LoneShows
  <2>5. QED BY <1>2, <1>5, <2>3, <2>4, NotEnrolled
<1>6. (/\ drift' = {} /\ Showing
       /\ \A u \in Threads : pc[u] = "idle" /\ ~Judging(u)
       /\ \A u \in Threads : u # t => pc'[u] = "idle"
       /\ pc'[t] = at /\ task'[t] = job)
        => Showing' /\ TaskKnown(t)'
  BY <1>5
<1>7. job.kind # "judge"
  BY <1>3
<1>8. QED BY <1>2, <1>4, <1>6, <1>7, BeginShows

\* Submissions are made for problems that are there.
LEMMA NoSubsOf ==
  ASSUME SubsInv, NEW p, ~problem[p].there PROVE SubsOf(p) = {}
BY DEF SubsInv, SubsOf

\* A problem is created.
LEMMA ShowCreateProblem ==
  ASSUME TypeInv, ListInv, ShowInv, NEW t \in Threads, NEW p \in Problems, NEW prob \in Rewards,
         CreateProblem(t, p, prob)
  PROVE  ShowInv'
<1>1. SaveProblem(t, "createProblem", p, prob, {}) /\ ~problem[p].there
  BY DEF CreateProblem
<1>2. ~problem[p].visible /\ SubsOf(p) = {}
  BY <1>1, ShownThere, NoSubsOf DEF TypeInv
<1>3. PICK kind \in {"createProblem", "editProblem"} : kind = "createProblem" OBVIOUS
<1>4. PICK causes : causes = {} OBVIOUS
<1>5. QED BY <1>1, <1>2, <1>3, <1>4, ShowSaveProblem

\* A problem is edited: when it is hidden or shown the cause is kept.
LEMMA ShowEditProblem ==
  ASSUME TypeInv, ListInv, ShowInv, NEW t \in Threads, NEW p \in Problems, NEW prob \in Rewards,
         EditProblem(t, p, prob)
  PROVE  ShowInv'
<1>1. PICK hidden : hidden = (problem[p].visible # prob.visible
                              /\ IF prob.visible THEN SubsOf(p) # {} ELSE enrolled)
  OBVIOUS
<1>2. PICK causes : causes = IF hidden THEN {"hidden"} ELSE {} OBVIOUS
<1>3. SaveProblem(t, "editProblem", p, prob, causes)
  BY <1>1, <1>2 DEF EditProblem
<1>4. problem[p].visible \in BOOLEAN /\ prob.visible \in BOOLEAN
  <2>1. problem[p] \in {NoProblem} \cup Rewards
    BY DEF TypeInv, RowsInv
  <2>2. NoProblem.visible \in BOOLEAN /\ \A r \in Rewards : r.visible \in BOOLEAN
    BY DEF NoProblem, Rewards
  <2>3. QED BY <2>1, <2>2
<1>5. enrolled /\ causes = {} =>
        (problem[p].visible => prob.visible) /\ (prob.visible /\ ~problem[p].visible => SubsOf(p) = {})
  <2>1. causes = {} => ~hidden
    BY <1>2
  <2>2. QED BY <1>1, <1>4, <2>1
<1>6. PICK kind \in {"createProblem", "editProblem"} : kind = "editProblem" OBVIOUS
<1>7. QED BY <1>3, <1>5, <1>6, ShowSaveProblem

\* The submissions of a problem are deleted.
LEMMA ShowDeleteSubmissions ==
  ASSUME TypeInv, ListInv, ShowInv, NEW p, DeleteSubmissions(p) PROVE ShowInv'
<1>1. PICK why : why = {"unsubmitted"} OBVIOUS
<1>2. Quick(why) /\ subs' \subseteq subs
  BY <1>1 DEF DeleteSubmissions
<1>3. Numbered'
  BY <1>2, NumbersStay DEF ShowInv
<1>4. QED BY <1>1, <1>2, <1>3, QuickDrifts

\* A student is enrolled by a list.
LEMMA ShowEnrolByList == ASSUME TypeInv, ListInv, ShowInv, EnrolByList PROVE ShowInv'
<1>1. PICK why : why = {"unbuilt"} OBVIOUS
<1>2. Quick(why) /\ subs' = subs
  BY <1>1 DEF EnrolByList
<1>3. Numbered'
  BY <1>2, NumbersStay DEF ShowInv
<1>4. QED BY <1>1, <1>2, <1>3, QuickDrifts

\* A submission is made: it is awaited.
LEMMA ShowSubmit ==
  ASSUME TypeInv, ListInv, ShowInv, NEW p \in Problems, NEW key, Submit(p, key) PROVE ShowInv'
<1>1. PICK id : id = 1 + Max({s.id : s \in subs} \cup {0}) OBVIOUS
<1>2. PICK new : new = [id |-> id, key |-> key, problem |-> p, result |-> "pending", score |-> 0]
  OBVIOUS
<1>3. /\ subs' = subs \cup {new} /\ Quick({})
      /\ contest' = contest /\ problem' = problem /\ enrolled' = enrolled
  BY <1>1, <1>2 DEF Submit
<1>4. new.id = id /\ new.problem = p /\ new.result = "pending"
  BY <1>2
<1>5. id \in Nat /\ \A s \in subs : s.id < id
  BY <1>1, NewNumber DEF TypeInv, ShowInv
<1>6. Numbered'
  <2>1. \A s \in subs : s.id \in Nat /\ s.id # id
    BY <1>5 DEF ShowInv, Numbered
  <2>2. QED BY <1>3, <1>4, <1>5, <2>1 DEF ShowInv, Numbered
<1>7. pc' = pc /\ task' = task
  BY <1>3 DEF Quick
<1>8. ASSUME NEW s, Awaited(s) PROVE Awaited(s)'
  BY <1>7, <1>8 DEF Awaited, Judging
<1>9. ASSUME NEW q \in Problems PROVE \A i \in Truth[q] : i \in Truth'[q]
  <2>1. CASE q # p
    <3>1. SubsOf(q)' = SubsOf(q)
      BY <1>3, <1>4, <2>1 DEF SubsOf
    <3>2. QED BY <1>8, <3>1, TruthStays
  <2>2. CASE q = p
    <3>1. new \in SubsOf(q)' /\ Awaited(new)'
      BY <1>3, <1>4, <2>2 DEF SubsOf, Awaited
    <3>2. \A i : Told(i, q)'
      BY <3>1 DEF Told
    <3>3. QED BY <3>2 DEF Truth
  <2>3. QED BY <2>1, <2>2
<1>10. AllPending => AllPending'
  BY <1>3, <1>4 DEF AllPending
<1>11. PICK why : why = {} OBVIOUS
<1>12. Grows /\ Tells
  BY <1>3, <1>9 DEF Grows, Tells
<1>13. QED BY <1>3, <1>6, <1>10, <1>11, <1>12, QuickShows

-----------------------------------------------------------------------------
(* What a tree shows: judgements.                                          *)

\* Nothing but judgements goes on.
Judges == \A u \in Threads : pc[u] = "idle" \/ Judging(u)

LEMMA JudgesAre ==
  ASSUME ThreadsInv, Lone, Judges, NEW u \in Threads
  PROVE  ~Astray(u) /\ pc[u] \in {"idle", "judgement", "save"} /\ task[u].kind \in {"judge", None}
<1>1. StepOK(pc[u], task[u], next[u], enrolled, ops)
      /\ pc[u] \in {"idle", "copy", "tree", "row", "judgement", "build", "save"}
  BY DEF ThreadsInv
<1>2. CASE pc[u] = "idle"
  <2>1. task[u].kind = None
    BY <1>2 DEF Lone
  <2>2. QED BY <1>2, <2>1 DEF Astray
<1>3. CASE Judging(u)
  <2>1. task[u].kind = "judge"
    BY <1>3 DEF Judging
  <2>2. pc[u] \in {"idle", "judgement", "save"}
    BY <1>1, <2>1 DEF StepOK, Tasks, Makers
  <2>3. QED BY <2>1, <2>2 DEF Astray, Adders
<1>4. QED BY <1>2, <1>3 DEF Judges

LEMMA JudgesCalm ==
  ASSUME ThreadsInv, Lone, Judges, Calm PROVE Right(score, contest, problem, Truth)
<1>1. \A u \in Threads : ~Astray(u)
  BY JudgesAre
<1>2. QED BY <1>1 DEF Calm

\* A thread that waits for the result of a judgement, or for the other judgements.
LEMMA WaitingShows ==
  ASSUME NEW u \in Threads, pc'[u] \in {"idle", "judgement"}, task'[u].kind \in {"judge", None}
  PROVE  ThreadShows(u)'
<1>1. task'[u].kind # "approve"
  BY NoneAssumption
<1>2. QED BY <1>1 DEF ThreadShows

\* A judgement knows its submission as long as it is there.
LEMMA JudgeKnown ==
  ASSUME NEW u \in Threads, task'[u].kind \in {"judge", None},
         task'[u].kind = "judge" => task'[u].sub \in subs'
  PROVE  TaskKnown(u)'
<1>1. task'[u].kind # "copy" /\ task'[u].kind \notin Adders
  BY NoneAssumption DEF Adders
<1>2. QED BY <1>1 DEF TaskKnown, Judging

\* A judgement begins: its submission is awaited.
LEMMA JudgeTells ==
  ASSUME TypeInv, Lone, NEW t \in Threads, pc[t] = "idle", NEW s \in subs, NEW judged,
         judged.id = s.id, judged.problem = s.problem, subs' = (subs \ {s}) \cup {judged},
         task'[t].kind = "judge", task'[t].sub = judged, \A u \in Threads : u # t => task'[u] = task[u]
  PROVE  Tells
<1>1. ~Judging(t)
  BY IdleJudges
<1>2. ASSUME NEW r, Awaited(r) PROVE Awaited(r)'
  <2>1. CASE r.result = "pending"
    BY <2>1 DEF Awaited
  <2>2. ASSUME NEW u \in Threads, Judging(u), task[u].sub.id = r.id PROVE Awaited(r)'
    <3>1. task'[u] = task[u]
      BY <1>1, <2>2
    <3>2. QED BY <2>2, <3>1 DEF Awaited, Judging
  <2>3. QED BY <1>2, <2>1, <2>2 DEF Awaited
<1>3. ASSUME NEW q \in Problems PROVE \A i \in Truth[q] : i \in Truth'[q]
  <2>1. CASE q # s.problem
    <3>1. SubsOf(q)' = SubsOf(q)
      BY <2>1 DEF SubsOf
    <3>2. QED BY <1>2, <3>1, TruthStays
  <2>2. CASE q = s.problem
    <3>1. judged \in SubsOf(q)'
      BY <2>2 DEF SubsOf
    <3>2. Awaited(judged)'
      BY DEF Awaited, Judging
    <3>3. \A i : Told(i, q)'
      BY <3>1, <3>2 DEF Told
    <3>4. QED BY <3>3 DEF Truth
  <2>3. QED BY <2>1, <2>2
<1>4. QED BY <1>3 DEF Tells

\* A result is stored, at first or again.
LEMMA ShowJudge ==
  ASSUME TypeInv, ListInv, ShowInv, NEW t \in Threads, NEW s \in subs, NEW result, NEW late,
         Judge(t, s, result, late)
  PROVE  ShowInv'
<1>1. PICK judged : judged = [s EXCEPT !.result = result, !.score = IF result = "passed" THEN 1 ELSE 0]
  OBVIOUS
<1>2. PICK why : why = IF enrolled THEN {} ELSE {"unapproved"} OBVIOUS
<1>3. PICK job : job = [Job("judge") EXCEPT !.sub = judged] OBVIOUS
<1>4. /\ subs' = (subs \ {s}) \cup {judged} /\ UNCHANGED <<contest, problem, enrolled>>
      /\ Quick({"late"}) \/ (Begin(t, "judgement", job, why) /\ score' = score)
      /\ \A u \in Threads : ~(Judging(u) /\ task[u].sub.id = s.id)
  BY <1>1, <1>2, <1>3, Zenon DEF Judge
<1>5. contest' = contest /\ problem' = problem /\ enrolled' = enrolled
  BY <1>4
<1>6. judged.id = s.id /\ judged.problem = s.problem
  <2>1. IsSub(s)
    BY DEF TypeInv, SubsInv
  <2>2. QED BY <1>1, <2>1 DEF IsSub
<1>7. Numbered'
  <2>1. \A r \in subs : r.id = s.id => r = s
    BY DEF ShowInv, Numbered
  <2>2. QED BY <1>4, <1>6, <2>1 DEF ShowInv, Numbered
<1>8. CASE Quick({"late"})
  <2>1. PICK cause : cause = {"late"} OBVIOUS
  <2>2. QED BY <1>7, <1>8, <2>1, QuickDrifts
<1>9. CASE Begin(t, "judgement", job, why) /\ score' = score
  <2>1. job.kind = "judge" /\ job.sub = judged
    BY <1>3 DEF Job
  <2>2. pc' = [pc EXCEPT ![t] = "judgement"] /\ task' = [task EXCEPT ![t] = job] /\ next' = next
        /\ ops' = ops + 1 /\ pc[t] = "idle"
        /\ drift' = drift \cup why \cup IF Overlaps(job.kind) THEN {"overlap"} ELSE {}
    BY <1>9 DEF Begin, Busy
  <2>3. ThreadsInv /\ RowsInv /\ Lone
    BY DEF TypeInv, ShowInv
  <2>4. PICK at : at = "judgement" OBVIOUS
  <2>5. Lone'
    BY <2>2, <2>3, <2>4, LoneSteps
  <2>6. pc'[t] = "judgement" /\ task'[t] = job
    BY <2>2, <2>3 DEF ThreadsInv
  <2>7. \A u \in Threads : u # t => pc'[u] = pc[u] /\ task'[u] = task[u] /\ next'[u] = next[u]
    BY <2>2, <2>3 DEF ThreadsInv
  <2>8. ASSUME NEW u \in Threads PROVE MadeAnew(u)'
    <3>1. pc'[u] = "save" => pc[u] = "save" /\ task'[u] = task[u]
      BY <2>6, <2>7
    <3>2. QED BY <2>2, <3>1, BegunNotAnew, NotMadeAnew
  <2>9. ASSUME drift' = {} PROVE Showing' /\ \A u \in Threads : TaskKnown(u)'
    <3>1. drift = {} /\ enrolled /\ ~Overlaps(job.kind)
      BY <1>2, <2>2, <2>9
    <3>2. Showing /\ Apart /\ \A u \in Threads : TaskKnown(u)
      BY <3>1 DEF ShowInv, ListInv
    <3>3. Judges
      BY <2>1, <3>1 DEF Overlaps, Busy, Judges
    <3>4. Tells
      BY <1>4, <1>6, <2>1, <2>2, <2>3, <2>6, <2>7, JudgeTells
    <3>5. Grows
      BY <1>5 DEF Grows
    <3>6. Right(score, contest, problem, Truth)
      BY <2>3, <3>1, <3>2, <3>3, JudgesCalm DEF Showing
    <3>7. Calm'
      BY <1>5, <1>9, <2>3, <3>4, <3>5, <3>6, RightBegun
    <3>8. ASSUME NEW u \in Threads, u # t PROVE ThreadShows(u)'
      <4>1. TaskThere(u) /\ ThreadShows(u)
        BY <3>1, <3>2, ApartIs DEF Showing
      <4>2. task[u].kind # "approve"
        BY <2>3, <3>3, JudgesAre, NoneAssumption
      <4>3. QED BY <1>5, <1>9, <2>7, <3>4, <3>5, <3>8, <4>1, <4>2, ThreadShowsKept
    <3>9. ThreadShows(t)'
      BY <2>1, <2>6, WaitingShows
    <3>10. ASSUME NEW u \in Threads, u # t PROVE TaskKnown(u)'
      <4>1. task'[u] = task[u] /\ task[u].kind \in {"judge", None}
        BY <2>3, <2>7, <3>3, <3>10, JudgesAre
      <4>2. ASSUME task[u].kind = "judge" PROVE task[u].sub \in subs'
        <5>1. task[u].sub \in subs /\ task[u].sub.id # s.id
          BY <1>4, <3>2, <4>2 DEF TaskKnown, Judging
        <5>2. QED BY <1>4, <5>1
      <4>3. QED BY <4>1, <4>2, JudgeKnown
    <3>11. TaskKnown(t)'
      BY <1>4, <2>1, <2>6, JudgeKnown
    <3>12. Showing'
      BY <1>5, <3>1, <3>7, <3>8, <3>9, Zenon DEF Showing
    <3>13. QED BY <3>10, <3>11, <3>12
  <2>10. QED BY <1>7, <2>5, <2>8, <2>9 DEF ShowInv
<1>10. QED BY <1>4, <1>8, <1>9

\* A judgement that is busy is beside judgements only.
LEMMA JudgesOnly ==
  ASSUME Apart, NEW t \in Threads, Busy(t), Judging(t) PROVE Judges
BY DEF Apart, Judges, Busy

\* A judgement ends: what is awaited of the other problems still is.
LEMMA JudgedTells ==
  ASSUME Numbered, NEW t \in Threads, task[t].sub \in subs, subs' = subs,
         \A u \in Threads : u # t => task'[u] = task[u],
         NEW q \in Problems, q # task[t].sub.problem
  PROVE  \A i \in Truth[q] : i \in Truth'[q]
<1>1. ASSUME NEW r \in SubsOf(q), Awaited(r) PROVE Awaited(r)'
  <2>1. CASE r.result = "pending"
    BY <2>1 DEF Awaited
  <2>2. ASSUME NEW u \in Threads, Judging(u), task[u].sub.id = r.id PROVE Awaited(r)'
    <3>1. r \in subs /\ r.problem = q
      BY DEF SubsOf
    <3>2. u # t
      BY <2>2, <3>1 DEF Numbered
    <3>3. QED BY <2>2, <3>2 DEF Awaited, Judging
  <2>3. QED BY <1>1, <2>1, <2>2 DEF Awaited
<1>2. SubsOf(q)' = SubsOf(q)
  BY DEF SubsOf
<1>3. QED BY <1>1, <1>2, TruthStays

\* A judgement reads the tree and changes it.
LEMMA ShowJudgementRead ==
  ASSUME TypeInv, ListInv, ShowInv, NEW t \in Threads, ReadForJudgement(t),
         NEW c \in Contests, c = Home[task[t].sub.problem],
         enrolled /\ contest[c].there /\ Listed(score, contest[c].type, c)
  PROVE  ShowInv'
<1> DEFINE ty == contest[c].type
           r == Associate(score, ty, c, task[t].sub)
<1>1. /\ contest' = contest /\ problem' = problem /\ subs' = subs /\ enrolled' = enrolled
      /\ score' = score /\ ops' = ops /\ drift' = drift /\ pc[t] = "judgement"
      /\ task[t].kind = "judge" /\ IsSub(task[t].sub)
  BY ReadForJudgementCases
<1>2. ThreadsInv /\ RowsInv /\ Lone /\ Numbered /\ Busy(t) /\ Judging(t) /\ ty \in Types
  <2>1. Busy(t) /\ Judging(t)
    BY <1>1 DEF Busy, Judging
  <2>2. contest[c] \in Rows
    BY RowFacts DEF TypeInv
  <2>3. QED BY <2>1, <2>2 DEF TypeInv, ShowInv, Rows
<1>3. /\ next' = [next EXCEPT ![t] = r] /\ pc' = [pc EXCEPT ![t] = "save"] /\ task' = task
      /\ \A u \in Threads : ~(Judging(u) /\ pc[u] = "save")
  BY Zenon DEF ReadForJudgement
<1> HIDE DEF r, ty
<1>4. PICK at : at = "save" OBVIOUS
<1>5. PICK job : job = task[t] OBVIOUS
<1>6. pc' = [pc EXCEPT ![t] = at] /\ task' = [task EXCEPT ![t] = job] /\ job.kind = "judge"
  <2>1. task' = [task EXCEPT ![t] = task[t]]
    BY <1>2, <1>3 DEF ThreadsInv
  <2>2. QED BY <1>1, <1>4, <1>5, <1>3, <2>1
<1>7. Lone'
  BY <1>2, <1>4, <1>6, <1>3, LoneSteps
<1>8. ASSUME NEW u \in Threads PROVE MadeAnew(u)'
  <2>1. at = "save" => job.kind \notin {"rebuild", "batch"}
    BY <1>6
  <2>2. QED BY <1>1, <1>2, <1>6, <2>1, StepNotAnew, NotMadeAnew
<1>9. Numbered'
  BY <1>1, <1>2, NumbersStay
<1>10. ASSUME drift' = {} PROVE Showing' /\ \A u \in Threads : TaskKnown(u)'
  <2>1. Showing /\ Apart /\ \A u \in Threads : TaskKnown(u)
    BY <1>1, <1>10 DEF ShowInv, ListInv
  <2>2. Judges
    BY <1>2, <2>1, JudgesOnly
  <2>3. Right(score, contest, problem, Truth)
    BY <1>2, <2>1, <2>2, JudgesCalm DEF Showing
  <2>4. Tells
    <3>1. \A p \in Problems : SubsOf(p)' = SubsOf(p)
      BY <1>1 DEF SubsOf
    <3>2. ASSUME NEW s, Awaited(s) PROVE Awaited(s)'
      BY <1>3, <3>2 DEF Awaited, Judging
    <3>3. QED BY <3>1, <3>2, TruthStays DEF Tells
  <2>5. Grows
    BY <1>1 DEF Grows
  <2>6. Calm'
    BY <1>1, <1>2, <2>3, <2>4, <2>5, RightBegun
  <2>7. ASSUME NEW u \in Threads PROVE TaskKnown(u)'
    <3>1. task'[u] = task[u] /\ task[u].kind \in {"judge", None}
      BY <1>2, <1>3, <2>2, JudgesAre
    <3>2. task[u].kind = "judge" => task[u].sub \in subs'
      BY <1>1, <2>1 DEF TaskKnown, Judging
    <3>3. QED BY <3>1, <3>2, JudgeKnown
  <2>8. ASSUME NEW u \in Threads, u # t PROVE ThreadShows(u)'
    <3>1. pc'[u] = pc[u] /\ task'[u] = task[u]
      BY <1>2, <1>3, <2>8 DEF ThreadsInv
    <3>2. pc[u] \in {"idle", "judgement", "save"} /\ task[u].kind \in {"judge", None}
      BY <1>2, <2>2, JudgesAre
    <3>3. pc[u] = "save" => Judging(u)
      BY <2>2 DEF Judges
    <3>4. pc'[u] \in {"idle", "judgement"} /\ task'[u].kind \in {"judge", None}
      BY <1>3, <3>1, <3>2, <3>3
    <3>5. QED BY <3>4, WaitingShows
  <2>9. ThreadShows(t)'
    <3>1. PICK sub : sub = task[t].sub OBVIOUS
    <3>2. PICK tree \in Trees : tree = score
      BY DEF TypeInv, TreeInv
    <3>3. PICK truth : truth = Truth' OBVIOUS
    <3>4. truth = [p \in Problems |-> truth[p]]
      BY <3>3 DEF Truth
    <3>5. \A p \in Problems : \A i \in Truth[p] : i \in truth[p]
      BY <2>4, <3>3 DEF Tells
    <3>6. Right(tree, contest, problem, truth)
      BY <2>3, <3>2, <3>5, RightTells
    <3>7. r = Associate(tree, ty, c, sub) /\ ty = contest[c].type
      BY <3>1, <3>2 DEF r, ty
    <3>8. IsSub(sub) /\ c = Home[sub.problem]
      BY <1>1, <3>1
    <3>9. Right(r, contest, problem, Telling(truth, sub))
      BY <1>2, <3>4, <3>6, <3>7, <3>8, AssociateRight
    <3>10. next'[t] = r /\ pc'[t] = "save"
      BY <1>2, <1>3 DEF ThreadsInv
    <3>11. task'[t].sub = sub /\ task'[t].kind = "judge"
      BY <1>1, <1>3, <3>1
    <3>12. Right(next'[t], contest', problem', Telling(Truth', task'[t].sub))
      BY <1>1, <3>3, <3>9, <3>10, <3>11
    <3>13. "judge" \notin Tasks \cup {"approve", "rebuild"}
      BY DEF Tasks
    <3>14. QED BY <3>10, <3>11, <3>12, <3>13 DEF ThreadShows
  <2>10. Showing'
    <3>1. enrolled' /\ \A u \in Threads : ThreadShows(u)'
      BY <1>1, <2>8, <2>9
    <3>2. QED BY <2>6, <3>1, Zenon DEF Showing
  <2>11. QED BY <2>7, <2>10
<1>11. QED BY <1>7, <1>8, <1>9, <1>10 DEF ShowInv

\* A judgement ends when no tree is to be changed: its problem is not shown.
LEMMA ShowJudgementLost ==
  ASSUME TypeInv, ListInv, ShowInv, NEW t \in Threads, pc[t] = "judgement", Judging(t), IsSub(task[t].sub),
         \A u \in Threads : ~(Judging(u) /\ pc[u] = "save"),
         NEW c \in Contests, c = Home[task[t].sub.problem],
         ~(enrolled /\ contest[c].there /\ Listed(score, contest[c].type, c)), End(t),
         UNCHANGED <<contest, problem, subs, enrolled, score, ops, drift>>
  PROVE  ShowInv'
<1>1. /\ contest' = contest /\ problem' = problem /\ subs' = subs /\ enrolled' = enrolled
      /\ score' = score /\ ops' = ops /\ drift' = drift
  OBVIOUS
<1>2. ThreadsInv /\ RowsInv /\ Lone /\ Numbered /\ Busy(t)
  BY DEF TypeInv, ShowInv, Busy
<1>3. PICK at : at = "idle" OBVIOUS
<1>4. PICK job : job = Idle OBVIOUS
<1>5. pc' = [pc EXCEPT ![t] = at] /\ task' = [task EXCEPT ![t] = job] /\ job.kind = None
  BY <1>3, <1>4 DEF End, Idle, Job
<1>6. Lone'
  BY <1>2, <1>3, <1>5, LoneSteps
<1>7. ASSUME NEW u \in Threads PROVE MadeAnew(u)'
  BY <1>1, <1>2, EndsNotAnew, NotMadeAnew
<1>8. Numbered'
  BY <1>1, <1>2, NumbersStay
<1>9. pc'[t] = "idle" /\ task'[t].kind = None
      /\ \A u \in Threads : u # t => pc'[u] = pc[u] /\ task'[u] = task[u]
  BY <1>2, <1>3, <1>5 DEF ThreadsInv
<1>10. ASSUME drift' = {} PROVE Showing' /\ \A u \in Threads : TaskKnown(u)'
  <2>1. Showing /\ Apart /\ \A u \in Threads : TaskKnown(u)
    BY <1>1, <1>10 DEF ShowInv, ListInv
  <2>2. Judges
    BY <1>2, <2>1, JudgesOnly
  <2>3. task[t].sub \in subs
    BY <2>1 DEF TaskKnown
  <2>4. ASSUME NEW u \in Threads PROVE TaskKnown(u)'
    <3>1. task'[u].kind \in {"judge", None} /\ (task'[u].kind = "judge" => task[u].kind = "judge" /\ u # t)
      BY <1>2, <1>9, <2>2, JudgesAre, NoneAssumption
    <3>2. task'[u].kind = "judge" => task'[u].sub \in subs'
      BY <1>1, <1>9, <2>1, <3>1 DEF TaskKnown, Judging
    <3>3. QED BY <3>1, <3>2, JudgeKnown
  <2>5. ASSUME NEW u \in Threads PROVE ThreadShows(u)'
    <3>1. pc[u] \in {"idle", "judgement", "save"} /\ task[u].kind \in {"judge", None}
      BY <1>2, <2>2, JudgesAre
    <3>2. pc[u] = "save" => Judging(u)
      BY <2>2 DEF Judges
    <3>3. pc'[u] \in {"idle", "judgement"} /\ task'[u].kind \in {"judge", None}
      BY <1>9, <3>1, <3>2
    <3>4. QED BY <3>3, WaitingShows
  <2>6. ASSUME enrolled PROVE Calm'
    <3>1. Right(score, contest, problem, Truth)
      BY <1>2, <2>1, <2>2, <2>6, JudgesCalm DEF Showing
    <3>2. PICK p \in Problems : p = task[t].sub.problem
      BY DEF IsSub
    <3>3. ~problem[p].visible
      <4>1. SUFFICES ASSUME problem[p].visible PROVE FALSE OBVIOUS
      <4>2. contest[c].there /\ contest[c] \in Rows
        BY <1>2, <3>2, <4>1, ShownThere, RowFacts
      <4>3. contest[c].type \in Types
        BY <4>2 DEF Rows
      <4>4. Holds(score, contest[c].type, c, p)
        BY <3>1, <3>2, <4>1, <4>3, RightLists
      <4>5. QED BY <2>6, <4>2, <4>4 DEF Holds
    <3>4. PICK truth : truth = Truth' OBVIOUS
    <3>5. \A q \in Problems : problem[q].visible => \A i \in Truth[q] : i \in truth[q]
      BY <1>1, <1>2, <1>9, <2>3, <3>2, <3>3, <3>4, JudgedTells
    <3>6. PICK tree : tree = score OBVIOUS
    <3>7. Right(tree, contest, problem, truth)
      BY <3>1, <3>5, <3>6, RightTells
    <3>8. QED BY <1>1, <3>4, <3>6, <3>7 DEF Calm
  <2>7. ~enrolled => Showing'
    BY <1>1, <2>1, NotEnrolled
  <2>8. Showing'
    <3>1. CASE enrolled
      <4>1. enrolled' /\ Calm'
        BY <1>1, <2>6, <3>1
      <4>2. QED BY <2>5, <4>1, Zenon DEF Showing
    <3>2. QED BY <2>7, <3>1
  <2>9. QED BY <2>4, <2>8
<1>11. QED BY <1>6, <1>7, <1>8, <1>10 DEF ShowInv

\* A judgement reads the tree, or ends.
LEMMA ShowReadForJudgement ==
  ASSUME TypeInv, ListInv, ShowInv, NEW t \in Threads, ReadForJudgement(t) PROVE ShowInv'
<1>1. /\ UNCHANGED <<contest, problem, subs, enrolled, score, ops, drift>>
      /\ task[t].kind = "judge" /\ IsSub(task[t].sub) /\ pc[t] = "judgement"
  BY ReadForJudgementCases
<1>2. Judging(t)
  BY <1>1 DEF Judging
<1>3. \A u \in Threads : ~(Judging(u) /\ pc[u] = "save")
  BY DEF ReadForJudgement
<1>4. PICK c \in Contests : c = Home[task[t].sub.problem]
  BY <1>1, HomeAssumption DEF IsSub
<1>5. CASE enrolled /\ contest[c].there /\ Listed(score, contest[c].type, c)
  BY <1>4, <1>5, ShowJudgementRead
<1>6. CASE ~(enrolled /\ contest[c].there /\ Listed(score, contest[c].type, c))
  <2>1. End(t)
    BY <1>4, <1>6, Zenon DEF ReadForJudgement
  <2>2. QED BY <1>1, <1>2, <1>3, <1>4, <1>6, <2>1, ShowJudgementLost
<1>7. QED BY <1>5, <1>6

\* A judgement is saved: the line tells of it, or of what is awaited.
LEMMA SavedTells ==
  ASSUME Numbered, NEW t \in Threads, NEW sub \in subs, sub = task[t].sub, subs' = subs, sub.problem \in Problems,
         \A u \in Threads : u # t => task'[u] = task[u],
         \A r \in SubsOf(sub.problem) : r.id > sub.id => Awaited(r),
         NEW q \in Problems
  PROVE  \A i \in Telling(Truth, sub)[q] : i \in Truth'[q]
<1>1. CASE q # sub.problem
  <2>1. Telling(Truth, sub)[q] = Truth[q]
    BY <1>1 DEF Telling, Truth
  <2>2. QED BY <1>1, <2>1, JudgedTells
<1>2. CASE q = sub.problem
  <2>1. ASSUME NEW i \in Telling(Truth, sub)[q] PROVE i \in Info /\ Alike(i, Outcome(NewInfo, sub))
    BY <1>2, <2>1 DEF Telling, Truth
  <2>2. CASE sub \in Latest
    <3>1. sub \in SubsOf(q)' /\ sub \in Latest'
      BY <1>2, <2>2 DEF SubsOf, Latest
    <3>2. QED BY <2>1, <3>1 DEF Truth, Told
  <2>3. CASE sub \notin Latest
    <3>1. PICK r \in SubsOf(sub.problem) : r.id > sub.id
      BY <2>3, LaterExists
    <3>2. Awaited(r) /\ r.id # sub.id
      BY <3>1 DEF Numbered, SubsOf
    <3>3. Awaited(r)'
      <4>1. CASE r.result = "pending"
        BY <4>1 DEF Awaited
      <4>2. ASSUME NEW u \in Threads, Judging(u), task[u].sub.id = r.id PROVE Awaited(r)'
        <5>1. task'[u] = task[u]
          BY <3>2, <4>2
        <5>2. QED BY <4>2, <5>1 DEF Awaited, Judging
      <4>3. QED BY <3>2, <4>1, <4>2 DEF Awaited
    <3>4. r \in SubsOf(q)'
      BY <1>2, <3>1 DEF SubsOf
    <3>5. \A i : Told(i, q)'
      BY <3>3, <3>4 DEF Told
    <3>6. QED BY <2>1, <3>5 DEF Truth
  <2>4. QED BY <2>2, <2>3
<1>3. QED BY <1>1, <1>2

\* The tree of a judgement is saved.
LEMMA ShowSaveJudgement ==
  ASSUME TypeInv, ListInv, ShowInv, NEW t \in Threads, SaveJudgement(t) PROVE ShowInv'
<1>1. /\ contest' = contest /\ problem' = problem /\ subs' = subs /\ enrolled' = enrolled
      /\ score' = next[t] /\ ops' = ops /\ End(t) /\ pc[t] = "save" /\ Judging(t)
  BY DEF SaveJudgement
<1>2. PICK late : late = \E r \in SubsOf(task[t].sub.problem) :
                           /\ r.id > task[t].sub.id /\ r.result # "pending"
                           /\ ~\E u \in Threads : Judging(u) /\ task[u].sub.id = r.id
  OBVIOUS
<1>3. drift' = drift \cup IF late THEN {"reordered"} ELSE {}
  BY <1>2 DEF SaveJudgement
<1>4. ThreadsInv /\ RowsInv /\ Lone /\ Numbered /\ Busy(t)
  BY <1>1 DEF TypeInv, ShowInv, Busy
<1>5. PICK at : at = "idle" OBVIOUS
<1>6. PICK job : job = Idle OBVIOUS
<1>7. pc' = [pc EXCEPT ![t] = at] /\ task' = [task EXCEPT ![t] = job] /\ job.kind = None
  BY <1>1, <1>5, <1>6 DEF End, Idle, Job
<1>8. Lone'
  BY <1>4, <1>5, <1>7, LoneSteps
<1>9. ASSUME NEW u \in Threads PROVE MadeAnew(u)'
  BY <1>1, <1>4, EndsNotAnew, NotMadeAnew
<1>10. Numbered'
  BY <1>1, <1>4, NumbersStay
<1>11. pc'[t] = "idle" /\ task'[t].kind = None
       /\ \A u \in Threads : u # t => pc'[u] = pc[u] /\ task'[u] = task[u]
  BY <1>4, <1>5, <1>7 DEF ThreadsInv
<1>12. ASSUME drift' = {} PROVE Showing' /\ \A u \in Threads : TaskKnown(u)'
  <2>1. drift = {} /\ ~late
    BY <1>3, <1>12
  <2>2. Showing /\ Apart /\ \A u \in Threads : TaskKnown(u)
    BY <2>1 DEF ShowInv, ListInv
  <2>3. Judges
    BY <1>1, <1>4, <2>2, JudgesOnly
  <2>4. PICK sub \in subs : sub = task[t].sub
    BY <1>1, <2>2 DEF TaskKnown
  <2>5. ASSUME NEW u \in Threads PROVE TaskKnown(u)'
    <3>1. task'[u].kind \in {"judge", None} /\ (task'[u].kind = "judge" => task[u].kind = "judge" /\ u # t)
      BY <1>4, <1>11, <2>3, JudgesAre, NoneAssumption
    <3>2. task'[u].kind = "judge" => task'[u].sub \in subs'
      BY <1>1, <1>11, <2>2, <3>1 DEF TaskKnown, Judging
    <3>3. QED BY <3>1, <3>2, JudgeKnown
  <2>6. ASSUME NEW u \in Threads PROVE ThreadShows(u)'
    <3>1. pc[u] \in {"idle", "judgement", "save"} /\ task[u].kind \in {"judge", None}
      BY <1>4, <2>3, JudgesAre
    <3>2. u # t => pc[u] # "save"
      BY <1>1, <1>4, <2>3 DEF Judges, Lone
    <3>3. pc'[u] \in {"idle", "judgement"} /\ task'[u].kind \in {"judge", None}
      BY <1>11, <3>1, <3>2
    <3>4. QED BY <3>3, WaitingShows
  <2>7. ASSUME enrolled PROVE Calm'
    <3>1. PICK tree : tree = next[t] OBVIOUS
    <3>2. PICK told : told = Telling(Truth, sub) OBVIOUS
    <3>3. Right(tree, contest, problem, told)
      BY <1>1, <2>2, <2>4, <2>7, <3>1, <3>2 DEF Showing, ThreadShows
    <3>4. PICK truth : truth = Truth' OBVIOUS
    <3>5. \A r \in SubsOf(sub.problem) : r.id > sub.id => Awaited(r)
      BY <1>2, <2>1, <2>4 DEF Awaited
    <3>6. sub.problem \in Problems
      BY DEF TypeInv, SubsInv, IsSub
    <3>7. \A q \in Problems : \A i \in told[q] : i \in truth[q]
      BY <1>1, <1>4, <1>11, <2>4, <3>2, <3>4, <3>5, <3>6, SavedTells
    <3>8. Right(tree, contest, problem, truth)
      BY <3>3, <3>7, RightTells
    <3>9. QED BY <1>1, <3>1, <3>4, <3>8 DEF Calm
  <2>8. Showing'
    <3>1. CASE enrolled
      <4>1. enrolled' /\ Calm'
        BY <1>1, <2>7, <3>1
      <4>2. QED BY <2>6, <4>1, Zenon DEF Showing
    <3>2. CASE ~enrolled
      BY <1>1, <2>2, <3>2, NotEnrolled
    <3>3. QED BY <3>1, <3>2
  <2>9. QED BY <2>5, <2>8
<1>13. QED BY <1>8, <1>9, <1>10, <1>12 DEF ShowInv

-----------------------------------------------------------------------------
(* What a tree shows: tasks that change the tree, and rows.                *)

\* More may be told of a tree as it is.
LEMMA RightTold ==
  ASSUME NEW con, NEW prob, NEW tree, Right(tree, con, prob, Truth), Tells
  PROVE  Right(tree, con, prob, Truth')
<1>1. PICK truth : truth = Truth' OBVIOUS
<1>2. \A p \in Problems : \A i \in Truth[p] : i \in truth[p]
  BY <1>1 DEF Tells
<1>3. Right(tree, con, prob, truth)
  BY <1>2, RightTells
<1>4. QED BY <1>1, <1>3

\* A task ends that was the only one.
LEMMA EndsShows ==
  ASSUME TypeInv, ListInv, ShowInv, NEW t \in Threads, Busy(t), ~Judging(t), End(t),
         ops' = ops, subs' \subseteq subs, drift' = drift, enrolled' = enrolled,
         enrolled /\ Alone(t) => Right(score', contest', problem', Truth')
  PROVE  ShowInv'
<1>1. PICK at : at = "idle" OBVIOUS
<1>2. PICK job : job = Idle OBVIOUS
<1>3. pc' = [pc EXCEPT ![t] = at] /\ task' = [task EXCEPT ![t] = job] /\ job.kind = None
  BY <1>1, <1>2 DEF End, Idle, Job
<1>4. job.kind # "judge"
  BY <1>3, NoneAssumption
<1>5. ASSUME NEW u \in Threads PROVE MadeAnew(u)'
  BY EndsNotAnew, NotMadeAnew DEF TypeInv
<1>6. pc'[t] = "idle" /\ task'[t].kind = None
  BY <1>1, <1>3 DEF TypeInv, ThreadsInv
<1>7. ASSUME Alone(t) PROVE Showing' /\ TaskKnown(t)'
  <2>1. TaskKnown(t)' /\ ThreadShows(t)'
    BY <1>6, IdleShows
  <2>2. ASSUME enrolled PROVE Showing'
    <3>1. Calm'
      BY <1>7, <2>2 DEF Calm
    <3>2. enrolled'
      BY <2>2
    <3>3. QED BY <1>3, <1>7, <2>1, <3>1, <3>2, AloneShows DEF TypeInv
  <2>3. QED BY <1>7, <2>1, <2>2, NotEnrolled DEF Alone
<1>8. drift \subseteq drift' OBVIOUS
<1>9. QED BY <1>1, <1>3, <1>4, <1>5, <1>7, <1>8, AloneSteps

\* It goes on to its next step.
LEMMA GoesShows ==
  ASSUME TypeInv, ListInv, ShowInv, NEW t \in Threads, Busy(t), ~Judging(t), task[t].kind # "approve",
         NEW at \in {"copy", "row"}, GoTo(t, at),
         contest' = contest, problem' = problem, subs' = subs, ops' = ops, drift' = drift, enrolled' = enrolled,
         enrolled /\ Alone(t) => IF at = "copy" THEN Right(score', contest, problem, Truth)
           ELSE Right(score', RowsAfter(t), ProblemsAfter(t), Truth)
  PROVE  ShowInv'
<1>1. PICK job : job = task[t] OBVIOUS
<1>2. pc' = [pc EXCEPT ![t] = at] /\ task' = [task EXCEPT ![t] = job] /\ task' = task /\ pc'[t] = at
  BY <1>1 DEF GoTo, TypeInv, ThreadsInv
<1>3. job.kind # "judge" /\ at \notin {"idle", "tree", "save"}
  BY <1>1 DEF Judging
<1>4. ASSUME NEW u \in Threads PROVE MadeAnew(u)'
  BY GoesNotAnew, NotMadeAnew DEF TypeInv
<1>5. RowsAfter(t)' = RowsAfter(t) /\ ProblemsAfter(t)' = ProblemsAfter(t)
  BY <1>2 DEF RowsAfter, ProblemsAfter
<1>6. ASSUME Alone(t) PROVE Showing' /\ TaskKnown(t)'
  <2>1. TaskKnown(t)'
    BY <1>2, <1>3, <1>6 DEF TaskKnown, Judging, Alone
  <2>2. ASSUME enrolled PROVE Showing'
    <3>1. Tells
      BY <1>6, AloneTells
    <3>2. PICK tree : tree = score' OBVIOUS
    <3>3. CASE at = "copy"
      <4>1. Right(tree, contest, problem, Truth)
        BY <1>6, <2>2, <3>2, <3>3
      <4>2. Right(tree, contest, problem, Truth')
        BY <3>1, <4>1, RightTold
      <4>3. Calm'
        BY <3>2, <4>2 DEF Calm
      <4>4. ThreadShows(t)'
        BY <1>2, <1>3, <3>3 DEF ThreadShows
      <4>5. enrolled'
        BY <2>2
      <4>6. QED BY <1>2, <1>6, <4>3, <4>4, <4>5, AloneShows DEF TypeInv
    <3>4. CASE at = "row"
      <4>1. Right(tree, RowsAfter(t), ProblemsAfter(t), Truth)
        BY <1>6, <2>2, <3>2, <3>4
      <4>2. Right(tree, RowsAfter(t), ProblemsAfter(t), Truth')
        BY <3>1, <4>1, RightTold
      <4>3. Right(score', RowsAfter(t)', ProblemsAfter(t)', Truth')
        BY <1>5, <3>2, <4>2
      <4>4. ThreadShows(t)'
        BY <1>2, <1>3, <3>4, <4>3 DEF ThreadShows
      <4>5. Calm'
        BY <1>2, <3>4 DEF Calm, Astray
      <4>6. enrolled'
        BY <2>2
      <4>7. QED BY <1>2, <1>6, <4>4, <4>5, <4>6, AloneShows DEF TypeInv
    <3>5. QED BY <3>3, <3>4
  <2>3. QED BY <1>6, <2>1, <2>2, NotEnrolled DEF Alone
<1>7. drift \subseteq drift' /\ subs' \subseteq subs OBVIOUS
<1>8. QED BY <1>2, <1>3, <1>4, <1>6, <1>7, AloneSteps

\* Rows that only a task on a contest, or a deletion, will change.
LEMMA AfterRows ==
  ASSUME NEW t \in Threads, task[t].kind \notin {"editContest", "deleteContest", "deleteProblem"}
  PROVE  RowsAfter(t) = contest /\ ProblemsAfter(t) = problem
BY DEF RowsAfter, ProblemsAfter

\* The trees are done: the tree is what the rows will say.
LEMMA AfterTreeShows ==
  ASSUME TypeInv, ListInv, ShowInv, NEW t \in Threads, Busy(t), task[t].kind \in Tasks, AfterTree(t),
         contest' = contest, problem' = problem, subs' = subs, ops' = ops, drift' = drift, enrolled' = enrolled,
         enrolled /\ Alone(t) => Right(score', RowsAfter(t), ProblemsAfter(t), Truth)
  PROVE  ShowInv'
<1>1. ~Judging(t) /\ task[t].kind # "approve"
  BY DEF Tasks, Judging
<1>2. CASE task[t].kind \in {"createProblem", "editProblem"}
  <2>1. End(t)
    BY <1>2 DEF AfterTree
  <2>2. RowsAfter(t) = contest /\ ProblemsAfter(t) = problem
    BY <1>2, AfterRows
  <2>3. ASSUME enrolled, Alone(t) PROVE Right(score', contest', problem', Truth')
    <3>1. PICK tree : tree = score' OBVIOUS
    <3>2. Right(tree, contest, problem, Truth)
      BY <2>2, <2>3, <3>1
    <3>3. Right(tree, contest, problem, Truth')
      BY <2>3, <3>2, AloneTells, RightTold
    <3>4. QED BY <3>1, <3>3
  <2>4. subs' \subseteq subs OBVIOUS
  <2>5. QED BY <1>1, <2>1, <2>3, <2>4, EndsShows
<1>3. CASE task[t].kind = "copy"
  <2>1. GoTo(t, "copy")
    BY <1>3 DEF AfterTree
  <2>2. RowsAfter(t) = contest /\ ProblemsAfter(t) = problem
    BY <1>3, AfterRows
  <2>3. PICK at \in {"copy", "row"} : at = "copy" OBVIOUS
  <2>4. enrolled /\ Alone(t) =>
          IF at = "copy" THEN Right(score', contest, problem, Truth)
          ELSE Right(score', RowsAfter(t), ProblemsAfter(t), Truth)
    BY <2>2, <2>3
  <2>5. QED BY <1>1, <2>1, <2>3, <2>4, GoesShows
<1>4. CASE task[t].kind \in {"editContest", "deleteContest", "deleteProblem"}
  <2>1. GoTo(t, "row")
    BY <1>4 DEF AfterTree
  <2>2. PICK at \in {"copy", "row"} : at = "row" OBVIOUS
  <2>3. enrolled /\ Alone(t) =>
          IF at = "copy" THEN Right(score', contest, problem, Truth)
          ELSE Right(score', RowsAfter(t), ProblemsAfter(t), Truth)
    BY <2>2
  <2>4. QED BY <1>1, <2>1, <2>2, <2>3, GoesShows
<1>5. QED BY <1>2, <1>3, <1>4 DEF Tasks

\* While a task that is not adding a problem has the tree, or has read it, the tree
\* is as right as before.
LEMMA TreeWaits ==
  ASSUME NEW t \in Threads, Calm, \A u \in Threads : u # t => pc[u] = "idle", ~Astray(t)
  PROVE  Right(score, contest, problem, Truth)
<1>1. \A u \in Threads : ~Astray(u)
  BY DEF Astray
<1>2. QED BY <1>1 DEF Calm

\* What a task changes in the tree makes up for what it changes, or will change, in
\* the rows.
LEMMA ChangedRight ==
  ASSUME TypeInv, NEW t \in Threads, TaskThere(t), TaskKnown(t), pc[t] = "tree", ThreadShows(t), Calm,
         \A u \in Threads : u # t => pc[u] = "idle"
  PROVE  Right(Changed(t), RowsAfter(t), ProblemsAfter(t), Truth)
<1>1. task[t].kind \in Tasks /\ task[t].contest \in Contests /\ task[t].row \in Rows /\ Busy(t)
  BY DEF TypeInv, ThreadsInv, StepOK, JobOK, Busy
<1>2. PICK c \in Contests : c = task[t].contest
  BY <1>1
<1>3. PICK tree \in Trees : tree = score
  BY DEF TypeInv, TreeInv
<1>4. PICK truth : truth = Truth OBVIOUS
<1>5. truth = [p \in Problems |-> truth[p]] /\ Sound(truth)
  BY <1>4, TruthSound DEF Truth
<1>6. CASE task[t].kind \in {"copy", "createProblem", "editProblem"}
  <2>1. task[t].kind \in Adders /\ contest[c] = task[t].row /\ RowFor(t) = task[t].row
    BY <1>1, <1>2, <1>6 DEF Adders, TaskThere, RowFor
  <2>2. task[t].problem \in Problems /\ Home[task[t].problem] = c /\ task[t].prob \in Rewards
    BY <1>2, <1>6 DEF TypeInv, ThreadsInv, JobOK, StepOK
  <2>3. PICK p \in Problems : p = task[t].problem
    BY <2>2
  <2>4. PICK row \in Rows : row = task[t].row
    BY <1>1
  <2>5. task[t].prob = problem[p] /\ problem[p] \in Rewards
    BY <2>1, <2>2, <2>3 DEF TaskKnown
  <2>6. Nearly(tree, contest, problem, truth, p)
    BY <1>3, <1>4, <2>1, <2>3 DEF ThreadShows
  <2>7. problem \in [Problems -> {NoProblem} \cup Rewards]
    BY DEF TypeInv, RowsInv
  <2>8. contest[Home[p]] = row
    BY <2>1, <2>2, <2>3, <2>4
  <2>9. Right(MigrateProblem(tree, row, Home[p], p, problem[p]), contest, problem, truth)
    BY <1>5, <2>5, <2>6, <2>7, <2>8, MigrateRight
  <2>10. Changed(t) = MigrateProblem(tree, row, Home[p], p, problem[p])
    <3>1. Changed(t) = MigrateProblem(score, RowFor(t), task[t].contest, task[t].problem, task[t].prob)
      BY <1>6 DEF Changed
    <3>2. QED BY <1>2, <1>3, <2>1, <2>2, <2>3, <2>4, <2>5, <3>1
  <2>11. RowsAfter(t) = contest /\ ProblemsAfter(t) = problem
    BY <1>6, AfterRows
  <2>12. QED BY <1>4, <2>9, <2>10, <2>11
<1>7. ASSUME task[t].kind \in {"deleteProblem", "editContest", "deleteContest"}
      PROVE  Right(tree, contest, problem, truth)
  <2>1. ~Astray(t)
    BY <1>7 DEF Astray, Adders
  <2>2. QED BY <1>3, <1>4, <2>1, TreeWaits
<1>8. CASE task[t].kind = "deleteProblem"
  <2>1. task[t].problem \in Problems /\ Home[task[t].problem] = c
    BY <1>2, <1>8 DEF TypeInv, ThreadsInv, JobOK
  <2>2. PICK p \in Problems : p = task[t].problem
    BY <2>1
  <2>3. PICK row \in Rows : row = task[t].row
    BY <1>1
  <2>4. contest[Home[p]] = row
    BY <1>1, <1>2, <1>8, <2>1, <2>2, <2>3 DEF TaskThere
  <2>5. problem = [q \in Problems |-> problem[q]]
    BY DEF TypeInv, RowsInv
  <2>6. Right(tree, contest, problem, truth)
    BY <1>7, <1>8
  <2>7. Right(RemoveProblem(tree, row, Home[p], p), contest, [problem EXCEPT ![p] = NoProblem], truth)
    BY <2>4, <2>5, <2>6, RemoveRight
  <2>8. Changed(t) = RemoveProblem(tree, row, Home[p], p)
    <3>1. Changed(t) = RemoveProblem(score, task[t].row, task[t].contest, task[t].problem)
      BY <1>8 DEF Changed
    <3>2. QED BY <1>2, <1>3, <2>1, <2>2, <2>3, <3>1
  <2>9. RowsAfter(t) = contest /\ ProblemsAfter(t) = [problem EXCEPT ![p] = NoProblem]
    BY <1>8, <2>2 DEF RowsAfter, ProblemsAfter
  <2>10. QED BY <1>4, <2>7, <2>8, <2>9
<1>9. contest = [d \in Contests |-> contest[d]]
  BY DEF TypeInv, RowsInv
<1>10. CASE task[t].kind = "editContest"
  <2>1. PICK row \in Rows : row = task[t].row
    BY <1>1
  <2>2. contest[c].there
    BY <1>1, <1>2, <1>10 DEF TaskThere
  <2>3. contest[c] \in Rows
    BY <2>2, RowFacts DEF TypeInv
  <2>4. Right(tree, contest, problem, truth)
    BY <1>7, <1>10
  <2>5. Right(MigrateContest(tree, row, c), [contest EXCEPT ![c] = row], problem, truth)
    BY <1>9, <2>3, <2>4, MigrateContestRight
  <2>6. Changed(t) = MigrateContest(tree, row, c)
    <3>1. Changed(t) = MigrateContest(score, task[t].row, task[t].contest)
      BY <1>10 DEF Changed
    <3>2. QED BY <1>2, <1>3, <2>1, <3>1
  <2>7. RowsAfter(t) = [contest EXCEPT ![c] = row] /\ ProblemsAfter(t) = problem
    BY <1>2, <1>10, <2>1 DEF RowsAfter, ProblemsAfter
  <2>8. QED BY <1>4, <2>5, <2>6, <2>7
<1>11. CASE task[t].kind = "deleteContest"
  <2>1. PICK row \in Rows : row = task[t].row
    BY <1>1
  <2>2. contest[c] = row
    BY <1>1, <1>2, <1>11, <2>1 DEF TaskThere
  <2>3. PICK prob2 : prob2 = ProblemsAfter(t) OBVIOUS
  <2>4. \A p \in Problems : prob2[p] = IF Home[p] = c THEN NoProblem ELSE problem[p]
    BY <1>2, <1>11, <2>3 DEF ProblemsAfter
  <2>5. Right(tree, contest, problem, truth)
    BY <1>7, <1>11
  <2>6. Right(RemoveContest(tree, row, c), [contest EXCEPT ![c] = NoContest], prob2, truth)
    BY <1>9, <2>2, <2>4, <2>5, RemoveContestRight
  <2>7. Changed(t) = RemoveContest(tree, row, c)
    <3>1. Changed(t) = RemoveContest(score, task[t].row, task[t].contest)
      BY <1>11 DEF Changed
    <3>2. QED BY <1>2, <1>3, <2>1, <3>1
  <2>8. RowsAfter(t) = [contest EXCEPT ![c] = NoContest]
    BY <1>2, <1>11 DEF RowsAfter
  <2>9. QED BY <1>4, <2>3, <2>6, <2>7, <2>8
<1>12. QED BY <1>1, <1>6, <1>8, <1>10, <1>11 DEF Tasks

\* The tree is read and changed.
LEMMA ShowTreeRead ==
  ASSUME TypeInv, ListInv, ShowInv, NEW t \in Threads, pc[t] = "tree", task[t].kind \in Tasks, enrolled,
         NEW r, r = Changed(t), next' = [next EXCEPT ![t] = r], pc' = [pc EXCEPT ![t] = "save"], task' = task,
         contest' = contest, problem' = problem, subs' = subs, enrolled' = enrolled, score' = score, ops' = ops,
         drift \subseteq drift'
  PROVE  ShowInv'
<1>1. Busy(t) /\ ~Judging(t) /\ ThreadsInv
  BY DEF Busy, Judging, Tasks, TypeInv
<1>2. PICK at : at = "save" OBVIOUS
<1>3. PICK job : job = task[t] OBVIOUS
<1>4. pc' = [pc EXCEPT ![t] = at] /\ task' = [task EXCEPT ![t] = job]
  BY <1>1, <1>2, <1>3 DEF ThreadsInv
<1>5. pc'[t] = "save" /\ next'[t] = r
  BY <1>1 DEF ThreadsInv
<1>6. job.kind \notin {"rebuild", "batch", "judge", "approve"}
  BY <1>3 DEF Tasks
<1>7. ASSUME NEW u \in Threads PROVE MadeAnew(u)'
  BY <1>1, <1>4, <1>6, StepNotAnew, NotMadeAnew
<1>8. ASSUME Alone(t) PROVE Showing' /\ TaskKnown(t)'
  <2>1. TaskKnown(t)'
    BY <1>5, <1>8 DEF TaskKnown, Judging, Alone
  <2>2. TaskThere(t) /\ Calm /\ ThreadShows(t)
    BY <1>8, ApartIs DEF Showing, Alone
  <2>3. Tells
    BY <1>8, AloneTells
  <2>4. ThreadShows(t)'
    <3>1. Right(r, RowsAfter(t), ProblemsAfter(t), Truth)
      BY <1>8, <2>2, ChangedRight DEF Alone
    <3>2. Right(r, RowsAfter(t), ProblemsAfter(t), Truth')
      BY <2>3, <3>1, RightTold
    <3>3. RowsAfter(t)' = RowsAfter(t) /\ ProblemsAfter(t)' = ProblemsAfter(t)
      BY DEF RowsAfter, ProblemsAfter
    <3>4. Right(next'[t], RowsAfter(t)', ProblemsAfter(t)', Truth')
      BY <1>5, <3>2, <3>3
    <3>5. QED BY <1>3, <1>5, <1>6, <3>4 DEF ThreadShows, Judging
  <2>5. Calm'
    <3>1. CASE task[t].kind \in Adders
      BY <1>5, <3>1 DEF Calm, Astray
    <3>2. CASE task[t].kind \notin Adders
      <4>1. ~Astray(t)
        BY <1>3, <1>6, <3>2 DEF Astray
      <4>2. Right(score, contest, problem, Truth)
        BY <1>8, <2>2, <4>1, TreeWaits DEF Alone
      <4>3. PICK tree : tree = score OBVIOUS
      <4>4. Right(tree, contest, problem, Truth')
        BY <2>3, <4>2, <4>3, RightTold
      <4>5. QED BY <4>3, <4>4 DEF Calm
    <3>3. QED BY <3>1, <3>2
  <2>6. enrolled' OBVIOUS
  <2>7. QED BY <1>1, <1>4, <1>8, <2>1, <2>4, <2>5, <2>6, AloneShows
<1>9. subs' \subseteq subs /\ drift \subseteq drift' OBVIOUS
<1>10. (at = "idle" => job.kind = None) /\ job.kind # "judge"
  BY <1>2, <1>6
<1>11. QED BY <1>1, <1>4, <1>7, <1>8, <1>9, <1>10, AloneSteps

\* A task reads the tree, or has none to change.
LEMMA ShowReadTree ==
  ASSUME TypeInv, ListInv, ShowInv, NEW t \in Threads, ReadTree(t) PROVE ShowInv'
<1>1. /\ contest' = contest /\ problem' = problem /\ subs' = subs /\ enrolled' = enrolled
      /\ score' = score /\ ops' = ops /\ pc[t] = "tree" /\ task[t].kind \in Tasks
  BY ReadTreeCases DEF ReadTree
<1>2. Busy(t)
  BY <1>1 DEF Busy
<1>3. PICK none : none = (~enrolled \/ (task[t].kind = "editProblem" /\ ~contest[task[t].contest].there))
  OBVIOUS
<1>4. CASE none
  <2>1. AfterTree(t) /\ drift' = drift
    BY <1>3, <1>4, Zenon DEF ReadTree
  <2>2. ASSUME enrolled, Alone(t) PROVE FALSE
    <3>1. task[t].kind = "editProblem" /\ ~contest[task[t].contest].there
      BY <1>3, <1>4, <2>2
    <3>2. TaskThere(t)
      BY <2>2, ApartIs DEF Alone
    <3>3. QED BY <1>1, <1>2, <3>1, <3>2, TaskRows
  <2>3. QED BY <1>1, <1>2, <2>1, <2>2, AfterTreeShows
<1>5. CASE ~none
  <2>1. PICK r : r = Changed(t) OBVIOUS
  <2>2. /\ next' = [next EXCEPT ![t] = r] /\ pc' = [pc EXCEPT ![t] = "save"] /\ task' = task
        /\ drift \subseteq drift'
    <3>1. /\ next' = [next EXCEPT ![t] = r] /\ pc' = [pc EXCEPT ![t] = "save"] /\ task' = task
          /\ drift' = drift \cup IF task[t].kind = "editContest" /\ Disturbs(task[t].row, task[t].contest)
                                 THEN {"edited"} ELSE {}
      BY <1>3, <1>5, <2>1, Zenon DEF ReadTree
    <3>2. QED BY <3>1
  <2>3. enrolled
    BY <1>3, <1>5
  <2>4. QED BY <1>1, <2>1, <2>2, <2>3, ShowTreeRead
<1>6. QED BY <1>4, <1>5

\* The tree is saved.
LEMMA ShowSaveTree == ASSUME TypeInv, ListInv, ShowInv, NEW t \in Threads, SaveTree(t) PROVE ShowInv'
<1>1. /\ contest' = contest /\ problem' = problem /\ subs' = subs /\ enrolled' = enrolled
      /\ score' = next[t] /\ ops' = ops /\ drift' = drift /\ AfterTree(t) /\ pc[t] = "save"
      /\ task[t].kind \notin {"judge", "approve", "rebuild", "batch"}
  BY DEF SaveTree
<1>2. task[t].kind \in Tasks /\ Busy(t)
  BY <1>1 DEF TypeInv, ThreadsInv, StepOK, Makers, Busy
<1>3. ASSUME enrolled, Alone(t) PROVE Right(score', RowsAfter(t), ProblemsAfter(t), Truth)
  <2>1. ThreadShows(t)
    BY <1>3 DEF Showing, Alone
  <2>2. QED BY <1>1, <1>2, <2>1 DEF ThreadShows
<1>4. QED BY <1>1, <1>2, <1>3, AfterTreeShows

\* A copy ends.
LEMMA ShowCopyEnds == ASSUME TypeInv, ListInv, ShowInv, NEW t \in Threads, CopyEnds(t) PROVE ShowInv'
<1>1. /\ contest' = contest /\ problem' = problem /\ subs' = subs /\ enrolled' = enrolled
      /\ score' = score /\ ops' = ops /\ drift' = drift /\ End(t) /\ pc[t] = "copy"
  BY DEF CopyEnds
<1>2. task[t].kind = "copy"
  BY <1>1 DEF TypeInv, ThreadsInv, StepOK
<1>3. Busy(t) /\ ~Judging(t) /\ ~Astray(t)
  BY <1>1, <1>2 DEF Busy, Judging, Astray
<1>4. ASSUME enrolled, Alone(t) PROVE Right(score', contest', problem', Truth')
  <2>1. PICK tree : tree = score OBVIOUS
  <2>2. Right(tree, contest, problem, Truth)
    BY <1>3, <1>4, <2>1, TreeWaits DEF Showing, Alone
  <2>3. Right(tree, contest, problem, Truth')
    BY <1>1, <1>4, <2>2, AloneTells, RightTold
  <2>4. QED BY <1>1, <2>1, <2>3
<1>5. subs' \subseteq subs
  BY <1>1
<1>6. QED BY <1>1, <1>3, <1>4, <1>5, EndsShows

\* Rows go, and with them the submissions of problems that are not shown then.
LEMMA RowGone ==
  ASSUME NEW gone, subs' = {s \in subs : s.problem \notin gone}, \A u \in Threads : ~Judging(u),
         NEW tree, NEW con, NEW prob, Right(tree, con, prob, Truth),
         \A p \in Problems : p \in gone => ~prob[p].visible
  PROVE  Right(tree, con, prob, Truth')
<1>1. PICK truth : truth = Truth' OBVIOUS
<1>2. ASSUME NEW p \in Problems, prob[p].visible PROVE \A i \in Truth[p] : i \in truth[p]
  <2>1. SubsOf(p)' = SubsOf(p)
    BY <1>2 DEF SubsOf
  <2>2. QED BY <1>1, <2>1, NoneAwaited
<1>3. Right(tree, con, prob, truth)
  BY <1>2, RightTells
<1>4. QED BY <1>1, <1>3

\* The row of a contest is saved, or deleted with all that refers to it.
LEMMA ShowContestRow == ASSUME TypeInv, ListInv, ShowInv, NEW t \in Threads, ContestRow(t) PROVE ShowInv'
<1>1. /\ enrolled' = enrolled /\ score' = score /\ ops' = ops /\ drift' = drift /\ End(t) /\ pc[t] = "row"
      /\ task[t].kind \in {"editContest", "deleteContest"}
  BY DEF ContestRow
<1>2. PICK gone : gone = IF task[t].kind = "editContest" THEN {}
                         ELSE {p \in Problems : Home[p] = task[t].contest}
  OBVIOUS
<1>3. contest' = RowsAfter(t) /\ problem' = ProblemsAfter(t) /\ subs' = {s \in subs : s.problem \notin gone}
  <2>1. CASE task[t].kind = "editContest"
    <3>1. contest' = [contest EXCEPT ![task[t].contest] = task[t].row] /\ problem' = problem /\ subs' = subs
      BY <2>1 DEF ContestRow
    <3>2. QED BY <1>2, <2>1, <3>1 DEF RowsAfter, ProblemsAfter
  <2>2. CASE task[t].kind = "deleteContest"
    <3>1. PICK lost : lost = {p \in Problems : Home[p] = task[t].contest} OBVIOUS
    <3>2. /\ contest' = [contest EXCEPT ![task[t].contest] = NoContest]
          /\ problem' = [p \in Problems |-> IF p \in lost THEN NoProblem ELSE problem[p]]
          /\ subs' = {s \in subs : s.problem \notin lost}
      BY <2>2, <3>1 DEF ContestRow
    <3>3. problem' = [p \in Problems |-> IF Home[p] = task[t].contest THEN NoProblem ELSE problem[p]]
      BY <3>1, <3>2
    <3>4. gone = lost
      BY <1>2, <2>2, <3>1
    <3>5. QED BY <2>2, <3>2, <3>3, <3>4 DEF RowsAfter, ProblemsAfter
  <2>3. QED BY <1>1, <2>1, <2>2
<1>4. Busy(t) /\ ~Judging(t) /\ subs' \subseteq subs
  BY <1>1, <1>3 DEF Busy, Judging
<1>5. ASSUME enrolled, Alone(t) PROVE Right(score', contest', problem', Truth')
  <2>1. PICK tree : tree = score OBVIOUS
  <2>2. PICK con : con = RowsAfter(t) OBVIOUS
  <2>3. PICK prob : prob = ProblemsAfter(t) OBVIOUS
  <2>4. Right(tree, con, prob, Truth)
    BY <1>1, <1>5, <2>1, <2>2, <2>3 DEF Showing, ThreadShows, Alone
  <2>5. \A p \in Problems : p \in gone => ~prob[p].visible
    BY <1>1, <1>2, <2>3 DEF ProblemsAfter, NoProblem
  <2>6. Right(tree, con, prob, Truth')
    BY <1>3, <1>5, <2>4, <2>5, RowGone DEF Alone
  <2>7. QED BY <1>1, <1>3, <2>1, <2>2, <2>3, <2>6
<1>6. QED BY <1>1, <1>4, <1>5, EndsShows

\* The row of a problem is deleted.
LEMMA ShowProblemRow == ASSUME TypeInv, ListInv, ShowInv, NEW t \in Threads, ProblemRow(t) PROVE ShowInv'
<1>1. /\ enrolled' = enrolled /\ score' = score /\ ops' = ops /\ drift' = drift /\ End(t) /\ pc[t] = "row"
      /\ task[t].kind = "deleteProblem" /\ contest' = contest
      /\ problem' = [problem EXCEPT ![task[t].problem] = NoProblem]
      /\ subs' = subs \ SubsOf(task[t].problem)
  BY DEF ProblemRow
<1>2. PICK gone : gone = {task[t].problem} OBVIOUS
<1>3. contest' = RowsAfter(t) /\ problem' = ProblemsAfter(t) /\ subs' = {s \in subs : s.problem \notin gone}
  <2>1. contest' = RowsAfter(t) /\ problem' = ProblemsAfter(t)
    BY <1>1 DEF RowsAfter, ProblemsAfter
  <2>2. subs' = {s \in subs : s.problem \notin gone}
    BY <1>1, <1>2 DEF SubsOf
  <2>3. QED BY <2>1, <2>2
<1>4. Busy(t) /\ ~Judging(t) /\ subs' \subseteq subs
  BY <1>1, <1>3 DEF Busy, Judging
<1>5. ASSUME enrolled, Alone(t) PROVE Right(score', contest', problem', Truth')
  <2>1. PICK tree : tree = score OBVIOUS
  <2>2. PICK con : con = RowsAfter(t) OBVIOUS
  <2>3. PICK prob : prob = ProblemsAfter(t) OBVIOUS
  <2>4. Right(tree, con, prob, Truth)
    BY <1>1, <1>5, <2>1, <2>2, <2>3 DEF Showing, ThreadShows, Alone
  <2>5. \A p \in Problems : p \in gone => ~prob[p].visible
    BY <1>1, <1>2, <2>3 DEF ProblemsAfter, NoProblem, TypeInv, RowsInv
  <2>6. Right(tree, con, prob, Truth')
    BY <1>3, <1>5, <2>4, <2>5, RowGone DEF Alone
  <2>7. QED BY <1>1, <1>3, <2>1, <2>2, <2>3, <2>6
<1>6. QED BY <1>1, <1>4, <1>5, EndsShows

\* The next problem of a copy is a new row.
LEMMA ShowCopyProblem ==
  ASSUME TypeInv, ListInv, ShowInv, NEW t \in Threads, NEW p \in Problems, NEW point \in Points,
         CopyProblem(t, p, point)
  PROVE  ShowInv'
<1>1. PICK copied : copied = [there |-> TRUE, visible |-> TRUE, point |-> point] OBVIOUS
<1>2. copied \in Rewards /\ copied.visible
  BY <1>1 DEF Rewards
<1>3. PICK old : old = task[t] OBVIOUS
<1>4. PICK job : job = [old EXCEPT !.todo = old.todo \ {p}, !.problem = p, !.prob = copied] OBVIOUS
<1>5. PICK at : at = "tree" OBVIOUS
<1>6. /\ pc[t] = "copy" /\ p \in old.todo /\ problem' = [problem EXCEPT ![p] = copied]
      /\ pc' = [pc EXCEPT ![t] = at]
      /\ contest' = contest /\ subs' = subs /\ enrolled' = enrolled /\ score' = score
      /\ ops' = ops /\ drift' = drift
  BY <1>1, <1>3, <1>5 DEF CopyProblem
<1>7. task' = [task EXCEPT ![t] = job]
  <2>1. task' = [task EXCEPT ![t].todo = @ \ {p}, ![t].problem = p, ![t].prob = copied]
    BY <1>1, Zenon DEF CopyProblem
  <2>2. QED BY <1>3, <1>4, <2>1 DEF TypeInv, ThreadsInv
<1>8. IsJob(old) /\ old.kind = "copy"
  BY <1>3, <1>6 DEF TypeInv, ThreadsInv, StepOK, JobOK
<1>9. job.kind = "copy" /\ job.todo = old.todo \ {p} /\ job.problem = p /\ job.prob = copied
  BY <1>4, <1>8 DEF IsJob
<1>10. Busy(t) /\ ~Judging(t) /\ ~Astray(t) /\ ThreadsInv /\ RowsInv
  BY <1>3, <1>6, <1>8 DEF TypeInv, Busy, Judging, Astray
<1>11. pc'[t] = "tree" /\ task'[t] = job /\ problem'[p] = copied
       /\ \A q \in Problems : q # p => problem'[q] = problem[q]
  BY <1>5, <1>6, <1>7, <1>10 DEF ThreadsInv, RowsInv
<1>12. ASSUME NEW u \in Threads PROVE MadeAnew(u)'
  BY <1>5, <1>6, <1>7, <1>10, StepNotAnew, NotMadeAnew
<1>13. ASSUME Alone(t) PROVE Showing' /\ TaskKnown(t)'
  <2>1. \A q \in old.todo : ~problem[q].there
    BY <1>3, <1>8, <1>13 DEF TaskKnown, Alone
  <2>2. \A q \in old.todo : q \in Problems
    BY <1>3, <1>8, <1>10 DEF ThreadsInv, JobOK
  <2>3. \A q \in job.todo : ~problem'[q].there
    BY <1>9, <1>11, <2>1, <2>2
  <2>4. TaskKnown(t)'
    BY <1>9, <1>11, <2>3 DEF TaskKnown, Judging
  <2>5. ASSUME enrolled PROVE Showing'
    <3>1. Right(score, contest, problem, Truth)
      BY <1>10, <1>13, <2>5, TreeWaits DEF Showing, Alone
    <3>2. Tells
      BY <1>6, <1>13, AloneTells
    <3>3. SubsOf(p) = {}
      BY <1>6, <2>1, NoSubsOf DEF TypeInv
    <3>4. Nearly(score', contest', problem', Truth', p)
      BY <1>2, <1>6, <1>10, <3>1, <3>2, <3>3, RowSaved
    <3>5. task'[t].problem = p /\ task'[t].kind = "copy"
      BY <1>9, <1>11
    <3>6. ThreadShows(t)'
      BY <1>11, <3>4, <3>5 DEF ThreadShows, Judging
    <3>7. Astray(t)'
      BY <1>11, <3>5 DEF Astray, Adders
    <3>8. Calm'
      BY <3>7 DEF Calm
    <3>9. QED BY <1>6, <1>10, <1>13, <2>5, <3>6, <3>8, AloneShows
  <2>6. QED BY <1>6, <1>13, <2>4, <2>5, NotEnrolled DEF Alone
<1>14. subs' \subseteq subs /\ drift \subseteq drift'
  BY <1>6
<1>15. (at = "idle" => job.kind = None) /\ job.kind # "judge"
  BY <1>5, <1>9
<1>16. QED BY <1>6, <1>7, <1>10, <1>12, <1>13, <1>14, <1>15, AloneSteps

\* Rebuilt, with the rows as parameters.
RebuiltFrom(chosen, con, prob) ==
  FoldSet(LAMBDA s, tr : Associate(tr, con[Home[s.problem]].type, Home[s.problem], s),
          Clean(FoldSet(LAMBDA p, tr : MigrateProblem(tr, con[Home[p]], Home[p], p, prob[p]),
                        NewTree, {p \in Problems : prob[p].there})), chosen)

\* While the rows stay, a tree made anew is the same.
LEMMA RebuiltSame ==
  ASSUME contest' = contest, problem' = problem, subs' = subs
  PROVE  Rebuilt(Latest)' = Rebuilt(Latest) /\ Rebuilt(Greatest)' = Rebuilt(Greatest)
<1>1. /\ Rebuilt(Latest) = RebuiltFrom(Latest, contest, problem)
      /\ Rebuilt(Greatest) = RebuiltFrom(Greatest, contest, problem)
  BY Zenon DEF Rebuilt, RebuiltFrom, Built, Existing
<1>2. /\ Rebuilt(Latest)' = RebuiltFrom(Latest', contest', problem')
      /\ Rebuilt(Greatest)' = RebuiltFrom(Greatest', contest', problem')
  BY Zenon DEF Rebuilt, RebuiltFrom, Built, Existing, FoldSet, MapThenFoldSet
<1>3. Latest' = Latest /\ Greatest' = Greatest
  BY DEF Latest, Greatest, SubsOf
<1>4. QED BY <1>1, <1>2, <1>3

\* A tree is made from the rows.
LEMMA ShowReadRows == ASSUME TypeInv, ListInv, ShowInv, NEW t \in Threads, ReadRows(t) PROVE ShowInv'
<1>1. PICK tree : tree = CASE task[t].kind = "approve" -> Built(score)
                           [] task[t].kind = "rebuild" -> Rebuilt(Latest)
                           [] OTHER -> Rebuilt(Greatest)
  OBVIOUS
<1>2. PICK since : since = IF \A u \in Threads \ {t} : ~Busy(u) THEN ops ELSE None OBVIOUS
<1>3. PICK old : old = task[t] OBVIOUS
<1>4. PICK job : job = [old EXCEPT !.since = since] OBVIOUS
<1>5. PICK at : at = "save" OBVIOUS
<1>6. /\ next' = [next EXCEPT ![t] = tree] /\ pc' = [pc EXCEPT ![t] = at] /\ pc[t] = "build"
      /\ contest' = contest /\ problem' = problem /\ subs' = subs /\ enrolled' = enrolled
      /\ score' = score /\ ops' = ops /\ drift' = drift
  BY <1>1, <1>5, Zenon DEF ReadRows
<1>7. task' = [task EXCEPT ![t] = job]
  <2>1. task' = [task EXCEPT ![t].since = since]
    BY <1>2, Zenon DEF ReadRows
  <2>2. QED BY <1>3, <1>4, <2>1 DEF TypeInv, ThreadsInv
<1>8. IsJob(old) /\ old.kind \in Makers /\ enrolled
  BY <1>3, <1>6 DEF TypeInv, ThreadsInv, StepOK, JobOK
<1>9. job.kind = old.kind
  BY <1>4, <1>8 DEF IsJob
<1>10. Busy(t) /\ ~Judging(t) /\ ThreadsInv /\ RowsInv
  BY <1>3, <1>6, <1>8 DEF TypeInv, Busy, Judging, Makers
<1>11. pc'[t] = "save" /\ task'[t] = job /\ next'[t] = tree
       /\ \A u \in Threads : u # t => pc'[u] = pc[u] /\ task'[u] = task[u]
  BY <1>5, <1>6, <1>7, <1>10 DEF ThreadsInv
<1>12. ASSUME NEW u \in Threads PROVE MadeAnew(u)'
  <2>1. CASE u = t
    <3>1. ASSUME Anew(t)' PROVE next'[t] = Rebuilt(IF task[t].kind = "rebuild" THEN Latest ELSE Greatest)
      <4>1. task[t].kind \in {"rebuild", "batch"}
        BY <1>3, <1>9, <1>11, <3>1 DEF Anew
      <4>2. QED BY <1>1, <1>11, <4>1
    <3>2. task'[t].kind = task[t].kind
      BY <1>3, <1>9, <1>11
    <3>3. Rebuilt(Latest)' = Rebuilt(Latest) /\ Rebuilt(Greatest)' = Rebuilt(Greatest)
      BY <1>6, RebuiltSame
    <3>4. QED BY <2>1, <3>1, <3>2, <3>3 DEF MadeAnew
  <2>2. CASE u # t
    <3>1. ~Anew(u)'
      <4>1. ~Anew(u)
        BY <1>10, <2>2 DEF ListInv
      <4>2. QED BY <1>6, <1>11, <2>2, <4>1 DEF Anew
    <3>2. QED BY <3>1, NotMadeAnew
  <2>3. QED BY <2>1, <2>2
<1>13. ASSUME Alone(t) PROVE Showing' /\ TaskKnown(t)'
  <2>1. TaskKnown(t)'
    BY <1>8, <1>9, <1>11 DEF TaskKnown, Judging, Makers
  <2>2. Calm /\ ThreadShows(t)
    BY <1>8, <1>13 DEF Showing, Alone
  <2>3. Tells
    BY <1>6, <1>13, AloneTells
  <2>4. ThreadShows(t)' /\ Calm'
    <3>1. CASE old.kind = "approve"
      <4>1. score = NewTree /\ AllPending
        BY <1>3, <1>6, <2>2, <3>1 DEF ThreadShows
      <4>2. tree = Built(NewTree)
        BY <1>1, <1>3, <3>1, <4>1
      <4>3. PICK fresh : fresh = Fresh OBVIOUS
      <4>4. Right(tree, contest, problem, fresh)
        BY <1>10, <4>2, <4>3, BuiltRight
      <4>5. PICK truth : truth = Truth' OBVIOUS
      <4>6. \A q \in Problems : problem[q].visible => \A i \in fresh[q] : i \in truth[q]
        BY <2>3, <4>1, <4>3, <4>5, FreshTold DEF Tells
      <4>7. Right(tree, contest, problem, truth)
        BY <4>4, <4>6, RightTells
      <4>8. RowsAfter(t)' = contest /\ ProblemsAfter(t)' = problem
        BY <1>6, <1>9, <1>11, <3>1 DEF RowsAfter, ProblemsAfter
      <4>9. Right(next'[t], RowsAfter(t)', ProblemsAfter(t)', Truth')
        BY <1>11, <4>5, <4>7, <4>8
      <4>10. score' = NewTree /\ AllPending'
        BY <1>6, <4>1 DEF AllPending
      <4>11. ThreadShows(t)'
        BY <1>9, <1>11, <3>1, <4>9, <4>10 DEF ThreadShows, Judging
      <4>12. Calm'
        BY <1>9, <1>11, <3>1 DEF Calm, Astray
      <4>13. QED BY <4>11, <4>12
    <3>2. CASE old.kind # "approve"
      <4>1. ~Astray(t)
        BY <1>3, <1>6, <3>2 DEF Astray
      <4>2. Right(score, contest, problem, Truth)
        BY <1>13, <2>2, <4>1, TreeWaits DEF Alone
      <4>3. PICK stored : stored = score OBVIOUS
      <4>4. Right(stored, contest, problem, Truth')
        BY <2>3, <4>2, <4>3, RightTold
      <4>5. Calm'
        BY <1>6, <4>3, <4>4 DEF Calm
      <4>6. CASE old.kind = "batch"
        BY <1>9, <1>11, <4>5, <4>6 DEF ThreadShows, Judging, Tasks, Adders
      <4>7. CASE old.kind = "rebuild"
        <5>1. Right(Rebuilt(Latest), contest, problem, Truth)
          BY LatestRight DEF ShowInv
        <5>2. Right(tree, contest, problem, Truth)
          BY <1>1, <1>3, <4>7, <5>1
        <5>3. Right(tree, contest, problem, Truth')
          BY <2>3, <5>2, RightTold
        <5>4. RowsAfter(t)' = contest /\ ProblemsAfter(t)' = problem
          BY <1>6, <1>9, <1>11, <4>7 DEF RowsAfter, ProblemsAfter
        <5>5. Right(next'[t], RowsAfter(t)', ProblemsAfter(t)', Truth')
          BY <1>11, <5>3, <5>4
        <5>6. ThreadShows(t)'
          BY <1>9, <1>11, <4>7, <5>5 DEF ThreadShows, Judging, Adders
        <5>7. QED BY <4>5, <5>6
      <4>8. QED BY <1>8, <3>2, <4>5, <4>6, <4>7 DEF Makers
    <3>3. QED BY <3>1, <3>2
  <2>5. enrolled'
    BY <1>6, <1>8
  <2>6. QED BY <1>6, <1>10, <1>13, <2>1, <2>4, <2>5, AloneShows
<1>14. subs' \subseteq subs /\ drift \subseteq drift'
  BY <1>6
<1>15. (at = "idle" => job.kind = None) /\ job.kind # "judge"
  BY <1>5, <1>8, <1>9 DEF Makers
<1>16. QED BY <1>6, <1>7, <1>10, <1>12, <1>13, <1>14, <1>15, AloneSteps

\* A tree made anew is saved.
LEMMA ShowSaveRows == ASSUME TypeInv, ListInv, ShowInv, NEW t \in Threads, SaveRows(t) PROVE ShowInv'
<1>1. PICK anew \in BOOLEAN : anew <=> task[t].kind # "approve" /\ task[t].since = ops OBVIOUS
<1>2. PICK other : other = IF task[t].kind = "batch" /\ (~anew \/ Greatest # Latest) THEN {"batch"} ELSE {}
  OBVIOUS
<1>3. /\ pc[t] = "save" /\ task[t].kind \in Makers /\ score' = next[t] /\ End(t)
      /\ contest' = contest /\ problem' = problem /\ subs' = subs /\ enrolled' = enrolled /\ ops' = ops
      /\ drift' = (IF anew THEN {} ELSE drift) \cup other
  BY <1>1, <1>2 DEF SaveRows, Makers
<1>4. Busy(t) /\ ~Judging(t) /\ ThreadsInv /\ Numbered /\ Lone /\ RowsInv
  BY <1>3 DEF TypeInv, ShowInv, Busy, Judging, Makers
<1>5. enrolled /\ RowsAfter(t) = contest /\ ProblemsAfter(t) = problem
  <2>1. enrolled
    BY <1>3, <1>4 DEF ThreadsInv, StepOK, Makers
  <2>2. QED BY <1>3, <2>1, AfterRows DEF Makers
<1>6. subs' \subseteq subs
  BY <1>3
<1>7. CASE ~anew /\ task[t].kind # "batch"
  <2>1. drift' = drift
    BY <1>2, <1>3, <1>7
  <2>2. ASSUME Alone(t) PROVE Right(score', contest', problem', Truth')
    <3>1. ThreadShows(t)
      BY <1>5, <2>2 DEF Showing, Alone
    <3>2. PICK tree : tree = next[t] OBVIOUS
    <3>3. Right(tree, contest, problem, Truth)
      BY <1>3, <1>5, <1>7, <3>1, <3>2 DEF ThreadShows, Makers
    <3>4. Right(tree, contest, problem, Truth')
      BY <1>3, <2>2, <3>3, AloneTells, RightTold
    <3>5. QED BY <1>3, <3>2, <3>4
  <2>3. QED BY <1>3, <1>4, <1>6, <2>1, <2>2, EndsShows
<1>8. CASE anew \/ task[t].kind = "batch"
  <2>1. PICK at : at = "idle" OBVIOUS
  <2>2. PICK job : job = Idle OBVIOUS
  <2>3. /\ pc' = [pc EXCEPT ![t] = at] /\ task' = [task EXCEPT ![t] = job]
        /\ (at = "idle" => job.kind = None) /\ at # "save"
    BY <1>3, <2>1, <2>2 DEF End, Idle, Job
  <2>4. pc'[t] = "idle" /\ task'[t].kind = None
        /\ \A u \in Threads : u # t => pc'[u] = pc[u] /\ task'[u] = task[u]
    BY <1>4, <2>1, <2>2, <2>3 DEF ThreadsInv, Idle, Job
  <2>5. Lone' /\ Numbered'
    BY <1>4, <1>6, <2>3, LoneSteps, NumbersStay
  <2>6. ASSUME NEW u \in Threads PROVE MadeAnew(u)'
    BY <1>3, <1>4, EndsNotAnew, NotMadeAnew
  <2>7. ASSUME drift' = {} PROVE Showing' /\ \A u \in Threads : TaskKnown(u)'
    <3>1. anew /\ (task[t].kind = "batch" => Greatest = Latest)
      BY <1>2, <1>3, <1>8, <2>7
    <3>2. Anew(t)
      BY <1>1, <1>3, <3>1 DEF Anew, Makers
    <3>3. next[t] = Rebuilt(Latest)
      <4>1. MadeAnew(t)
        BY DEF ShowInv
      <4>2. next[t] = Rebuilt(IF task[t].kind = "rebuild" THEN Latest ELSE Greatest)
        BY <3>2, <4>1 DEF MadeAnew
      <4>3. QED BY <3>1, <3>2, <4>2 DEF Anew
    <3>4. \A u \in Threads : u # t => pc[u] = "idle"
      BY <3>2 DEF ListInv, Busy
    <3>5. ASSUME NEW u \in Threads PROVE pc'[u] = "idle" /\ task'[u].kind = None /\ ~Judging(u)
      <4>1. CASE u = t
        BY <1>4, <2>4, <4>1
      <4>2. CASE u # t
        <5>1. pc[u] = "idle" /\ task[u].kind = None
          BY <1>4, <3>4, <4>2 DEF Lone
        <5>2. QED BY <1>4, <2>4, <4>2, <5>1, IdleJudges
      <4>3. QED BY <4>1, <4>2
    <3>6. \A u \in Threads : ThreadShows(u)' /\ TaskKnown(u)'
      BY <3>5, IdleShows
    <3>7. PICK tree : tree = Rebuilt(Latest) OBVIOUS
    <3>8. Right(tree, contest, problem, Truth)
      BY <1>4, <3>7, LatestRight
    <3>9. Right(tree, contest, problem, Truth')
      BY <1>3, <3>5, <3>8, NoneTells, RightTold
    <3>10. Calm'
      BY <1>3, <3>3, <3>7, <3>9 DEF Calm
    <3>11. QED BY <1>3, <1>5, <3>6, <3>10 DEF Showing
  <2>8. QED BY <2>5, <2>6, <2>7 DEF ShowInv
<1>9. QED BY <1>7, <1>8

LEMMA ShowInit == ASSUME Init, TypeInv PROVE ShowInv
<1>1. /\ subs = {} /\ \A t \in Threads : pc[t] = "idle" /\ task[t].kind = None
  BY DEF Init, Idle, Job
<1>2. Numbered /\ Lone /\ AllPending
  BY <1>1 DEF Numbered, Lone, AllPending
<1>3. ASSUME NEW t \in Threads PROVE MadeAnew(t) /\ ThreadShows(t) /\ TaskKnown(t)
  BY <1>1, NoneAssumption DEF MadeAnew, Anew, ThreadShows, TaskKnown, Judging
<1>4. ASSUME enrolled PROVE Right(score, contest, problem, Truth)
  <2>1. PICK tree : tree = Built(NewTree) OBVIOUS
  <2>2. PICK fresh : fresh = Fresh OBVIOUS
  <2>3. Right(tree, contest, problem, fresh)
    BY <2>1, <2>2, BuiltRight DEF TypeInv
  <2>4. PICK truth : truth = Truth OBVIOUS
  <2>5. \A p \in Problems : problem[p].visible => \A i \in fresh[p] : i \in truth[p]
    BY <1>2, <2>2, <2>4, FreshTold
  <2>6. Right(tree, contest, problem, truth)
    BY <2>3, <2>5, RightTells
  <2>7. score = tree
    BY <1>4, <2>1 DEF Init
  <2>8. QED BY <2>4, <2>6, <2>7
<1>5. Showing
  BY <1>2, <1>3, <1>4 DEF Showing, Calm
<1>6. QED BY <1>2, <1>3, <1>5 DEF ShowInv

\* Nothing happens.
LEMMA ShowStays == ASSUME ShowInv, UNCHANGED vars PROVE ShowInv'
<1>1. /\ contest' = contest /\ problem' = problem /\ subs' = subs /\ enrolled' = enrolled /\ score' = score
      /\ pc' = pc /\ task' = task /\ next' = next /\ ops' = ops /\ drift' = drift
  BY DEF vars
<1>2. Numbered' /\ Lone'
  BY <1>1 DEF ShowInv, Numbered, Lone, Judging
<1>3. ASSUME NEW t \in Threads PROVE MadeAnew(t)'
  <2>1. MadeAnew(t)
    BY DEF ShowInv
  <2>2. Rebuilt(Latest)' = Rebuilt(Latest) /\ Rebuilt(Greatest)' = Rebuilt(Greatest)
    BY <1>1, RebuiltSame
  <2>3. QED BY <1>1, <2>1, <2>2 DEF MadeAnew, Anew
<1>4. Truth' = Truth
  <2>1. ASSUME NEW p \in Problems, NEW info \in Info PROVE Told(info, p)' <=> Told(info, p)
    BY <1>1 DEF Told, SubsOf, Latest, Awaited, Judging
  <2>2. QED BY <2>1 DEF Truth
<1>5. ASSUME drift' = {} PROVE Showing' /\ \A t \in Threads : TaskKnown(t)'
  <2>1. Showing /\ \A t \in Threads : TaskKnown(t)
    BY <1>1, <1>5 DEF ShowInv
  <2>2. AllPending' <=> AllPending
    BY <1>1 DEF AllPending
  <2>3. ASSUME NEW t \in Threads PROVE TaskKnown(t)' /\ (Astray(t)' <=> Astray(t))
    BY <1>1, <2>1 DEF TaskKnown, Judging, Astray
  <2>4. Calm' <=> Calm
    BY <1>1, <1>4, <2>3 DEF Calm
  <2>5. ASSUME NEW t \in Threads, ThreadShows(t) PROVE ThreadShows(t)'
    <3>1. RowsAfter(t)' = RowsAfter(t) /\ ProblemsAfter(t)' = ProblemsAfter(t)
      BY <1>1 DEF RowsAfter, ProblemsAfter
    <3>2. QED BY <1>1, <1>4, <2>2, <2>5, <3>1 DEF ThreadShows, Judging
  <2>6. QED BY <1>1, <2>1, <2>2, <2>3, <2>4, <2>5 DEF Showing
<1>6. QED BY <1>2, <1>3, <1>5 DEF ShowInv

LEMMA ShowNext == ASSUME TypeInv, ListInv, ShowInv, [Next]_vars PROVE ShowInv'
<1>1. ASSUME NEW t \in Threads, Requests(t) PROVE ShowInv'
  BY <1>1, ShowEditContest, ShowCopyContest, ShowDeleteContest, ShowCreateProblem, ShowEditProblem,
     ShowDeleteProblem, ShowJudge, ShowApprove, ShowRecompute DEF Requests
<1>2. ASSUME NEW t \in Threads, Steps(t) PROVE ShowInv'
  BY <1>2, ShowCopyProblem, ShowCopyEnds, ShowContestRow, ShowProblemRow, ShowReadTree,
     ShowSaveTree,
     ShowReadForJudgement, ShowSaveJudgement, ShowReadRows, ShowSaveRows DEF Steps
<1>3. CASE UNCHANGED vars
  BY <1>3, ShowStays
<1>4. QED
  BY <1>1, <1>2, <1>3, ShowCreateContest, ShowSubmit, ShowDeleteSubmissions, ShowEnrolByList
     DEF Next

\* When nothing is awaited, a line tells the same as one that is made anew.
LEMMA ToldAlike ==
  ASSUME SubsInv, Numbered, \A s \in subs : ~Awaited(s), NEW p \in Problems,
         NEW i \in Truth[p], NEW j \in Chosen(Latest)[p]
  PROVE  Alike(i, j)
<1>1. Told(i, p)
  BY TruthIs
<1>2. \/ (\A r \in Latest : r.problem # p) /\ Alike(j, NewInfo)
      \/ \E r \in Latest : r.problem = p /\ Alike(j, Outcome(NewInfo, r))
  BY DEF Chosen
<1>3. ASSUME NEW s PROVE s \in SubsOf(p) <=> s \in subs /\ s.problem = p
  BY DEF SubsOf
<1>4. \A s \in Latest : s \in subs
  BY DEF Latest
<1>5. CASE SubsOf(p) = {}
  <2>1. Alike(i, NewInfo) /\ Alike(j, NewInfo)
    BY <1>1, <1>2, <1>3, <1>4, <1>5 DEF Told
  <2>2. QED BY <2>1, AlikeFacts
<1>6. CASE SubsOf(p) # {}
  <2>1. PICK s \in SubsOf(p) : s \in Latest /\ Alike(i, Outcome(NewInfo, s))
    BY <1>1, <1>3, <1>6 DEF Told
  <2>2. PICK r \in Latest : r.problem = p /\ Alike(j, Outcome(NewInfo, r))
    BY <1>2, <1>3, <2>1
  <2>3. r = s
    BY <1>3, <2>1, <2>2, LatestOne
  <2>4. QED BY <2>1, <2>2, <2>3, AlikeFacts
<1>7. QED BY <1>5, <1>6

LEMMA UpToDateFollows == ASSUME TypeInv, SumInv, ShowInv PROVE UpToDate
<1> SUFFICES ASSUME drift = {}, enrolled, Quiet, \A s \in subs : s.result # "pending"
             PROVE  View(score) = View(Rebuilt(Latest))
  BY DEF UpToDate
<1>1. RowsInv /\ SubsInv /\ ThreadsInv /\ Numbered /\ Lone /\ Showing
  BY DEF TypeInv, ShowInv
<1>2. \A t \in Threads : pc[t] = "idle" /\ ~Judging(t)
  BY <1>1, IdleJudges DEF Quiet, Busy
<1>3. \A s \in subs : ~Awaited(s)
  BY <1>2 DEF Awaited
<1>4. Right(score, contest, problem, Truth)
  BY <1>1, <1>2, QuietCalm DEF Showing
<1>5. Latest \subseteq subs
  BY DEF Latest
<1>6. IsFiniteSet(Latest) /\ \A s \in Latest : IsSub(s) /\ problem[s.problem].there
  BY <1>1, <1>5, FS_Subset DEF SubsInv
<1>7. PICK tree : tree = Rebuilt(Latest) OBVIOUS
<1>8. PICK told : told = Chosen(Latest) OBVIOUS
<1>9. Right(tree, contest, problem, told)
  BY <1>1, <1>6, <1>7, <1>8, RebuiltRight
<1>10. PICK truth : truth = Truth OBVIOUS
<1>11. \A p \in Problems : \A i \in truth[p], j \in told[p] : Alike(i, j)
  BY <1>1, <1>3, <1>8, <1>10, ToldAlike
<1>12. PICK stored : stored = score OBVIOUS
<1>13. Right(stored, contest, problem, truth)
  BY <1>4, <1>10, <1>12
<1>14. Twins(stored, tree)
  BY <1>9, <1>11, <1>13, RightTwins
<1>15. stored \in Trees /\ Good(stored)
  BY <1>12 DEF TypeInv, TreeInv, SumInv
<1>16. PICK chosen \in {Latest, Greatest} : chosen = Latest OBVIOUS
<1>17. tree \in Trees /\ Good(tree)
  BY <1>1, <1>7, <1>16, ChosenFacts
<1>18. QED BY <1>7, <1>12, <1>14, <1>15, <1>17, TwinsShow

\* The changes that tasks make to the stored tree, one after the other, add up:
\* once all tasks have ended, all submissions are judged, and nothing on the
\* list of causes has happened since the tree was last made anew, the student
\* and the teacher see in it what a tree made anew from the rows would show.
THEOREM UpToDateHolds == Spec => []UpToDate
<1>1. Init => TypeInv /\ ListInv /\ SumInv /\ ShowInv
  BY TypeInit, ListInit, SumInit, ShowInit
<1>2. TypeInv /\ ListInv /\ SumInv /\ ShowInv /\ [Next]_vars
        => TypeInv' /\ ListInv' /\ SumInv' /\ ShowInv'
  BY TypeNext, ListNext, SumNext, ShowNext
<1>3. TypeInv /\ SumInv /\ ShowInv => UpToDate
  BY UpToDateFollows
<1>4. QED BY <1>1, <1>2, <1>3, PTL DEF Spec
====
