---- MODULE ServicesFilesProofs ----
(***************************************************************************)
(* Proofs about files.  Those of test cases: the directories that uploads, *)
(* imports, copies and prunings make and take away, and the moves of a     *)
(* renaming, for every number of cases and requests.  And the workbook of  *)
(* an export, for every set of problems, students, weights and scales.     *)
(***************************************************************************)
EXTENDS Services, SequenceTheorems, TotalsProofs

\* What marks a missing value is no function, and so no record of work.
NoneIsNoRecord == None # [k \in DOMAIN None |-> None[k]]


-----------------------------------------------------------------------------
(* The directories of test cases.                                          *)

LEMMA CasesFacts ==
  ASSUME NEW size \in {"files", "sharing"}
  PROVE  /\ NCases[size] \in Nat /\ 1 \in P(size)!Cases /\ P(size)!Cases \subseteq Nat \ {0}
         /\ P(size)!InfoOf \in [P(size)!Cases -> P(size)!Cases]
         /\ \A info \in [P(size)!Cases -> P(size)!Cases] :
              info # P(size)!Unwritten /\ info # P(size)!Emptied /\ P(size)!Readable(info)
         /\ None \notin Nat /\ P(size)!Temp = 0
<1>1. /\ NCases[size] \in Nat /\ 1 \in P(size)!Cases /\ P(size)!Cases \subseteq Nat \ {0}
      /\ None \notin Nat /\ P(size)!Temp = 0
  BY CasesAssumption, NoneAssumption DEF P!Cases, P!Temp
<1>2. P(size)!InfoOf \in [P(size)!Cases -> P(size)!Cases]
  BY DEF P!InfoOf
<1>3. ASSUME NEW info \in [P(size)!Cases -> P(size)!Cases]
      PROVE  info # P(size)!Unwritten /\ info # P(size)!Emptied
  <2>1. 1 \in DOMAIN info /\ info[1] # 0
    BY <1>1
  <2>2. QED
    BY <2>1 DEF P!Unwritten, P!Emptied
<1>4. QED
  BY <1>1, <1>2, <1>3 DEF P!Readable

LEMMA NamesFacts ==
  ASSUME NEW size \in {"files", "sharing"}
  PROVE  /\ \A i \in P(size)!Cases \cup {P(size)!Temp} :
              P(size)!In(i) \in P(size)!Names /\ P(size)!Out(i) \in P(size)!Names
         /\ \A i, j : /\ P(size)!In(i) = P(size)!In(j) <=> i = j
                      /\ P(size)!Out(i) = P(size)!Out(j) <=> i = j
                      /\ P(size)!In(i) # P(size)!Out(j)
BY DEF P!In, P!Out, P!Names

\* An upload's files are those that its info describes.
LEMMA NewDirMatches ==
  ASSUME NEW size \in {"files", "sharing"}, NEW d, d.spj \in BOOLEAN,
         d.files = P(size)!FilesOf(d.spj)
  PROVE  P(size)!Matches(d, P(size)!InfoOf) /\ P(size)!Complete(d)
<1>1. /\ \A i \in P(size)!Cases \cup {P(size)!Temp} :
           /\ d.files[P(size)!In(i)] = IF i = P(size)!Temp THEN None ELSE i
           /\ d.files[P(size)!Out(i)] = IF i = P(size)!Temp \/ d.spj THEN None ELSE i
  BY NamesFacts DEF P!FilesOf, P!In, P!Out
<1>2. \A i \in P(size)!Cases : P(size)!InfoOf[i] = i /\ i # P(size)!Temp
  BY CasesFacts DEF P!InfoOf
<1>3. P(size)!Matches(d, P(size)!InfoOf)
  <2>1. \A k \in P(size)!Cases \cup {P(size)!Temp} :
          /\ P(size)!Side(d.files, "in")[k] = IF k = P(size)!Temp THEN None ELSE k
          /\ P(size)!Side(d.files, "out")[k] = IF k = P(size)!Temp \/ d.spj THEN None ELSE k
    BY <1>1 DEF P!Side, P!In, P!Out
  <2>2. QED
    BY <1>2, <2>1 DEF P!Matches, P!Settled
<1>4. P(size)!Complete(d)
  BY <1>1, <1>2 DEF P!Complete
<1>5. QED
  BY <1>3, <1>4

\* A set of numbers has a smallest one.
LEMMA SmallestNumber ==
  ASSUME NEW numbers \in SUBSET Nat, numbers # {}
  PROVE  \E x \in numbers : \A y \in numbers : x <= y
<1> DEFINE Upto(k) == {y \in numbers : y <= k}
           Sets == {Upto(k) : k \in numbers}
<1>1. ASSUME NEW k \in numbers PROVE Upto(k) \in FiniteSubsetsOf(Nat)
  <2>1. Upto(k) \subseteq 0..k
    <3>1. \A y \in Nat : y <= k => y \in 0..k
      BY <1>1
    <3>2. QED
      BY <3>1
  <2>2. IsFiniteSet(0..k)
    <3>1. 0 \in Int /\ k \in Int
      OBVIOUS
    <3>2. QED
      BY <3>1, FS_Interval
  <2>3. IsFiniteSet(Upto(k))
    BY <2>1, <2>2, FS_Subset
  <2>4. QED
    BY <2>3 DEF FiniteSubsetsOf
<1>2. Sets \subseteq FiniteSubsetsOf(Nat) /\ Sets # {}
  BY <1>1
<1>3. PICK least \in Sets : \A other \in Sets : ~(<<other, least>> \in StrictSubsetOrdering(Nat))
  <2> HIDE DEF Sets
  <2>1. IsWellFoundedOn(StrictSubsetOrdering(Nat), FiniteSubsetsOf(Nat))
    BY FS_StrictSubsetOrderingWellFounded
  <2>2. QED
    BY <1>2, <2>1, WFMin
<1>4. PICK x \in numbers : least = Upto(x)
  BY <1>3
<1>5. ASSUME NEW y \in numbers, ~(x <= y) PROVE FALSE
  <2>1. x \in Nat /\ y \in Nat /\ y < x
    BY <1>4, <1>5
  <2>2. Upto(y) \subseteq Upto(x) /\ x \in Upto(x) /\ x \notin Upto(y)
    <3>1. \A z \in Nat : z <= y => z <= x
      BY <2>1
    <3>2. \A z \in Upto(y) : z \in numbers /\ z \in Nat /\ z <= y
      OBVIOUS
    <3>3. Upto(y) \subseteq Upto(x)
      BY <3>1, <3>2
    <3>4. x \in Upto(x) /\ x \notin Upto(y)
      BY <2>1
    <3>5. QED
      BY <3>3, <3>4
  <2>3. <<Upto(y), Upto(x)>> \in StrictSubsetOrdering(Nat)
    BY <2>2 DEF StrictSubsetOrdering
  <2>4. QED
    BY <1>3, <1>4, <1>5, <2>3
<1>6. QED
  BY <1>4, <1>5

\* The selected case that comes first.
LEMMA FirstSelected ==
  ASSUME NEW size \in {"files", "sharing"}, NEW selected \in SUBSET P(size)!Cases, selected # {}
  PROVE  /\ P(size)!Next1(selected) \in selected
         /\ \A k \in selected : P(size)!Next1(selected) <= k
<1>1. selected \in SUBSET Nat
  BY CasesFacts
<1>2. \E x \in selected : \A y \in selected : x <= y
  BY <1>1, SmallestNumber
<1>3. QED
  BY <1>2 DEF P!Next1

\* The six moves that exchange two cases.
LEMMA MovesOfExchange ==
  ASSUME NEW size \in {"files", "sharing"},
         NEW i \in P(size)!Cases, NEW j \in P(size)!Cases
  PROVE  /\ P(size)!Exchange(i, j) \in Seq(P(size)!Names \X P(size)!Names)
         /\ SubSeq(P(size)!Exchange(i, j), 7 - 6, 6) = P(size)!Exchange(i, j)
         /\ \A left \in 1..6 :
              LET moves == SubSeq(P(size)!Exchange(i, j), 7 - left, 6) IN
              /\ moves # <<>> /\ moves \in Seq(P(size)!Names \X P(size)!Names)
              /\ Head(moves) = P(size)!Exchange(i, j)[7 - left]
              /\ left = 1 => Tail(moves) = <<>>
              /\ left > 1 => Tail(moves) = SubSeq(P(size)!Exchange(i, j), 7 - (left - 1), 6)
<1> DEFINE moves == P(size)!Exchange(i, j)
           Pairs == P(size)!Names \X P(size)!Names
<1>1. /\ <<P(size)!In(i), P(size)!In(P(size)!Temp)>> \in Pairs
      /\ <<P(size)!In(j), P(size)!In(i)>> \in Pairs
      /\ <<P(size)!In(P(size)!Temp), P(size)!In(j)>> \in Pairs
      /\ <<P(size)!Out(i), P(size)!Out(P(size)!Temp)>> \in Pairs
      /\ <<P(size)!Out(j), P(size)!Out(i)>> \in Pairs
      /\ <<P(size)!Out(P(size)!Temp), P(size)!Out(j)>> \in Pairs
  BY NamesFacts
<1>2. moves \in Seq(Pairs) /\ Len(moves) = 6
  BY <1>1 DEF P!Exchange
<1> HIDE DEF moves, Pairs
<1>3. ASSUME NEW left \in 1..6
      PROVE  LET rest == SubSeq(moves, 7 - left, 6) IN
              /\ rest # <<>> /\ rest \in Seq(Pairs)
              /\ Head(rest) = moves[7 - left]
              /\ left = 1 => Tail(rest) = <<>>
              /\ left > 1 => Tail(rest) = SubSeq(moves, 7 - (left - 1), 6)
  <2> DEFINE rest == SubSeq(moves, 7 - left, 6)
  <2>1. 7 - left \in 1..Len(moves) /\ 6 \in (7 - left)..Len(moves)
    BY <1>2
  <2>2. Head(rest) = moves[7 - left] /\ Tail(rest) = SubSeq(moves, (7 - left) + 1, 6)
    BY <1>2, <2>1, HeadTailOfSubSeq
  <2>3. rest \in Seq(Pairs) /\ Len(rest) = left
    <3>1. \A m \in (7 - left)..6 : moves[m] \in Pairs
      <4>1. \A m \in 1..6 : moves[m] \in Pairs
        BY <1>2, ElementOfSeq
      <4>2. QED
        BY <4>1
    <3>2. rest \in Seq(Pairs) /\ Len(rest) = IF 7 - left <= 6 THEN 6 - (7 - left) + 1 ELSE 0
      BY <3>1, SubSeqProperties
    <3>3. QED
      BY <3>2
  <2>4. left = 1 => Tail(rest) = <<>>
    BY <2>2, SubSeqEmpty
  <2>5. (7 - left) + 1 = 7 - (left - 1)
    OBVIOUS
  <2>6. rest # <<>>
    <3>1. Len(rest) # 0
      BY <2>3
    <3>2. QED
      BY <2>3, <3>1, EmptySeq
  <2>7. QED
    BY <2>2, <2>3, <2>4, <2>5, <2>6
<1>4. SubSeq(moves, 7 - 6, 6) = moves
  BY <1>2, SubSeqFull
<1>5. QED
  BY <1>2, <1>3, <1>4 DEF moves, Pairs

\* That no case is lost is a matter of each side.
LEMMA CompleteBySides ==
  ASSUME NEW size \in {"files", "sharing"}, NEW d, NEW e, d.spj = e.spj,
         \A side \in {"in", "out"} : \A c \in P(size)!Cases :
           (\E k \in P(size)!Cases \cup {P(size)!Temp} : P(size)!Side(d.files, side)[k] = c)
           => \E k \in P(size)!Cases \cup {P(size)!Temp} : P(size)!Side(e.files, side)[k] = c,
         P(size)!Complete(d)
  PROVE  P(size)!Complete(e)
<1> DEFINE Ks == P(size)!Cases \cup {P(size)!Temp}
<1>1. \A k \in Ks, side \in {"in", "out"} :
        /\ P(size)!Side(d.files, side)[k] = d.files[<<k, side>>]
        /\ P(size)!Side(e.files, side)[k] = e.files[<<k, side>>]
  BY DEF P!Side
<1>2. ASSUME NEW c \in P(size)!Cases
      PROVE  \E k \in Ks : e.files[<<k, "in">>] = c
  <2>1. PICK k \in Ks : d.files[<<k, "in">>] = c
    BY DEF P!Complete, P!In
  <2>2. PICK m \in Ks : P(size)!Side(e.files, "in")[m] = c
    BY <1>1, <2>1
  <2>3. QED
    BY <1>1, <2>2
<1>3. ASSUME NEW c \in P(size)!Cases, ~d.spj
      PROVE  \E k \in Ks : e.files[<<k, "out">>] = c
  <2>1. PICK k \in Ks : d.files[<<k, "out">>] = c
    BY <1>3 DEF P!Complete, P!Out
  <2>2. PICK m \in Ks : P(size)!Side(e.files, "out")[m] = c
    BY <1>1, <2>1
  <2>3. QED
    BY <1>1, <2>2
<1>4. QED
  BY <1>2, <1>3 DEF P!Complete, P!In, P!Out

\* A move of a renaming: it leads from one stage to the next, unless there is
\* nothing to move.
MoveOf(size, d, i, j, left) ==
  LET from == P(size)!Exchange(i, j)[7 - left][1]
      to == P(size)!Exchange(i, j)[7 - left][2]
  IN  [d EXCEPT !.files[to] = d.files[from], !.files[from] = None]

LEMMA NextStage ==
  ASSUME NEW size \in {"files", "sharing"}, NEW d \in P(size)!Directories,
         NEW info \in [P(size)!Cases -> P(size)!Cases],
         NEW i \in P(size)!Cases, NEW j \in P(size)!Cases, i # j, NEW left \in 1..6,
         P(size)!Halfway(d, info, i, j, left),
         d.files[P(size)!Exchange(i, j)[7 - left][1]] # None
  PROVE  /\ left > 1 => P(size)!Halfway(MoveOf(size, d, i, j, left), info, i, j, left - 1)
         /\ left = 1 => P(size)!Matches(MoveOf(size, d, i, j, left), info)
         /\ P(size)!Complete(d) => P(size)!Complete(MoveOf(size, d, i, j, left))
<1> DEFINE Ks == P(size)!Cases \cup {P(size)!Temp}
<1>1. PICK pair, from, to : /\ pair = P(size)!Exchange(i, j)[7 - left]
                            /\ from = pair[1] /\ to = pair[2]
  OBVIOUS
<1>2. PICK e : e = MoveOf(size, d, i, j, left)
  OBVIOUS
<1>3. PICK a, b, n, side : /\ n \in 1..3 /\ side \in {"in", "out"}
                           /\ left > 3 => side = "in" /\ n = left - 3
                           /\ ~(left > 3) => side = "out" /\ n = left
                           /\ from = <<a, side>> /\ to = <<b, side>>
                           /\ n = 3 => a = i /\ b = P(size)!Temp
                           /\ n = 2 => a = j /\ b = i
                           /\ n = 1 => a = P(size)!Temp /\ b = j
  <2>1. CASE left = 6
    BY <1>1, <2>1 DEF P!Exchange, P!In, P!Out
  <2>2. CASE left = 5
    BY <1>1, <2>2 DEF P!Exchange, P!In, P!Out
  <2>3. CASE left = 4
    BY <1>1, <2>3 DEF P!Exchange, P!In, P!Out
  <2>4. CASE left = 3
    BY <1>1, <2>4 DEF P!Exchange, P!In, P!Out
  <2>5. CASE left = 2
    BY <1>1, <2>5 DEF P!Exchange, P!In, P!Out
  <2>6. CASE left = 1
    BY <1>1, <2>6 DEF P!Exchange, P!In, P!Out
  <2>7. QED
    BY <2>1, <2>2, <2>3, <2>4, <2>5, <2>6
<1>4. /\ e.spj = d.spj /\ d.spj \in BOOLEAN
      /\ d.files \in [P(size)!Names -> P(size)!Cases \cup {None}] /\ d.files[from] # None
      /\ e.files = [d.files EXCEPT ![to] = d.files[from], ![from] = None]
  <2>1. e = [d EXCEPT !.files[to] = d.files[from], !.files[from] = None] /\ d.files[from] # None
    BY <1>1, <1>2 DEF MoveOf
  <2>2. QED
    BY <2>1 DEF P!Directories
<1>5. PICK other \in {"in", "out"} : other # side
  BY <1>3
<1>6. a \in Ks /\ b \in Ks
  BY <1>3
<1>7. PICK f, g : f = P(size)!Side(d.files, side) /\ g = P(size)!Side(e.files, side)
  OBVIOUS
<1>8. /\ f \in [Ks -> P(size)!Cases \cup {None}] /\ f[a] = d.files[from]
      /\ g = [f EXCEPT ![b] = f[a], ![a] = None]
      /\ P(size)!Side(e.files, other) = P(size)!Side(d.files, other)
  <2>1. PICK moved : moved = e.files
    OBVIOUS
  <2>2. moved = [d.files EXCEPT ![<<b, side>>] = d.files[<<a, side>>], ![<<a, side>>] = None]
    BY <1>3, <1>4, <2>1
  <2>3. /\ P(size)!Side(d.files, side) \in [Ks -> P(size)!Cases \cup {None}]
        /\ P(size)!Side(d.files, side)[a] = d.files[<<a, side>>]
        /\ P(size)!Side(moved, side) =
             [P(size)!Side(d.files, side) EXCEPT ![b] = P(size)!Side(d.files, side)[a], ![a] = None]
        /\ P(size)!Side(moved, other) = P(size)!Side(d.files, other)
    <3>1. PICK files \in [P(size)!Names -> P(size)!Cases \cup {None}] : files = d.files
      BY <1>4
    <3>2. moved = [files EXCEPT ![<<b, side>>] = files[<<a, side>>], ![<<a, side>>] = None]
      BY <2>2, <3>1
    <3>3. side \in {"in", "out"} /\ other \in {"in", "out"} /\ other # side
      BY <1>3, <1>5
    <3>4. /\ P(size)!Side(files, side) \in [Ks -> P(size)!Cases \cup {None}]
          /\ P(size)!Side(files, side)[a] = files[<<a, side>>]
          /\ P(size)!Side(moved, side) =
               [P(size)!Side(files, side) EXCEPT ![b] = P(size)!Side(files, side)[a], ![a] = None]
          /\ P(size)!Side(moved, other) = P(size)!Side(files, other)
      <4>1. \A k \in Ks : <<k, side>> \in P(size)!Names /\ <<k, other>> \in P(size)!Names
        BY <3>3 DEF P!Names, P!In, P!Out
      <4>2. /\ moved \in [P(size)!Names -> P(size)!Cases \cup {None}]
            /\ \A name \in P(size)!Names :
                 moved[name] = IF name = <<a, side>> THEN None
                               ELSE IF name = <<b, side>> THEN files[<<a, side>>] ELSE files[name]
        BY <1>6, <3>2, <4>1
      <4>3. \A k \in Ks : /\ moved[<<k, other>>] = files[<<k, other>>]
                          /\ moved[<<k, side>>] = IF k = a THEN None
                                                  ELSE IF k = b THEN files[<<a, side>>] ELSE files[<<k, side>>]
        BY <3>2, <3>3, <4>1, <4>2
      <4>4. P(size)!Side(moved, other) = P(size)!Side(files, other)
        BY <4>3 DEF P!Side
      <4>5. /\ P(size)!Side(files, side) \in [Ks -> P(size)!Cases \cup {None}]
            /\ P(size)!Side(files, side)[a] = files[<<a, side>>]
        BY <1>6, <4>1 DEF P!Side
      <4>6. P(size)!Side(moved, side) =
              [P(size)!Side(files, side) EXCEPT ![b] = P(size)!Side(files, side)[a], ![a] = None]
        BY <1>6, <4>3, <4>5 DEF P!Side
      <4>7. QED
        BY <4>2, <4>4, <4>5, <4>6
    <3>5. QED
      BY <3>1, <3>4
  <2>4. QED
    BY <1>3, <1>7, <2>1, <2>3
<1>9. ~(left > 3) => ~d.spj
  <2>1. SUFFICES ASSUME ~(left > 3), d.spj
                 PROVE  FALSE
    OBVIOUS
  <2>2. side = "out"
    BY <1>3, <2>1
  <2>3. f[a] = None
    BY <1>6, <1>7, <2>1, <2>2 DEF P!Halfway
  <2>4. QED
    BY <1>8, <1>4, <2>3
<1>10. P(size)!SideAt(f, info, i, j, n)
  <2>1. CASE left > 3
    <3>1. side = "in" /\ n = left - 3 /\ (IF left > 3 THEN left - 3 ELSE 0) = n
      BY <1>3, <2>1
    <3>2. QED
      BY <1>7, <3>1 DEF P!Halfway
  <2>2. CASE ~(left > 3)
    <3>1. side = "out" /\ (IF left > 3 THEN 3 ELSE left) = n
      BY <1>3, <2>2
    <3>2. QED
      BY <1>7, <1>9, <2>2, <3>1 DEF P!Halfway
  <2>3. QED
    BY <2>1, <2>2
<1>11. /\ P(size)!SideAt(g, info, i, j, n - 1)
      /\ \A c \in P(size)!Cases : (\E k \in Ks : f[k] = c) => \E k \in Ks : g[k] = c
  <2>1. /\ n \in 1..3 /\ (n = 3 => a = i /\ b = P(size)!Temp)
        /\ (n = 2 => a = j /\ b = i) /\ (n = 1 => a = P(size)!Temp /\ b = j)
    BY <1>3
  <2>2. f \in [Ks -> P(size)!Cases \cup {None}] /\ g = [f EXCEPT ![b] = f[a], ![a] = None]
    BY <1>8
  <2> DEFINE Cs == P(size)!Cases
             temp == P(size)!Temp
  <2>3. None \notin Cs /\ temp \notin Cs /\ info[i] \in Cs /\ info[j] \in Cs
    BY CasesFacts
  <2> HIDE DEF Cs, temp
  <2>4. a \in Cs \cup {temp} /\ b \in Cs \cup {temp} /\ a # b /\ (a = i \/ a = j \/ a = temp)
        /\ (b = i \/ b = j \/ b = temp)
    BY <1>10, <2>1, <2>2, <2>3 DEF Cs, temp
  <2>5. f[b] = None /\ f[a] \in {info[i], info[j]}
    BY <1>10, <2>1, <2>2, <2>3 DEF Cs, temp, P!SideAt
  <2>6. \A k \in Cs \cup {temp} :
          g[k] = IF k = a THEN None ELSE IF k = b THEN f[a] ELSE f[k]
    BY <1>10, <2>1, <2>2, <2>4 DEF Cs, temp
  <2>7. P(size)!SideAt(g, info, i, j, n - 1)
    <3>1. \A k \in Cs \ {i, j} : g[k] = info[k]
      BY <1>10, <2>1, <2>2, <2>3, <2>4, <2>6 DEF P!SideAt, Cs, temp
    <3>2. CASE n = 3
      <4>1. g[i] = None /\ g[temp] = info[j] /\ g[j] = info[i]
        BY <1>10, <2>1, <2>2, <2>3, <2>6, <3>2 DEF P!SideAt, Cs, temp
      <4>2. n - 1 = 2
        BY <3>2
      <4>3. QED
        BY <1>10, <2>1, <2>2, <3>1, <4>1, <4>2 DEF P!SideAt, Cs, temp
    <3>3. CASE n = 2
      <4>1. g[j] = None /\ g[temp] = info[j] /\ g[i] = info[i]
        BY <1>10, <2>1, <2>2, <2>3, <2>6, <3>3 DEF P!SideAt, Cs, temp
      <4>2. n - 1 = 1
        BY <3>3
      <4>3. QED
        BY <1>10, <2>1, <2>2, <3>1, <4>1, <4>2 DEF P!SideAt, Cs, temp
    <3>4. CASE n = 1
      <4>1. g[temp] = None /\ g[j] = info[j] /\ g[i] = info[i]
        BY <1>10, <2>1, <2>2, <2>3, <2>6, <3>4 DEF P!SideAt, Cs, temp
      <4>2. n - 1 = 0
        BY <3>4
      <4>3. QED
        BY <1>10, <2>1, <2>2, <3>1, <4>1, <4>2 DEF P!SideAt, Cs, temp
    <3>5. QED
      BY <2>1, <3>2, <3>3, <3>4
  <2>8. ASSUME NEW c \in Cs, NEW k \in Cs \cup {temp}, f[k] = c
        PROVE  \E m \in Cs \cup {temp} : g[m] = c
    <3>1. CASE k = a
      BY <1>10, <2>1, <2>2, <2>4, <2>6, <2>8, <3>1
    <3>2. CASE k # a
      BY <1>10, <2>1, <2>2, <2>3, <2>5, <2>6, <2>8, <3>2
    <3>3. QED
      BY <3>1, <3>2
  <2>9. QED
    BY <2>3, <2>4, <2>5, <2>7, <2>8 DEF Cs, temp
<1>12. P(size)!Complete(d) => P(size)!Complete(e)
  <2>1. \A s \in {"in", "out"} : \A c \in P(size)!Cases :
          (\E k \in Ks : P(size)!Side(d.files, s)[k] = c) => \E k \in Ks : P(size)!Side(e.files, s)[k] = c
    <3>1. SUFFICES ASSUME NEW s \in {"in", "out"}, NEW c \in P(size)!Cases,
                          \E k \in Ks : P(size)!Side(d.files, s)[k] = c
                   PROVE  \E k \in Ks : P(size)!Side(e.files, s)[k] = c
      OBVIOUS
    <3>2. CASE s = side
      BY <1>7, <1>11, <3>1, <3>2
    <3>3. CASE s = other
      BY <1>8, <3>1, <3>3
    <3>4. QED
      BY <1>3, <1>5, <3>2, <3>3
  <2>2. QED
    BY ZenonT(60), <1>4, <2>1, CompleteBySides
<1>13. CASE left > 3
  <2>1. /\ P(size)!SideAt(P(size)!Side(e.files, "in"), info, i, j, n - 1)
        /\ P(size)!Side(e.files, "out") = P(size)!Side(d.files, "out")
    <3>1. side = "in"
      BY <1>3, <1>13
    <3>2. other = "out"
      BY <1>5, <3>1
    <3>3. QED
      BY <1>7, <1>8, <1>11, <3>1, <3>2
  <2>2. /\ n - 1 = IF left - 1 > 3 THEN (left - 1) - 3 ELSE 0
        /\ left - 1 >= 3 /\ (IF left - 1 > 3 THEN 3 ELSE left - 1) = 3
        /\ (IF left > 3 THEN 3 ELSE left) = 3 /\ left # 1
    BY <1>3, <1>13
  <2>3. P(size)!Halfway(e, info, i, j, left - 1)
    BY <1>4, <2>1, <2>2 DEF P!Halfway
  <2>4. QED
    BY <1>12, <1>2, <2>2, <2>3
<1>14. CASE ~(left > 3)
  <2>1. /\ P(size)!SideAt(P(size)!Side(e.files, "out"), info, i, j, n - 1)
        /\ P(size)!Side(e.files, "in") = P(size)!Side(d.files, "in")
    <3>1. side = "out"
      BY <1>3, <1>14
    <3>2. other = "in"
      BY <1>5, <3>1
    <3>3. QED
      BY <1>7, <1>8, <1>11, <3>1, <3>2
  <2>2. P(size)!SideAt(P(size)!Side(d.files, "in"), info, i, j, 0) /\ ~d.spj
    BY <1>9, <1>14 DEF P!Halfway
  <2>3. n = left /\ ~(left - 1 > 3)
    BY <1>3, <1>14
  <2>4. P(size)!Halfway(e, info, i, j, left - 1)
    BY <1>4, <2>1, <2>2, <2>3 DEF P!Halfway
  <2>5. ASSUME left = 1 PROVE P(size)!Matches(e, info)
    <3>1. n - 1 = 0
      BY <2>3, <2>5
    <3>2. P(size)!SideAt(P(size)!Side(e.files, "out"), info, i, j, 0)
      BY <2>1, <3>1
    <3>3. \A files : P(size)!SideAt(files, info, i, j, 0) => P(size)!Settled(files, info)
      BY DEF P!SideAt, P!Settled
    <3>4. QED
      BY <1>4, <2>1, <2>2, <3>2, <3>3 DEF P!Matches
  <2>6. QED
    BY <1>12, <1>2, <2>4, <2>5
<1>15. QED
  BY <1>13, <1>14

\* The first of the six moves is to come, info is already what is to become.
LEMMA FirstStage ==
  ASSUME NEW size \in {"files", "sharing"}, NEW info \in [P(size)!Cases -> P(size)!Cases],
         NEW i \in P(size)!Cases, NEW j \in P(size)!Cases, i # j
  PROVE  /\ P(size)!InfoExchanged(info, i, j) \in [P(size)!Cases -> P(size)!Cases]
         /\ \A d : P(size)!Matches(d, info) =>
              P(size)!Halfway(d, P(size)!InfoExchanged(info, i, j), i, j, 6)
<1>1. PICK new : new = P(size)!InfoExchanged(info, i, j)
  OBVIOUS
<1>2. /\ new \in [P(size)!Cases -> P(size)!Cases] /\ new[i] = info[j] /\ new[j] = info[i]
      /\ \A k \in P(size)!Cases \ {i, j} : new[k] = info[k]
  BY <1>1 DEF P!InfoExchanged
<1>3. \A files : P(size)!Settled(files, info) => P(size)!SideAt(files, new, i, j, 3)
  BY <1>2 DEF P!SideAt, P!Settled
<1>4. ASSUME NEW d, P(size)!Matches(d, info)
      PROVE  P(size)!Halfway(d, new, i, j, 6)
  <2>1. 6 > 3 /\ 6 - 3 = 3 /\ 6 >= 3
    OBVIOUS
  <2>2. QED
    BY <1>3, <1>4, <2>1 DEF P!Halfway, P!Matches
<1>5. QED
  BY <1>1, <1>2, <1>4

LEMMA TypesGrow ==
  ASSUME NEW size \in {"files", "sharing"}, requests \in Nat, requests' \in Nat, requests <= requests'
  PROVE  /\ P(size)!Ids \subseteq P(size)!Ids' /\ P(size)!Rows \subseteq P(size)!Rows'
         /\ P(size)!Directories \subseteq P(size)!Directories' /\ 0..requests \subseteq 0..requests'
<1>1. 0..requests \subseteq 0..requests'
  OBVIOUS
<1>2. P(size)!Ids \subseteq P(size)!Ids'
  BY <1>1 DEF P!Ids
<1>3. P(size)!Rows \subseteq P(size)!Rows'
  BY <1>2 DEF P!Rows
<1>4. P(size)!Directories \subseteq P(size)!Directories'
  BY <1>2 DEF P!Directories, P!Names, P!Cases, P!Unwritten, P!Emptied, P!In, P!Out, P!Temp
<1>5. QED
  BY <1>1, <1>2, <1>3, <1>4

LEMMA PromisedAreIds ==
  ASSUME NEW size \in {"files", "sharing"}, P(size)!DirsInv
  PROVE  P(size)!Promised \subseteq P(size)!Ids
<1>1. P(size)!Used \subseteq P(size)!Ids /\ x3 \subseteq P(size)!Ids
  BY DEF P!DirsInv, P!Used, P!Rows
<1>2. ASSUME NEW t \in Threads, P(size)!Busy(t)
      PROVE  P(size)!PromisedBy(job[t]) \subseteq P(size)!Ids
  <2>1. P(size)!WorkOK(job[t])
    BY <1>2 DEF P!DirsInv
  <2>2. CASE job[t].kind = "import"
    BY <2>1, <2>2 DEF P!WorkOK, P!PromisedBy, P!Rows
  <2>3. CASE job[t].kind = "copy"
    BY <2>1, <2>3 DEF P!WorkOK, P!PromisedBy
  <2>4. QED
    BY <2>2, <2>3 DEF P!PromisedBy
<1>3. QED
  BY <1>1, <1>2 DEF P!Promised, P!Given

\* Work that is not touched stays in order, as long as no directory goes that
\* has not been found without a problem.
LEMMA WorkStaysOK ==
  ASSUME NEW size \in {"files", "sharing"}, NEW work, P(size)!WorkOK(work),
         requests \in Nat, requests' \in Nat, requests <= requests', x4 \subseteq x4',
         \A d \in x2 : d.id \in x4 \/ \E e \in x2' : e.id = d.id,
         \A d \in x2' : d \in x2 \/ d.info # P(size)!Unwritten
                       \/ (\E o \in x2 : o.id = d.id /\ o.info = d.info)
                       \/ (d.id = <<requests', 0>> /\ requests < requests')
  PROVE  P(size)!WorkOK(work)'
<1>1. /\ P(size)!Ids \subseteq P(size)!Ids' /\ P(size)!Rows \subseteq P(size)!Rows'
      /\ 0..requests \subseteq 0..requests'
  BY TypesGrow
<1>2. work.kind \in {"upload", "import", "copy", "list", "prune", "rename", "info"}
  BY DEF P!WorkOK
<1>3. CASE work.kind \in {"upload", "copy"}
  BY <1>1, <1>3 DEF P!WorkOK
<1>4. CASE work.kind = "import"
  <2>1. /\ work \in [kind : {"import"}, request : 0..requests, rows : SUBSET P(size)!Rows]
        /\ P(size)!IsFiniteSet(work.rows)
        /\ \A d \in x2 : d.id[1] = work.request => d.info # P(size)!Unwritten
    BY <1>4 DEF P!WorkOK
  <2>2. work \in [kind : {"import"}, request : 0..requests', rows : SUBSET P(size)!Rows']
    BY <1>1, <2>1
  <2>3. ASSUME NEW d \in x2', d.id[1] = work.request
        PROVE  d.info # P(size)!Unwritten
    <3>1. d.id # <<requests', 0>> \/ ~(requests < requests')
      BY <2>1, <2>3
    <3>2. QED
      BY <1>1, <2>1, <2>3, <3>1
  <2>4. QED
    BY <1>4, <2>1, <2>2, <2>3 DEF P!WorkOK, P!Unwritten
<1>5. CASE work.kind = "list"
  <2>1. work.ids \subseteq {d.id : d \in x2} \cup x4
    BY <1>5 DEF P!WorkOK
  <2>2. work.ids \subseteq {d.id : d \in x2'} \cup x4'
    BY <2>1
  <2>3. QED
    BY <1>5, <2>2 DEF P!WorkOK
<1>6. CASE work.kind = "prune"
  <2>1. work \in [kind : {"prune"}, ids : SUBSET x4]
    BY <1>6 DEF P!WorkOK
  <2>2. work \in [kind : {"prune"}, ids : SUBSET x4']
    BY <2>1
  <2>3. QED
    BY <1>6, <2>2 DEF P!WorkOK
<1>7. CASE work.kind = "rename"
  <2>1. /\ work \in [kind : {"rename"}, id : P(size)!Ids, i : Nat \ {0}, selected : SUBSET P(size)!Cases,
                     moves : Seq(P(size)!Names \X P(size)!Names),
                     info : [P(size)!Cases -> P(size)!Cases]]
        /\ \A k \in work.selected : work.i <= k
    BY <1>7 DEF P!WorkOK
  <2>2. work \in [kind : {"rename"}, id : P(size)!Ids', i : Nat \ {0}, selected : SUBSET P(size)!Cases,
                  moves : Seq(P(size)!Names \X P(size)!Names),
                  info : [P(size)!Cases -> P(size)!Cases]]
    BY <1>1, <2>1
  <2>3. QED
    BY <1>7, <2>1, <2>2 DEF P!WorkOK, P!Names, P!Cases, P!In, P!Out, P!Temp
<1>8. CASE work.kind = "info"
  <2>1. work \in [kind : {"info"}, id : P(size)!Ids, info : [P(size)!Cases -> P(size)!Cases]]
    BY <1>8 DEF P!WorkOK
  <2>2. work \in [kind : {"info"}, id : P(size)!Ids', info : [P(size)!Cases -> P(size)!Cases]]
    BY <1>1, <2>1
  <2>3. QED
    BY <1>8, <2>2 DEF P!WorkOK, P!Cases
<1>9. QED
  BY <1>2, <1>3, <1>4, <1>5, <1>6, <1>7, <1>8

LEMMA DirsKeep ==
  ASSUME NEW size \in {"files", "sharing"}, P(size)!DirsInv,
         requests' \in Nat, requests <= requests', P(size)!JobTable',
         x1' \subseteq P(size)!Rows', x3' \subseteq P(size)!Ids', x2' \subseteq P(size)!Directories',
         x4 \subseteq x4',
         \A d \in x2' : d \in x2 \/ d.info # P(size)!Unwritten
                       \/ (\E o \in x2 : o.id = d.id /\ o.info = d.info)
                       \/ (d.id = <<requests', 0>> /\ requests < requests'),
         \A d \in x2 : d.id \in x4 \/ \E e \in x2' : e.id = d.id,
         \A u \in Threads : P(size)!Busy(u)' =>
           \/ P(size)!Busy(u) /\ job'[u] = job[u]
           \/ /\ P(size)!WorkOK(job[u])'
              /\ \A id \in P(size)!PromisedBy(job'[u]) : id \in P(size)!Promised \/ P(size)!Kept(id)',
         \A id \in x3' \cup P(size)!Used' : id \in P(size)!Promised \/ P(size)!Kept(id)'
  PROVE  P(size)!DirsInv'
<1>1. requests \in Nat
  BY DEF P!DirsInv
<1>2. ASSUME NEW id \in P(size)!Promised PROVE P(size)!Kept(id)'
  <2>1. P(size)!Kept(id)
    BY <1>2 DEF P!DirsInv
  <2>2. \A d \in x2' : d.id = id => d.info # P(size)!Unwritten
    <3>1. id \in (0..requests) \X Nat
      BY <1>2, PromisedAreIds DEF P!Ids
    <3>2. ASSUME requests < requests' PROVE id # <<requests', 0>>
      BY <1>1, <3>1, <3>2
    <3>3. QED
      BY <2>1, <3>2 DEF P!Kept
  <2>3. ASSUME id \notin x4' PROVE \E e \in x2' : e.id = id
    <3>1. PICK d \in x2 : d.id = id
      BY <2>1, <2>3 DEF P!Kept, P!There
    <3>2. QED
      BY <2>3, <3>1
  <2>4. QED
    BY <2>2, <2>3 DEF P!Kept, P!There, P!Unwritten
<1>3. ASSUME NEW u \in Threads, P(size)!Busy(u)'
      PROVE  /\ P(size)!WorkOK(job[u])'
             /\ \A id \in P(size)!PromisedBy(job'[u]) : P(size)!Kept(id)'
  <2>1. CASE P(size)!Busy(u) /\ job'[u] = job[u]
    <3>1. PICK work : work = job[u]
      OBVIOUS
    <3>2. P(size)!WorkOK(work)
      BY <2>1, <3>1 DEF P!DirsInv
    <3>3. P(size)!WorkOK(work)'
      BY <1>1, <3>2, WorkStaysOK
    <3>4. P(size)!PromisedBy(work) \subseteq P(size)!Promised
      BY <2>1, <3>1 DEF P!Promised
    <3>5. work = job'[u]
      BY <2>1, <3>1
    <3>6. P(size)!WorkOK(job[u])'
      BY <3>3, <3>5 DEF P!WorkOK
    <3>7. QED
      BY <1>2, <3>4, <3>5, <3>6
  <2>2. CASE ~(P(size)!Busy(u) /\ job'[u] = job[u])
    BY <1>2, <1>3, <2>2
  <2>3. QED
    BY <2>1, <2>2
<1>4. \A id \in P(size)!Promised' : P(size)!Kept(id)'
  <2>1. SUFFICES ASSUME NEW id \in P(size)!Promised' PROVE P(size)!Kept(id)'
    OBVIOUS
  <2>2. CASE id \in x3' \cup P(size)!Used'
    BY <1>2, <2>2
  <2>3. CASE \E u \in Threads : P(size)!Busy(u)' /\ id \in P(size)!PromisedBy(job'[u])
    BY <1>3, <2>3
  <2>4. QED
    BY <2>1, <2>2, <2>3 DEF P!Promised, P!PromisedBy, P!Given
<1>5. QED
  BY <1>3, <1>4 DEF P!DirsInv

\* The threads' work, one of which has just begun, gone on or ended.
LEMMA DirsWork ==
  ASSUME NEW size \in {"files", "sharing"}, P(size)!DirsInv,
         NEW t \in Threads, NEW work, job' = [job EXCEPT ![t] = work],
         requests' \in Nat, requests <= requests',
         x1' \subseteq P(size)!Rows', x3' \subseteq P(size)!Ids', x2' \subseteq P(size)!Directories',
         x4 \subseteq x4',
         \A d \in x2' : d \in x2 \/ d.info # P(size)!Unwritten
                       \/ (\E o \in x2 : o.id = d.id /\ o.info = d.info)
                       \/ (d.id = <<requests', 0>> /\ requests < requests'),
         \A d \in x2 : d.id \in x4 \/ \E e \in x2' : e.id = d.id,
         work # None =>
           /\ P(size)!WorkOK(work)'
           /\ \A id \in P(size)!PromisedBy(work) : id \in P(size)!Promised \/ P(size)!Kept(id)',
         \A id \in x3' \cup P(size)!Used' : id \in P(size)!Promised \/ P(size)!Kept(id)'
  PROVE  P(size)!DirsInv'
<1>1. P(size)!JobTable' /\ \A u \in Threads : job'[u] = IF u = t THEN work ELSE job[u]
  BY DEF P!DirsInv, P!JobTable
<1>2. ASSUME NEW u \in Threads, P(size)!Busy(u)'
      PROVE  \/ P(size)!Busy(u) /\ job'[u] = job[u]
             \/ /\ P(size)!WorkOK(job[u])'
                /\ \A id \in P(size)!PromisedBy(job'[u]) : id \in P(size)!Promised \/ P(size)!Kept(id)'
  <2>1. CASE u # t
    BY <1>1, <1>2, <2>1 DEF P!Busy
  <2>2. CASE u = t
    <3>1. work = job'[u] /\ work # None
      BY <1>1, <1>2, <2>2 DEF P!Busy
    <3>2. P(size)!WorkOK(job[u])'
      BY <3>1 DEF P!WorkOK
    <3>3. QED
      BY <3>1, <3>2
  <2>3. QED
    BY <2>1, <2>2
<1>3. QED
  BY <1>1, <1>2, DirsKeep

LEMMA NewIsNew ==
  ASSUME NEW size \in {"files", "sharing"}, P(size)!DirsInv, requests' = requests + 1
  PROVE  /\ requests \in Nat /\ requests' \in Nat /\ requests <= requests' /\ requests < requests'
         /\ P(size)!New = <<requests', 0>> /\ P(size)!New \in P(size)!Ids'
         /\ P(size)!New \notin P(size)!Ids
         /\ \A d \in x2 : d.id # P(size)!New /\ d.id[1] # requests'
         /\ requests' \in 0..requests'
         /\ x1 \subseteq P(size)!Rows' /\ x3 \subseteq P(size)!Ids' /\ x2 \subseteq P(size)!Directories'
<1>1. requests \in Nat /\ requests' \in Nat /\ requests <= requests' /\ requests < requests'
  BY DEF P!DirsInv
<1>2. /\ P(size)!New = <<requests', 0>> /\ P(size)!New \in P(size)!Ids'
      /\ P(size)!New \notin P(size)!Ids /\ requests' \in 0..requests'
  BY <1>1 DEF P!New, P!Ids
<1>3. ASSUME NEW d \in x2 PROVE d.id # P(size)!New /\ d.id[1] # requests'
  <2>1. d.id \in (0..requests) \X Nat
    BY DEF P!DirsInv, P!Directories, P!Ids
  <2>2. d.id[1] \in 0..requests
    BY <2>1
  <2>3. QED
    BY <1>1, <1>2, <2>2
<1>4. x1 \subseteq P(size)!Rows' /\ x3 \subseteq P(size)!Ids' /\ x2 \subseteq P(size)!Directories'
  BY <1>1, TypesGrow DEF P!DirsInv
<1>5. QED
  BY <1>1, <1>2, <1>3, <1>4

LEMMA DirOfId ==
  ASSUME NEW size \in {"files", "sharing"}, NEW id, P(size)!There(id)
  PROVE  P(size)!Dir(id) \in x2 /\ P(size)!Dir(id).id = id
BY DEF P!There, P!Dir

\* What is promised, by name.
LEMMA PromisedParts ==
  ASSUME NEW size \in {"files", "sharing"}
  PROVE  /\ x3 \subseteq P(size)!Promised /\ P(size)!Used \subseteq P(size)!Promised
         /\ \A problem \in x1 : problem.dir \in P(size)!Promised
         /\ \A t \in Threads : P(size)!Busy(t) => P(size)!PromisedBy(job[t]) \subseteq P(size)!Promised
BY DEF P!Promised, P!Given, P!Used

LEMMA FilesOfType ==
  ASSUME NEW size \in {"files", "sharing"}, NEW spj \in BOOLEAN
  PROVE  P(size)!FilesOf(spj) \in [P(size)!Names -> P(size)!Cases \cup {None}]
<1>1. ASSUME NEW name \in P(size)!Names
      PROVE  name[1] \in P(size)!Cases \cup {P(size)!Temp}
  BY DEF P!Names, P!In, P!Out
<1>2. QED
  BY <1>1 DEF P!FilesOf

LEMMA FilesInit ==
  ASSUME NEW size \in {"files", "sharing"}, P(size)!Init
  PROVE  P(size)!FilesInv
<1>1. PICK spj \in BOOLEAN :
        x2 = {[id |-> <<0, 0>>, spj |-> spj, files |-> P(size)!FilesOf(spj), info |-> P(size)!InfoOf]}
  BY DEF P!Init
<1>2. /\ job = [t \in Threads |-> None] /\ requests = 0 /\ x1 = {[id |-> <<0, 0>>, dir |-> <<0, 0>>]}
      /\ x3 = {<<0, 0>>} /\ x4 = {} /\ x5 = {} /\ x6 = {} /\ \A t \in Threads : ~P(size)!Busy(t)
  BY DEF P!Init, P!RequestsInit, P!Busy
<1>3. PICK d : d = [id |-> <<0, 0>>, spj |-> spj, files |-> P(size)!FilesOf(spj),
                    info |-> P(size)!InfoOf]
  OBVIOUS
<1>4. /\ x2 = {d} /\ d.id = <<0, 0>> /\ d.spj = spj /\ d.files = P(size)!FilesOf(d.spj)
      /\ d.info = P(size)!InfoOf
  BY <1>1, <1>3
<1>5. <<0, 0>> \in P(size)!Ids
  BY <1>2 DEF P!Ids
<1>6. d \in P(size)!Directories
  BY <1>3, <1>5, FilesOfType, CasesFacts DEF P!Directories
<1>7. d.info # P(size)!Unwritten
  BY <1>4, CasesFacts
<1>8. P(size)!DirsInv
  <2>1. P(size)!Promised = {<<0, 0>>}
    BY <1>2 DEF P!Promised, P!Given, P!Used
  <2>2. P(size)!Kept(<<0, 0>>)
    BY <1>4, <1>7 DEF P!Kept, P!There
  <2>3. x1 \subseteq P(size)!Rows /\ x3 \subseteq P(size)!Ids /\ P(size)!JobTable
    BY <1>2, <1>5 DEF P!Rows, P!JobTable
  <2>4. QED
    BY <1>2, <1>4, <1>6, <2>1, <2>2, <2>3 DEF P!DirsInv
<1>9. P(size)!Sound(d)
  BY <1>2, <1>4, NewDirMatches DEF P!Sound
<1>10. QED
  BY <1>2, <1>4, <1>8, <1>9, CasesFacts DEF P!FilesInv, P!CasesInv, P!EmptiedByRenaming, P!Alone, P!Single, P!Doing

\* A request that is done in one step.
LEMMA DirsAtOnce ==
  ASSUME NEW size \in {"files", "sharing"}, P(size)!DirsInv, P(size)!AtOnce,
         x1' \subseteq P(size)!Rows', x3' = x3, x4' = x4, x2' \subseteq P(size)!Directories',
         x2 \subseteq x2', \A d \in x2' : d \in x2 \/ d.id = P(size)!New,
         \A problem \in x1' : problem.dir \in P(size)!Promised
  PROVE  P(size)!DirsInv'
<1>1. job' = job /\ requests' = requests + 1
  BY DEF P!AtOnce, P!Arrive
<1>2. /\ requests' \in Nat /\ requests <= requests' /\ requests < requests'
      /\ P(size)!New = <<requests', 0>> /\ x3 \subseteq P(size)!Ids'
  BY <1>1, NewIsNew
<1>3. P(size)!JobTable'
  BY <1>1 DEF P!DirsInv, P!JobTable
<1>4. \A u \in Threads : P(size)!Busy(u)' => P(size)!Busy(u) /\ job'[u] = job[u]
  BY <1>1 DEF P!Busy
<1>5. \A id \in x3' \cup P(size)!Used' : id \in P(size)!Promised
  BY PromisedParts DEF P!Used
<1>6. QED
  BY <1>2, <1>3, <1>4, <1>5, DirsKeep

LEMMA DirsStutter ==
  ASSUME NEW size \in {"files", "sharing"}, P(size)!DirsInv, UNCHANGED vars
  PROVE  P(size)!DirsInv'
<1>1. requests \in Nat /\ requests' = requests /\ job' = job /\ x1' = x1 /\ x2' = x2 /\ x3' = x3 /\ x4' = x4
  BY DEF vars, P!DirsInv
<1>2. /\ x1' \subseteq P(size)!Rows' /\ x3' \subseteq P(size)!Ids' /\ x2' \subseteq P(size)!Directories'
      /\ P(size)!JobTable' /\ requests' \in Nat /\ requests <= requests'
  BY <1>1, TypesGrow DEF P!DirsInv, P!JobTable
<1>3. \A u \in Threads : P(size)!Busy(u)' => P(size)!Busy(u) /\ job'[u] = job[u]
  BY <1>1 DEF P!Busy
<1>4. \A id \in x3' \cup P(size)!Used' : id \in P(size)!Promised
  BY <1>1, PromisedParts DEF P!Used
<1>5. /\ x1' \subseteq P(size)!Rows' /\ x3' \subseteq P(size)!Ids' /\ x2' \subseteq P(size)!Directories'
      /\ x4 \subseteq x4' /\ \A d \in x2 : \E e \in x2' : e.id = d.id
      /\ \A d \in x2' : d \in x2
  BY <1>1, <1>2
<1>6. QED
  BY <1>2, <1>3, <1>4, <1>5, DirsKeep

\* The work that a thread goes on with.
LEMMA WorkOfThread ==
  ASSUME NEW size \in {"files", "sharing"}, P(size)!DirsInv, NEW t \in Threads, P(size)!Busy(t)
  PROVE  /\ P(size)!WorkOK(job[t]) /\ P(size)!PromisedBy(job[t]) \subseteq P(size)!Promised
         /\ requests \in Nat
         /\ requests' = requests =>
              /\ x1 \subseteq P(size)!Rows' /\ x3 \subseteq P(size)!Ids' /\ x2 \subseteq P(size)!Directories'
              /\ P(size)!Ids' = P(size)!Ids /\ P(size)!Rows' = P(size)!Rows
              /\ P(size)!Directories' = P(size)!Directories
<1>1. requests' = requests => /\ P(size)!Ids' = P(size)!Ids /\ P(size)!Rows' = P(size)!Rows
                              /\ P(size)!Directories' = P(size)!Directories
  BY DEF P!Ids, P!Rows, P!Directories, P!Names, P!Cases, P!Unwritten, P!Emptied, P!In, P!Out, P!Temp
<1>2. QED
  BY <1>1, PromisedParts DEF P!DirsInv

LEMMA CountOfRows ==
  ASSUME NEW size \in {"files", "sharing"}, NEW rows, P(size)!IsFiniteSet(rows), NEW row
  PROVE  /\ P(size)!IsFiniteSet({})
         /\ P(size)!Cardinality(rows) \in Nat /\ P(size)!IsFiniteSet(rows \cup {row})
         /\ row \notin rows =>
              P(size)!Cardinality(rows \cup {row}) = P(size)!Cardinality(rows) + 1
<1>1. \A set : P(size)!IsFiniteSet(set) <=> IsFiniteSet(set)
  BY DEF P!IsFiniteSet, IsFiniteSet
<1>2. \A set : P(size)!Cardinality(set) = Cardinality(set)
  BY DEF P!Cardinality, Cardinality
<1>3. QED
  BY <1>1, <1>2, FS_CardinalityType, FS_AddElement, FS_EmptySet

\* Uploads and imports.
LEMMA UploadsKeepDirs ==
  ASSUME NoneIsNoRecord, NEW size \in {"files", "sharing"}, P(size)!DirsInv, NEW t \in Threads,
         \/ \E spj \in BOOLEAN : P(size)!Upload(t, spj) \/ P(size)!ImportOne(t, spj)
         \/ P(size)!WriteInfo(t) \/ P(size)!Import(t) \/ P(size)!EndImport(t)
  PROVE  P(size)!DirsInv'
<1>1. \A problem \in x1 : problem.dir \in P(size)!Promised
  BY PromisedParts
<1>2. ASSUME NEW spj \in BOOLEAN, P(size)!Upload(t, spj)
      PROVE  P(size)!DirsInv'
  <2>1. PICK work : work = [kind |-> "upload", id |-> P(size)!New]
    OBVIOUS
  <2>2. PICK d : d = [id |-> P(size)!New, spj |-> spj, files |-> P(size)!FilesOf(spj),
                      info |-> P(size)!Unwritten]
    OBVIOUS
  <2>3. /\ requests' = requests + 1 /\ job' = [job EXCEPT ![t] = work] /\ x2' = x2 \cup {d}
        /\ x1' = x1 /\ x3' = x3 /\ x4' = x4
    BY <1>2, <2>1, <2>2 DEF P!Upload, P!Begin, P!Arrive
  <2>4. /\ requests' \in Nat /\ requests <= requests' /\ requests < requests'
        /\ P(size)!New = <<requests', 0>> /\ P(size)!New \in P(size)!Ids'
        /\ x1 \subseteq P(size)!Rows' /\ x3 \subseteq P(size)!Ids' /\ x2 \subseteq P(size)!Directories'
    BY <2>3, NewIsNew
  <2>5. d \in P(size)!Directories' /\ d.id = <<requests', 0>>
    <3>1. P(size)!FilesOf(spj) \in [P(size)!Names -> P(size)!Cases \cup {None}]
      BY FilesOfType
    <3>2. QED
      BY <2>2, <2>4, <3>1 DEF P!Directories, P!Names, P!Cases, P!Unwritten, P!In, P!Out, P!Temp
  <2>6. work.kind = "upload" /\ work.id = P(size)!New
    BY <2>1
  <2>7. P(size)!WorkOK(work)' /\ P(size)!PromisedBy(work) = {}
    BY <2>4, <2>6 DEF P!WorkOK, P!PromisedBy
  <2>8. \A id \in x3' \cup P(size)!Used' : id \in P(size)!Promised
    BY <1>1, <2>3, PromisedParts DEF P!Used
  <2>9. QED
    BY <2>3, <2>4, <2>5, <2>7, <2>8, DirsWork
<1>3. ASSUME NEW spj \in BOOLEAN, P(size)!ImportOne(t, spj)
      PROVE  P(size)!DirsInv'
  <2>1. PICK old : old = job[t]
    OBVIOUS
  <2>2. PICK n : n = P(size)!Cardinality(old.rows)
    OBVIOUS
  <2>3. PICK id : id = <<old.request, n>>
    OBVIOUS
  <2>4. PICK d : d = [id |-> id, spj |-> spj, files |-> P(size)!FilesOf(spj), info |-> P(size)!InfoOf]
    OBVIOUS
  <2>5. PICK row : row = [id |-> id, dir |-> id]
    OBVIOUS
  <2>6. PICK work : work = [old EXCEPT !.rows = old.rows \cup {row}]
    OBVIOUS
  <2>7. /\ requests' = requests /\ job' = [job EXCEPT ![t] = work] /\ x2' = x2 \cup {d}
        /\ x1' = x1 /\ x3' = x3 /\ x4' = x4 /\ P(size)!Busy(t) /\ old.kind = "import" /\ n < 2
    BY <1>3, <2>1, <2>2, <2>3, <2>4, <2>5, <2>6 DEF P!ImportOne, P!Doing, P!Continue
  <2>8. /\ requests \in Nat /\ requests' \in Nat /\ requests <= requests'
        /\ x1 \subseteq P(size)!Rows' /\ x3 \subseteq P(size)!Ids' /\ x2 \subseteq P(size)!Directories'
        /\ P(size)!Ids' = P(size)!Ids /\ P(size)!Rows' = P(size)!Rows
        /\ P(size)!Directories' = P(size)!Directories
        /\ P(size)!WorkOK(old) /\ P(size)!PromisedBy(old) \subseteq P(size)!Promised
    BY <2>1, <2>7, WorkOfThread
  <2>9. /\ old \in [kind : {"import"}, request : 0..requests, rows : SUBSET P(size)!Rows]
        /\ P(size)!IsFiniteSet(old.rows)
        /\ \A e \in x2 : e.id[1] = old.request => e.info # P(size)!Unwritten
    BY <2>7, <2>8 DEF P!WorkOK
  <2>10. n \in Nat /\ P(size)!IsFiniteSet(old.rows \cup {row})
    BY <2>2, <2>9, CountOfRows
  <2>11. id \in P(size)!Ids /\ row \in P(size)!Rows /\ row.dir = id
    BY <2>3, <2>5, <2>9, <2>10 DEF P!Ids, P!Rows
  <2>12. d \in P(size)!Directories /\ d.id = id /\ d.info # P(size)!Unwritten
    BY <2>4, <2>11, FilesOfType, CasesFacts DEF P!Directories
  <2>13. /\ work \in [kind : {"import"}, request : 0..requests, rows : SUBSET P(size)!Rows]
         /\ work.kind = "import" /\ work.request = old.request /\ work.rows = old.rows \cup {row}
    BY <2>6, <2>9, <2>11
  <2>14. P(size)!WorkOK(work)'
    <3>1. \A e \in x2' : e.id[1] = work.request => e.info # P(size)!Unwritten
      BY <2>7, <2>9, <2>12, <2>13
    <3>2. QED
      BY <2>7, <2>8, <2>10, <2>13, <3>1 DEF P!WorkOK, P!Unwritten
  <2>15. P(size)!Kept(id)'
    <3>1. \A e \in x2' : e.id = id => e.info # P(size)!Unwritten
      BY <2>3, <2>7, <2>9, <2>12
    <3>2. d \in x2' /\ d.id = id
      BY <2>7, <2>12
    <3>3. QED
      BY <3>1, <3>2 DEF P!Kept, P!There, P!Unwritten
  <2>16. \A i \in P(size)!PromisedBy(work) : i \in P(size)!Promised \/ P(size)!Kept(i)'
    <3>1. P(size)!PromisedBy(work) = P(size)!PromisedBy(old) \cup {id}
      BY <2>7, <2>11, <2>13 DEF P!PromisedBy
    <3>2. QED
      BY <2>8, <2>15, <3>1
  <2>17. \A i \in x3' \cup P(size)!Used' : i \in P(size)!Promised
    BY <1>1, <2>7, PromisedParts DEF P!Used
  <2>18. /\ x1' \subseteq P(size)!Rows' /\ x3' \subseteq P(size)!Ids' /\ x2' \subseteq P(size)!Directories'
         /\ x4 \subseteq x4' /\ \A o \in x2' : o \in x2 \/ o.info # P(size)!Unwritten
         /\ \A o \in x2 : \E f \in x2' : f.id = o.id
    BY <2>7, <2>8, <2>12
  <2>19. QED
    BY <2>7, <2>8, <2>14, <2>16, <2>17, <2>18, DirsWork
<1>4. ASSUME P(size)!WriteInfo(t) PROVE P(size)!DirsInv'
  <2>1. PICK id : id = job[t].id
    OBVIOUS
  <2>2. /\ requests' = requests /\ job' = [job EXCEPT ![t] = None]
        /\ x1' = x1 /\ x4' = x4 /\ P(size)!Busy(t) /\ job[t].kind = "upload"
    BY <1>4 DEF P!WriteInfo, P!Doing, P!Respond, P!Continue
  <2>3. /\ requests \in Nat /\ requests' \in Nat /\ requests <= requests'
        /\ x1 \subseteq P(size)!Rows' /\ x3 \subseteq P(size)!Ids' /\ x2 \subseteq P(size)!Directories'
        /\ P(size)!Ids' = P(size)!Ids /\ P(size)!Directories' = P(size)!Directories
        /\ P(size)!WorkOK(job[t])
    BY <2>2, WorkOfThread
  <2>4. id \in P(size)!Ids
    BY <2>1, <2>2, <2>3 DEF P!WorkOK
  <2>5. \A i \in P(size)!Used' : i \in P(size)!Promised
    BY <1>1, <2>2 DEF P!Used
  <2>6. CASE P(size)!There(id)
    <3>1. PICK e : e = [P(size)!Dir(id) EXCEPT !.info = P(size)!InfoOf]
      OBVIOUS
    <3>2. P(size)!Dir(id) \in P(size)!Directories /\ P(size)!Dir(id).id = id
      BY <2>6, DirOfId DEF P!DirsInv
    <3>3. e \in P(size)!Directories /\ e.id = id /\ e.info # P(size)!Unwritten
      BY <3>1, <3>2, CasesFacts DEF P!Directories
    <3>4. x2' = {o \in x2 : o.id # id} \cup {e} /\ x3' = x3 \cup {id}
      BY <1>4, <2>1, <2>6, <3>1, <3>3 DEF P!WriteInfo, P!PutDir
    <3>5. P(size)!Kept(id)'
      BY <3>3, <3>4 DEF P!Kept, P!There, P!Unwritten
    <3>6. \A i \in x3' \cup P(size)!Used' : i \in P(size)!Promised \/ P(size)!Kept(i)'
      BY <2>5, <3>4, <3>5, PromisedParts
    <3>7. /\ x2' \subseteq P(size)!Directories' /\ x3' \subseteq P(size)!Ids'
          /\ x1' \subseteq P(size)!Rows' /\ x4 \subseteq x4'
          /\ \A o \in x2' : o \in x2 \/ o.info # P(size)!Unwritten
          /\ \A o \in x2 : \E f \in x2' : f.id = o.id
      BY <2>2, <2>3, <2>4, <3>3, <3>4
    <3>8. QED
      BY <2>2, <2>3, <3>6, <3>7, DirsWork
  <2>7. CASE ~P(size)!There(id)
    <3>1. x2' = x2 /\ x3' = x3
      BY <1>4, <2>1, <2>7 DEF P!WriteInfo
    <3>2. \A i \in x3' \cup P(size)!Used' : i \in P(size)!Promised
      BY <2>5, <3>1, PromisedParts
    <3>3. /\ x1' \subseteq P(size)!Rows' /\ x3' \subseteq P(size)!Ids' /\ x2' \subseteq P(size)!Directories'
          /\ x4 \subseteq x4' /\ \A o \in x2' : o \in x2
          /\ \A o \in x2 : \E f \in x2' : f.id = o.id
      BY <2>2, <2>3, <3>1
    <3>4. QED
      BY <2>2, <2>3, <3>2, <3>3, DirsWork
  <2>8. QED
    BY <2>6, <2>7
<1>5. ASSUME P(size)!Import(t) PROVE P(size)!DirsInv'
  <2>1. PICK work : work = [kind |-> "import", request |-> requests', rows |-> {}]
    OBVIOUS
  <2>2. /\ requests' = requests + 1 /\ job' = [job EXCEPT ![t] = work]
        /\ x1' = x1 /\ x2' = x2 /\ x3' = x3 /\ x4' = x4
    BY <1>5, <2>1 DEF P!Import, P!Begin, P!Arrive, P!fileVars
  <2>3. /\ requests' \in Nat /\ requests <= requests' /\ requests' \in 0..requests'
        /\ x1 \subseteq P(size)!Rows' /\ x3 \subseteq P(size)!Ids' /\ x2 \subseteq P(size)!Directories'
        /\ \A d \in x2 : d.id[1] # requests'
    BY <2>2, NewIsNew
  <2>4. /\ work.kind = "import" /\ work.request = requests' /\ work.rows = {}
        /\ work \in [kind : {"import"}, request : 0..requests', rows : SUBSET P(size)!Rows']
    BY <2>1, <2>3
  <2>5. P(size)!WorkOK(work)' /\ P(size)!PromisedBy(work) = {}
    <3>1. P(size)!IsFiniteSet({})
      BY FS_EmptySet DEF P!IsFiniteSet, IsFiniteSet
    <3>2. QED
      BY <2>2, <2>3, <2>4, <3>1 DEF P!WorkOK, P!PromisedBy
  <2>6. \A i \in x3' \cup P(size)!Used' : i \in P(size)!Promised
    BY <1>1, <2>2, PromisedParts DEF P!Used
  <2>7. /\ x1' \subseteq P(size)!Rows' /\ x3' \subseteq P(size)!Ids' /\ x2' \subseteq P(size)!Directories'
        /\ x4 \subseteq x4' /\ \A o \in x2' : o \in x2
        /\ \A o \in x2 : \E f \in x2' : f.id = o.id
    BY <2>2, <2>3
  <2>8. QED
    BY <2>2, <2>3, <2>5, <2>6, <2>7, DirsWork
<1>6. ASSUME P(size)!EndImport(t) PROVE P(size)!DirsInv'
  <2>1. PICK old : old = job[t]
    OBVIOUS
  <2>2. /\ requests' = requests /\ job' = [job EXCEPT ![t] = None]
        /\ x2' = x2 /\ x3' = x3 /\ x4' = x4 /\ P(size)!Busy(t) /\ old.kind = "import"
        /\ x1' \subseteq x1 \cup old.rows
    BY <1>6, <2>1 DEF P!EndImport, P!Doing, P!Respond, P!Continue
  <2>3. /\ requests \in Nat /\ requests' \in Nat /\ requests <= requests'
        /\ x1 \subseteq P(size)!Rows' /\ x3 \subseteq P(size)!Ids' /\ x2 \subseteq P(size)!Directories'
        /\ P(size)!Rows' = P(size)!Rows
        /\ P(size)!WorkOK(old) /\ P(size)!PromisedBy(old) \subseteq P(size)!Promised
    BY <2>1, <2>2, WorkOfThread
  <2>4. /\ old.rows \subseteq P(size)!Rows
        /\ \A row \in old.rows : row.dir \in P(size)!Promised
    <3>1. old.rows \subseteq P(size)!Rows
      BY <2>2, <2>3 DEF P!WorkOK
    <3>2. \A row \in old.rows : row.dir \in P(size)!PromisedBy(old)
      BY <2>2 DEF P!PromisedBy
    <3>3. QED
      BY <2>3, <3>1, <3>2
  <2>5. \A i \in x3' \cup P(size)!Used' : i \in P(size)!Promised
    BY <1>1, <2>2, <2>4, PromisedParts DEF P!Used
  <2>6. /\ x1' \subseteq P(size)!Rows' /\ x3' \subseteq P(size)!Ids' /\ x2' \subseteq P(size)!Directories'
        /\ x4 \subseteq x4' /\ \A o \in x2' : o \in x2
        /\ \A o \in x2 : \E f \in x2' : f.id = o.id
    BY <2>2, <2>3, <2>4
  <2>7. QED
    BY <2>2, <2>3, <2>5, <2>6, DirsWork
<1>7. QED
  BY <1>2, <1>3, <1>4, <1>5, <1>6

\* Problems and their copies.
LEMMA ProblemsKeepDirs ==
  ASSUME NoneIsNoRecord, NEW size \in {"files", "sharing"}, P(size)!DirsInv,
         \/ \E dir \in P(size)!Given : P(size)!Create(dir) \/ \E problem \in x1 : P(size)!Edit(problem, dir)
         \/ \E problem \in x1 :
              P(size)!Delete(problem) \/ P(size)!Share(problem) \/ P(size)!CopySelected(problem)
         \/ \E t \in Threads : P(size)!SaveCopy(t) \/ \E problem \in x1 : P(size)!CopyDir(t, problem)
  PROVE  P(size)!DirsInv'
<1>1. /\ \A problem \in x1 : problem.dir \in P(size)!Promised
      /\ x3 \subseteq P(size)!Promised /\ P(size)!Given \subseteq P(size)!Promised
  BY PromisedParts DEF P!Given
<1>2. ASSUME P(size)!AtOnce, x3' = x3, x4' = x4, x2' = x2,
             \A row \in x1' :
               \/ row \in x1
               \/ /\ row.dir \in P(size)!Promised
                  /\ row \in [id : P(size)!Ids', dir : P(size)!Ids']
      PROVE  P(size)!DirsInv'
  <2>1. requests' = requests + 1
    BY <1>2 DEF P!AtOnce, P!Arrive
  <2>2. x1 \subseteq P(size)!Rows' /\ x2 \subseteq P(size)!Directories'
    BY <2>1, NewIsNew
  <2>3. x1' \subseteq P(size)!Rows' /\ x2' \subseteq P(size)!Directories'
    BY <1>2, <2>2 DEF P!Rows
  <2>4. QED
    BY <1>1, <1>2, <2>3, DirsAtOnce
<1>3. ASSUME P(size)!AtOnce
      PROVE  /\ P(size)!New \in P(size)!Ids' /\ P(size)!Ids \subseteq P(size)!Ids'
             /\ P(size)!Given \subseteq P(size)!Ids'
             /\ \A problem \in x1 : problem.dir \in P(size)!Ids' /\ problem.id \in P(size)!Ids'
  <2>1. requests' = requests + 1
    BY <1>3 DEF P!AtOnce, P!Arrive
  <2>2. /\ P(size)!New \in P(size)!Ids' /\ x3 \subseteq P(size)!Ids' /\ x1 \subseteq P(size)!Rows'
        /\ requests \in Nat /\ requests' \in Nat /\ requests <= requests'
    BY <2>1, NewIsNew
  <2>3. \A problem \in x1 : problem.dir \in P(size)!Ids' /\ problem.id \in P(size)!Ids'
    BY <2>2 DEF P!Rows
  <2>4. P(size)!Given \subseteq P(size)!Ids'
    BY <2>2, <2>3 DEF P!Given, P!Used
  <2>5. QED
    BY <2>2, <2>3, <2>4, TypesGrow
<1>4. ASSUME NEW dir \in P(size)!Given, P(size)!Create(dir) PROVE P(size)!DirsInv'
  <2>1. PICK row : row = [id |-> P(size)!New, dir |-> dir]
    OBVIOUS
  <2>2. /\ P(size)!AtOnce /\ x1' = x1 \cup {row} /\ x3' = x3 /\ x4' = x4 /\ x2' = x2
    BY <1>4, <2>1 DEF P!Create
  <2>3. row.dir \in P(size)!Promised /\ row \in [id : P(size)!Ids', dir : P(size)!Ids']
    BY <1>1, <1>3, <2>1, <2>2
  <2>4. QED
    BY <1>2, <2>2, <2>3
<1>5. ASSUME NEW dir \in P(size)!Given, NEW problem \in x1, P(size)!Edit(problem, dir) PROVE P(size)!DirsInv'
  <2>1. PICK row : row = [problem EXCEPT !.dir = dir]
    OBVIOUS
  <2>2. /\ P(size)!AtOnce /\ x1' = (x1 \ {problem}) \cup {row} /\ x3' = x3 /\ x4' = x4 /\ x2' = x2
    BY <1>5, <2>1 DEF P!Edit
  <2>3. problem \in [id : P(size)!Ids, dir : P(size)!Ids]
    BY DEF P!DirsInv, P!Rows
  <2>4. row.dir \in P(size)!Promised /\ row \in [id : P(size)!Ids', dir : P(size)!Ids']
    BY <1>1, <1>3, <2>1, <2>2, <2>3
  <2>5. QED
    BY <1>2, <2>2, <2>4
<1>6. ASSUME NEW problem \in x1, P(size)!Delete(problem) PROVE P(size)!DirsInv'
  <2>1. /\ P(size)!AtOnce /\ x1' = x1 \ {problem} /\ x3' = x3 /\ x4' = x4 /\ x2' = x2
    BY <1>6 DEF P!Delete
  <2>2. QED
    BY <1>2, <2>1
<1>7. ASSUME NEW problem \in x1, P(size)!Share(problem) PROVE P(size)!DirsInv'
  <2>1. PICK row : row = [id |-> P(size)!New, dir |-> problem.dir]
    OBVIOUS
  <2>2. /\ P(size)!AtOnce /\ x1' = x1 \cup {row} /\ x3' = x3 /\ x4' = x4 /\ x2' = x2
    BY <1>7, <2>1 DEF P!Share
  <2>3. row.dir \in P(size)!Promised /\ row \in [id : P(size)!Ids', dir : P(size)!Ids']
    BY <1>1, <1>3, <2>1, <2>2
  <2>4. QED
    BY <1>2, <2>2, <2>3
<1>8. ASSUME NEW problem \in x1, P(size)!CopySelected(problem) PROVE P(size)!DirsInv'
  <2>1. PICK d : d = [id |-> P(size)!New, spj |-> FALSE,
                      files |-> [name \in P(size)!Names |-> None], info |-> P(size)!Unwritten]
    OBVIOUS
  <2>2. /\ P(size)!AtOnce /\ x1' = x1 /\ x3' = x3 /\ x4' = x4 /\ x2' = x2 \cup {d}
        /\ requests' = requests + 1
    BY <1>8, <2>1 DEF P!CopySelected, P!AtOnce, P!Arrive
  <2>3. d.id = P(size)!New /\ d \in P(size)!Directories'
    BY <1>3, <2>1, <2>2
    DEF P!Directories, P!Names, P!Cases, P!Unwritten, P!In, P!Out, P!Temp
  <2>4. x1' \subseteq P(size)!Rows' /\ x2' \subseteq P(size)!Directories'
    BY <2>2, <2>3, NewIsNew
  <2>5. \A o \in x2' : o \in x2 \/ o.id = P(size)!New
    BY <2>2, <2>3
  <2>6. QED
    BY <1>1, <2>2, <2>4, <2>5, DirsAtOnce
<1>9. ASSUME NEW t \in Threads, NEW problem \in x1, P(size)!CopyDir(t, problem)
      PROVE  P(size)!DirsInv'
  <2>1. PICK work : work = [kind |-> "copy", id |-> P(size)!New]
    OBVIOUS
  <2>2. PICK d : d = [P(size)!Dir(problem.dir) EXCEPT !.id = P(size)!New]
    OBVIOUS
  <2>3. /\ requests' = requests + 1 /\ job' = [job EXCEPT ![t] = work] /\ x2' = x2 \cup {d}
        /\ x1' = x1 /\ x3' = x3 /\ x4' = x4 /\ P(size)!There(problem.dir)
    BY <1>9, <2>1, <2>2 DEF P!CopyDir, P!Begin, P!Arrive
  <2>4. /\ requests \in Nat /\ requests' \in Nat /\ requests <= requests' /\ requests < requests'
        /\ P(size)!New = <<requests', 0>> /\ P(size)!New \in P(size)!Ids'
        /\ x1 \subseteq P(size)!Rows' /\ x3 \subseteq P(size)!Ids' /\ x2 \subseteq P(size)!Directories'
        /\ \A e \in x2 : e.id # P(size)!New
    BY <2>3, NewIsNew
  <2>5. PICK e \in x2 : e.id = problem.dir /\ e = P(size)!Dir(problem.dir)
    BY <2>3, DirOfId
  <2>6. d \in P(size)!Directories' /\ d.id = P(size)!New /\ d.info = e.info
    <3>1. e \in P(size)!Directories'
      BY <2>4
    <3>2. QED
      BY <2>2, <2>4, <2>5, <3>1
      DEF P!Directories, P!Names, P!Cases, P!Unwritten, P!In, P!Out, P!Temp
  <2>7. work.kind = "copy" /\ work.id = P(size)!New
    BY <2>1
  <2>8. d.info # P(size)!Unwritten
    <3>1. P(size)!Kept(problem.dir)
      BY <1>1 DEF P!DirsInv
    <3>2. QED
      BY <2>5, <2>6, <3>1 DEF P!Kept
  <2>9. P(size)!WorkOK(work)' /\ P(size)!PromisedBy(work) = {P(size)!New}
    BY <2>4, <2>7 DEF P!WorkOK, P!PromisedBy
  <2>10. PICK new : new = P(size)!New
    OBVIOUS
  <2>11. \A i \in P(size)!PromisedBy(work) : i \in P(size)!Promised \/ P(size)!Kept(i)'
    <3>1. \A o \in x2' : o.id = new => o.info # P(size)!Unwritten
      BY <2>3, <2>4, <2>8, <2>10
    <3>2. d \in x2' /\ d.id = new
      BY <2>3, <2>6, <2>10
    <3>3. P(size)!Kept(new)'
      BY <3>1, <3>2 DEF P!Kept, P!There, P!Unwritten
    <3>4. QED
      BY <2>9, <2>10, <3>3
  <2>12. \A i \in x3' \cup P(size)!Used' : i \in P(size)!Promised
    BY <1>1, <2>3 DEF P!Used
  <2>13. /\ x1' \subseteq P(size)!Rows' /\ x3' \subseteq P(size)!Ids' /\ x2' \subseteq P(size)!Directories'
         /\ x4 \subseteq x4' /\ \A o \in x2' : o \in x2 \/ o.info # P(size)!Unwritten
         /\ \A o \in x2 : \E f \in x2' : f.id = o.id
    BY <2>3, <2>4, <2>6, <2>8
  <2>14. QED
    BY <2>3, <2>4, <2>9, <2>11, <2>12, <2>13, DirsWork
<1>10. ASSUME NEW t \in Threads, P(size)!SaveCopy(t) PROVE P(size)!DirsInv'
  <2>1. PICK old : old = job[t]
    OBVIOUS
  <2>2. PICK row : row = [id |-> old.id, dir |-> old.id]
    OBVIOUS
  <2>3. /\ requests' = requests /\ job' = [job EXCEPT ![t] = None]
        /\ x2' = x2 /\ x3' = x3 /\ x4' = x4 /\ P(size)!Busy(t) /\ old.kind = "copy"
        /\ x1' = x1 \cup {row}
    BY <1>10, <2>1, <2>2 DEF P!SaveCopy, P!Doing, P!Respond, P!Continue
  <2>4. /\ requests \in Nat /\ requests' \in Nat /\ requests <= requests'
        /\ x1 \subseteq P(size)!Rows' /\ x3 \subseteq P(size)!Ids' /\ x2 \subseteq P(size)!Directories'
        /\ P(size)!Rows' = P(size)!Rows
        /\ P(size)!WorkOK(old) /\ P(size)!PromisedBy(old) \subseteq P(size)!Promised
    BY <2>1, <2>3, WorkOfThread
  <2>5. row \in P(size)!Rows /\ row.dir \in P(size)!Promised
    BY <2>2, <2>3, <2>4 DEF P!WorkOK, P!PromisedBy, P!Rows
  <2>6. \A i \in x3' \cup P(size)!Used' : i \in P(size)!Promised
    BY <1>1, <2>3, <2>5 DEF P!Used
  <2>7. /\ x1' \subseteq P(size)!Rows' /\ x3' \subseteq P(size)!Ids' /\ x2' \subseteq P(size)!Directories'
        /\ x4 \subseteq x4' /\ \A o \in x2' : o \in x2
        /\ \A o \in x2 : \E f \in x2' : f.id = o.id
    BY <2>3, <2>4, <2>5
  <2>8. QED
    BY <2>3, <2>4, <2>6, <2>7, DirsWork
<1>11. QED
  BY <1>4, <1>5, <1>6, <1>7, <1>8, <1>9, <1>10

\* The next selected case: what the work of a renaming becomes.
WorkOfCase(size, old, j) ==
  [old EXCEPT !.i = old.i + 1, !.selected = old.selected \ {j},
     !.moves = IF j = old.i THEN <<>> ELSE P(size)!Exchange(old.i, j),
     !.info = IF j = old.i THEN old.info ELSE P(size)!InfoExchanged(old.info, old.i, j)]

LEMMA NextCase ==
  ASSUME NEW size \in {"files", "sharing"}, NEW old, P(size)!WorkOK(old), old.kind = "rename",
         old.selected # {}, NEW j, j = P(size)!Next1(old.selected), NEW work,
         work = WorkOfCase(size, old, j)
  PROVE  /\ j \in P(size)!Cases /\ old.i \in P(size)!Cases
         /\ old.info \in [P(size)!Cases -> P(size)!Cases]
         /\ work.kind = "rename" /\ work.id = old.id
         /\ j = old.i => work.moves = <<>> /\ work.info = old.info
         /\ j # old.i => /\ work.moves = P(size)!Exchange(old.i, j)
                         /\ work.info = P(size)!InfoExchanged(old.info, old.i, j)
         /\ P(size)!WorkOK(work)
<1>1. /\ old \in [kind : {"rename"}, id : P(size)!Ids, i : Nat \ {0}, selected : SUBSET P(size)!Cases,
                  moves : Seq(P(size)!Names \X P(size)!Names),
                  info : [P(size)!Cases -> P(size)!Cases]]
      /\ \A k \in old.selected : old.i <= k
  BY DEF P!WorkOK
<1>2. j \in old.selected /\ \A k \in old.selected : j <= k
  BY <1>1, FirstSelected
<1>3. j \in P(size)!Cases /\ old.i \in P(size)!Cases /\ j \in Nat /\ old.i \in Nat
  <2>1. j \in P(size)!Cases /\ old.i <= j /\ old.i \in Nat \ {0}
    BY <1>1, <1>2
  <2>2. NCases[size] \in Nat
    BY CasesFacts
  <2>3. QED
    BY <2>1, <2>2 DEF P!Cases
<1>4. PICK moves, info : /\ moves = IF j = old.i THEN <<>> ELSE P(size)!Exchange(old.i, j)
                         /\ info = IF j = old.i THEN old.info
                                   ELSE P(size)!InfoExchanged(old.info, old.i, j)
  OBVIOUS
<1>5. /\ moves \in Seq(P(size)!Names \X P(size)!Names)
      /\ info \in [P(size)!Cases -> P(size)!Cases]
  <2>1. CASE j = old.i
    BY <1>1, <1>4, <2>1, EmptySeq
  <2>2. CASE j # old.i
    BY <1>1, <1>3, <1>4, <2>2, MovesOfExchange, FirstStage
  <2>3. QED
    BY <2>1, <2>2
<1>6. PICK n, selected : n = old.i + 1 /\ selected = old.selected \ {j}
  OBVIOUS
<1>7. /\ work \in [kind : {"rename"}, id : P(size)!Ids, i : Nat \ {0},
                   selected : SUBSET P(size)!Cases,
                   moves : Seq(P(size)!Names \X P(size)!Names),
                   info : [P(size)!Cases -> P(size)!Cases]]
      /\ work.i = old.i + 1 /\ work.selected = old.selected \ {j} /\ work.id = old.id
      /\ work.moves = moves /\ work.info = info /\ work.kind = "rename"
  <2>1. work = [old EXCEPT !.i = n, !.selected = selected, !.moves = moves, !.info = info]
    BY <1>4, <1>6 DEF WorkOfCase
  <2>2. n \in Nat \ {0} /\ selected \in SUBSET P(size)!Cases
    BY <1>1, <1>3, <1>6
  <2>3. QED
    BY <1>1, <1>5, <1>6, <2>1, <2>2
<1>8. \A k \in work.selected : work.i <= k
  <2>1. ASSUME NEW k \in work.selected PROVE work.i <= k
    <3>1. k \in old.selected /\ k # j /\ j <= k /\ old.i <= j
      BY <1>1, <1>2, <1>7
    <3>2. k \in Nat
      BY <1>1, <3>1, CasesFacts
    <3>3. QED
      BY <1>3, <1>7, <3>1, <3>2
  <2>2. QED
    BY <2>1
<1>9. P(size)!WorkOK(work)
  BY <1>7, <1>8 DEF P!WorkOK
<1>10. QED
  BY <1>1, <1>3, <1>4, <1>7, <1>9

\* Pruning, renaming and crashes.
LEMMA OthersKeepDirs ==
  ASSUME NoneIsNoRecord, NEW size \in {"files", "sharing"}, P(size)!DirsInv, NEW t \in Threads,
         \/ P(size)!Prune(t) \/ P(size)!FindOrphans(t) \/ P(size)!PruneOne(t)
         \/ P(size)!PruneEnds(t)
         \/ \E d \in x2, selected \in SUBSET P(size)!Cases : P(size)!Rename(t, d.id, selected)
         \/ P(size)!RenameCase(t) \/ P(size)!Move(t)
         \/ P(size)!EmptyInfo(t) \/ P(size)!RenameEnds(t) \/ P(size)!Crash(t)
  PROVE  P(size)!DirsInv'
<1>1. \A problem \in x1 : problem.dir \in P(size)!Promised
  BY PromisedParts
<1>2. x1' = x1 /\ x3' = x3 => \A i \in x3' \cup P(size)!Used' : i \in P(size)!Promised
  BY <1>1, PromisedParts DEF P!Used
\* Work that touches directories but gives none away.
<1>3. ASSUME NEW work, P(size)!Busy(t), job' = [job EXCEPT ![t] = work], requests' = requests,
             x1' = x1, x3' = x3, x4 \subseteq x4', x2' \subseteq P(size)!Directories,
             \A d \in x2' : d.info # P(size)!Unwritten \/ (\E o \in x2 : o.id = d.id /\ o.info = d.info),
             \A d \in x2 : d.id \in x4 \/ \E e \in x2' : e.id = d.id,
             work # None => P(size)!WorkOK(work)' /\ work.kind \notin {"import", "copy"}
      PROVE  P(size)!DirsInv'
  <2>1. /\ requests' \in Nat /\ requests <= requests'
        /\ x1' \subseteq P(size)!Rows' /\ x3' \subseteq P(size)!Ids' /\ x2' \subseteq P(size)!Directories'
    BY <1>3, WorkOfThread
  <2>2. work # None => P(size)!PromisedBy(work) = {}
    BY <1>3 DEF P!PromisedBy
  <2>3. QED
    BY <1>2, <1>3, <2>1, <2>2, DirsWork
<1>4. ASSUME P(size)!Prune(t) PROVE P(size)!DirsInv'
  <2>1. PICK work : work = [kind |-> "list", ids |-> {d.id : d \in x2}]
    OBVIOUS
  <2>2. /\ requests' = requests + 1 /\ job' = [job EXCEPT ![t] = work]
        /\ x1' = x1 /\ x2' = x2 /\ x3' = x3 /\ x4' = x4
    BY <1>4, <2>1 DEF P!Prune, P!Begin, P!Arrive, P!fileVars
  <2>3. /\ requests' \in Nat /\ requests <= requests'
        /\ x1' \subseteq P(size)!Rows' /\ x3' \subseteq P(size)!Ids' /\ x2' \subseteq P(size)!Directories'
    BY <2>2, NewIsNew
  <2>4. work.kind = "list" /\ work.ids = {d.id : d \in x2}
    BY <2>1
  <2>5. P(size)!WorkOK(work)' /\ P(size)!PromisedBy(work) = {}
    BY <2>2, <2>4 DEF P!WorkOK, P!PromisedBy
  <2>6. /\ x4 \subseteq x4' /\ \A o \in x2' : o \in x2
        /\ \A o \in x2 : \E f \in x2' : f.id = o.id
    BY <2>2
  <2>7. QED
    BY <1>2, <2>2, <2>3, <2>5, <2>6, DirsWork
<1>5. ASSUME P(size)!FindOrphans(t) PROVE P(size)!DirsInv'
  <2>1. PICK old : old = job[t]
    OBVIOUS
  <2>2. PICK work : work = [kind |-> "prune", ids |-> old.ids \ P(size)!Used]
    OBVIOUS
  <2>3. /\ P(size)!Busy(t) /\ old.kind = "list" /\ job' = [job EXCEPT ![t] = work]
        /\ requests' = requests /\ x1' = x1 /\ x2' = x2 /\ x3' = x3
        /\ x4' = x4 \cup ({d.id : d \in x2} \ P(size)!Used)
    BY <1>5, <2>1, <2>2 DEF P!FindOrphans, P!Doing, P!Continue
  <2>4. old.ids \subseteq {d.id : d \in x2} \cup x4
    BY <2>1, <2>3, WorkOfThread DEF P!WorkOK
  <2>5. work \in [kind : {"prune"}, ids : SUBSET x4'] /\ work.kind = "prune"
    BY <2>2, <2>3, <2>4
  <2>6. P(size)!WorkOK(work)'
    BY <2>5 DEF P!WorkOK
  <2>7. x2' \subseteq P(size)!Directories
    BY <2>3 DEF P!DirsInv
  <2>8. QED
    BY <1>3, <2>3, <2>5, <2>6, <2>7
<1>6. ASSUME P(size)!PruneOne(t) PROVE P(size)!DirsInv'
  <2>1. PICK old : old = job[t]
    OBVIOUS
  <2>2. PICK id \in old.ids : /\ x2' = {d \in x2 : d.id # id}
                              /\ job' = [job EXCEPT ![t] = [old EXCEPT !.ids = old.ids \ {id}]]
    BY <1>6, <2>1 DEF P!PruneOne, P!Continue
  <2>3. PICK work : work = [old EXCEPT !.ids = old.ids \ {id}]
    OBVIOUS
  <2>4. /\ P(size)!Busy(t) /\ old.kind = "prune" /\ job' = [job EXCEPT ![t] = work]
        /\ requests' = requests /\ x1' = x1 /\ x3' = x3 /\ x4' = x4
    BY <1>6, <2>1, <2>2, <2>3 DEF P!PruneOne, P!Doing, P!Continue
  <2>5. old \in [kind : {"prune"}, ids : SUBSET x4]
    BY <2>1, <2>4, WorkOfThread DEF P!WorkOK
  <2>6. work \in [kind : {"prune"}, ids : SUBSET x4'] /\ work.kind = "prune"
    BY <2>3, <2>4, <2>5
  <2>7. P(size)!WorkOK(work)'
    BY <2>6 DEF P!WorkOK
  <2>8. x2' \subseteq P(size)!Directories
    BY <2>2 DEF P!DirsInv
  <2>9. /\ \A d \in x2' : d \in x2
        /\ \A d \in x2 : d.id \in x4 \/ \E e \in x2' : e.id = d.id
    BY <2>2, <2>5
  <2>10. QED
    BY <1>3, <2>4, <2>6, <2>7, <2>8, <2>9
<1>7. ASSUME P(size)!PruneEnds(t) \/ P(size)!Crash(t) PROVE P(size)!DirsInv'
  <2>1. /\ P(size)!Busy(t) /\ job' = [job EXCEPT ![t] = None] /\ requests' = requests
        /\ x1' = x1 /\ x2' = x2 /\ x3' = x3 /\ x4' = x4
    BY <1>7 DEF P!PruneEnds, P!Crash, P!Doing, P!Respond, P!Continue, P!fileVars
  <2>2. x2' \subseteq P(size)!Directories
    BY <2>1 DEF P!DirsInv
  <2>3. QED
    BY <1>3, <2>1, <2>2
<1>8. ASSUME NEW d \in x2, NEW selected \in SUBSET P(size)!Cases, P(size)!Rename(t, d.id, selected)
      PROVE  P(size)!DirsInv'
  <2>1. PICK e : e = P(size)!Dir(d.id)
    OBVIOUS
  <2>2. PICK work : work = [kind |-> "rename", id |-> d.id, i |-> 1, selected |-> selected,
                            moves |-> <<>>, info |-> e.info]
    OBVIOUS
  <2>3. /\ requests' = requests + 1 /\ job' = [job EXCEPT ![t] = work]
        /\ x1' = x1 /\ x2' = x2 /\ x3' = x3 /\ x4' = x4 /\ P(size)!Readable(e.info)
    BY <1>8, <2>1, <2>2 DEF P!Rename, P!Begin, P!Arrive
  <2>4. /\ requests' \in Nat /\ requests <= requests' /\ requests \in Nat
        /\ x1' \subseteq P(size)!Rows' /\ x3' \subseteq P(size)!Ids' /\ x2' \subseteq P(size)!Directories'
    BY <2>3, NewIsNew
  <2>5. e \in x2 /\ e.id = d.id
    BY <2>1, DirOfId DEF P!There
  <2>6. /\ e.info \in [P(size)!Cases -> P(size)!Cases] /\ d.id \in P(size)!Ids
        /\ d.id \in P(size)!Ids'
    <3>1. e \in P(size)!Directories /\ d \in P(size)!Directories /\ d \in P(size)!Directories'
      BY <2>3, <2>4, <2>5 DEF P!DirsInv
    <3>2. QED
      BY <2>3, <3>1 DEF P!Directories, P!Readable
  <2>7. /\ work \in [kind : {"rename"}, id : P(size)!Ids', i : Nat \ {0},
                     selected : SUBSET P(size)!Cases,
                     moves : Seq(P(size)!Names \X P(size)!Names),
                     info : [P(size)!Cases -> P(size)!Cases]]
        /\ work.kind = "rename" /\ work.i = 1 /\ work.selected = selected
    <3>1. <<>> \in Seq(P(size)!Names \X P(size)!Names)
      BY EmptySeq
    <3>2. QED
      BY <2>2, <2>6, <3>1
  <2>8. \A k \in selected : 1 <= k
    BY CasesFacts
  <2>9. P(size)!WorkOK(work)' /\ P(size)!PromisedBy(work) = {}
    BY <2>7, <2>8 DEF P!WorkOK, P!PromisedBy, P!Names, P!Cases, P!In, P!Out, P!Temp
  <2>10. /\ x4 \subseteq x4' /\ \A o \in x2' : o \in x2
         /\ \A o \in x2 : \E f \in x2' : f.id = o.id
    BY <2>3
  <2>11. QED
    BY <1>2, <2>3, <2>4, <2>9, <2>10, DirsWork
<1>9. ASSUME P(size)!RenameCase(t) PROVE P(size)!DirsInv'
  <2>1. PICK old : old = job[t]
    OBVIOUS
  <2>2. PICK j : j = P(size)!Next1(old.selected)
    OBVIOUS
  <2>3. PICK work : work = WorkOfCase(size, old, j)
    OBVIOUS
  <2>4. /\ P(size)!Busy(t) /\ job' = [job EXCEPT ![t] = work] /\ requests' = requests
        /\ x1' = x1 /\ x2' = x2 /\ x3' = x3 /\ x4' = x4 /\ old.kind = "rename" /\ old.selected # {}
    BY <1>9, <2>1, <2>2, <2>3 DEF WorkOfCase, P!RenameCase, P!Doing, P!Continue, P!fileVars
  <2>5. P(size)!WorkOK(old) /\ requests \in Nat
    BY <2>1, <2>4, WorkOfThread
  <2>6. P(size)!WorkOK(work) /\ work.kind = "rename"
    BY <2>2, <2>3, <2>4, <2>5, NextCase
  <2>7. P(size)!WorkOK(work)'
    <3>1. /\ requests' \in Nat /\ requests <= requests' /\ x4 \subseteq x4'
          /\ \A d \in x2 : d.id \in x4 \/ \E e \in x2' : e.id = d.id
          /\ \A d \in x2' : d \in x2 \/ d.info # P(size)!Unwritten
                            \/ (\E o \in x2 : o.id = d.id /\ o.info = d.info)
                            \/ (d.id = <<requests', 0>> /\ requests < requests')
      BY <2>4, <2>5
    <3>2. QED
      BY <2>5, <2>6, <3>1, WorkStaysOK
  <2>8. x2' \subseteq P(size)!Directories
    BY <2>4 DEF P!DirsInv
  <2>9. QED
    BY <1>3, <2>4, <2>6, <2>7, <2>8
<1>10. ASSUME P(size)!Move(t) PROVE P(size)!DirsInv'
  <2>1. PICK old : old = job[t]
    OBVIOUS
  <2>2. PICK id : id = old.id
    OBVIOUS
  <2>3. PICK from, to : from = Head(old.moves)[1] /\ to = Head(old.moves)[2]
    BY SMTT(30)
  <2>4. /\ P(size)!Busy(t) /\ requests' = requests /\ x1' = x1 /\ x3' = x3 /\ x4' = x4
        /\ old.kind = "rename" /\ old.moves # <<>>
    BY <1>10, <2>1 DEF P!Move, P!Doing, P!Continue, P!Respond
  <2>5. P(size)!WorkOK(old) /\ requests \in Nat
    BY <2>1, <2>4, WorkOfThread
  <2>6. CASE ~P(size)!There(id) \/ P(size)!Dir(id).files[from] = None
    <3>1. job' = [job EXCEPT ![t] = None] /\ x2' = x2
      BY <1>10, <2>1, <2>2, <2>3, <2>6 DEF P!Move, P!Respond, P!Continue
    <3>2. x2' \subseteq P(size)!Directories
      BY <3>1 DEF P!DirsInv
    <3>3. QED
      BY <1>3, <2>4, <3>1, <3>2
  <2>7. CASE P(size)!There(id) /\ P(size)!Dir(id).files[from] # None
    <3>1. PICK d \in x2 : d.id = id /\ d = P(size)!Dir(id)
      BY <2>7, DirOfId
    <3>2. PICK e : e = [d EXCEPT !.files[to] = d.files[from], !.files[from] = None]
      OBVIOUS
    <3>3. PICK work : work = [old EXCEPT !.moves = Tail(old.moves)]
      OBVIOUS
    <3>4. /\ job' = [job EXCEPT ![t] = work]
          /\ P(size)!PutDir(e)
      <4>1. ~(~P(size)!There(id) \/ P(size)!Dir(id).files[from] = None)
        BY <2>7
      <4>2. QED
        BY <1>10, <2>1, <2>2, <2>3, <3>1, <3>2, <3>3, <4>1 DEF P!Move, P!Continue
    <3>5. /\ old \in [kind : {"rename"}, id : P(size)!Ids, i : Nat \ {0},
                      selected : SUBSET P(size)!Cases,
                      moves : Seq(P(size)!Names \X P(size)!Names),
                      info : [P(size)!Cases -> P(size)!Cases]]
          /\ \A k \in old.selected : old.i <= k
      BY <2>4, <2>5 DEF P!WorkOK
    <3>6. /\ Tail(old.moves) \in Seq(P(size)!Names \X P(size)!Names)
          /\ Head(old.moves) \in P(size)!Names \X P(size)!Names
      BY <2>4, <3>5, HeadTailProperties
    <3>7. from \in P(size)!Names /\ to \in P(size)!Names
      BY <2>3, <3>6
    <3>8. d \in P(size)!Directories
      BY DEF P!DirsInv
    <3>9. e \in P(size)!Directories /\ e.id = d.id /\ e.info = d.info
      BY <3>2, <3>7, <3>8 DEF P!Directories
    <3>10. /\ work \in [kind : {"rename"}, id : P(size)!Ids, i : Nat \ {0},
                        selected : SUBSET P(size)!Cases,
                        moves : Seq(P(size)!Names \X P(size)!Names),
                        info : [P(size)!Cases -> P(size)!Cases]]
           /\ work.selected = old.selected /\ work.i = old.i /\ work.kind = "rename"
      BY <3>3, <3>5, <3>6
    <3>11. P(size)!WorkOK(work)
      BY <3>5, <3>10 DEF P!WorkOK
    <3>12. /\ x2' = {o \in x2 : o.id # id} \cup {e} /\ e.id = id /\ e.info = d.info
           /\ x2' \subseteq P(size)!Directories
      BY <3>1, <3>4, <3>9 DEF P!PutDir, P!DirsInv
    <3>13. /\ \A o \in x2' : o.info # P(size)!Unwritten
                             \/ (\E q \in x2 : q.id = o.id /\ q.info = o.info)
           /\ \A o \in x2 : o.id \in x4 \/ \E f \in x2' : f.id = o.id
      BY <3>1, <3>12
    <3>14. P(size)!WorkOK(work)'
      <4>1. /\ requests' \in Nat /\ requests <= requests' /\ x4 \subseteq x4'
            /\ \A o \in x2' : o \in x2 \/ o.info # P(size)!Unwritten
                              \/ (\E q \in x2 : q.id = o.id /\ q.info = o.info)
                              \/ (o.id = <<requests', 0>> /\ requests < requests')
        BY <2>4, <2>5, <3>13
      <4>2. QED
        BY <2>5, <3>11, <3>13, <4>1, WorkStaysOK
    <3>15. QED
      BY <1>3, <2>4, <3>4, <3>10, <3>12, <3>13, <3>14
  <2>8. QED
    BY <2>6, <2>7
<1>11. ASSUME P(size)!EmptyInfo(t) PROVE P(size)!DirsInv'
  <2>1. PICK old : old = job[t]
    OBVIOUS
  <2>2. PICK work : work = [kind |-> "info", id |-> old.id, info |-> old.info]
    OBVIOUS
  <2>3. /\ P(size)!Busy(t) /\ requests' = requests /\ x1' = x1 /\ x3' = x3 /\ x4' = x4
        /\ old.kind = "rename"
    BY <1>11, <2>1 DEF P!EmptyInfo, P!Doing, P!Continue, P!Respond
  <2>4. P(size)!WorkOK(old) /\ requests \in Nat
    BY <2>1, <2>3, WorkOfThread
  <2>5. /\ work \in [kind : {"info"}, id : P(size)!Ids, info : [P(size)!Cases -> P(size)!Cases]]
        /\ work.kind = "info"
    BY <2>2, <2>3, <2>4 DEF P!WorkOK
  <2>6. P(size)!WorkOK(work)
    BY <2>5 DEF P!WorkOK
  <2>7. CASE P(size)!There(old.id)
    <3>1. PICK d \in x2 : d.id = old.id /\ d = P(size)!Dir(old.id)
      BY <2>7, DirOfId
    <3>2. PICK e : e = [d EXCEPT !.info = P(size)!Emptied]
      OBVIOUS
    <3>3. d \in P(size)!Directories
      BY DEF P!DirsInv
    <3>4. P(size)!Emptied # P(size)!Unwritten
      BY DEF P!Emptied, P!Unwritten
    <3>5. e \in P(size)!Directories /\ e.id = old.id /\ e.info # P(size)!Unwritten
      BY <3>1, <3>2, <3>3, <3>4 DEF P!Directories
    <3>6. P(size)!PutDir(e) /\ job' = [job EXCEPT ![t] = work]
      BY <1>11, <2>1, <2>2, <2>7, <3>1, <3>2 DEF P!EmptyInfo, P!Continue
    <3>7. x2' = {o \in x2 : o.id # old.id} \cup {e} /\ x2' \subseteq P(size)!Directories
      BY <3>5, <3>6 DEF P!PutDir, P!DirsInv
    <3>8. /\ \A o \in x2' : o.info # P(size)!Unwritten
                            \/ (\E q \in x2 : q.id = o.id /\ q.info = o.info)
          /\ \A o \in x2 : o.id \in x4 \/ \E f \in x2' : f.id = o.id
      BY <3>5, <3>7
    <3>9. P(size)!WorkOK(work)'
      <4>1. /\ requests' \in Nat /\ requests <= requests' /\ x4 \subseteq x4'
            /\ \A o \in x2' : o \in x2 \/ o.info # P(size)!Unwritten
                              \/ (\E q \in x2 : q.id = o.id /\ q.info = o.info)
                              \/ (o.id = <<requests', 0>> /\ requests < requests')
        BY <2>3, <2>4, <3>8
      <4>2. QED
        BY <2>4, <2>6, <3>8, <4>1, WorkStaysOK
    <3>10. QED
      BY <1>3, <2>3, <2>5, <3>6, <3>7, <3>8, <3>9
  <2>8. CASE ~P(size)!There(old.id)
    <3>1. x2' = x2 /\ job' = [job EXCEPT ![t] = None]
      BY <1>11, <2>1, <2>8 DEF P!EmptyInfo, P!Respond, P!Continue
    <3>2. x2' \subseteq P(size)!Directories
      BY <3>1 DEF P!DirsInv
    <3>3. QED
      BY <1>3, <2>3, <3>1, <3>2
  <2>9. QED
    BY <2>7, <2>8
<1>12. ASSUME P(size)!RenameEnds(t) PROVE P(size)!DirsInv'
  <2>1. PICK old : old = job[t]
    OBVIOUS
  <2>2. /\ P(size)!Busy(t) /\ requests' = requests /\ x1' = x1 /\ x3' = x3 /\ x4' = x4
        /\ job' = [job EXCEPT ![t] = None] /\ old.kind = "info"
    BY <1>12, <2>1 DEF P!RenameEnds, P!Doing, P!Continue, P!Respond
  <2>3. P(size)!WorkOK(old)
    BY <2>1, <2>2, WorkOfThread
  <2>4. old.info \in [P(size)!Cases -> P(size)!Cases]
    BY <2>2, <2>3 DEF P!WorkOK
  <2>5. CASE P(size)!There(old.id)
    <3>1. PICK d \in x2 : d.id = old.id /\ d = P(size)!Dir(old.id)
      BY <2>5, DirOfId
    <3>2. PICK e : e = [d EXCEPT !.info = old.info]
      OBVIOUS
    <3>3. d \in P(size)!Directories
      BY DEF P!DirsInv
    <3>4. e \in P(size)!Directories /\ e.id = old.id /\ e.info # P(size)!Unwritten
      BY <2>4, <3>1, <3>2, <3>3, CasesFacts DEF P!Directories
    <3>5. P(size)!PutDir(e)
      BY <1>12, <2>1, <2>5, <3>1, <3>2 DEF P!RenameEnds
    <3>6. x2' = {o \in x2 : o.id # old.id} \cup {e} /\ x2' \subseteq P(size)!Directories
      BY <3>4, <3>5 DEF P!PutDir, P!DirsInv
    <3>7. /\ \A o \in x2' : o.info # P(size)!Unwritten
                            \/ (\E q \in x2 : q.id = o.id /\ q.info = o.info)
          /\ \A o \in x2 : o.id \in x4 \/ \E f \in x2' : f.id = o.id
      BY <3>4, <3>6
    <3>8. QED
      BY <1>3, <2>2, <3>6, <3>7
  <2>6. CASE ~P(size)!There(old.id)
    <3>1. x2' = x2
      BY <1>12, <2>1, <2>6 DEF P!RenameEnds
    <3>2. x2' \subseteq P(size)!Directories
      BY <3>1 DEF P!DirsInv
    <3>3. QED
      BY <1>3, <2>2, <3>1, <3>2
  <2>7. QED
    BY <2>5, <2>6
<1>13. QED
  BY <1>4, <1>5, <1>6, <1>7, <1>8, <1>9, <1>10, <1>11, <1>12

\* What is known while no requests overlap.
LEMMA SoundNow ==
  ASSUME NEW size \in {"files", "sharing"}, P(size)!CasesInv, ~overlapped
  PROVE  /\ \A d, e \in x2 : d.id = e.id => d = e
         /\ \A t, u \in Threads : P(size)!Busy(t) /\ P(size)!Busy(u) => t = u
         /\ \A u \in Threads :
              P(size)!Busy(u) /\ job[u].kind = "import" => P(size)!Numbered(job[u])
         /\ \A d \in x2 : d.info # P(size)!Unwritten /\ d.id \notin x6 => P(size)!Complete(d)
         /\ \A d \in x2 :
              P(size)!Readable(d.info) /\ d.id \notin x5 =>
                \/ P(size)!Matches(d, d.info)
                \/ \E u \in Threads : P(size)!Busy(u) /\ job[u].kind \in {"rename", "info"} /\ job[u].id = d.id
         /\ \A u \in Threads, d \in x2 :
              /\ P(size)!Busy(u) /\ job[u].kind \in {"upload", "rename", "info"} /\ job[u].id = d.id
              => P(size)!StageOK(job[u], d)
BY DEF P!CasesInv, P!Alone, P!Single, P!Sound, P!Renamed, P!Doing

\* The only work that is in progress afterwards.
LEMMA SoundWork ==
  ASSUME NEW size \in {"files", "sharing"}, P(size)!DirsInv', x6' \subseteq x5',
         NEW t \in Threads, NEW work, P(size)!JobTable, job' = [job EXCEPT ![t] = work],
         ~overlapped' =>
           /\ \A u \in Threads : P(size)!Busy(u) => u = t
           /\ \A d, e \in x2' : d.id = e.id => d = e
           /\ work # None /\ work.kind = "import" => P(size)!Numbered(work)'
           /\ \A d \in x2' : d.info # P(size)!Unwritten /\ d.id \notin x6' => P(size)!Complete(d)
           /\ \A d \in x2' :
                P(size)!Readable(d.info) /\ d.id \notin x5' =>
                  \/ P(size)!Matches(d, d.info)
                  \/ work # None /\ work.kind \in {"rename", "info"} /\ work.id = d.id
           /\ \A d \in x2' :
                work # None /\ work.kind \in {"upload", "rename", "info"} /\ work.id = d.id
                => P(size)!StageOK(work, d)'
  PROVE  P(size)!CasesInv'
<1>1. SUFFICES ASSUME ~overlapped'
               PROVE  P(size)!Alone' /\ P(size)!Single' /\ \A d \in x2' : P(size)!Sound(d)'
  BY DEF P!CasesInv
<1>2. \A u \in Threads : job'[u] = IF u = t THEN work ELSE job[u]
  BY DEF P!JobTable
<1>3. /\ \A u \in Threads : job'[u] # None => u = t /\ job'[u] = work /\ work # None
      /\ work # None => job'[t] = work /\ job'[t] # None
  BY <1>1, <1>2 DEF P!Busy
<1>4. P(size)!Alone'
  BY <1>3 DEF P!Alone, P!Busy
<1>5. P(size)!Single'
  <2>1. ASSUME NEW u \in Threads, job'[u] # None, job'[u].kind = "import"
        PROVE  P(size)!Numbered(job[u])'
    <3>1. work = job'[u] /\ work # None /\ work.kind = "import"
      BY <1>3, <2>1
    <3>2. P(size)!Numbered(work)'
      BY <1>1, <3>1
    <3>3. QED
      BY <3>1, <3>2 DEF P!Numbered
  <2>2. QED
    BY <1>1, <2>1 DEF P!Single, P!Doing, P!Busy
<1>6. ASSUME NEW d \in x2' PROVE P(size)!Sound(d)'
  <2>1. d.info # P(size)!Unwritten /\ d.id \notin x6' => P(size)!Complete(d)
    BY <1>1, <1>6
  <2>2. P(size)!Readable(d.info) /\ ~P(size)!Renamed(d.id)' /\ d.id \notin x5' =>
          P(size)!Matches(d, d.info)
    BY <1>1, <1>3, <1>6 DEF P!Renamed, P!Doing, P!Busy
  <2>3. ASSUME NEW u \in Threads, job'[u] # None, job'[u].kind \in {"upload", "rename", "info"},
               job'[u].id = d.id
        PROVE  P(size)!StageOK(job[u], d)'
    <3>1. work = job'[u] /\ work # None /\ work.kind \in {"upload", "rename", "info"} /\ work.id = d.id
      BY <1>3, <2>3
    <3>2. P(size)!StageOK(work, d)'
      BY <1>1, <1>6, <3>1
    <3>3. QED
      BY <3>1, <3>2 DEF P!StageOK
  <2>4. QED
    BY <2>1, <2>2, <2>3
    DEF P!Sound, P!Renamed, P!Doing, P!Busy, P!Complete, P!Matches, P!Unwritten, P!Emptied, P!Readable, P!Cases, P!In, P!Out, P!Temp,
        P!Settled, P!Side
<1>7. QED
  BY <1>4, <1>5, <1>6

LEMMA FilesStutter ==
  ASSUME NEW size \in {"files", "sharing"}, P(size)!FilesInv, UNCHANGED vars
  PROVE  P(size)!FilesInv'
<1>1. P(size)!DirsInv'
  BY DirsStutter DEF P!FilesInv, P!CasesInv
<1>2. /\ job' = job /\ requests' = requests /\ overlapped' = overlapped
      /\ x2' = x2 /\ x5' = x5 /\ x6' = x6
  BY DEF vars
<1>3. P(size)!CasesInv'
  BY <1>1, <1>2
  DEF P!FilesInv, P!CasesInv, P!Alone, P!Single, P!Numbered, P!Sound, P!Renamed, P!Doing, P!Busy, P!StageOK
<1>4. P(size)!EmptiedByRenaming'
  BY <1>2 DEF P!FilesInv, P!EmptiedByRenaming, P!Renamed, P!Busy, P!Emptied
<1>5. QED
  BY <1>3, <1>4 DEF P!FilesInv

\* Nothing is in progress afterwards.
LEMMA SoundAtOnce ==
  ASSUME NEW size \in {"files", "sharing"}, P(size)!CasesInv, P(size)!DirsInv', P(size)!AtOnce,
         x5' = x5, x6' = x6, x2 \subseteq x2',
         \A d \in x2' : d \in x2 \/ (d.id = P(size)!New /\ d.info = P(size)!Unwritten),
         \A d, e \in x2' : d.id = P(size)!New /\ e.id = P(size)!New => d = e
  PROVE  P(size)!CasesInv'
<1>1. /\ job' = job /\ requests' = requests + 1
      /\ ~overlapped' => ~overlapped /\ \A u \in Threads : ~P(size)!Busy(u)
  BY DEF P!AtOnce, P!Arrive, P!Quiet
<1>2. \A d \in x2 : d.id # P(size)!New
  BY <1>1, NewIsNew DEF P!CasesInv
<1>3. \A u \in Threads : ~overlapped' => ~P(size)!Busy(u)'
  BY <1>1 DEF P!Busy
<1>4. SUFFICES ASSUME ~overlapped'
               PROVE  P(size)!Alone' /\ P(size)!Single' /\ \A d \in x2' : P(size)!Sound(d)'
  BY DEF P!CasesInv
<1>5. P(size)!Single'
  <2>1. \A d, e \in x2' : d.id = e.id => d = e
    BY <1>1, <1>2, <1>4, SoundNow
  <2>2. QED
    BY <1>3, <1>4, <2>1 DEF P!Single, P!Doing
<1>6. \A d \in x2' :
        /\ d.info # P(size)!Unwritten /\ d.id \notin x6' => P(size)!Complete(d)
        /\ P(size)!Readable(d.info) /\ d.id \notin x5' => P(size)!Matches(d, d.info)
  BY <1>1, <1>4, SoundNow DEF P!Readable
<1>7. QED
  BY <1>3, <1>4, <1>5, <1>6
  DEF P!Alone, P!Sound, P!Complete, P!Matches, P!Unwritten, P!Emptied, P!Readable, P!Cases, P!In, P!Out, P!Temp, P!Settled, P!Side

LEMMA UploadsKeepFiles ==
  ASSUME NoneIsNoRecord, NEW size \in {"files", "sharing"}, P(size)!CasesInv, NEW t \in Threads,
         \/ \E spj \in BOOLEAN : P(size)!Upload(t, spj) \/ P(size)!ImportOne(t, spj)
         \/ P(size)!WriteInfo(t) \/ P(size)!Import(t) \/ P(size)!EndImport(t)
  PROVE  P(size)!CasesInv'
<1>1. P(size)!DirsInv /\ P(size)!JobTable /\ x6 \subseteq x5
  BY DEF P!CasesInv, P!DirsInv
<1>2. P(size)!DirsInv'
  BY <1>1, UploadsKeepDirs
<1>3. ASSUME NEW spj \in BOOLEAN, P(size)!Upload(t, spj)
      PROVE  P(size)!CasesInv'
  <2>1. PICK new : new = P(size)!New
    OBVIOUS
  <2>2. PICK work : work = [kind |-> "upload", id |-> new]
    OBVIOUS
  <2>3. PICK d : d = [id |-> new, spj |-> spj, files |-> P(size)!FilesOf(spj),
                      info |-> P(size)!Unwritten]
    OBVIOUS
  <2>4. /\ requests' = requests + 1 /\ job' = [job EXCEPT ![t] = work] /\ x2' = x2 \cup {d}
        /\ x5' = x5 /\ x6' = x6
        /\ ~overlapped' => ~overlapped /\ \A u \in Threads : ~P(size)!Busy(u)
    BY <1>3, <2>1, <2>2, <2>3 DEF P!Upload, P!Begin, P!Arrive, P!Quiet
  <2>5. \A e \in x2 : e.id # new
    BY <1>1, <2>1, <2>4, NewIsNew
  <2>6. /\ d.id = new /\ d.info = P(size)!Unwritten /\ d.files = P(size)!FilesOf(d.spj)
        /\ work.kind = "upload"
    BY <2>2, <2>3
  <2>7. ASSUME ~overlapped'
        PROVE  /\ \A e, f \in x2' : e.id = f.id => e = f
               /\ \A e \in x2' : e.info # P(size)!Unwritten /\ e.id \notin x6' => P(size)!Complete(e)
               /\ \A e \in x2' : P(size)!Readable(e.info) /\ e.id \notin x5' => P(size)!Matches(e, e.info)
    BY <2>4, <2>5, <2>6, <2>7, SoundNow DEF P!Readable
  <2>8. \A e \in x2' : work.id = e.id => P(size)!StageOK(work, e)'
    <3>1. \A e \in x2' : work.id = e.id => e = d
      BY <2>2, <2>4, <2>5
    <3>2. P(size)!StageOK(work, d)'
      BY <2>6
      DEF P!StageOK, P!FilesOf, P!Names, P!Cases, P!In, P!Out, P!Temp
    <3>3. QED
      BY <3>1, <3>2
  <2>9. QED
    BY <1>1, <1>2, <2>4, <2>6, <2>7, <2>8, SoundWork
<1>4. ASSUME NEW spj \in BOOLEAN, P(size)!ImportOne(t, spj)
      PROVE  P(size)!CasesInv'
  <2>1. PICK old : old = job[t]
    OBVIOUS
  <2>2. PICK n : n = P(size)!Cardinality(old.rows)
    OBVIOUS
  <2>3. PICK id : id = <<old.request, n>>
    OBVIOUS
  <2>4. PICK d : d = [id |-> id, spj |-> spj, files |-> P(size)!FilesOf(spj), info |-> P(size)!InfoOf]
    OBVIOUS
  <2>5. PICK row : row = [id |-> id, dir |-> id]
    OBVIOUS
  <2>6. PICK work : work = [old EXCEPT !.rows = old.rows \cup {row}]
    OBVIOUS
  <2>7. /\ requests' = requests /\ job' = [job EXCEPT ![t] = work] /\ x2' = x2 \cup {d}
        /\ x5' = x5 /\ x6' = x6 /\ P(size)!Busy(t) /\ old.kind = "import" /\ overlapped' = overlapped
    BY <1>4, <2>1, <2>2, <2>3, <2>4, <2>5, <2>6 DEF P!ImportOne, P!Doing, P!Continue
  <2>8. /\ old \in [kind : {"import"}, request : 0..requests, rows : SUBSET P(size)!Rows]
        /\ P(size)!IsFiniteSet(old.rows)
    BY <1>1, <2>1, <2>7, WorkOfThread DEF P!WorkOK
  <2>9. n \in Nat
    BY <2>2, <2>8, CountOfRows
  <2>10. /\ work.kind = "import" /\ work.request = old.request /\ work.rows = old.rows \cup {row}
         /\ row.id = id /\ id[1] = old.request /\ id[2] = n
    BY <2>3, <2>5, <2>6, <2>8
  <2>11. /\ d.id = id /\ d.info = P(size)!InfoOf /\ d.info # P(size)!Unwritten
         /\ P(size)!Matches(d, d.info) /\ P(size)!Complete(d)
    BY <2>4, CasesFacts, NewDirMatches
  <2>12. SUFFICES ASSUME ~overlapped'
                  PROVE  /\ \A u \in Threads : P(size)!Busy(u) => u = t
                         /\ \A e, f \in x2' : e.id = f.id => e = f
                         /\ P(size)!Numbered(work)'
                         /\ \A e \in x2' : e.info # P(size)!Unwritten /\ e.id \notin x6' => P(size)!Complete(e)
                         /\ \A e \in x2' : P(size)!Readable(e.info) /\ e.id \notin x5' => P(size)!Matches(e, e.info)
    BY <1>1, <1>2, <2>7, <2>10, SoundWork
  <2>13. /\ \A u \in Threads : P(size)!Busy(u) => u = t
         /\ P(size)!Numbered(old)
    BY <2>1, <2>7, <2>12, SoundNow
  <2>14. \A e \in x2 : e.id # id
    BY <2>2, <2>9, <2>10, <2>13 DEF P!Numbered
  <2>15. P(size)!Numbered(work)'
    <3>1. P(size)!Cardinality(work.rows) = n + 1
      <4>1. row \notin old.rows
        BY <2>2, <2>9, <2>10, <2>13 DEF P!Numbered
      <4>2. QED
        BY <2>2, <2>8, <2>10, <4>1, CountOfRows
    <3>2. \A e \in x2' : e.id[1] = work.request => e.id[2] < n + 1
      <4>1. ASSUME NEW e \in x2, e.id[1] = work.request PROVE e.id[2] < n + 1
        <5>1. e.id[2] < n
          BY <2>2, <2>10, <2>13, <4>1 DEF P!Numbered
        <5>2. e.id[2] \in Nat
          BY <1>1 DEF P!DirsInv, P!Directories, P!Ids
        <5>3. QED
          BY <2>9, <5>1, <5>2
      <4>2. d.id[2] < n + 1
        BY <2>9, <2>10, <2>11
      <4>3. QED
        BY <2>7, <4>1, <4>2
    <3>3. \A r \in work.rows : r.id[2] < n + 1
      <4>1. ASSUME NEW r \in old.rows PROVE r.id[2] < n + 1
        <5>1. r.id[2] < n
          BY <2>2, <2>13 DEF P!Numbered
        <5>2. r.id[2] \in Nat
          BY <2>8 DEF P!Rows, P!Ids
        <5>3. QED
          BY <2>9, <5>1, <5>2
      <4>2. row.id[2] < n + 1
        BY <2>9, <2>10
      <4>3. QED
        BY <2>10, <4>1, <4>2
    <3>4. QED
      BY <3>1, <3>2, <3>3 DEF P!Numbered
  <2>16. /\ \A e, f \in x2' : e.id = f.id => e = f
         /\ \A e \in x2' : e.info # P(size)!Unwritten /\ e.id \notin x6' => P(size)!Complete(e)
         /\ \A e \in x2' : P(size)!Readable(e.info) /\ e.id \notin x5' => P(size)!Matches(e, e.info)
    <3>1. \A u \in Threads : P(size)!Busy(u) => job[u].kind \notin {"rename", "info"}
      BY <2>1, <2>7, <2>13
    <3>2. QED
      BY <2>7, <2>11, <2>12, <2>14, <3>1, SoundNow
  <2>17. QED
    BY <2>13, <2>15, <2>16
<1>5. ASSUME P(size)!WriteInfo(t) PROVE P(size)!CasesInv'
  <2>1. PICK old, id : old = job[t] /\ id = old.id
    OBVIOUS
  <2>2. /\ job' = [job EXCEPT ![t] = None] /\ P(size)!Busy(t) /\ old.kind = "upload"
        /\ x5' = x5 /\ x6' = x6 /\ overlapped' = overlapped
    BY <1>5, <2>1 DEF P!WriteInfo, P!Doing, P!Respond, P!Continue
  <2>3. SUFFICES ASSUME ~overlapped'
                 PROVE  /\ \A u \in Threads : P(size)!Busy(u) => u = t
                        /\ \A e, f \in x2' : e.id = f.id => e = f
                        /\ \A e \in x2' : e.info # P(size)!Unwritten /\ e.id \notin x6' => P(size)!Complete(e)
                        /\ \A e \in x2' : P(size)!Readable(e.info) /\ e.id \notin x5' => P(size)!Matches(e, e.info)
    BY <1>1, <1>2, <2>2, SoundWork
  <2>4. /\ \A u \in Threads : P(size)!Busy(u) => u = t
        /\ \A u \in Threads : P(size)!Busy(u) => job[u].kind \notin {"rename", "info"}
    BY <2>1, <2>2, <2>3, SoundNow
  <2>5. /\ \A e, f \in x2 : e.id = f.id => e = f
        /\ \A e \in x2 : e.info # P(size)!Unwritten /\ e.id \notin x6 => P(size)!Complete(e)
        /\ \A e \in x2 : P(size)!Readable(e.info) /\ e.id \notin x5 => P(size)!Matches(e, e.info)
    BY <2>2, <2>3, <2>4, SoundNow
  <2>6. CASE P(size)!There(id)
    <3>1. PICK d \in x2 : d.id = id /\ d = P(size)!Dir(id)
      BY <2>6, DirOfId
    <3>2. PICK e : e = [d EXCEPT !.info = P(size)!InfoOf]
      OBVIOUS
    <3>3. d \in P(size)!Directories
      BY <1>1 DEF P!DirsInv
    <3>4. d.files = P(size)!FilesOf(d.spj)
      BY <2>1, <2>2, <2>3, <3>1, SoundNow DEF P!StageOK
    <3>5. /\ e.id = id /\ e.info = P(size)!InfoOf /\ e.spj \in BOOLEAN
          /\ e.files = P(size)!FilesOf(e.spj)
      BY <3>1, <3>2, <3>3, <3>4 DEF P!Directories
    <3>6. P(size)!Matches(e, e.info) /\ P(size)!Complete(e)
      BY <3>5, NewDirMatches
    <3>7. x2' = {o \in x2 : o.id # id} \cup {e}
      BY <1>5, <2>1, <2>6, <3>1, <3>2, <3>5 DEF P!WriteInfo, P!PutDir
    <3>8. QED
      BY <2>2, <2>4, <2>5, <3>5, <3>6, <3>7
  <2>7. CASE ~P(size)!There(id)
    <3>1. x2' = x2
      BY <1>5, <2>1, <2>7 DEF P!WriteInfo
    <3>2. QED
      BY <2>2, <2>4, <2>5, <3>1
  <2>8. QED
    BY <2>6, <2>7
<1>6. ASSUME P(size)!Import(t) PROVE P(size)!CasesInv'
  <2>1. PICK work : work = [kind |-> "import", request |-> requests', rows |-> {}]
    OBVIOUS
  <2>2. /\ requests' = requests + 1 /\ job' = [job EXCEPT ![t] = work]
        /\ x2' = x2 /\ x5' = x5 /\ x6' = x6
        /\ ~overlapped' => ~overlapped /\ \A u \in Threads : ~P(size)!Busy(u)
    BY <1>6, <2>1 DEF P!Import, P!Begin, P!Arrive, P!Quiet, P!fileVars
  <2>3. \A e \in x2 : e.id[1] # requests'
    BY <1>1, <2>2, NewIsNew
  <2>4. work.kind = "import" /\ work.request = requests' /\ work.rows = {}
    BY <2>1
  <2>5. P(size)!Numbered(work)'
    BY <2>2, <2>3, <2>4 DEF P!Numbered
  <2>6. ASSUME ~overlapped'
        PROVE  /\ \A e, f \in x2' : e.id = f.id => e = f
               /\ \A e \in x2' : e.info # P(size)!Unwritten /\ e.id \notin x6' => P(size)!Complete(e)
               /\ \A e \in x2' : P(size)!Readable(e.info) /\ e.id \notin x5' => P(size)!Matches(e, e.info)
    BY <2>2, <2>6, SoundNow
  <2>7. QED
    BY <1>1, <1>2, <2>2, <2>4, <2>5, <2>6, SoundWork
<1>7. ASSUME P(size)!EndImport(t) PROVE P(size)!CasesInv'
  <2>1. /\ job' = [job EXCEPT ![t] = None] /\ P(size)!Busy(t) /\ job[t].kind = "import"
        /\ x2' = x2 /\ x5' = x5 /\ x6' = x6 /\ overlapped' = overlapped
    BY <1>7 DEF P!EndImport, P!Doing, P!Respond, P!Continue
  <2>2. ASSUME ~overlapped'
        PROVE  /\ \A u \in Threads : P(size)!Busy(u) => u = t
               /\ \A d, e \in x2' : d.id = e.id => d = e
               /\ \A d \in x2' : d.info # P(size)!Unwritten /\ d.id \notin x6' => P(size)!Complete(d)
               /\ \A d \in x2' : P(size)!Readable(d.info) /\ d.id \notin x5' => P(size)!Matches(d, d.info)
    BY <2>1, <2>2, SoundNow
  <2>3. QED
    BY <1>1, <1>2, <2>1, <2>2, SoundWork
<1>8. QED
  BY <1>3, <1>4, <1>5, <1>6, <1>7

LEMMA ProblemsKeepFiles ==
  ASSUME NoneIsNoRecord, NEW size \in {"files", "sharing"}, P(size)!CasesInv,
         \/ \E dir \in P(size)!Given : P(size)!Create(dir) \/ \E problem \in x1 : P(size)!Edit(problem, dir)
         \/ \E problem \in x1 :
              P(size)!Delete(problem) \/ P(size)!Share(problem) \/ P(size)!CopySelected(problem)
         \/ \E t \in Threads : P(size)!SaveCopy(t) \/ \E problem \in x1 : P(size)!CopyDir(t, problem)
  PROVE  P(size)!CasesInv'
<1>1. P(size)!DirsInv /\ P(size)!JobTable /\ x6 \subseteq x5
  BY DEF P!CasesInv, P!DirsInv
<1>2. P(size)!DirsInv'
  BY <1>1, ProblemsKeepDirs
<1>3. ASSUME \/ \E dir \in P(size)!Given : P(size)!Create(dir) \/ \E problem \in x1 : P(size)!Edit(problem, dir)
             \/ \E problem \in x1 : P(size)!Delete(problem) \/ P(size)!Share(problem)
      PROVE  P(size)!CasesInv'
  <2>1. P(size)!AtOnce /\ x2' = x2 /\ x5' = x5 /\ x6' = x6 /\ requests' = requests + 1
    BY <1>3 DEF P!Create, P!Edit, P!Delete, P!Share, P!AtOnce, P!Arrive
  <2>2. \A d \in x2 : d.id # P(size)!New
    BY <1>1, <2>1, NewIsNew
  <2>3. QED
    BY <1>2, <2>1, <2>2, SoundAtOnce
<1>4. ASSUME NEW problem \in x1, P(size)!CopySelected(problem) PROVE P(size)!CasesInv'
  <2>1. PICK d : d = [id |-> P(size)!New, spj |-> FALSE,
                      files |-> [name \in P(size)!Names |-> None], info |-> P(size)!Unwritten]
    OBVIOUS
  <2>2. /\ P(size)!AtOnce /\ x2' = x2 \cup {d} /\ x5' = x5 /\ x6' = x6 /\ requests' = requests + 1
    BY <1>4, <2>1 DEF P!CopySelected, P!AtOnce, P!Arrive
  <2>3. d.id = P(size)!New /\ d.info = P(size)!Unwritten
    BY <2>1
  <2>4. \A e \in x2 : e.id # P(size)!New
    BY <1>1, <2>2, NewIsNew
  <2>5. QED
    BY <1>2, <2>2, <2>3, <2>4, SoundAtOnce
<1>5. ASSUME NEW t \in Threads, NEW problem \in x1, P(size)!CopyDir(t, problem)
      PROVE  P(size)!CasesInv'
  <2>1. PICK new, dir : new = P(size)!New /\ dir = problem.dir
    OBVIOUS
  <2>2. PICK work : work = [kind |-> "copy", id |-> new]
    OBVIOUS
  <2>3. PICK e : e = [P(size)!Dir(dir) EXCEPT !.id = new]
    OBVIOUS
  <2>4. /\ requests' = requests + 1 /\ job' = [job EXCEPT ![t] = work] /\ x2' = x2 \cup {e}
        /\ x5' = x5 \cup (IF dir \in x5 \/ P(size)!Renamed(dir) THEN {new} ELSE {})
        /\ x6' = x6 \cup (IF dir \in x6 THEN {new} ELSE {})
        /\ P(size)!There(dir)
        /\ ~overlapped' => ~overlapped /\ \A u \in Threads : ~P(size)!Busy(u)
    BY <1>5, <2>1, <2>2, <2>3 DEF P!CopyDir, P!Begin, P!Arrive, P!Quiet
  <2>5. PICK d \in x2 : d.id = dir /\ d = P(size)!Dir(dir)
    BY <2>4, DirOfId
  <2>6. \A o \in x2 : o.id # new
    BY <1>1, <2>1, <2>4, NewIsNew
  <2>7. e.id = new /\ e.info = d.info /\ e.files = d.files /\ e.spj = d.spj
    <3>1. d \in P(size)!Directories
      BY <1>1 DEF P!DirsInv
    <3>2. QED
      BY <2>3, <2>5, <3>1 DEF P!Directories
  <2>8. x6' \subseteq x5'
    BY <1>1, <2>4
  <2>9. work.kind = "copy"
    BY <2>2
  <2>10. ASSUME ~overlapped'
         PROVE  /\ \A o, f \in x2' : o.id = f.id => o = f
                /\ \A o \in x2' : o.info # P(size)!Unwritten /\ o.id \notin x6' => P(size)!Complete(o)
                /\ \A o \in x2' : P(size)!Readable(o.info) /\ o.id \notin x5' => P(size)!Matches(o, o.info)
    <3>1. \A o, f \in x2' : o.id = f.id => o = f
      BY <2>4, <2>6, <2>7, <2>10, SoundNow
    <3>2. ASSUME NEW o \in x2, o.info # P(size)!Unwritten
          PROVE  /\ o.id \notin x6 => P(size)!Complete(o)
                 /\ P(size)!Readable(o.info) /\ o.id \notin x5 =>
                      P(size)!Matches(o, o.info) \/ P(size)!Renamed(o.id)
      BY <2>4, <2>10, <3>2, SoundNow DEF P!Renamed
    <3>3. ASSUME e.info # P(size)!Unwritten
          PROVE  /\ new \notin x6' => P(size)!Complete(e)
                 /\ P(size)!Readable(e.info) /\ new \notin x5' => P(size)!Matches(e, e.info)
      <4>1. /\ new \notin x6' => P(size)!Complete(d)
            /\ P(size)!Readable(d.info) /\ new \notin x5' => P(size)!Matches(d, d.info)
        BY <2>4, <2>5, <2>7, <3>2, <3>3
      <4>2. QED
        BY <2>7, <4>1 DEF P!Complete, P!Matches
    <3>4. ASSUME NEW o \in x2' PROVE o = e \/ (o \in x2 /\ ~P(size)!Renamed(o.id))
      BY <2>4, <2>10 DEF P!Renamed
    <3>5. P(size)!Readable(e.info) => e.info # P(size)!Unwritten
      BY DEF P!Readable
    <3>6. \A o \in x2 : P(size)!Readable(o.info) => o.info # P(size)!Unwritten
      BY DEF P!Readable
    <3>7. QED
      BY <2>4, <2>7, <3>1, <3>2, <3>3, <3>4, <3>5, <3>6
  <2>11. QED
    BY <1>1, <1>2, <2>4, <2>8, <2>9, <2>10, SoundWork
<1>6. ASSUME NEW t \in Threads, P(size)!SaveCopy(t) PROVE P(size)!CasesInv'
  <2>1. /\ job' = [job EXCEPT ![t] = None] /\ P(size)!Busy(t) /\ job[t].kind = "copy"
        /\ x2' = x2 /\ x5' = x5 /\ x6' = x6 /\ overlapped' = overlapped
    BY <1>6 DEF P!SaveCopy, P!Doing, P!Respond, P!Continue
  <2>2. ASSUME ~overlapped'
        PROVE  /\ \A u \in Threads : P(size)!Busy(u) => u = t
               /\ \A d, e \in x2' : d.id = e.id => d = e
               /\ \A d \in x2' : d.info # P(size)!Unwritten /\ d.id \notin x6' => P(size)!Complete(d)
               /\ \A d \in x2' : P(size)!Readable(d.info) /\ d.id \notin x5' => P(size)!Matches(d, d.info)
    BY <2>1, <2>2, SoundNow
  <2>3. QED
    BY <1>1, <1>2, <2>1, <2>2, SoundWork
<1>7. QED
  BY <1>3, <1>4, <1>5, <1>6

\* What is known in the middle of a renaming.
LEMMA RenameNow ==
  ASSUME NEW size \in {"files", "sharing"}, P(size)!CasesInv, ~overlapped,
         NEW t \in Threads, P(size)!Busy(t), job[t].kind = "rename"
  PROVE  /\ \A u \in Threads : P(size)!Busy(u) => u = t
         /\ \A d, e \in x2 : d.id = e.id => d = e
         /\ \A d \in x2 : d.info # P(size)!Unwritten /\ d.id \notin x6 => P(size)!Complete(d)
         /\ \A d \in x2 : P(size)!Readable(d.info) /\ d.id \notin x5 /\ d.id # job[t].id =>
              P(size)!Matches(d, d.info)
         /\ \A d \in x2 : d.id = job[t].id =>
              /\ P(size)!Readable(d.info)
              /\ d.id \in x5 => d.id \in x6
              /\ d.id \notin x5 =>
                   \/ job[t].moves = <<>> /\ P(size)!Matches(d, job[t].info)
                   \/ \E i, j \in P(size)!Cases, left \in 1..6 :
                        /\ i # j /\ job[t].moves = SubSeq(P(size)!Exchange(i, j), 7 - left, 6)
                        /\ P(size)!Halfway(d, job[t].info, i, j, left)
<1>1. \A d \in x2 : d.id = job[t].id => P(size)!StageOK(job[t], d)
  BY SoundNow
<1>2. QED
  BY <1>1, SoundNow DEF P!StageOK

\* What is known when its info was emptied.
LEMMA InfoNow ==
  ASSUME NEW size \in {"files", "sharing"}, P(size)!CasesInv, ~overlapped,
         NEW t \in Threads, P(size)!Busy(t), job[t].kind = "info"
  PROVE  /\ \A u \in Threads : P(size)!Busy(u) => u = t
         /\ \A d, e \in x2 : d.id = e.id => d = e
         /\ \A d \in x2 : d.info # P(size)!Unwritten /\ d.id \notin x6 => P(size)!Complete(d)
         /\ \A d \in x2 : P(size)!Readable(d.info) /\ d.id \notin x5 /\ d.id # job[t].id =>
              P(size)!Matches(d, d.info)
         /\ \A d \in x2 : d.id = job[t].id =>
              /\ d.info = P(size)!Emptied
              /\ d.id \in x5 => d.id \in x6
              /\ d.id \notin x5 => P(size)!Matches(d, job[t].info)
<1>1. \A d \in x2 : d.id = job[t].id => P(size)!StageOK(job[t], d)
  BY SMTT(30), SoundNow
<1>2. QED
  BY <1>1, SoundNow DEF P!StageOK

\* How far a renaming is afterwards.
LEMMA StageThen ==
  ASSUME NEW size \in {"files", "sharing"}, NEW work, NEW d, work.kind = "rename",
         P(size)!Readable(d.info), work.id \in x5' => work.id \in x6',
         work.id \notin x5' =>
            \/ work.moves = <<>> /\ P(size)!Matches(d, work.info)
            \/ \E i, j \in P(size)!Cases, left \in 1..6 :
                 /\ i # j /\ work.moves = SubSeq(P(size)!Exchange(i, j), 7 - left, 6)
                 /\ P(size)!Halfway(d, work.info, i, j, left)
  PROVE  P(size)!StageOK(work, d)'
BY DEF P!StageOK, P!Unwritten, P!Emptied, P!Readable, P!Matches, P!Halfway, P!SideAt, P!Settled, P!Side, P!Cases, P!Temp,
       P!Exchange, P!In, P!Out

LEMMA OthersKeepFiles ==
  ASSUME NoneIsNoRecord, NEW size \in {"files", "sharing"}, P(size)!CasesInv, NEW t \in Threads,
         \/ P(size)!Prune(t) \/ P(size)!FindOrphans(t) \/ P(size)!PruneOne(t)
         \/ P(size)!PruneEnds(t)
         \/ \E d \in x2, selected \in SUBSET P(size)!Cases : P(size)!Rename(t, d.id, selected)
         \/ P(size)!RenameCase(t) \/ P(size)!Move(t)
         \/ P(size)!EmptyInfo(t) \/ P(size)!RenameEnds(t) \/ P(size)!Crash(t)
  PROVE  P(size)!CasesInv'
<1>1. P(size)!DirsInv /\ P(size)!JobTable /\ x6 \subseteq x5
  BY DEF P!CasesInv, P!DirsInv
<1>2. P(size)!DirsInv'
  BY <1>1, OthersKeepDirs
<1>3. ASSUME P(size)!Prune(t) PROVE P(size)!CasesInv'
  <2>1. PICK work : work = [kind |-> "list", ids |-> {d.id : d \in x2}]
    OBVIOUS
  <2>2. /\ job' = [job EXCEPT ![t] = work] /\ x2' = x2 /\ x5' = x5 /\ x6' = x6
        /\ ~overlapped' => ~overlapped /\ \A u \in Threads : ~P(size)!Busy(u)
    BY <1>3, <2>1 DEF P!Prune, P!Begin, P!Arrive, P!Quiet, P!fileVars
  <2>3. work.kind = "list"
    BY <2>1
  <2>4. ASSUME ~overlapped'
        PROVE  /\ \A u \in Threads : P(size)!Busy(u) => u = t
               /\ \A d, e \in x2' : d.id = e.id => d = e
               /\ \A d \in x2' : d.info # P(size)!Unwritten /\ d.id \notin x6' => P(size)!Complete(d)
               /\ \A d \in x2' : P(size)!Readable(d.info) /\ d.id \notin x5' => P(size)!Matches(d, d.info)
    BY <2>2, <2>4, SoundNow
  <2>5. QED
    BY <1>1, <1>2, <2>2, <2>3, <2>4, SoundWork
<1>4. ASSUME P(size)!FindOrphans(t) \/ P(size)!PruneOne(t) \/ P(size)!PruneEnds(t)
      PROVE  P(size)!CasesInv'
  <2>1. PICK work : /\ job' = [job EXCEPT ![t] = work]
                    /\ work # None => work.kind = "prune"
    <3>1. PICK old : old = job[t]
      OBVIOUS
    <3>2. CASE P(size)!FindOrphans(t)
      <4>1. PICK new : new = [kind |-> "prune", ids |-> old.ids \ P(size)!Used]
        OBVIOUS
      <4>2. new.kind = "prune" /\ job' = [job EXCEPT ![t] = new]
        BY <3>1, <3>2, <4>1 DEF P!FindOrphans, P!Continue
      <4>3. QED
        BY <4>2
    <3>3. CASE P(size)!PruneOne(t)
      <4>1. PICK id : job' = [job EXCEPT ![t] = [old EXCEPT !.ids = old.ids \ {id}]]
        BY <3>1, <3>3 DEF P!PruneOne, P!Continue
      <4>2. P(size)!Busy(t) /\ old.kind = "prune"
        BY <3>1, <3>3 DEF P!PruneOne, P!Doing
      <4>3. old \in [kind : {"prune"}, ids : SUBSET x4]
        BY <1>1, <3>1, <4>2, WorkOfThread DEF P!WorkOK
      <4>4. [old EXCEPT !.ids = old.ids \ {id}].kind = "prune"
        BY <4>3
      <4>5. QED
        BY <4>1, <4>4
    <3>4. CASE P(size)!PruneEnds(t)
      BY <3>4 DEF P!PruneEnds, P!Respond, P!Continue
    <3>5. QED
      BY <1>4, <3>2, <3>3, <3>4
  <2>2. /\ P(size)!Busy(t) /\ job[t].kind \in {"list", "prune"} /\ x2' \subseteq x2
        /\ x5' = x5 /\ x6' = x6 /\ overlapped' = overlapped
    BY <1>4 DEF P!FindOrphans, P!PruneOne, P!PruneEnds, P!Doing, P!Continue, P!Respond, P!fileVars
  <2>3. ASSUME ~overlapped'
        PROVE  /\ \A u \in Threads : P(size)!Busy(u) => u = t
               /\ \A d, e \in x2' : d.id = e.id => d = e
               /\ \A d \in x2' : d.info # P(size)!Unwritten /\ d.id \notin x6' => P(size)!Complete(d)
               /\ \A d \in x2' : P(size)!Readable(d.info) /\ d.id \notin x5' => P(size)!Matches(d, d.info)
    BY <2>2, <2>3, SoundNow
  <2>4. QED
    BY <1>1, <1>2, <2>1, <2>2, <2>3, SoundWork
<1>5. ASSUME P(size)!Crash(t) PROVE P(size)!CasesInv'
  <2>1. /\ job' = [job EXCEPT ![t] = None] /\ P(size)!Busy(t)
        /\ x5' = x5 \cup (IF job[t].kind \in {"rename", "info"} THEN {job[t].id} ELSE {})
        /\ x2' = x2 /\ x6' = x6 /\ overlapped' = overlapped
    BY <1>5 DEF P!Crash, P!Doing, P!Respond, P!Continue
  <2>2. x6' \subseteq x5'
    BY <1>1, <2>1
  <2>3. ASSUME ~overlapped', NEW d \in x2', P(size)!Readable(d.info), d.id \notin x5'
        PROVE  P(size)!Matches(d, d.info)
    <3>1. ASSUME NEW u \in Threads, P(size)!Busy(u), job[u].kind \in {"rename", "info"}
          PROVE  job[u].id # d.id
      BY <2>1, <2>3, <3>1, SoundNow
    <3>2. QED
      BY <2>1, <2>3, <3>1, SoundNow
  <2>4. ASSUME ~overlapped'
        PROVE  /\ \A u \in Threads : P(size)!Busy(u) => u = t
               /\ \A d, e \in x2' : d.id = e.id => d = e
               /\ \A d \in x2' : d.info # P(size)!Unwritten /\ d.id \notin x6' => P(size)!Complete(d)
               /\ \A d \in x2' : P(size)!Readable(d.info) /\ d.id \notin x5' => P(size)!Matches(d, d.info)
    BY <2>1, <2>3, <2>4, SoundNow
  <2>5. QED
    BY <1>1, <1>2, <2>1, <2>2, <2>4, SoundWork
<1>6. ASSUME NEW d \in x2, NEW selected \in SUBSET P(size)!Cases, P(size)!Rename(t, d.id, selected)
      PROVE  P(size)!CasesInv'
  <2>1. PICK e : e = P(size)!Dir(d.id)
    OBVIOUS
  <2>2. PICK work : work = [kind |-> "rename", id |-> d.id, i |-> 1, selected |-> selected,
                            moves |-> <<>>, info |-> e.info]
    OBVIOUS
  <2>3. /\ job' = [job EXCEPT ![t] = work] /\ x2' = x2 /\ x5' = x5
        /\ x6' = x6 \cup ({d.id} \cap x5) /\ P(size)!Readable(e.info)
        /\ ~overlapped' => ~overlapped /\ \A u \in Threads : ~P(size)!Busy(u)
    BY <1>6, <2>1, <2>2 DEF P!Rename, P!Begin, P!Arrive, P!Quiet
  <2>4. e \in x2 /\ e.id = d.id
    BY <2>1, DirOfId DEF P!There
  <2>5. /\ work.kind = "rename" /\ work.id = d.id /\ work.info = e.info /\ work.moves = <<>>
    BY <2>2
  <2>6. x6' \subseteq x5'
    BY <1>1, <2>3
  <2>7. ASSUME ~overlapped'
        PROVE  /\ \A u \in Threads : P(size)!Busy(u) => u = t
               /\ \A o, f \in x2' : o.id = f.id => o = f
               /\ \A o \in x2' : o.info # P(size)!Unwritten /\ o.id \notin x6' => P(size)!Complete(o)
               /\ \A o \in x2' : P(size)!Readable(o.info) /\ o.id \notin x5' => P(size)!Matches(o, o.info)
    BY <2>3, <2>7, SoundNow
  <2>8. ASSUME ~overlapped', NEW o \in x2', work.id = o.id PROVE P(size)!StageOK(work, o)'
    <3>1. o = e
      BY <2>3, <2>4, <2>5, <2>7, <2>8
    <3>2. d.id \in x5' => d.id \in x6'
      BY <2>3
    <3>3. d.id \notin x5' => P(size)!Matches(e, work.info)
      BY <2>3, <2>4, <2>5, <2>7, <2>8
    <3>4. P(size)!StageOK(work, e)'
      BY <2>3, <2>5, <3>2, <3>3
      DEF P!StageOK, P!Unwritten, P!Emptied, P!Readable, P!Matches, P!Settled, P!Side, P!Cases, P!Temp
    <3>5. QED
      BY <3>1, <3>4
  <2>9. QED
    BY <1>1, <1>2, <2>3, <2>5, <2>6, <2>7, <2>8, SoundWork
<1>7. ASSUME P(size)!RenameCase(t) PROVE P(size)!CasesInv'
  <2>1. PICK old : old = job[t]
    OBVIOUS
  <2>2. PICK j : j = P(size)!Next1(old.selected)
    OBVIOUS
  <2>3. PICK work : work = WorkOfCase(size, old, j)
    OBVIOUS
  <2>4. /\ P(size)!Busy(t) /\ job' = [job EXCEPT ![t] = work] /\ overlapped' = overlapped
        /\ x2' = x2 /\ x5' = x5 /\ x6' = x6 /\ old.kind = "rename" /\ old.selected # {}
        /\ old.moves = <<>>
    BY <1>7, <2>1, <2>2, <2>3 DEF WorkOfCase, P!RenameCase, P!Doing, P!Continue, P!fileVars
  <2>5. P(size)!WorkOK(old)
    BY <1>1, <2>1, <2>4, WorkOfThread
  <2>6. /\ j \in P(size)!Cases /\ old.i \in P(size)!Cases
        /\ old.info \in [P(size)!Cases -> P(size)!Cases]
        /\ work.kind = "rename" /\ work.id = old.id
        /\ j = old.i => work.moves = <<>> /\ work.info = old.info
        /\ j # old.i => /\ work.moves = P(size)!Exchange(old.i, j)
                        /\ work.info = P(size)!InfoExchanged(old.info, old.i, j)
    BY <2>2, <2>3, <2>4, <2>5, NextCase
  <2>7. ASSUME ~overlapped'
        PROVE  /\ \A u \in Threads : P(size)!Busy(u) => u = t
               /\ \A d, e \in x2' : d.id = e.id => d = e
               /\ \A d \in x2' : d.info # P(size)!Unwritten /\ d.id \notin x6' => P(size)!Complete(d)
               /\ \A d \in x2' : P(size)!Readable(d.info) /\ d.id \notin x5' =>
                    P(size)!Matches(d, d.info) \/ work.id = d.id
    BY <2>1, <2>4, <2>6, <2>7, RenameNow
  <2>8. ASSUME ~overlapped', NEW d \in x2', work.id = d.id PROVE P(size)!StageOK(work, d)'
    <3>1. /\ P(size)!Readable(d.info) /\ (d.id \in x5 => d.id \in x6)
          /\ d.id \notin x5 =>
               \/ P(size)!Matches(d, old.info)
               \/ \E m, n \in P(size)!Cases, left \in 1..6 :
                    old.moves = SubSeq(P(size)!Exchange(m, n), 7 - left, 6)
      <4>1. d \in x2 /\ d.id = old.id /\ ~overlapped
        BY <2>4, <2>6, <2>8
      <4>2. QED
        BY <2>1, <2>4, <4>1, RenameNow
    <3>2. d.id \notin x5 => P(size)!Matches(d, old.info)
      BY <2>4, <3>1, MovesOfExchange
    <3>3. CASE j = old.i
      BY <2>4, <2>6, <2>8, <3>1, <3>2, <3>3, StageThen
    <3>4. CASE j # old.i
      <4>1. work.moves = SubSeq(P(size)!Exchange(old.i, j), 7 - 6, 6)
        BY <2>6, <3>4, MovesOfExchange
      <4>2. d.id \notin x5 => P(size)!Halfway(d, work.info, old.i, j, 6)
        BY <2>6, <3>2, <3>4, FirstStage
      <4>3. 6 \in 1..6
        OBVIOUS
      <4>4. QED
        BY <2>4, <2>6, <2>8, <3>1, <3>4, <4>1, <4>2, <4>3, StageThen
    <3>5. QED
      BY <3>3, <3>4
  <2>9. work # None
    BY <2>3 DEF WorkOfCase, NoneIsNoRecord
  <2>10. QED
    BY <1>1, <1>2, <2>4, <2>6, <2>7, <2>8, <2>9, SoundWork
<1>8. ASSUME P(size)!Move(t) PROVE P(size)!CasesInv'
  <2>1. PICK old, id : old = job[t] /\ id = old.id
    OBVIOUS
  <2>2. PICK from, to : from = Head(old.moves)[1] /\ to = Head(old.moves)[2]
    OBVIOUS
  <2>3. /\ P(size)!Busy(t) /\ overlapped' = overlapped /\ x6' = x6
        /\ old.kind = "rename" /\ old.moves # <<>>
    BY <1>8, <2>1 DEF P!Move, P!Doing, P!Continue, P!Respond
  <2>4. CASE ~P(size)!There(id) \/ P(size)!Dir(id).files[from] = None
    <3>1. job' = [job EXCEPT ![t] = None] /\ x2' = x2 /\ x5' = x5 \cup {id}
      BY <1>8, <2>1, <2>2, <2>4 DEF P!Move, P!Respond, P!Continue
    <3>2. x6' \subseteq x5'
      BY <1>1, <2>3, <3>1
    <3>3. ASSUME ~overlapped'
          PROVE  /\ \A u \in Threads : P(size)!Busy(u) => u = t
                 /\ \A d, e \in x2' : d.id = e.id => d = e
                 /\ \A d \in x2' : d.info # P(size)!Unwritten /\ d.id \notin x6' => P(size)!Complete(d)
                 /\ \A d \in x2' : P(size)!Readable(d.info) /\ d.id \notin x5' => P(size)!Matches(d, d.info)
      BY <2>1, <2>3, <3>1, <3>3, RenameNow
    <3>4. QED
      BY <1>1, <1>2, <3>1, <3>2, <3>3, SoundWork
  <2>5. CASE P(size)!There(id) /\ P(size)!Dir(id).files[from] # None
    <3>1. PICK d \in x2 : d.id = id /\ d = P(size)!Dir(id)
      BY <2>5, DirOfId
    <3>2. PICK e : e = [d EXCEPT !.files[to] = d.files[from], !.files[from] = None]
      OBVIOUS
    <3>3. PICK work : work = [old EXCEPT !.moves = Tail(old.moves)]
      OBVIOUS
    <3>4. job' = [job EXCEPT ![t] = work] /\ P(size)!PutDir(e) /\ x5' = x5
      <4>1. /\ ~(~P(size)!There(id) \/ P(size)!Dir(id).files[from] = None)
            /\ old = job[t] /\ id = old.id
        BY <2>1, <2>5
      <4>2. QED
        BY <1>8, <2>2, <3>1, <3>2, <3>3, <4>1 DEF P!Move, P!Continue
    <3>5. old \in [kind : {"rename"}, id : P(size)!Ids, i : Nat \ {0},
                   selected : SUBSET P(size)!Cases,
                   moves : Seq(P(size)!Names \X P(size)!Names),
                   info : [P(size)!Cases -> P(size)!Cases]]
      BY <1>1, <2>1, <2>3, WorkOfThread DEF P!WorkOK
    <3>6. Head(old.moves) \in P(size)!Names \X P(size)!Names
      BY <2>3, <3>5, HeadTailProperties
    <3>7. from \in P(size)!Names /\ to \in P(size)!Names
      BY <2>2, <3>6
    <3>8. d \in P(size)!Directories
      BY <1>1 DEF P!DirsInv
    <3>9. /\ e.id = id /\ e.info = d.info /\ e.spj = d.spj
          /\ e.files = [d.files EXCEPT ![to] = d.files[from], ![from] = None]
          /\ d.files \in [P(size)!Names -> P(size)!Cases \cup {None}] /\ d.spj \in BOOLEAN
      BY <3>1, <3>2, <3>7, <3>8 DEF P!Directories
    <3>10. /\ work.kind = "rename" /\ work.id = id /\ work.info = old.info
           /\ work.moves = Tail(old.moves) /\ old.info \in [P(size)!Cases -> P(size)!Cases]
      BY <2>1, <3>3, <3>5
    <3>11. x2' = {o \in x2 : o.id # id} \cup {e}
      BY <3>4, <3>9 DEF P!PutDir
    <3>12. d.files[from] # None
      BY <2>5, <3>1
    <3>13. ASSUME ~overlapped'
           PROVE  /\ \A u \in Threads : P(size)!Busy(u) => u = t
                  /\ \A o, f \in x2 : o.id = f.id => o = f
                  /\ \A o \in x2 : o.info # P(size)!Unwritten /\ o.id \notin x6 => P(size)!Complete(o)
                  /\ \A o \in x2 : P(size)!Readable(o.info) /\ o.id \notin x5 /\ o.id # id =>
                       P(size)!Matches(o, o.info)
                  /\ P(size)!Readable(d.info) /\ (id \in x5 => id \in x6)
                  /\ id \notin x5 =>
                       \E i, j \in P(size)!Cases, left \in 1..6 :
                          /\ i # j /\ old.moves = SubSeq(P(size)!Exchange(i, j), 7 - left, 6)
                          /\ P(size)!Halfway(d, old.info, i, j, left)
      BY <2>1, <2>3, <3>1, <3>13, RenameNow
    <3>14. ASSUME ~overlapped', id \notin x5
           PROVE  /\ P(size)!Complete(e)
                  /\ \/ work.moves = <<>> /\ P(size)!Matches(e, work.info)
                     \/ \E i, j \in P(size)!Cases, left \in 1..6 :
                          /\ i # j /\ work.moves = SubSeq(P(size)!Exchange(i, j), 7 - left, 6)
                          /\ P(size)!Halfway(e, work.info, i, j, left)
      <4>1. PICK i \in P(size)!Cases, j \in P(size)!Cases, left \in 1..6 :
              /\ i # j /\ old.moves = SubSeq(P(size)!Exchange(i, j), 7 - left, 6)
              /\ P(size)!Halfway(d, old.info, i, j, left)
        BY <3>13, <3>14
      <4>2. /\ Head(old.moves) = P(size)!Exchange(i, j)[7 - left]
            /\ left = 1 => work.moves = <<>>
            /\ left > 1 => work.moves = SubSeq(P(size)!Exchange(i, j), 7 - (left - 1), 6)
        <5>1. PICK moves : moves = SubSeq(P(size)!Exchange(i, j), 7 - left, 6)
          OBVIOUS
        <5>2. /\ Head(moves) = P(size)!Exchange(i, j)[7 - left]
              /\ left = 1 => Tail(moves) = <<>>
              /\ left > 1 => Tail(moves) = SubSeq(P(size)!Exchange(i, j), 7 - (left - 1), 6)
          BY <5>1, MovesOfExchange
        <5>3. old.moves = moves
          BY <4>1, <5>1
        <5>4. QED
          BY <3>10, <5>2, <5>3
      <4>3. /\ left > 1 => P(size)!Halfway(e, old.info, i, j, left - 1)
            /\ left = 1 => P(size)!Matches(e, old.info)
            /\ P(size)!Complete(d) => P(size)!Complete(e)
        <5>1. PICK info \in [P(size)!Cases -> P(size)!Cases] : info = old.info
          BY <3>10
        <5>2. P(size)!Halfway(d, info, i, j, left) /\ i # j
          BY <4>1, <5>1
        <5>3. P(size)!Exchange(i, j)[7 - left][1] = from /\ e = MoveOf(size, d, i, j, left)
          BY <2>2, <3>2, <4>2 DEF MoveOf
        <5>4. /\ left > 1 => P(size)!Halfway(e, info, i, j, left - 1)
              /\ left = 1 => P(size)!Matches(e, info)
              /\ P(size)!Complete(d) => P(size)!Complete(e)
          BY <3>8, <3>12, <5>2, <5>3, NextStage
        <5>5. QED
          BY <5>1, <5>4
      <4>4. P(size)!Complete(e)
        BY <1>1, <3>1, <3>13, <3>14, <4>3 DEF P!Readable
      <4>5. CASE left = 1
        BY <3>10, <4>2, <4>3, <4>4, <4>5
      <4>6. CASE left > 1
        <5>1. left - 1 \in 1..6
          BY <4>6
        <5>2. QED
          BY <3>10, <4>1, <4>2, <4>3, <4>4, <4>6, <5>1
      <4>7. QED
        BY <4>5, <4>6
    <3>15. ASSUME ~overlapped', NEW o \in x2', work.id = o.id PROVE P(size)!StageOK(work, o)'
      <4>1. o = e
        BY <3>10, <3>11, <3>15
      <4>2. P(size)!Readable(e.info)
        BY <3>9, <3>13, <3>15
      <4>3. P(size)!StageOK(work, e)'
        BY <2>3, <3>4, <3>10, <3>13, <3>14, <3>15, <4>2, StageThen
      <4>4. QED
        BY <4>1, <4>3
    <3>16. ASSUME ~overlapped'
           PROVE  /\ \A o, f \in x2' : o.id = f.id => o = f
                  /\ \A o \in x2' : o.info # P(size)!Unwritten /\ o.id \notin x6' => P(size)!Complete(o)
                  /\ \A o \in x2' : P(size)!Readable(o.info) /\ o.id \notin x5' =>
                       P(size)!Matches(o, o.info) \/ work.id = o.id
      BY <2>3, <3>4, <3>9, <3>10, <3>11, <3>13, <3>14, <3>16
    <3>17. work # None
      BY <3>3 DEF NoneIsNoRecord
    <3>18. QED
      BY <1>1, <1>2, <2>3, <3>4, <3>10, <3>13, <3>15, <3>16, <3>17, SoundWork
  <2>6. QED
    BY <2>4, <2>5
<1>9. ASSUME P(size)!EmptyInfo(t) PROVE P(size)!CasesInv'
  <2>1. PICK old, id : old = job[t] /\ id = old.id
    OBVIOUS
  <2>2. PICK work : work = [kind |-> "info", id |-> id, info |-> old.info]
    OBVIOUS
  <2>3. work.kind = "info" /\ work.id = id /\ work.info = old.info
    BY <2>2
  <2>4. /\ P(size)!Busy(t) /\ overlapped' = overlapped
        /\ x5' = x5 /\ x6' = x6 /\ old.kind = "rename" /\ old.moves = <<>>
    BY <1>9, <2>1 DEF P!EmptyInfo, P!Doing, P!Continue, P!Respond
  <2>5. ASSUME ~overlapped'
        PROVE  /\ \A u \in Threads : P(size)!Busy(u) => u = t
               /\ \A o, f \in x2 : o.id = f.id => o = f
               /\ \A o \in x2 : o.info # P(size)!Unwritten /\ o.id \notin x6 => P(size)!Complete(o)
               /\ \A o \in x2 : P(size)!Readable(o.info) /\ o.id \notin x5 /\ o.id # id =>
                    P(size)!Matches(o, o.info)
    BY <2>1, <2>4, <2>5, RenameNow
  <2>6. CASE P(size)!There(id)
    <3>1. PICK d \in x2 : d.id = id /\ d = P(size)!Dir(id)
      BY <2>6, DirOfId
    <3>2. PICK e : e = [d EXCEPT !.info = P(size)!Emptied]
      OBVIOUS
    <3>3. d \in P(size)!Directories
      BY <1>1 DEF P!DirsInv
    <3>4. /\ e.id = id /\ e.info = P(size)!Emptied /\ e.files = d.files /\ e.spj = d.spj
          /\ e.info # P(size)!Unwritten /\ ~P(size)!Readable(e.info)
      BY <3>1, <3>2, <3>3 DEF P!Directories, P!Emptied, P!Unwritten, P!Readable
    <3>5. x2' = {o \in x2 : o.id # id} \cup {e} /\ job' = [job EXCEPT ![t] = work]
      BY <1>9, <2>1, <2>2, <2>6, <3>1, <3>2, <3>4 DEF P!EmptyInfo, P!PutDir, P!Continue
    <3>6. ASSUME ~overlapped'
          PROVE  /\ d.info # P(size)!Unwritten /\ (id \in x5 => id \in x6)
                 /\ id \notin x5 => P(size)!Matches(d, old.info)
      <4>1. /\ P(size)!Readable(d.info) /\ (id \in x5 => id \in x6)
            /\ id \notin x5 =>
                 \/ P(size)!Matches(d, old.info)
                 \/ \E m, n \in P(size)!Cases, left \in 1..6 :
                      old.moves = SubSeq(P(size)!Exchange(m, n), 7 - left, 6)
        BY <2>1, <2>4, <3>1, <3>6, RenameNow
      <4>2. id \notin x5 => P(size)!Matches(d, old.info)
        BY <2>4, <4>1, MovesOfExchange
      <4>3. QED
        BY <4>1, <4>2 DEF P!Readable
    <3>7. ASSUME ~overlapped'
          PROVE  /\ id \notin x5 => P(size)!Matches(e, old.info)
                 /\ id \notin x6 => P(size)!Complete(e)
      BY <2>5, <3>1, <3>4, <3>6, <3>7 DEF P!Matches, P!Complete
    <3>8. ASSUME ~overlapped', NEW o \in x2', work.id = o.id PROVE P(size)!StageOK(work, o)'
      <4>1. o = e
        BY <2>3, <3>4, <3>5, <3>8
      <4>2. P(size)!StageOK(work, e)'
        BY <2>3, <2>4, <3>4, <3>6, <3>7, <3>8
        DEF P!StageOK, P!Emptied, P!Matches, P!Settled, P!Side, P!Cases, P!Temp
      <4>3. QED
        BY <4>1, <4>2
    <3>9. ASSUME ~overlapped'
          PROVE  /\ \A o, f \in x2' : o.id = f.id => o = f
                 /\ \A o \in x2' : o.info # P(size)!Unwritten /\ o.id \notin x6' => P(size)!Complete(o)
                 /\ \A o \in x2' : P(size)!Readable(o.info) /\ o.id \notin x5' => P(size)!Matches(o, o.info)
      BY <2>4, <2>5, <3>4, <3>5, <3>7, <3>9
    <3>10. QED
      BY <1>1, <1>2, <2>3, <2>4, <2>5, <3>5, <3>8, <3>9, SoundWork
  <2>7. CASE ~P(size)!There(id)
    <3>1. x2' = x2 /\ job' = [job EXCEPT ![t] = None] /\ \A o \in x2 : o.id # id
      BY <1>9, <2>1, <2>7 DEF P!EmptyInfo, P!There, P!Respond, P!Continue
    <3>2. QED
      BY <1>1, <1>2, <2>4, <2>5, <3>1, SoundWork
  <2>8. QED
    BY <2>6, <2>7
<1>10. ASSUME P(size)!RenameEnds(t) PROVE P(size)!CasesInv'
  <2>1. PICK old, id : old = job[t] /\ id = old.id
    OBVIOUS
  <2>2. /\ P(size)!Busy(t) /\ job' = [job EXCEPT ![t] = None] /\ overlapped' = overlapped
        /\ x5' = x5 /\ x6' = x6 /\ old.kind = "info"
    BY <1>10, <2>1 DEF P!RenameEnds, P!Doing, P!Continue, P!Respond
  <2>3. SUFFICES ASSUME ~overlapped'
                 PROVE  /\ \A u \in Threads : P(size)!Busy(u) => u = t
                        /\ \A o, f \in x2' : o.id = f.id => o = f
                        /\ \A o \in x2' : o.info # P(size)!Unwritten /\ o.id \notin x6' => P(size)!Complete(o)
                        /\ \A o \in x2' : P(size)!Readable(o.info) /\ o.id \notin x5' => P(size)!Matches(o, o.info)
    BY <1>1, <1>2, <2>2, SoundWork
  <2>4. /\ \A u \in Threads : P(size)!Busy(u) => u = t
        /\ \A o, f \in x2 : o.id = f.id => o = f
        /\ \A o \in x2 : o.info # P(size)!Unwritten /\ o.id \notin x6 => P(size)!Complete(o)
        /\ \A o \in x2 : P(size)!Readable(o.info) /\ o.id \notin x5 /\ o.id # id =>
             P(size)!Matches(o, o.info)
    BY <2>1, <2>2, <2>3, InfoNow
  <2>5. CASE P(size)!There(id)
    <3>1. PICK d \in x2 : d.id = id /\ d = P(size)!Dir(id)
      BY <2>5, DirOfId
    <3>2. PICK e : e = [d EXCEPT !.info = old.info]
      OBVIOUS
    <3>3. d \in P(size)!Directories
      BY <1>1 DEF P!DirsInv
    <3>4. e.id = id /\ e.info = old.info /\ e.files = d.files /\ e.spj = d.spj
      BY <3>1, <3>2, <3>3 DEF P!Directories
    <3>5. x2' = {o \in x2 : o.id # id} \cup {e}
      BY <1>10, <2>1, <2>5, <3>1, <3>2, <3>4 DEF P!RenameEnds, P!PutDir
    <3>6. d.info = P(size)!Emptied /\ (id \notin x5 => P(size)!Matches(d, old.info))
      BY <2>1, <2>2, <2>3, <3>1, InfoNow
    <3>7. d.info # P(size)!Unwritten
      BY <3>6 DEF P!Emptied, P!Unwritten
    <3>8. /\ id \notin x5 => P(size)!Matches(e, e.info)
          /\ id \notin x6 => P(size)!Complete(e)
      BY <2>4, <3>1, <3>4, <3>6, <3>7 DEF P!Matches, P!Complete
    <3>9. QED
      BY <2>2, <2>4, <3>4, <3>5, <3>8
  <2>6. CASE ~P(size)!There(id)
    <3>1. x2' = x2 /\ \A o \in x2 : o.id # id
      BY <1>10, <2>1, <2>6 DEF P!RenameEnds, P!There
    <3>2. QED
      BY <2>2, <2>4, <3>1
  <2>7. QED
    BY <2>5, <2>6
<1>11. QED
  BY <1>3, <1>4, <1>5, <1>6, <1>7, <1>8, <1>9, <1>10

\* An info stays emptied only while, or because, a renaming has not written it.
LEMMA EmptiedStays ==
  ASSUME NEW size \in {"files", "sharing"}, P(size)!JobTable, P(size)!EmptiedByRenaming,
         NEW t \in Threads, NEW work, job' = [job EXCEPT ![t] = work], x5 \subseteq x5',
         \A d \in x2' : d.info = P(size)!Emptied =>
           \/ \E o \in x2 : o.id = d.id /\ o.info = P(size)!Emptied
           \/ d.id \in x5'
           \/ work # None /\ work.kind \in {"rename", "info"} /\ work.id = d.id,
         P(size)!Busy(t) /\ job[t].kind \in {"rename", "info"} =>
           \/ work # None /\ work.kind \in {"rename", "info"} /\ work.id = job[t].id
           \/ job[t].id \in x5'
           \/ \A d \in x2' : d.id = job[t].id => d.info # P(size)!Emptied
  PROVE  P(size)!EmptiedByRenaming'
<1>1. \A u \in Threads : job'[u] = IF u = t THEN work ELSE job[u]
  BY DEF P!JobTable
<1>2. SUFFICES ASSUME NEW d \in x2', d.info = P(size)!Emptied, d.id \notin x5'
               PROVE  \E u \in Threads : /\ job'[u] # None
                                         /\ job'[u].kind \in {"rename", "info"} /\ job'[u].id = d.id
  BY DEF P!EmptiedByRenaming, P!Renamed, P!Busy, P!Emptied
<1>3. CASE work # None /\ work.kind \in {"rename", "info"} /\ work.id = d.id
  BY <1>1, <1>3
<1>4. CASE ~(work # None /\ work.kind \in {"rename", "info"} /\ work.id = d.id)
  <2>1. PICK o \in x2 : o.id = d.id /\ o.info = P(size)!Emptied
    BY <1>2, <1>4
  <2>2. PICK u \in Threads : /\ job[u] # None
                             /\ job[u].kind \in {"rename", "info"} /\ job[u].id = d.id
    BY <1>2, <2>1 DEF P!EmptiedByRenaming, P!Renamed, P!Busy
  <2>3. u # t
    BY <1>2, <1>4, <2>2 DEF P!Busy
  <2>4. QED
    BY <1>1, <2>2, <2>3
<1>5. QED
  BY <1>3, <1>4

LEMMA EmptiedStep ==
  ASSUME NoneIsNoRecord, NEW size \in {"files", "sharing"}, P(size)!FilesInv, P(size)!Next
  PROVE  P(size)!EmptiedByRenaming'
<1>1. P(size)!JobTable /\ P(size)!DirsInv /\ P(size)!EmptiedByRenaming
  BY DEF P!FilesInv, P!CasesInv, P!DirsInv
<1>2. P(size)!Unwritten # P(size)!Emptied /\ P(size)!InfoOf # P(size)!Emptied
  BY CasesFacts DEF P!Emptied, P!Unwritten
\* A request in one step adds directories at most, without an info.
<1>3. ASSUME job' = job, x5' = x5,
             \A d \in x2' : d \in x2 \/ d.info # P(size)!Emptied
      PROVE  P(size)!EmptiedByRenaming'
  BY <1>1, <1>3 DEF P!EmptiedByRenaming, P!Renamed, P!Busy, P!Emptied
\* A step of a request that renames nothing.
<1>4. ASSUME NEW t \in Threads, NEW work, job' = [job EXCEPT ![t] = work], x5' = x5,
             P(size)!Busy(t) => job[t].kind \notin {"rename", "info"},
             \A d \in x2' : d \in x2 \/ d.info # P(size)!Emptied
      PROVE  P(size)!EmptiedByRenaming'
  BY <1>1, <1>4, EmptiedStays
<1>5. CASE \/ \E dir \in P(size)!Given : P(size)!Create(dir) \/ \E problem \in x1 : P(size)!Edit(problem, dir)
           \/ \E problem \in x1 : P(size)!Delete(problem) \/ P(size)!Share(problem)
  <2>1. job' = job /\ x5' = x5 /\ x2' = x2
    BY <1>5 DEF P!Create, P!Edit, P!Delete, P!Share, P!AtOnce
  <2>2. QED
    BY <1>3, <2>1
<1>6. CASE \E problem \in x1 : P(size)!CopySelected(problem)
  <2>1. job' = job /\ x5' = x5 /\ \A d \in x2' : d \in x2 \/ d.info = P(size)!Unwritten
    BY <1>6 DEF P!CopySelected, P!AtOnce
  <2>2. QED
    BY <1>2, <1>3, <2>1
<1>7. ASSUME NEW t \in Threads, NEW spj \in BOOLEAN, P(size)!Upload(t, spj) \/ P(size)!ImportOne(t, spj)
      PROVE  P(size)!EmptiedByRenaming'
  <2>1. /\ x5' = x5 /\ (P(size)!Busy(t) => job[t].kind = "import")
        /\ \E work : job' = [job EXCEPT ![t] = work]
        /\ \A d \in x2' : d \in x2 \/ d.info \in {P(size)!Unwritten, P(size)!InfoOf}
    BY <1>7 DEF P!Upload, P!ImportOne, P!Begin, P!Doing, P!Continue
  <2>2. QED
    BY <1>2, <1>4, <2>1
<1>8. ASSUME NEW t \in Threads, P(size)!WriteInfo(t)
      PROVE  P(size)!EmptiedByRenaming'
  <2>1. x5' = x5 /\ job[t].kind = "upload" /\ job' = [job EXCEPT ![t] = None]
    BY <1>8 DEF P!WriteInfo, P!Doing, P!Respond, P!Continue
  <2>2. \A d \in x2' : d \in x2 \/ d.info # P(size)!Emptied
    <3>1. PICK id : id = job[t].id
      OBVIOUS
    <3>2. CASE P(size)!There(id)
      <4>1. PICK e : e = [P(size)!Dir(id) EXCEPT !.info = P(size)!InfoOf]
        OBVIOUS
      <4>2. P(size)!Dir(id) \in P(size)!Directories
        BY <1>1, <3>2, DirOfId DEF P!DirsInv
      <4>3. e.info = P(size)!InfoOf
        BY <4>1, <4>2 DEF P!Directories
      <4>4. \A d \in x2' : d \in x2 \/ d = e
        BY <1>8, <3>1, <3>2, <4>1 DEF P!WriteInfo, P!PutDir
      <4>5. QED
        BY <1>2, <4>3, <4>4
    <3>3. CASE ~P(size)!There(id)
      BY <1>8, <3>1, <3>3 DEF P!WriteInfo
    <3>4. QED
      BY <3>2, <3>3
  <2>3. QED
    BY <1>4, <2>1, <2>2
<1>9. ASSUME NEW t \in Threads,
             \/ P(size)!Import(t) \/ P(size)!EndImport(t) \/ P(size)!SaveCopy(t)
             \/ P(size)!Prune(t) \/ P(size)!FindOrphans(t) \/ P(size)!PruneOne(t) \/ P(size)!PruneEnds(t)
      PROVE  P(size)!EmptiedByRenaming'
  <2>1. /\ x5' = x5 /\ (P(size)!Busy(t) => job[t].kind \notin {"rename", "info"})
        /\ \A d \in x2' : d \in x2
    BY <1>9 DEF P!Import, P!EndImport, P!SaveCopy, P!Prune, P!FindOrphans, P!PruneOne, P!PruneEnds,
                P!Begin, P!Doing, P!fileVars
  <2>2. \E work : job' = [job EXCEPT ![t] = work]
    BY <1>9 DEF P!Import, P!EndImport, P!SaveCopy, P!Prune, P!FindOrphans, P!PruneOne, P!PruneEnds,
                P!Begin, P!Continue, P!Respond
  <2>3. QED
    BY <1>4, <2>1, <2>2
<1>10. ASSUME NEW t \in Threads, NEW problem \in x1, P(size)!CopyDir(t, problem)
       PROVE  P(size)!EmptiedByRenaming'
  <2>1. PICK dir, new, work : dir = problem.dir /\ new = P(size)!New /\ work = [kind |-> "copy", id |-> new]
    OBVIOUS
  <2>2. PICK e : e = [P(size)!Dir(dir) EXCEPT !.id = new]
    OBVIOUS
  <2>3. /\ job' = [job EXCEPT ![t] = work] /\ x2' = x2 \cup {e} /\ P(size)!There(dir)
        /\ x5' = x5 \cup (IF dir \in x5 \/ P(size)!Renamed(dir) THEN {new} ELSE {})
        /\ ~P(size)!Busy(t)
    BY <1>10, <2>1, <2>2 DEF P!CopyDir, P!Begin
  <2>4. PICK d \in x2 : d.id = dir /\ d = P(size)!Dir(dir)
    BY <2>3, DirOfId
  <2>5. e.id = new /\ e.info = d.info
    <3>1. d \in P(size)!Directories
      BY <1>1 DEF P!DirsInv
    <3>2. QED
      BY <2>2, <2>4, <3>1 DEF P!Directories
  <2>6. e.info = P(size)!Emptied => e.id \in x5'
    BY <1>1, <2>3, <2>4, <2>5 DEF P!EmptiedByRenaming
  <2>7. x5 \subseteq x5'
    BY <2>3
  <2>8. QED
    BY <1>1, <2>3, <2>6, <2>7, EmptiedStays
<1>11. ASSUME NEW t \in Threads, P(size)!Crash(t)
       PROVE  P(size)!EmptiedByRenaming'
  <2>1. /\ job' = [job EXCEPT ![t] = None] /\ x2' = x2
        /\ x5' = x5 \cup (IF job[t].kind \in {"rename", "info"} THEN {job[t].id} ELSE {})
    BY <1>11 DEF P!Crash, P!Respond, P!Continue
  <2>2. x5 \subseteq x5'
    BY <2>1
  <2>3. QED
    BY <1>1, <2>1, <2>2, EmptiedStays
<1>12. ASSUME NEW t \in Threads, NEW d \in x2, NEW selected \in SUBSET P(size)!Cases,
              P(size)!Rename(t, d.id, selected)
       PROVE  P(size)!EmptiedByRenaming'
  <2>1. x2' = x2 /\ x5' = x5 /\ ~P(size)!Busy(t)
    BY <1>12 DEF P!Rename, P!Begin
  <2>2. \E work : job' = [job EXCEPT ![t] = work]
    BY <1>12 DEF P!Rename, P!Begin
  <2>3. QED
    BY <1>4, <2>1, <2>2
<1>13. ASSUME NEW t \in Threads, P(size)!RenameCase(t)
       PROVE  P(size)!EmptiedByRenaming'
  <2>1. PICK old : old = job[t]
    OBVIOUS
  <2>2. PICK j : j = P(size)!Next1(old.selected)
    OBVIOUS
  <2>3. PICK work : work = WorkOfCase(size, old, j)
    OBVIOUS
  <2>4. /\ P(size)!Busy(t) /\ job' = [job EXCEPT ![t] = work] /\ x2' = x2 /\ x5' = x5
        /\ old.kind = "rename" /\ old.selected # {}
    BY <1>13, <2>1, <2>2, <2>3 DEF WorkOfCase, P!RenameCase, P!Doing, P!Continue, P!fileVars
  <2>5. P(size)!WorkOK(old)
    BY <1>1, <2>1, <2>4, WorkOfThread
  <2>6. work.kind = "rename" /\ work.id = old.id
    BY <2>2, <2>3, <2>4, <2>5, NextCase
  <2>7. work # None
    BY <2>3 DEF WorkOfCase, NoneIsNoRecord
  <2>8. QED
    BY <1>1, <2>1, <2>4, <2>6, <2>7, EmptiedStays
<1>14. ASSUME NEW t \in Threads, P(size)!Move(t)
       PROVE  P(size)!EmptiedByRenaming'
  <2>1. PICK old, id : old = job[t] /\ id = old.id
    OBVIOUS
  <2>2. PICK from, to : from = Head(old.moves)[1] /\ to = Head(old.moves)[2]
    OBVIOUS
  <2>3. P(size)!Busy(t) /\ old.kind = "rename" /\ old.moves # <<>>
    BY <1>14, <2>1 DEF P!Move, P!Doing
  <2>4. CASE ~P(size)!There(id) \/ P(size)!Dir(id).files[from] = None
    <3>1. job' = [job EXCEPT ![t] = None] /\ x2' = x2 /\ x5' = x5 \cup {id}
      BY <1>14, <2>1, <2>2, <2>4 DEF P!Move, P!Respond, P!Continue
    <3>2. x5 \subseteq x5' /\ job[t].id \in x5'
      BY <2>1, <3>1
    <3>3. QED
      BY <1>1, <3>1, <3>2, EmptiedStays
  <2>5. CASE P(size)!There(id) /\ P(size)!Dir(id).files[from] # None
    <3>1. PICK d \in x2 : d.id = id /\ d = P(size)!Dir(id)
      BY <2>5, DirOfId
    <3>2. PICK e : e = [d EXCEPT !.files[to] = d.files[from], !.files[from] = None]
      OBVIOUS
    <3>3. PICK work : work = [old EXCEPT !.moves = Tail(old.moves)]
      OBVIOUS
    <3>4. job' = [job EXCEPT ![t] = work] /\ P(size)!PutDir(e) /\ x5' = x5
      <4>1. /\ ~(~P(size)!There(id) \/ P(size)!Dir(id).files[from] = None)
            /\ old = job[t] /\ id = old.id
        BY <2>1, <2>5
      <4>2. QED
        BY <1>14, <2>2, <3>1, <3>2, <3>3, <4>1 DEF P!Move, P!Continue
    <3>5. old \in [kind : {"rename"}, id : P(size)!Ids, i : Nat \ {0},
                   selected : SUBSET P(size)!Cases,
                   moves : Seq(P(size)!Names \X P(size)!Names),
                   info : [P(size)!Cases -> P(size)!Cases]]
      BY <1>1, <2>1, <2>3, WorkOfThread DEF P!WorkOK
    <3>6. work.kind = "rename" /\ work.id = id
      BY <2>1, <3>3, <3>5
    <3>7. work # None
      BY <3>3 DEF NoneIsNoRecord
    <3>8. d \in P(size)!Directories
      BY <1>1 DEF P!DirsInv
    <3>9. e.id = id /\ e.info = d.info
      BY <3>1, <3>2, <3>8 DEF P!Directories
    <3>10. \A o \in x2' : o \in x2 \/ o.id = id
      BY <3>4, <3>9 DEF P!PutDir
    <3>11. QED
      BY <1>1, <2>1, <3>4, <3>6, <3>7, <3>10, EmptiedStays
  <2>6. QED
    BY <2>4, <2>5
<1>15. ASSUME NEW t \in Threads, P(size)!EmptyInfo(t)
       PROVE  P(size)!EmptiedByRenaming'
  <2>1. PICK old, id : old = job[t] /\ id = old.id
    OBVIOUS
  <2>2. PICK work : work = [kind |-> "info", id |-> id, info |-> old.info]
    OBVIOUS
  <2>3. work.kind = "info" /\ work.id = id
    BY <2>2
  <2>4. work # None
    BY <2>2 DEF NoneIsNoRecord
  <2>5. P(size)!Busy(t) /\ old.kind = "rename" /\ x5' = x5
    BY <1>15, <2>1 DEF P!EmptyInfo, P!Doing
  <2>6. CASE P(size)!There(id)
    <3>1. PICK d \in x2 : d.id = id /\ d = P(size)!Dir(id)
      BY <2>6, DirOfId
    <3>2. PICK e : e = [d EXCEPT !.info = P(size)!Emptied]
      OBVIOUS
    <3>3. d \in P(size)!Directories
      BY <1>1 DEF P!DirsInv
    <3>4. e.id = id
      BY <3>1, <3>2, <3>3 DEF P!Directories
    <3>5. P(size)!PutDir(e) /\ job' = [job EXCEPT ![t] = work]
      BY <1>15, <2>1, <2>2, <2>6, <3>1, <3>2 DEF P!EmptyInfo, P!Continue
    <3>6. \A o \in x2' : o \in x2 \/ o.id = id
      BY <3>4, <3>5 DEF P!PutDir
    <3>7. QED
      BY ZenonT(60), <1>1, <2>1, <2>3, <2>4, <2>5, <3>5, <3>6, EmptiedStays
  <2>7. CASE ~P(size)!There(id)
    <3>1. x2' = x2 /\ job' = [job EXCEPT ![t] = None] /\ \A o \in x2 : o.id # id
      BY <1>15, <2>1, <2>7 DEF P!EmptyInfo, P!There, P!Respond, P!Continue
    <3>2. QED
      BY <1>1, <2>1, <2>5, <3>1, EmptiedStays
  <2>8. QED
    BY <2>6, <2>7
<1>16. ASSUME NEW t \in Threads, P(size)!RenameEnds(t)
       PROVE  P(size)!EmptiedByRenaming'
  <2>1. PICK old, id : old = job[t] /\ id = old.id
    OBVIOUS
  <2>2. P(size)!Busy(t) /\ job' = [job EXCEPT ![t] = None] /\ x5' = x5 /\ old.kind = "info"
    BY <1>16, <2>1 DEF P!RenameEnds, P!Doing, P!Continue, P!Respond
  <2>3. old.info \in [P(size)!Cases -> P(size)!Cases]
    BY <1>1, <2>1, <2>2, WorkOfThread DEF P!WorkOK
  <2>4. CASE P(size)!There(id)
    <3>1. PICK d \in x2 : d.id = id /\ d = P(size)!Dir(id)
      BY <2>4, DirOfId
    <3>2. PICK e : e = [d EXCEPT !.info = old.info]
      OBVIOUS
    <3>3. d \in P(size)!Directories
      BY <1>1 DEF P!DirsInv
    <3>4. e.id = id /\ e.info = old.info /\ e.info # P(size)!Emptied
      BY <2>3, <3>1, <3>2, <3>3, CasesFacts DEF P!Directories
    <3>5. x2' = {o \in x2 : o.id # id} \cup {e}
      BY <1>16, <2>1, <2>4, <3>1, <3>2, <3>4 DEF P!RenameEnds, P!PutDir
    <3>6. QED
      BY <1>1, <2>1, <2>2, <3>4, <3>5, EmptiedStays
  <2>5. CASE ~P(size)!There(id)
    <3>1. x2' = x2 /\ \A o \in x2 : o.id # id
      BY <1>16, <2>1, <2>5 DEF P!RenameEnds, P!There
    <3>2. QED
      BY <1>1, <2>1, <2>2, <3>1, EmptiedStays
  <2>6. QED
    BY <2>4, <2>5
<1>17. QED
  BY <1>5, <1>6, <1>7, <1>8, <1>9, <1>10, <1>11, <1>12, <1>13, <1>14, <1>15, <1>16 DEF P!Next

LEMMA FilesStep ==
  ASSUME NoneIsNoRecord, NEW size \in {"files", "sharing"}, P(size)!FilesInv, P(size)!Next
  PROVE  P(size)!FilesInv'
<1>1. P(size)!CasesInv'
  BY UploadsKeepFiles, ProblemsKeepFiles, OthersKeepFiles DEF P!Next, P!FilesInv
<1>2. QED
  BY <1>1, EmptiedStep DEF P!FilesInv

\* What the invariant says of problems, infos and cases.
LEMMA FilesAreGood ==
  ASSUME NEW size \in {"files", "sharing"}, P(size)!FilesInv
  PROVE  P(size)!FilesExist /\ P(size)!InfoDescribesFiles /\ P(size)!NoCaseLost
<1>1. ASSUME NEW problem \in x1, problem.dir \notin x4
      PROVE  /\ P(size)!There(problem.dir) /\ P(size)!Dir(problem.dir).info # P(size)!Unwritten
             /\ P(size)!Dir(problem.dir).info = P(size)!Emptied =>
                  P(size)!Renamed(problem.dir) \/ problem.dir \in x5
  <2>1. P(size)!Kept(problem.dir)
    BY PromisedParts DEF P!FilesInv, P!CasesInv, P!DirsInv
  <2>2. PICK d \in x2 : d.id = problem.dir /\ d = P(size)!Dir(problem.dir)
    BY <1>1, <2>1, DirOfId DEF P!Kept
  <2>3. d.info = P(size)!Emptied => P(size)!Renamed(problem.dir) \/ problem.dir \in x5
    BY <2>2 DEF P!FilesInv, P!EmptiedByRenaming
  <2>4. QED
    BY <1>1, <2>1, <2>2, <2>3 DEF P!Kept
<1>2. P(size)!FilesExist
  BY <1>1 DEF P!FilesExist
<1>3. P(size)!InfoDescribesFiles
  <2>1. SUFFICES ASSUME ~overlapped, NEW d \in x2, P(size)!Readable(d.info),
                        ~P(size)!Renamed(d.id), d.id \notin x5, NEW i \in P(size)!Cases
                 PROVE  /\ d.files[P(size)!In(i)] = d.info[i]
                        /\ d.files[P(size)!Out(i)] = IF d.spj THEN None ELSE d.info[i]
    BY DEF P!InfoDescribesFiles
  <2>2. P(size)!Matches(d, d.info)
    BY <2>1 DEF P!FilesInv, P!CasesInv, P!Sound
  <2>3. QED
    BY <2>1, <2>2 DEF P!Matches, P!Settled, P!Side, P!In, P!Out
<1>4. P(size)!NoCaseLost
  BY DEF P!FilesInv, P!CasesInv, P!Sound, P!NoCaseLost
<1>5. QED
  BY <1>2, <1>3, <1>4

-----------------------------------------------------------------------------
(* The workbook of an export.                                              *)

LEMMA ExportTypes ==
  /\ IsFiniteSet(X!Problems) /\ IsFiniteSet(Contests)
  /\ Whole \in [X!Problems -> Nat] /\ \A p \in X!Problems : Whole[p] \in Nat /\ 0 \in X!Scores(p)
  /\ Beginnings \subseteq SUBSET X!Problems
  /\ \A a \in Answers : a = None \/ a \in [X!Axes -> Int]
BY ExportAssumption DEF X!Problems, X!Axes, X!Scores

\* The nearest integer is at most a half away.
LEMMA RoundIsNear ==
  ASSUME NEW n \in Int, NEW d \in Nat \ {0}
  PROVE  /\ X!Round(n, d) \in Int
         /\ 2 * (d * X!Round(n, d) - n) \in -d..d
<1>1. PICK q \in Int : q = n \div d
  OBVIOUS
<1>2. PICK r \in 0..(d - 1) : r = n % d
  OBVIOUS
<1>3. n = d * q + r
  BY <1>1, <1>2
<1>4. X!Round(n, d) = IF 2 * r > d \/ (2 * r = d /\ q % 2 = 1) THEN q + 1 ELSE q
  BY <1>1, <1>2 DEF X!Round
<1>5. PICK e \in Int : e = d * q
  OBVIOUS
<1>6. d * (q + 1) = e + d
  BY <1>5
<1>7. CASE 2 * r > d \/ (2 * r = d /\ q % 2 = 1)
  <2>1. X!Round(n, d) = q + 1 /\ 2 * (e + d - n) = 2 * d - 2 * r
    BY <1>3, <1>4, <1>5, <1>7
  <2>2. QED
    BY <1>6, <1>7, <2>1
<1>8. CASE ~(2 * r > d \/ (2 * r = d /\ q % 2 = 1))
  <2>1. X!Round(n, d) = q /\ 2 * (e - n) = -(2 * r) /\ 2 * r <= d
    BY <1>3, <1>4, <1>5, <1>8
  <2>2. QED
    BY <1>5, <2>1
<1>9. QED
  BY <1>7, <1>8

LEMMA PartialIn ==
  ASSUME NEW p \in X!Problems, NEW answer \in Answers
  PROVE  X!Parsed(Whole[p], answer).partial \in X!Scores(p)
<1>1. CASE answer = None
  BY <1>1 DEF X!Parsed, X!Scores
<1>2. CASE answer # None
  <2>1. answer \in [X!Axes -> Int] /\ Whole[p] \in Nat
    BY <1>2, ExportTypes
  <2>2. PICK scores : scores = [a \in X!Axes |-> X!Clamp(answer[a], 0, 10)]
    OBVIOUS
  <2>3. scores["correctness"] \in Int /\ scores["problem_understanding"] \in Int
    BY <2>1, <2>2 DEF X!Axes, X!Clamp
  <2>4. PICK n \in Int : n = Whole[p] * (scores["correctness"] + scores["problem_understanding"])
    BY <2>1, <2>3
  <2>5. X!Round(n, 20) \in Int
    BY RoundIsNear
  <2>6. X!partial_score(Whole[p], scores) \in 0..Whole[p]
    BY <2>1, <2>4, <2>5 DEF X!partial_score, X!Clamp
  <2>7. X!Parsed(Whole[p], answer) =
          [overall |-> X!overall_score(scores), partial |-> X!partial_score(Whole[p], scores)]
    BY <1>2, <2>2 DEF X!Parsed
  <2>8. QED
    BY <2>6, <2>7 DEF X!Scores
<1>3. QED
  BY <1>1, <1>2

LEMMA ExportInit == X!Init => X!ExportInv
<1> SUFFICES ASSUME X!Init PROVE X!ExportInv
  OBVIOUS
<1>1. x2 \subseteq X!Problems
  BY ExportTypes DEF X!Init, X!TablesInit
<1>2. ASSUME NEW s \in x4
      PROVE  /\ s = [id |-> s.id, user |-> s.user, problem |-> s.problem, score |-> s.score]
             /\ s.user \in Users /\ s.problem \in X!Problems /\ s.score \in X!Scores(s.problem)
  <2>1. PICK k \in Users \X x2 : s = X!NewSubmission(0, k, Whole[k[2]])
    BY <1>2 DEF X!Init, X!TablesInit
  <2>2. PICK u \in Users, p \in x2 : k = <<u, p>>
    BY <2>1
  <2>3. s = [id |-> 0, user |-> u, problem |-> p, score |-> Whole[p]]
    BY <2>1, <2>2 DEF X!NewSubmission
  <2>4. p \in X!Problems /\ Whole[p] \in X!Scores(p)
    BY <1>1, <2>2, ExportTypes DEF X!Scores
  <2>5. QED
    BY <2>3, <2>4
<1>3. X!Finals(x4)
  BY <1>2 DEF X!Finals
<1>4. x5 = [k \in Users \X X!Problems |-> None]
  BY DEF X!Init, X!TablesInit
<1>5. /\ x5 = [k \in Users \X X!Problems |-> x5[k]]
      /\ \A u \in Users, p \in X!Problems : x5[<<u, p>>] = None
  BY <1>4
<1>6. /\ job = [t \in {"web"} |-> None] /\ x3 = Users /\ x6 = None
  BY DEF X!Init, X!TablesInit, X!RequestsInit
<1>7. QED
  BY <1>1, <1>3, <1>5, <1>6 DEF X!ExportInv, X!JobTable, X!Busy

LEMMA ExportStutter ==
  ASSUME X!ExportInv, UNCHANGED vars
  PROVE  X!ExportInv'
BY DEF vars, X!ExportInv, X!JobTable, X!Busy, X!Finals, X!Boards, X!Reading

LEMMA TablesStep ==
  ASSUME X!ExportInv, X!Change, UNCHANGED x6
  PROVE  X!ExportInv'
<1>1. /\ X!JobTable /\ x2 \subseteq X!Problems /\ x3 \subseteq Users /\ X!Finals(x4)
      /\ x5 = [k \in Users \X X!Problems |-> x5[k]]
      /\ \A u \in Users, p \in X!Problems :
           x5[<<u, p>>] = None \/ x5[<<u, p>>].partial \in X!Scores(p)
  BY DEF X!ExportInv
<1>2. ASSUME UNCHANGED job, x2' \subseteq X!Problems, x3' \subseteq Users, X!Finals(x4'),
             x5' = [k \in Users \X X!Problems |-> x5'[k]],
             \A u \in Users, p \in X!Problems :
               x5'[<<u, p>>] = None \/ x5'[<<u, p>>].partial \in X!Scores(p)
      PROVE  X!ExportInv'
  BY <1>1, <1>2 DEF X!ExportInv, X!JobTable, X!Busy
<1>3. ASSUME NEW u \in Users, NEW p \in X!Problems, X!Submit(u, p)
      PROVE  X!ExportInv'
  <2>1. PICK s : x4' = x4 \cup {s} /\ \E id : s = X!NewSubmission(id, <<u, p>>, None)
    BY <1>3 DEF X!Submit
  <2>2. /\ s = [id |-> s.id, user |-> s.user, problem |-> s.problem, score |-> s.score]
        /\ s.user \in Users /\ s.problem \in X!Problems /\ s.score \in X!Scores(s.problem)
    BY <1>3, <2>1 DEF X!NewSubmission, X!Scores
  <2>3. X!Finals(x4')
    BY <1>1, <2>1, <2>2 DEF X!Finals
  <2>4. UNCHANGED <<job, x2, x3, x5>>
    BY <1>3 DEF X!Submit, X!AtOnce
  <2>5. QED
    BY <1>1, <1>2, <2>3, <2>4
<1>4. ASSUME NEW s \in x4, NEW score \in {None, 0, Whole[s.problem]}, X!SetScore(s, score)
      PROVE  X!ExportInv'
  <2>1. PICK r : r = [s EXCEPT !.score = score]
    OBVIOUS
  <2>2. /\ s = [id |-> s.id, user |-> s.user, problem |-> s.problem, score |-> s.score]
        /\ s.user \in Users /\ s.problem \in X!Problems
    BY <1>1, <1>4 DEF X!Finals
  <2>3. score \in X!Scores(s.problem)
    BY <1>4, <2>2, ExportTypes DEF X!Scores
  <2>4. r = [id |-> s.id, user |-> s.user, problem |-> s.problem, score |-> score]
    BY <2>1, <2>2
  <2>5. /\ r = [id |-> r.id, user |-> r.user, problem |-> r.problem, score |-> r.score]
        /\ r.user \in Users /\ r.problem \in X!Problems /\ r.score \in X!Scores(r.problem)
    BY <2>2, <2>3, <2>4
  <2>6. x4' = (x4 \ {s}) \cup {r}
    BY <1>4, <2>1 DEF X!SetScore
  <2>7. X!Finals(x4')
    BY <1>1, <2>5, <2>6 DEF X!Finals
  <2>8. UNCHANGED <<job, x2, x3, x5>>
    BY <1>4 DEF X!SetScore, X!AtOnce
  <2>9. QED
    BY <1>1, <1>2, <2>7, <2>8
<1>5. ASSUME NEW s \in x4, NEW answer \in Answers, X!Evaluate(s, answer)
      PROVE  X!ExportInv'
  <2>1. s.user \in Users /\ s.problem \in X!Problems
    BY <1>1, <1>5 DEF X!Finals
  <2>2. PICK new : new = X!Parsed(Whole[s.problem], answer)
    OBVIOUS
  <2>3. new.partial \in X!Scores(s.problem)
    BY <1>5, <2>1, <2>2, PartialIn
  <2>4. x5' = [x5 EXCEPT ![<<s.user, s.problem>>] = new] /\ UNCHANGED <<job, x2, x3, x4>>
    BY <1>5, <2>2 DEF X!Evaluate, X!AtOnce
  <2>5. PICK u \in Users, p \in X!Problems : u = s.user /\ p = s.problem
    BY <2>1
  <2>6. x5' = [k \in Users \X X!Problems |-> IF k = <<u, p>> THEN new ELSE x5[k]]
    BY <1>1, <2>4, <2>5
  <2>7. x5' = [k \in Users \X X!Problems |-> x5'[k]]
    BY <2>6
  <2>8. \A v \in Users, q \in X!Problems :
          x5'[<<v, q>>] = None \/ x5'[<<v, q>>].partial \in X!Scores(q)
    BY <1>1, <2>3, <2>5, <2>6
  <2>9. QED
    BY <1>1, <1>2, <2>4, <2>7, <2>8
<1>6. ASSUME NEW d \in DOMAIN x5, X!DropEvaluation(d)
      PROVE  X!ExportInv'
  <2>1. x5' = [x5 EXCEPT ![d] = None] /\ UNCHANGED <<job, x2, x3, x4>>
    BY <1>6 DEF X!DropEvaluation, X!AtOnce
  <2>2. x5' = [k \in Users \X X!Problems |-> IF k = d THEN None ELSE x5[k]]
    BY <1>1, <2>1
  <2>3. x5' = [k \in Users \X X!Problems |-> x5'[k]]
    BY <2>2
  <2>4. \A v \in Users, q \in X!Problems :
          x5'[<<v, q>>] = None \/ x5'[<<v, q>>].partial \in X!Scores(q)
    BY <1>1, <2>2
  <2>5. QED
    BY <1>1, <1>2, <2>1, <2>3, <2>4
<1>7. ASSUME NEW u \in Users, X!Leave(u)
      PROVE  X!ExportInv'
  BY <1>1, <1>2, <1>7 DEF X!Leave, X!AtOnce
<1>8. ASSUME NEW p \in X!Problems, X!AddProblem(p)
      PROVE  X!ExportInv'
  BY <1>1, <1>2, <1>8 DEF X!AddProblem, X!AtOnce
<1>9. ASSUME NEW p \in X!Problems, X!DeleteProblem(p)
      PROVE  X!ExportInv'
  <2>1. /\ x2' = x2 \ {p} /\ x4' = {s \in x4 : s.problem # p} /\ UNCHANGED <<job, x3>>
        /\ x5' = [k \in DOMAIN x5 |-> IF k[2] = p THEN None ELSE x5[k]]
    BY <1>9 DEF X!DeleteProblem, X!AtOnce
  <2>2. x5' = [k \in Users \X X!Problems |-> IF k[2] = p THEN None ELSE x5[k]]
    <3>1. DOMAIN x5 = Users \X X!Problems
      BY <1>1
    <3>2. QED
      BY <2>1, <3>1
  <2>3. x5' = [k \in Users \X X!Problems |-> x5'[k]]
    BY <2>2
  <2>4. \A v \in Users, q \in X!Problems :
          x5'[<<v, q>>] = None \/ x5'[<<v, q>>].partial \in X!Scores(q)
    BY <1>1, <2>2
  <2>5. X!Finals(x4')
    BY <1>1, <2>1 DEF X!Finals
  <2>6. QED
    BY <1>1, <1>2, <2>1, <2>3, <2>4, <2>5
<1>10. QED
  BY <1>3, <1>4, <1>5, <1>6, <1>7, <1>8, <1>9 DEF X!Change

\* A thread goes on with something sound.
LEMMA ExportGoesOn ==
  ASSUME X!ExportInv, NEW t \in {"web"}, NEW work, X!Reading(work) \/ work = None,
         job' = [job EXCEPT ![t] = work], UNCHANGED <<x1, x2, x3, x4, x5>>,
         x6' = None \/ X!Boards(x6')
  PROVE  X!ExportInv'
<1>1. job = [u \in {"web"} |-> job[u]]
  BY DEF X!ExportInv, X!JobTable
<1>2. job' = [u \in {"web"} |-> job'[u]]
  BY <1>1
<1>3. \A w : X!Reading(w)' = X!Reading(w)
  BY DEF X!Reading, X!Boards, X!Finals
<1>4. ASSUME NEW u \in {"web"}, X!Busy(u)'
      PROVE  X!Reading(job'[u])
  <2>1. CASE u = t
    BY <1>1, <1>4, <2>1 DEF X!Busy
  <2>2. CASE u # t
    BY <1>1, <1>4, <2>2 DEF X!ExportInv, X!Busy
  <2>3. QED
    BY <2>1, <2>2
<1>5. X!Finals(x4)' /\ \A p : X!Scores(p)' = X!Scores(p)
  BY DEF X!ExportInv, X!Finals
<1>6. x6' = None \/ X!Boards(x6)'
  BY DEF X!Boards
<1>7. QED
  BY <1>2, <1>3, <1>4, <1>5, <1>6 DEF X!ExportInv, X!JobTable

LEMMA BoardIn ==
  ASSUME NEW now, X!Reading(now), now.kind = "evals", NEW mode,
         X!ExportInv
  PROVE  LET board == X!apply_qual_override(X!Board(now.known, now.listed, now.finals), mode) IN
         /\ board.problems \subseteq X!Problems
         /\ \A u \in board.users, p \in board.problems : board.score[<<u, p>>] \in X!Scores(p)
<1>1. /\ now.known \subseteq X!Problems /\ now.listed \subseteq Users
      /\ \A s \in now.finals : s.user \in Users /\ s.problem \in X!Problems
                               /\ s.score \in X!Scores(s.problem)
  BY DEF X!Reading, X!Finals
<1>2. PICK users : users = now.listed \cup {s.user : s \in now.finals}
  OBVIOUS
<1>3. users \subseteq Users
  BY <1>1, <1>2
<1>4. PICK cell : cell = [k \in users \X now.known |->
         IF \E s \in now.finals : s.user = k[1] /\ s.problem = k[2]
         THEN (CHOOSE s \in now.finals : s.user = k[1] /\ s.problem = k[2]).score
         ELSE None]
  OBVIOUS
<1>5. ASSUME NEW u \in users, NEW p \in now.known
      PROVE  cell[<<u, p>>] \in X!Scores(p)
  <2>1. cell[<<u, p>>] = IF \E s \in now.finals : s.user = u /\ s.problem = p
                         THEN (CHOOSE s \in now.finals : s.user = u /\ s.problem = p).score
                         ELSE None
    BY <1>4, <1>5
  <2>2. CASE \E s \in now.finals : s.user = u /\ s.problem = p
    <3>1. PICK s \in now.finals : s.user = u /\ s.problem = p /\ cell[<<u, p>>] = s.score
      BY <2>1, <2>2
    <3>2. QED
      BY <1>1, <3>1
  <2>3. CASE ~\E s \in now.finals : s.user = u /\ s.problem = p
    BY <2>1, <2>3 DEF X!Scores
  <2>4. QED
    BY <2>2, <2>3
<1>6. PICK eval : eval = [k \in users \X now.known |-> x5[k]]
  OBVIOUS
<1>7. X!Board(now.known, now.listed, now.finals) =
        [problems |-> now.known, users |-> users, score |-> cell, eval |-> eval]
  BY <1>2, <1>4, <1>6 DEF X!Board
<1>8. DOMAIN cell = users \X now.known
  BY <1>4
<1>9. PICK score : score = [k \in users \X now.known |-> X!Overridden(mode, cell[k], eval[k])]
  OBVIOUS
<1>10. X!apply_qual_override(X!Board(now.known, now.listed, now.finals), mode) =
         [problems |-> now.known, users |-> users, score |-> score, eval |-> eval]
  BY <1>7, <1>8, <1>9 DEF X!apply_qual_override
<1>11. ASSUME NEW u \in users, NEW p \in now.known
       PROVE  score[<<u, p>>] \in X!Scores(p)
  <2>1. score[<<u, p>>] = X!Overridden(mode, cell[<<u, p>>], x5[<<u, p>>])
    BY <1>6, <1>9, <1>11
  <2>2. cell[<<u, p>>] \in X!Scores(p)
    BY <1>5, <1>11
  <2>3. x5[<<u, p>>] = None \/ x5[<<u, p>>].partial \in X!Scores(p)
    BY <1>1, <1>3, <1>11 DEF X!ExportInv
  <2>4. p \in X!Problems /\ 0 \in X!Scores(p)
    BY <1>1, <1>11, ExportTypes
  <2>5. QED
    BY <2>1, <2>2, <2>3, <2>4 DEF X!Overridden, X!Scores
<1>12. QED
  BY <1>1, <1>10, <1>11

LEMMA ExportStep ==
  ASSUME X!ExportInv, X!Next
  PROVE  X!ExportInv'
<1>1. /\ x2 \subseteq X!Problems /\ x3 \subseteq Users /\ X!Finals(x4)
      /\ x6 = None \/ X!Boards(x6)
      /\ \A t \in {"web"} : X!Busy(t) => X!Reading(job[t])
  BY DEF X!ExportInv
<1>2. CASE X!Change /\ UNCHANGED x6
  BY <1>2, TablesStep
<1>3. ASSUME NEW t \in {"web"}, NEW request \in Requested, X!build_export(t, request)
      PROVE  X!ExportInv'
  <2>1. PICK work : work = [kind |-> "problems", left |-> request.contests, read |-> None,
                            use |-> X!norm_use_qual(request.qual)]
    OBVIOUS
  <2>2. X!Reading(work)
    BY <2>1 DEF X!Reading
  <2>3. job' = [job EXCEPT ![t] = work] /\ UNCHANGED <<x1, x2, x3, x4, x5, x6>>
    BY <1>3, <2>1 DEF X!build_export, X!Begin, X!tables
  <2>4. QED
    BY <1>1, <2>2, <2>3, ExportGoesOn
<1>4. ASSUME NEW t \in {"web"}, NEW c \in Contests, X!ReadProblems(t, c)
      PROVE  X!ExportInv'
  <2>1. /\ X!Reading(job[t]) /\ job[t].kind = "problems" /\ UNCHANGED <<x1, x2, x3, x4, x5, x6>>
    BY <1>1, <1>4 DEF X!ReadProblems, X!Doing, X!tables
  <2>2. CASE X!list_contest_problems(c) # {}
    <3>1. PICK work : work = [kind |-> "finals", left |-> job[t].left \ {c}, read |-> job[t].read,
                              use |-> job[t].use, contest |-> c, known |-> X!list_contest_problems(c),
                              listed |-> X!list_students]
      OBVIOUS
    <3>2. job' = [job EXCEPT ![t] = work]
      BY <1>4, <2>2, <3>1 DEF X!ReadProblems, X!Continue
    <3>3. X!Reading(work)
      BY <1>1, <2>1, <3>1 DEF X!Reading, X!list_contest_problems, X!list_students
    <3>4. QED
      BY <1>1, <2>1, <3>2, <3>3, ExportGoesOn
  <2>3. CASE X!list_contest_problems(c) = {}
    <3>1. PICK work : work = [job[t] EXCEPT !.left = @ \ {c}]
      OBVIOUS
    <3>2. job' = [job EXCEPT ![t] = work]
      BY <1>4, <2>3, <3>1 DEF X!ReadProblems, X!Continue
    <3>3. X!Reading(work)
      BY <2>1, <3>1 DEF X!Reading
    <3>4. QED
      BY <1>1, <2>1, <3>2, <3>3, ExportGoesOn
  <2>4. QED
    BY <2>2, <2>3
<1>5. ASSUME NEW t \in {"web"}, X!ReadFinals(t)
      PROVE  X!ExportInv'
  <2>1. /\ X!Reading(job[t]) /\ job[t].kind = "finals" /\ UNCHANGED <<x1, x2, x3, x4, x5, x6>>
    BY <1>1, <1>5 DEF X!ReadFinals, X!Doing, X!tables
  <2>2. PICK finals : finals = X!list_final_submissions(job[t].contest)
    OBVIOUS
  <2>3. CASE X!Unknown(finals, job[t].known)
    <3>1. job' = [job EXCEPT ![t] = None]
      BY <1>5, <2>2, <2>3 DEF X!ReadFinals, X!Respond, X!Continue
    <3>2. QED
      BY <1>1, <2>1, <3>1, ExportGoesOn
  <2>4. CASE ~X!Unknown(finals, job[t].known)
    <3>1. PICK work : work = [kind |-> "evals", left |-> job[t].left, read |-> job[t].read,
                              use |-> job[t].use, contest |-> job[t].contest, known |-> job[t].known,
                              listed |-> job[t].listed, finals |-> finals]
      OBVIOUS
    <3>2. job' = [job EXCEPT ![t] = work]
      BY <1>5, <2>2, <2>4, <3>1 DEF X!ReadFinals, X!Continue
    <3>3. finals \subseteq x4
      BY <2>2 DEF X!list_final_submissions
    <3>4. X!Finals(finals)
      BY <1>1, <3>3 DEF X!Finals
    <3>5. X!Reading(work)
      BY <2>1, <3>1, <3>4 DEF X!Reading
    <3>6. QED
      BY <1>1, <2>1, <3>2, <3>5, ExportGoesOn
  <2>5. QED
    BY <2>3, <2>4
<1>6. ASSUME NEW t \in {"web"}, X!ReadEvaluations(t)
      PROVE  X!ExportInv'
  <2>1. PICK now : now = job[t]
    OBVIOUS
  <2>2. /\ X!Reading(now) /\ now.kind = "evals" /\ UNCHANGED <<x1, x2, x3, x4, x5, x6>>
    BY <1>1, <1>6, <2>1 DEF X!ReadEvaluations, X!Doing, X!tables
  <2>3. PICK board : board = X!apply_qual_override(X!Board(now.known, now.listed, now.finals),
                                                   now.use[X!Classify(x1[now.contest])])
    OBVIOUS
  <2>4. /\ board.problems \subseteq X!Problems
        /\ \A u \in board.users, p \in board.problems : board.score[<<u, p>>] \in X!Scores(p)
    BY <2>2, <2>3, BoardIn
  <2>5. PICK before : before = IF now.read = None THEN {} ELSE DOMAIN now.read
    OBVIOUS
  <2>6. PICK boards : boards = [c \in before \cup {now.contest} |->
                                  IF c = now.contest THEN board ELSE now.read[c]]
    OBVIOUS
  <2>7. X!Boards(boards)
    <3>1. now.contest \in Contests /\ (now.read = None \/ X!Boards(now.read))
      BY <2>2 DEF X!Reading
    <3>2. before \subseteq Contests
      BY <2>5, <3>1 DEF X!Boards
    <3>3. ASSUME NEW c \in before \cup {now.contest}
          PROVE  /\ boards[c].problems \subseteq X!Problems
                 /\ \A u \in boards[c].users, p \in boards[c].problems :
                      boards[c].score[<<u, p>>] \in X!Scores(p)
      <4>1. CASE c = now.contest
        BY <2>4, <2>6, <4>1
      <4>2. CASE c # now.contest
        <5>1. boards[c] = now.read[c] /\ now.read # None /\ c \in DOMAIN now.read
          BY <2>5, <2>6, <3>3, <4>2
        <5>2. QED
          BY <3>1, <5>1 DEF X!Boards
      <4>3. QED
        BY <4>1, <4>2
    <3>4. DOMAIN boards = before \cup {now.contest}
      BY <2>6
    <3>5. QED
      BY <3>1, <3>2, <3>3, <3>4 DEF X!Boards
  <2>8. PICK work : work = [kind |-> "problems", left |-> now.left, use |-> now.use, read |-> boards]
    OBVIOUS
  <2>9. X!Reading(work)
    BY <2>7, <2>8 DEF X!Reading
  <2>10. job' = [job EXCEPT ![t] = work]
    BY <1>6, <2>1, <2>3, <2>5, <2>6, <2>8 DEF X!ReadEvaluations, X!Continue
  <2>11. QED
    BY <1>1, <2>2, <2>9, <2>10, ExportGoesOn
<1>7. ASSUME NEW t \in {"web"}, X!Write(t)
      PROVE  X!ExportInv'
  <2>1. /\ x6' = job[t].read /\ job' = [job EXCEPT ![t] = None] /\ UNCHANGED <<x1, x2, x3, x4, x5>>
        /\ X!Reading(job[t])
    BY <1>1, <1>7 DEF X!Write, X!Doing, X!Respond, X!Continue, X!tables
  <2>2. x6' = None \/ X!Boards(x6')
    BY <2>1 DEF X!Reading
  <2>3. QED
    BY <2>1, <2>2, ExportGoesOn
<1>8. QED
  BY <1>2, <1>3, <1>4, <1>5, <1>6, <1>7 DEF X!Next

\* Sums and sizes are the same for the export as for the other components.
LEMMA XTotal == ASSUME NEW g, NEW S0 PROVE X!Total(g, S0) = Total(g, S0)
  BY DEF X!Total, Total, X!MapThenSumSet, MapThenSumSet, X!MapThenFoldSet, MapThenFoldSet

LEMMA XCard == ASSUME NEW S0 PROVE X!Cardinality(S0) = Cardinality(S0)
  BY DEF X!Cardinality, Cardinality

\* The points of a contest are natural numbers, and nobody has any in one that
\* gives none.
LEMMA ContestPoints ==
  ASSUME NEW boards, X!Boards(boards), NEW u, NEW c \in DOMAIN boards
  PROVE  /\ X!contest_max(boards, c) \in Nat /\ X!by_contest(boards, u, c) \in Nat
         /\ X!contest_max(boards, c) = 0 => X!by_contest(boards, u, c) = 0
<1>1. PICK ps : ps = boards[c].problems
  OBVIOUS
<1>2. ps \subseteq X!Problems /\ IsFiniteSet(ps)
  BY <1>1, ExportTypes, FS_Subset DEF X!Boards
<1>3. \A p \in ps : Whole[p] \in Nat
  BY <1>2, ExportTypes
<1>4. X!contest_max(boards, c) = Total(Whole, ps)
  BY <1>1, XTotal DEF X!contest_max
<1>5. Total(Whole, ps) \in Nat
  BY <1>2, <1>3, TotalIsNat
<1>6. CASE u \notin boards[c].users
  BY <1>4, <1>5, <1>6 DEF X!by_contest
<1>7. CASE u \in boards[c].users
  <2>1. PICK f : f = [p \in ps |-> X!Cell(boards[c].score[<<u, p>>])]
    OBVIOUS
  <2>2. X!by_contest(boards, u, c) = Total(f, ps)
    BY <1>1, <1>7, <2>1, XTotal DEF X!by_contest
  <2>3. ASSUME NEW p \in ps
        PROVE  f[p] \in 0..Whole[p]
    <3>1. boards[c].score[<<u, p>>] \in X!Scores(p) /\ Whole[p] \in Nat
      BY <1>1, <1>3, <1>7 DEF X!Boards
    <3>2. QED
      BY <2>1, <3>1 DEF X!Cell, X!Scores
  <2>4. \A p \in ps : f[p] \in Nat
    BY <1>3, <2>3
  <2>5. Total(f, ps) \in Nat
    BY <1>2, <2>4, TotalIsNat
  <2>6. ASSUME Total(Whole, ps) = 0
        PROVE  Total(f, ps) = 0
    <3>1. \A p \in ps : Whole[p] = 0
      BY <1>2, <1>3, <2>6, TotalIsZero
    <3>2. \A p \in ps : f[p] = 0
      BY <2>3, <3>1
    <3>3. QED
      BY <1>2, <3>2, TotalOfZeros
  <2>7. QED
    BY <1>4, <1>5, <2>2, <2>5, <2>6
<1>8. QED
  BY <1>6, <1>7

\* The contests of a workbook, by group.
LEMMA GroupsOf ==
  ASSUME NEW boards, X!Boards(boards)
  PROVE  /\ IsFiniteSet(DOMAIN boards) /\ IsFiniteSet(X!Groups)
         /\ \A c \in DOMAIN boards : X!Classify(x1[c]) \in X!Groups
         /\ \A g : X!InGroup(boards, g) \subseteq DOMAIN boards /\ IsFiniteSet(X!InGroup(boards, g))
<1>1. IsFiniteSet(DOMAIN boards)
  BY ExportTypes, FS_Subset DEF X!Boards
<1>2. IsFiniteSet({}) /\ X!Groups = ((({} \cup {"exam"}) \cup {"lab"}) \cup {"assignment"}) \cup {"other"}
  BY FS_EmptySet DEF X!Groups
<1>3. IsFiniteSet(X!Groups)
  BY <1>2, FS_AddElement
<1>4. \A g : X!InGroup(boards, g) \subseteq DOMAIN boards
  BY DEF X!InGroup
<1>5. \A g : IsFiniteSet(X!InGroup(boards, g))
  BY <1>1, <1>4, FS_Subset
<1>6. \A c \in DOMAIN boards : X!Classify(x1[c]) \in X!Groups
  BY DEF X!Classify, X!Groups
<1>7. QED
  BY <1>1, <1>3, <1>4, <1>5, <1>6

\* The points of a group.
LEMMA GroupPoints ==
  ASSUME NEW boards, X!Boards(boards), NEW u, NEW g
  PROVE  /\ X!group_max(boards, g) \in Nat /\ X!by_group(boards, u, g) \in Nat
         /\ X!group_max(boards, g) = 0 => X!by_group(boards, u, g) = 0
<1>1. PICK cs : cs = X!InGroup(boards, g)
  OBVIOUS
<1>2. cs \subseteq DOMAIN boards /\ IsFiniteSet(cs)
  BY <1>1, GroupsOf
<1>3. PICK e : e = [c \in cs |-> X!contest_max(boards, c)]
  OBVIOUS
<1>4. PICK f : f = [c \in cs |-> X!by_contest(boards, u, c)]
  OBVIOUS
<1>5. \A c \in cs : e[c] \in Nat /\ f[c] \in Nat /\ (e[c] = 0 => f[c] = 0)
  BY <1>2, <1>3, <1>4, ContestPoints
<1>6. X!group_max(boards, g) = Total(e, cs) /\ X!by_group(boards, u, g) = Total(f, cs)
  BY <1>1, <1>3, <1>4, XTotal DEF X!group_max, X!by_group
<1>7. Total(e, cs) \in Nat /\ Total(f, cs) \in Nat
  BY <1>2, <1>5, TotalIsNat
<1>8. ASSUME Total(e, cs) = 0
      PROVE  Total(f, cs) = 0
  <2>1. \A c \in cs : e[c] = 0
    BY <1>2, <1>5, <1>8, TotalIsZero
  <2>2. \A c \in cs : f[c] = 0
    BY <1>5, <2>1
  <2>3. QED
    BY <1>2, <2>2, TotalOfZeros
<1>9. QED
  BY <1>6, <1>7, <1>8

\* A student's total is that of the groups that have points.
LEMMA TotalOfGroups ==
  ASSUME NEW boards, X!Boards(boards), NEW u
  PROVE  LET first == X!summary(boards, u) IN first.total = X!Total(first.groups, DOMAIN first.groups)
<1>1. PICK cs : cs = DOMAIN boards
  OBVIOUS
<1>2. IsFiniteSet(cs) /\ IsFiniteSet(X!Groups)
  BY <1>1, GroupsOf
<1>3. PICK f : f = [c \in cs |-> X!by_contest(boards, u, c)]
  OBVIOUS
<1>4. \A c \in cs : f[c] \in Int
  BY <1>1, <1>3, ContestPoints
<1>5. PICK kind : kind = [c \in cs |-> X!Classify(x1[c])]
  OBVIOUS
<1>6. kind \in [cs -> X!Groups]
  BY <1>1, <1>5, GroupsOf
<1>7. PICK h : h = [g \in X!Groups |-> X!by_group(boards, u, g)]
  OBVIOUS
<1>8. PICK part : part = [g \in X!Groups |-> X!InGroup(boards, g)]
  OBVIOUS
<1>9. Total(f, cs) = Total(h, X!Groups)
  <2>1. \A g \in X!Groups : \A c : c \in part[g] <=> c \in cs /\ kind[c] = g
    BY <1>1, <1>5, <1>8 DEF X!InGroup
  <2>2. ASSUME NEW g \in X!Groups
        PROVE  h[g] = Total(f, part[g])
    <3>1. PICK q : q = part[g]
      OBVIOUS
    <3>2. PICK e : e = [c \in q |-> X!by_contest(boards, u, c)]
      OBVIOUS
    <3>3. h[g] = Total(e, q)
      BY <1>7, <1>8, <2>2, <3>1, <3>2, XTotal DEF X!by_group
    <3>4. q \subseteq cs
      BY <2>1, <3>1
    <3>5. IsFiniteSet(q) /\ \A c \in q : e[c] = f[c] /\ f[c] \in Int
      BY <1>2, <1>3, <1>4, <3>2, <3>4, FS_Subset
    <3>6. Total(e, q) = Total(f, q)
      BY <3>5, TotalSame
    <3>7. QED
      BY <3>1, <3>3, <3>6
  <2>3. QED
    BY <1>2, <1>4, <1>6, <2>1, <2>2, TotalByKind
<1>10. PICK with : with = {g \in X!Groups : X!group_max(boards, g) > 0}
  OBVIOUS
<1>11. /\ with \in SUBSET X!Groups /\ IsFiniteSet(with)
       /\ \A g \in X!Groups : h[g] \in Int
       /\ \A g \in X!Groups \ with : h[g] = 0
  <2>1. \A g \in X!Groups : h[g] \in Nat /\ X!group_max(boards, g) \in Nat
                            /\ (X!group_max(boards, g) = 0 => h[g] = 0)
    BY <1>7, GroupPoints
  <2>2. with \in SUBSET X!Groups
    BY <1>10
  <2>3. \A g \in X!Groups \ with : h[g] = 0
    BY <1>10, <2>1
  <2>4. QED
    BY <1>2, <2>1, <2>2, <2>3, FS_Subset
<1>12. Total(h, X!Groups) = Total(h, with)
  BY <1>2, <1>11, TotalOfPart
<1>13. PICK groups : groups = [g \in with |-> X!by_group(boards, u, g)]
  OBVIOUS
<1>14. \A g \in with : groups[g] = h[g] /\ h[g] \in Int
  BY <1>7, <1>11, <1>13
<1>15. Total(groups, with) = Total(h, with)
  BY <1>11, <1>14, TotalSame
<1>16. X!summary(boards, u).total = Total(f, cs) /\ X!summary(boards, u).groups = groups
  BY <1>1, <1>3, <1>10, <1>13, XTotal DEF X!summary
<1>17. DOMAIN groups = with
  BY <1>13
<1>18. QED
  BY <1>9, <1>12, <1>15, <1>16, <1>17, XTotal

\* found holds the rows of a student in a contest of the group.
HoldsRows(found, boards, u, c, g) ==
  \A r : r \in found <=> \E p \in boards[c].problems :
                  /\ u \in boards[c].users
                  /\ r = [group |-> g, contest |-> c, user |-> u, problem |-> p,
                          score |-> X!Cell(boards[c].score[<<u, p>>])]

\* The rows of a student in a contest hold what the student has there.
LEMMA RowsOfContest ==
  ASSUME NEW boards, X!Boards(boards), NEW u, NEW c \in DOMAIN boards, NEW g,
         NEW found, HoldsRows(found, boards, u, c, g),
         NEW points, \A r \in found : points[r] = r.score
  PROVE  Total(points, found) = X!by_contest(boards, u, c) /\ IsFiniteSet(found)
<1>1. PICK ps : ps = boards[c].problems
  OBVIOUS
<1>2. ps \subseteq X!Problems /\ IsFiniteSet(ps)
  BY <1>1, ExportTypes, FS_Subset DEF X!Boards
<1>3. CASE u \notin boards[c].users
  <2>1. found = {}
    BY <1>3 DEF HoldsRows
  <2>2. IsFiniteSet(found) /\ Total(points, found) = 0
    BY <2>1, FS_EmptySet, TotalOfNone
  <2>3. QED
    BY <1>3, <2>2 DEF X!by_contest
<1>4. CASE u \in boards[c].users
  <2>1. PICK f : f = [p \in ps |-> X!Cell(boards[c].score[<<u, p>>])]
    OBVIOUS
  <2>2. X!by_contest(boards, u, c) = Total(f, ps)
    BY <1>1, <1>4, <2>1, XTotal DEF X!by_contest
  <2>3. ASSUME NEW p \in ps
        PROVE  f[p] \in Int
    <3>1. boards[c].score[<<u, p>>] \in X!Scores(p) /\ Whole[p] \in Nat
      BY <1>1, <1>2, <1>4, ExportTypes DEF X!Boards
    <3>2. QED
      BY <2>1, <3>1 DEF X!Cell, X!Scores
  <2>4. PICK h : h = [p \in ps |-> [group |-> g, contest |-> c, user |-> u, problem |-> p,
                                     score |-> f[p]]]
    OBVIOUS
  <2>5. \A p, q \in ps : h[p] = h[q] => p = q
    BY <2>4
  <2>6. found = {h[p] : p \in ps}
    <3>1. \A r : r \in found <=> \E p \in ps : r = h[p]
      BY <1>1, <1>4, <2>1, <2>4 DEF HoldsRows
    <3>2. QED
      BY <3>1
  <2>7. \A p \in ps : f[p] = points[h[p]] /\ f[p] \in Int
    BY <2>3, <2>4, <2>6
  <2>8. Total(f, ps) = Total(points, {h[p] : p \in ps})
    BY <1>2, <2>5, <2>7, TotalOfImage
  <2>9. IsFiniteSet(found)
    <3>1. h \in Surjection(ps, found)
      BY <2>4, <2>6 DEF Surjection
    <3>2. QED
      BY <1>2, <3>1, FS_Surjection
  <2>10. QED
    BY <2>2, <2>6, <2>8, <2>9
<1>5. QED
  BY <1>3, <1>4

\* The rows of a student in a group hold what the student has in the group.
LEMMA RowsOfGroup ==
  ASSUME NEW boards, X!Boards(boards), NEW u, NEW g \in X!Groups
  PROVE  X!by_group(boards, u, g) =
           X!Points({r \in {q \in X!raw_sheet(boards) : q.user = u} : r.group = g})
<1>1. PICK cs : cs = X!InGroup(boards, g)
  OBVIOUS
<1>2. /\ cs \subseteq DOMAIN boards /\ IsFiniteSet(cs)
      /\ \A c : c \in cs <=> c \in DOMAIN boards /\ X!Classify(x1[c]) = g
  BY <1>1, GroupsOf DEF X!InGroup
<1>3. PICK rows : rows = {r \in {q \in X!raw_sheet(boards) : q.user = u} : r.group = g}
  OBVIOUS
<1>4. \A r : r \in rows <=>
        \E c \in DOMAIN boards : \E p \in boards[c].problems :
          /\ u \in boards[c].users /\ X!Classify(x1[c]) = g
          /\ r = [group |-> g, contest |-> c, user |-> u, problem |-> p,
                  score |-> X!Cell(boards[c].score[<<u, p>>])]
  <2>1. \A c : \A r : r \in X!flat_rows(boards[c], c) <=>
          \E v \in boards[c].users, p \in boards[c].problems :
            r = [contest |-> c, user |-> v, problem |-> p, score |-> X!Cell(boards[c].score[<<v, p>>])]
    <3>1. ASSUME NEW c, NEW r
          PROVE  r \in X!flat_rows(boards[c], c) <=>
                 \E v \in boards[c].users, p \in boards[c].problems :
                   r = [contest |-> c, user |-> v, problem |-> p,
                        score |-> X!Cell(boards[c].score[<<v, p>>])]
      <4>1. PICK b : b = boards[c]
        OBVIOUS
      <4>2. r \in X!flat_rows(b, c) <=> \E k \in b.users \X b.problems :
              r = [contest |-> c, user |-> k[1], problem |-> k[2], score |-> X!Cell(b.score[k])]
        BY DEF X!flat_rows
      <4>3. \A k \in b.users \X b.problems : k = <<k[1], k[2]>>
        OBVIOUS
      <4>4. (\E k \in b.users \X b.problems :
              r = [contest |-> c, user |-> k[1], problem |-> k[2], score |-> X!Cell(b.score[k])])
            <=> \E v \in b.users, p \in b.problems :
              r = [contest |-> c, user |-> v, problem |-> p, score |-> X!Cell(b.score[<<v, p>>])]
        <5>1. ASSUME NEW k \in b.users \X b.problems,
                     r = [contest |-> c, user |-> k[1], problem |-> k[2], score |-> X!Cell(b.score[k])]
              PROVE  \E v \in b.users, p \in b.problems :
                       r = [contest |-> c, user |-> v, problem |-> p,
                            score |-> X!Cell(b.score[<<v, p>>])]
          <6>1. PICK v \in b.users, p \in b.problems : k = <<v, p>> /\ k[1] = v /\ k[2] = p
            BY <5>1
          <6>2. QED
            BY <5>1, <6>1
        <5>2. ASSUME NEW v \in b.users, NEW p \in b.problems,
                     r = [contest |-> c, user |-> v, problem |-> p, score |-> X!Cell(b.score[<<v, p>>])]
              PROVE  \E k \in b.users \X b.problems :
                       r = [contest |-> c, user |-> k[1], problem |-> k[2],
                            score |-> X!Cell(b.score[k])]
          <6>1. PICK k \in b.users \X b.problems : k = <<v, p>> /\ k[1] = v /\ k[2] = p
            BY <5>2
          <6>2. r = [contest |-> c, user |-> k[1], problem |-> k[2], score |-> X!Cell(b.score[k])]
            BY <5>2, <6>1
          <6>3. QED
            BY <6>2
        <5>3. QED
          BY <5>1, <5>2
      <4>5. QED
        BY <4>1, <4>2, <4>4
    <3>2. QED
      BY <3>1
  <2>2. ASSUME NEW r
        PROVE  r \in X!raw_sheet(boards) <=>
               \E c \in DOMAIN boards : \E v \in boards[c].users, p \in boards[c].problems :
                 r = [group |-> X!Classify(x1[c]), contest |-> c, user |-> v, problem |-> p,
                      score |-> X!Cell(boards[c].score[<<v, p>>])]
    <3>1. r \in X!raw_sheet(boards) <=>
            \E c \in DOMAIN boards : \E q \in X!flat_rows(boards[c], c) :
              r = [group |-> X!Classify(x1[q.contest]), contest |-> q.contest, user |-> q.user,
                   problem |-> q.problem, score |-> q.score]
      BY DEF X!raw_sheet
    <3>2. ASSUME NEW c \in DOMAIN boards, NEW q \in X!flat_rows(boards[c], c),
                 r = [group |-> X!Classify(x1[q.contest]), contest |-> q.contest, user |-> q.user,
                      problem |-> q.problem, score |-> q.score]
          PROVE  \E v \in boards[c].users, p \in boards[c].problems :
                   r = [group |-> X!Classify(x1[c]), contest |-> c, user |-> v, problem |-> p,
                        score |-> X!Cell(boards[c].score[<<v, p>>])]
      <4>1. PICK v \in boards[c].users, p \in boards[c].problems :
              q = [contest |-> c, user |-> v, problem |-> p, score |-> X!Cell(boards[c].score[<<v, p>>])]
        BY <2>1, <3>2
      <4>2. QED
        BY <3>2, <4>1
    <3>3. ASSUME NEW c \in DOMAIN boards, NEW v \in boards[c].users, NEW p \in boards[c].problems,
                 r = [group |-> X!Classify(x1[c]), contest |-> c, user |-> v, problem |-> p,
                      score |-> X!Cell(boards[c].score[<<v, p>>])]
          PROVE  \E q \in X!flat_rows(boards[c], c) :
                   r = [group |-> X!Classify(x1[q.contest]), contest |-> q.contest, user |-> q.user,
                        problem |-> q.problem, score |-> q.score]
      <4>1. PICK q : q = [contest |-> c, user |-> v, problem |-> p,
                          score |-> X!Cell(boards[c].score[<<v, p>>])]
        OBVIOUS
      <4>2. q \in X!flat_rows(boards[c], c)
        BY <2>1, <3>3, <4>1
      <4>3. QED
        BY <3>3, <4>1, <4>2
    <3>4. QED
      BY <3>1, <3>2, <3>3
  <2>3. ASSUME NEW r
        PROVE  r \in rows <=> r \in X!raw_sheet(boards) /\ r.user = u /\ r.group = g
    BY <1>3
  <2>4. ASSUME NEW r \in rows
        PROVE  \E c \in DOMAIN boards : \E p \in boards[c].problems :
                 /\ u \in boards[c].users /\ X!Classify(x1[c]) = g
                 /\ r = [group |-> g, contest |-> c, user |-> u, problem |-> p,
                         score |-> X!Cell(boards[c].score[<<u, p>>])]
    <3>0. PICK c \in DOMAIN boards :
            \E v \in boards[c].users, p \in boards[c].problems :
              r = [group |-> X!Classify(x1[c]), contest |-> c, user |-> v, problem |-> p,
                   score |-> X!Cell(boards[c].score[<<v, p>>])]
      BY <2>2, <2>3
    <3>1. PICK v \in boards[c].users, p \in boards[c].problems :
            r = [group |-> X!Classify(x1[c]), contest |-> c, user |-> v, problem |-> p,
                 score |-> X!Cell(boards[c].score[<<v, p>>])]
      BY <3>0
    <3>2. r.user = v /\ r.group = X!Classify(x1[c]) /\ r.user = u /\ r.group = g
      BY <2>3, <3>1
    <3>3. QED
      BY <3>1, <3>2
  <2>5. ASSUME NEW r, NEW c \in DOMAIN boards, NEW p \in boards[c].problems,
               u \in boards[c].users, X!Classify(x1[c]) = g,
               r = [group |-> g, contest |-> c, user |-> u, problem |-> p,
                    score |-> X!Cell(boards[c].score[<<u, p>>])]
        PROVE  r \in rows
    <3>1. r.user = u /\ r.group = g
      BY <2>5
    <3>2. r \in X!raw_sheet(boards)
      BY <2>2, <2>5
    <3>3. QED
      BY <2>3, <3>1, <3>2
  <2>6. QED
    BY <2>4, <2>5
<1>5. PICK found : found = [c \in cs |-> {r \in rows : r.contest = c}]
  OBVIOUS
<1>6. PICK points : points = [r \in rows |-> r.score]
  OBVIOUS
<1>7. ASSUME NEW c \in cs
      PROVE  Total(points, found[c]) = X!by_contest(boards, u, c) /\ IsFiniteSet(found[c])
  <2>1. PICK q : q = found[c]
    OBVIOUS
  <2>2. ASSUME NEW r
        PROVE  r \in q <=> \E p \in boards[c].problems :
                  /\ u \in boards[c].users
                  /\ r = [group |-> g, contest |-> c, user |-> u, problem |-> p,
                          score |-> X!Cell(boards[c].score[<<u, p>>])]
    <3>1. r \in q <=> r \in rows /\ r.contest = c
      BY <1>5, <1>7, <2>1
    <3>2. c \in DOMAIN boards /\ X!Classify(x1[c]) = g
      BY <1>2, <1>7
    <3>3. ASSUME r \in q
          PROVE  \E p \in boards[c].problems :
                   /\ u \in boards[c].users
                   /\ r = [group |-> g, contest |-> c, user |-> u, problem |-> p,
                           score |-> X!Cell(boards[c].score[<<u, p>>])]
      <4>0. PICK d \in DOMAIN boards : \E p \in boards[d].problems :
              /\ u \in boards[d].users
              /\ r = [group |-> g, contest |-> d, user |-> u, problem |-> p,
                      score |-> X!Cell(boards[d].score[<<u, p>>])]
        BY <1>4, <3>1, <3>3
      <4>1. PICK p \in boards[d].problems :
              /\ u \in boards[d].users
              /\ r = [group |-> g, contest |-> d, user |-> u, problem |-> p,
                      score |-> X!Cell(boards[d].score[<<u, p>>])]
        BY <4>0
      <4>2. d = c
        BY <3>1, <3>3, <4>1
      <4>3. QED
        BY <4>1, <4>2
    <3>4. ASSUME NEW p \in boards[c].problems, u \in boards[c].users,
                 r = [group |-> g, contest |-> c, user |-> u, problem |-> p,
                      score |-> X!Cell(boards[c].score[<<u, p>>])]
          PROVE  r \in q
      <4>1. r \in rows
        BY <1>4, <3>2, <3>4
      <4>2. r.contest = c
        BY <3>4
      <4>3. QED
        BY <3>1, <4>1, <4>2
    <3>5. QED
      BY <3>3, <3>4
  <2>3. \A r \in q : points[r] = r.score
    BY <1>5, <1>6, <1>7, <2>1
  <2>4. c \in DOMAIN boards /\ X!Classify(x1[c]) = g
    BY <1>2, <1>7
  <2>5. HoldsRows(q, boards, u, c, g)
    BY <2>2 DEF HoldsRows
  <2>6. Total(points, q) = X!by_contest(boards, u, c) /\ IsFiniteSet(q)
    BY <2>3, <2>4, <2>5, RowsOfContest
  <2>7. QED
    BY <2>1, <2>6
<1>8. ASSUME NEW r \in rows
      PROVE  r.contest \in cs /\ r.score \in Int
  <2>1. PICK c \in DOMAIN boards : \E p \in boards[c].problems :
          /\ u \in boards[c].users /\ X!Classify(x1[c]) = g
          /\ r = [group |-> g, contest |-> c, user |-> u, problem |-> p,
                  score |-> X!Cell(boards[c].score[<<u, p>>])]
    BY <1>4, <1>8
  <2>2. PICK p \in boards[c].problems :
          /\ u \in boards[c].users /\ X!Classify(x1[c]) = g
          /\ r = [group |-> g, contest |-> c, user |-> u, problem |-> p,
                  score |-> X!Cell(boards[c].score[<<u, p>>])]
    BY <2>1
  <2>3. r.contest = c /\ r.score = X!Cell(boards[c].score[<<u, p>>])
    BY <2>2
  <2>4. boards[c].score[<<u, p>>] \in X!Scores(p) /\ p \in X!Problems
    BY <2>2 DEF X!Boards
  <2>5. r.score \in Int
    BY <2>3, <2>4, ExportTypes DEF X!Cell, X!Scores
  <2>6. QED
    BY <1>2, <2>2, <2>3, <2>5
<1>9. IsFiniteSet(rows)
  <2>1. PICK all : all = {found[c] : c \in cs}
    OBVIOUS
  <2>2. found \in Surjection(cs, all)
    BY <1>5, <2>1 DEF Surjection
  <2>3. IsFiniteSet(all)
    BY <1>2, <2>2, FS_Surjection
  <2>4. \A q \in all : IsFiniteSet(q)
    BY <1>7, <2>1
  <2>5. IsFiniteSet(UNION all)
    BY <2>3, <2>4, FS_UNION
  <2>6. rows \subseteq UNION all
    BY <1>5, <1>8, <2>1
  <2>7. QED
    BY <2>5, <2>6, FS_Subset
<1>10. PICK kind : kind = [r \in rows |-> r.contest]
  OBVIOUS
<1>11. PICK h : h = [c \in cs |-> X!by_contest(boards, u, c)]
  OBVIOUS
<1>12. Total(points, rows) = Total(h, cs)
  <2>1. kind \in [rows -> cs] /\ \A r \in rows : points[r] \in Int
    BY <1>6, <1>8, <1>10
  <2>2. \A c \in cs : \A r : r \in found[c] <=> r \in rows /\ kind[r] = c
    BY <1>5, <1>10
  <2>3. \A c \in cs : h[c] = Total(points, found[c])
    BY <1>7, <1>11
  <2>4. QED
    BY <1>2, <1>9, <2>1, <2>2, <2>3, TotalByKind
<1>13. X!by_group(boards, u, g) = Total(h, cs)
  BY <1>1, <1>11, XTotal DEF X!by_group
<1>14. X!Points(rows) = Total(points, rows)
  BY <1>6, XTotal DEF X!Points
<1>15. QED
  BY <1>3, <1>12, <1>13, <1>14

\* A number within as many parts as a whole has rounds to no more.
LEMMA RoundAtMost ==
  ASSUME NEW n \in Int, NEW d \in Nat \ {0}, NEW k \in Int, n <= k * d
  PROVE  X!Round(n, d) <= k
<1>1. PICK q \in Int : q = n \div d
  OBVIOUS
<1>2. PICK r \in 0..(d - 1) : r = n % d
  OBVIOUS
<1>3. n = d * q + r
  BY <1>1, <1>2
<1>4. X!Round(n, d) = IF 2 * r > d \/ (2 * r = d /\ q % 2 = 1) THEN q + 1 ELSE q
  BY <1>1, <1>2 DEF X!Round
<1>5. q <= k
  <2>1. ASSUME q >= k + 1 PROVE FALSE
    <3>1. d * q >= d * (k + 1)
      BY <2>1, SMTT(30)
    <3>2. d * (k + 1) = k * d + d
      OBVIOUS
    <3>3. QED
      BY <1>3, <3>1, <3>2
  <2>2. QED
    BY <2>1
<1>6. ASSUME q = k PROVE r = 0
  BY <1>3, <1>6
<1>7. QED
  BY <1>4, <1>5, <1>6

\* Points within the maximum convert to no more than was asked for.
LEMMA ConvertedAtMost ==
  ASSUME NEW boards, X!Boards(boards), NEW u, NEW g \in X!scaled,
         X!by_group(boards, u, g) <= X!group_max(boards, g)
  PROVE  X!group_sheet(boards, u, g).converted <= 10 * Scales[g]
<1>1. g # "exam" /\ g \in X!Groups /\ g \in DOMAIN Scales /\ Scales[g] > 0
  BY DEF X!scaled
<1>2. Scales[g] \in Nat
  BY <1>1, ExportAssumption
<1>3. PICK a \in Nat : a = X!by_group(boards, u, g)
  BY GroupPoints
<1>4. PICK m \in Nat : m = X!group_max(boards, g)
  BY GroupPoints
<1>5. PICK s \in Nat : s = Scales[g]
  BY <1>2
<1>6. X!group_sheet(boards, u, g).converted = X!Tenths(a * s, m)
  BY <1>1, <1>3, <1>4, <1>5 DEF X!group_sheet, X!group_conv
<1>7. CASE m = 0
  BY <1>5, <1>6, <1>7 DEF X!Tenths
<1>8. CASE m # 0
  <2>1. a <= m
    BY <1>3, <1>4
  <2>2. PICK n \in Nat : n = a * s
    OBVIOUS
  <2>3. n <= s * m
    BY <2>1, <2>2, SMTT(30)
  <2>4. PICK k \in Nat : k = s * m
    OBVIOUS
  <2>5. (10 * s) * m = 10 * k
    BY <2>4, SMTT(30)
  <2>6. 10 * n <= (10 * s) * m
    BY <2>3, <2>4, <2>5
  <2>7. X!Round(10 * n, m) <= 10 * s
    BY <1>8, <2>6, RoundAtMost
  <2>8. X!Tenths(n, m) = X!Round(10 * n, m)
    BY <1>8 DEF X!Tenths
  <2>9. QED
    BY <1>5, <1>6, <2>2, <2>7, <2>8
<1>9. QED
  BY <1>7, <1>8

\* A positive factor on both sides can be dropped.
LEMMA DropFactor ==
  ASSUME NEW d \in Nat \ {0}, NEW y \in Int, NEW z \in Int, d * y <= d * z
  PROVE  y <= z
<1>1. ASSUME y >= z + 1 PROVE FALSE
  <2>1. d * y >= d * (z + 1)
    BY <1>1, SMTT(30)
  <2>2. d * (z + 1) = d * z + d
    OBVIOUS
  <2>3. QED
    BY <2>1, <2>2
<1>2. QED
  BY <1>1

\* One more fraction a / m, whose tenths are e when rounded, is added to n / d.
LEMMA GapStep ==
  ASSUME NEW n \in Int, NEW d \in Nat \ {0}, NEW t \in Int, NEW e \in Int, NEW a \in Int,
         NEW m \in Nat \ {0}, NEW k \in Nat,
         2 * (d * t - 10 * n) \in -(k * d)..(k * d), 2 * (m * e - 10 * a) \in -m..m
  PROVE  /\ d * m \in Nat \ {0} /\ n * m + a * d \in Int
         /\ 2 * ((d * m) * (t + e) - 10 * (n * m + a * d)) \in -((k + 1) * (d * m))..((k + 1) * (d * m))
<1>1. PICK y \in Int : y = 2 * (d * t - 10 * n)
  OBVIOUS
<1>2. PICK z \in Int : z = 2 * (m * e - 10 * a)
  OBVIOUS
<1>3. m * y + d * z = 2 * ((d * m) * (t + e) - 10 * (n * m + a * d))
  <2>1. m * y = 2 * (m * (d * t)) - 20 * (m * n)
    BY <1>1
  <2>2. d * z = 2 * (d * (m * e)) - 20 * (d * a)
    BY <1>2
  <2>3. (d * m) * (t + e) = m * (d * t) + d * (m * e)
    OBVIOUS
  <2>4. QED
    BY <2>1, <2>2, <2>3
<1>4. m * y >= m * (-(k * d)) /\ m * y <= m * (k * d)
  <2>1. PICK w \in Int : w = k * d
    OBVIOUS
  <2>2. -w <= y /\ y <= w
    BY <1>1, <2>1
  <2>3. m * (w - y) >= 0 /\ m * (y + w) >= 0
    BY <2>2, SMTT(30)
  <2>4. m * (w - y) = m * w - m * y /\ m * (y + w) = m * y + m * w /\ m * (-w) = -(m * w)
    OBVIOUS
  <2>5. m * y >= m * (-w) /\ m * y <= m * w
    BY <2>3, <2>4
  <2>6. QED
    BY <2>1, <2>5
<1>5. d * z >= -(d * m) /\ d * z <= d * m
  <2>1. -m <= z /\ z <= m
    BY <1>2
  <2>2. d * (m - z) >= 0 /\ d * (z + m) >= 0
    BY <2>1, SMTT(30)
  <2>3. d * (m - z) = d * m - d * z /\ d * (z + m) = d * z + d * m
    OBVIOUS
  <2>4. QED
    BY <2>2, <2>3
<1>6. m * (k * d) = k * (d * m) /\ m * (-(k * d)) = -(k * (d * m)) /\ (k + 1) * (d * m) = k * (d * m) + d * m
  OBVIOUS
<1>7. d * m \in Nat \ {0} /\ n * m + a * d \in Int
  BY SMTT(30)
<1>8. PICK b \in Int : b = k * (d * m)
  OBVIOUS
<1>9. QED
  BY <1>3, <1>4, <1>5, <1>6, <1>7, <1>8

\* What is rounded once and what is rounded column by column differ by little.
LEMMA GapAtEnd ==
  ASSUME NEW n \in Int, NEW d \in Nat \ {0}, NEW t \in Int, NEW k \in Nat, NEW r \in Int,
         2 * (d * t - 10 * n) \in -(k * d)..(k * d), 2 * (d * r - 10 * n) \in -d..d
  PROVE  2 * (r - t) \in -(k + 1)..(k + 1)
<1>1. PICK y \in Int : y = d * t
  OBVIOUS
<1>2. PICK z \in Int : z = d * r
  OBVIOUS
<1>3. PICK w \in Int : w = k * d
  OBVIOUS
<1>4. d * (2 * (r - t)) = 2 * z - 2 * y /\ d * (k + 1) = w + d /\ d * (-(k + 1)) = -(w + d)
  BY <1>1, <1>2, <1>3
<1>5. 2 * (y - 10 * n) \in -w..w /\ 2 * (z - 10 * n) \in -d..d
  BY <1>1, <1>2, <1>3
<1>6. 2 * z - 2 * y <= w + d /\ -(w + d) <= 2 * z - 2 * y
  BY <1>5
<1>7. d * (2 * (r - t)) <= d * (k + 1) /\ d * (-(k + 1)) <= d * (2 * (r - t))
  BY <1>4, <1>6
<1>8. 2 * (r - t) <= k + 1 /\ -(k + 1) <= 2 * (r - t)
  <2>1. 2 * (r - t) \in Int /\ k + 1 \in Int /\ -(k + 1) \in Int
    OBVIOUS
  <2>2. QED
    BY <1>7, <2>1, DropFactor
<1>9. QED
  BY <1>8

\* es are the exams that have points, with their points, those of a student
\* at the weight of the exam and the tenths that a column shows.
Columns(es, mx, pt, e, boards, u) ==
  /\ IsFiniteSet(es)
  /\ \A c : c \in es <=> c \in X!weighted(boards) /\ X!contest_max(boards, c) # 0
  /\ mx \in [es -> Nat \ {0}] /\ pt \in [es -> Int] /\ e \in [es -> Int]
  /\ \A c \in es : mx[c] = X!contest_max(boards, c) /\ pt[c] = X!by_contest(boards, u, c) * Weights[c]
  /\ \A c \in es : 2 * (mx[c] * e[c] - 10 * pt[c]) \in -mx[c]..mx[c]

\* The sum of the exams' fractions, beside that of their rounded tenths.
LEMMA ExamSum ==
  ASSUME NEW boards, NEW u, NEW es, NEW mx, NEW pt, NEW e, Columns(es, mx, pt, e, boards, u)
  PROVE  \E n \in Int, d \in Nat \ {0}, k \in Nat :
           /\ X!exam_total_conv(boards, u) = X!Tenths(n, d)
           /\ k = Cardinality(es) /\ Total(e, es) \in Int
           /\ 2 * (d * Total(e, es) - 10 * n) \in -(k * d)..(k * d)
<1>1. IsFiniteSet(es) /\ es = {c \in X!weighted(boards) : X!contest_max(boards, c) # 0}
  BY DEF Columns
<1>2. mx \in [es -> Nat \ {0}] /\ pt \in [es -> Int] /\ e \in [es -> Int]
  BY DEF Columns
<1>3. \A c \in es : mx[c] = X!contest_max(boards, c) /\ pt[c] = X!by_contest(boards, u, c) * Weights[c]
  BY DEF Columns
<1>4. \A c \in es : 2 * (mx[c] * e[c] - 10 * pt[c]) \in -mx[c]..mx[c]
  BY DEF Columns
<1> USE <1>1, <1>2, <1>3, <1>4
<1> DEFINE new == <<0, 1>>
           pairs == Int \X (Nat \ {0})
           Add(c, f) == <<f[1] * X!contest_max(boards, c) + X!by_contest(boards, u, c) * Weights[c] * f[2],
                          f[2] * X!contest_max(boards, c)>>
           Eq(i) == i = [s \in SUBSET es |-> IF s = {} THEN new
                                             ELSE Add(CHOOSE c \in s : TRUE, i[s \ {CHOOSE c \in s : TRUE}])]
           iter == CHOOSE i : Eq(i)
           step == [d \in es \X pairs |-> <<d[2][1] * mx[d[1]] + pt[d[1]] * d[2][2], d[2][2] * mx[d[1]]>>]
<1>5. X!exam_total_conv(boards, u) = X!Tenths(iter[es][1], iter[es][2])
  BY DEF X!exam_total_conv, X!FoldSet, X!MapThenFoldSet
<1>6. ASSUME NEW c \in es, NEW f \in pairs
      PROVE  /\ step[<<c, f>>] = Add(c, f) /\ step[<<c, f>>] \in pairs
             /\ step[<<c, f>>] = <<f[1] * mx[c] + pt[c] * f[2], f[2] * mx[c]>>
  <2>1. PICK n \in Int, d \in Nat \ {0} : f = <<n, d>> /\ f[1] = n /\ f[2] = d
    OBVIOUS
  <2>2. PICK m \in Nat \ {0} : m = mx[c] /\ m = X!contest_max(boards, c)
    OBVIOUS
  <2>3. PICK a \in Int : a = pt[c] /\ a = X!by_contest(boards, u, c) * Weights[c]
    OBVIOUS
  <2>4. step[<<c, f>>] = <<n * m + a * d, d * m>>
    BY <2>1, <2>2, <2>3
  <2>5. n * m + a * d \in Int /\ d * m \in Nat \ {0}
    BY SMTT(30)
  <2>6. Add(c, f) = <<n * m + a * d, d * m>>
    BY <2>1, <2>2, <2>3
  <2>7. QED
    BY <2>1, <2>2, <2>3, <2>4, <2>5, <2>6
<1> HIDE DEF step, Add
<1>7. new \in pairs
  OBVIOUS
<1>8. PICK f : Folds(f, step, new, es, pairs)
  <2> HIDE DEF new, pairs, Eq, iter
  <2>1. \A c \in es, v \in pairs : step[<<c, v>>] \in pairs
    BY <1>6
  <2>2. QED
    BY <1>7, <2>1, FoldsExist
<1> HIDE DEF new
<1>9. Eq(f)
  <2>1. f = [s \in SUBSET es |-> f[s]] /\ f[{}] = new
    BY <1>8 DEF Folds
  <2>2. ASSUME NEW s \in SUBSET es, s # {}
        PROVE  f[s] = Add(CHOOSE c \in s : TRUE, f[s \ {CHOOSE c \in s : TRUE}])
    <3>1. Some(s) \in s
      BY <2>2, SomeIn
    <3>2. Some(s) \in es /\ f[s \ {Some(s)}] \in pairs
      BY <1>8, <3>1 DEF Folds
    <3>3. f[s] = step[<<Some(s), f[s \ {Some(s)}]>>]
      BY <1>8, <2>2 DEF Folds
    <3>4. f[s] = Add(Some(s), f[s \ {Some(s)}])
      BY <1>6, <3>2, <3>3
    <3>5. QED
      BY <3>4 DEF Some
  <2>3. QED
    BY ZenonT(60), <2>1, <2>2
<1>10. Eq(iter)
  <2> HIDE DEF Eq
  <2> QED BY <1>9
<1>11. PICK i : i = iter
  OBVIOUS
<1>12. /\ i[{}] = new
      /\ \A s \in SUBSET es : s # {} => i[s] = Add(Some(s), i[s \ {Some(s)}])
  <2> HIDE DEF iter
  <2>1. Eq(i)
    BY <1>10, <1>11
  <2>2. \A s \in SUBSET es : i[s] = IF s = {} THEN new
          ELSE Add(CHOOSE c \in s : TRUE, i[s \ {CHOOSE c \in s : TRUE}])
    BY <2>1
  <2>3. QED
    BY <2>2 DEF Some
<1> HIDE DEF iter, Eq
<1> DEFINE Near(s, v) == 2 * (v[2] * Total(e, s) - 10 * v[1]) \in -(Cardinality(s) * v[2])..(Cardinality(s) * v[2])
<1>13. \A s \in SUBSET es : i[s] \in pairs /\ Near(s, i[s])
  <2> DEFINE bad == {s \in SUBSET es : ~(i[s] \in pairs /\ Near(s, i[s]))}
  <2>1. ASSUME bad # {} PROVE FALSE
    <3>1. PICK s \in bad : \A r \in SUBSET s : r # s => r \notin bad
      <4>1. bad \in SUBSET SUBSET es
        OBVIOUS
      <4> HIDE DEF bad
      <4>2. QED
        BY <2>1, <4>1, SmallestSet
    <3>2. s \in SUBSET es /\ ~(i[s] \in pairs /\ Near(s, i[s])) /\ IsFiniteSet(s)
      <4>1. s \in SUBSET es
        OBVIOUS
      <4>2. QED
        BY <4>1, FS_Subset
    <3>3. CASE s = {}
      <4>1. Total(e, s) = 0 /\ Cardinality(s) = 0
        BY <3>3, TotalOfNone, FS_EmptySet
      <4>2. i[s] = <<0, 1>>
        BY <1>12, <3>3 DEF new
      <4>3. QED
        BY <3>2, <4>1, <4>2
    <3>4. CASE s # {}
      <4>1. PICK c : c = Some(s)
        OBVIOUS
      <4>2. PICK r : r = s \ {c}
        OBVIOUS
      <4>3. c \in es /\ c \in s /\ c \notin r /\ r \in SUBSET es /\ r \in SUBSET s /\ r # s /\ s = r \cup {c}
        BY <3>2, <3>4, <4>1, <4>2, SomeIn
      <4>4. r \notin bad
        BY <3>1, <4>3
      <4>5. i[r] \in pairs /\ Near(r, i[r])
        BY <4>3, <4>4
      <4>6. PICK n \in Int, d \in Nat \ {0} : i[r] = <<n, d>>
        BY <4>5
      <4>7. IsFiniteSet(r) /\ Cardinality(r) \in Nat
        BY <3>2, <4>3, FS_Subset, FS_CardinalityType
      <4>8. PICK k \in Nat : k = Cardinality(r)
        BY <4>7
      <4>9. Cardinality(s) = k + 1
        BY <4>3, <4>7, <4>8, FS_AddElement
      <4>10. PICK m \in Nat \ {0} : m = mx[c]
        BY <4>3
      <4>11. PICK a \in Int : a = pt[c]
        BY <4>3
      <4>12. PICK h \in Int : h = e[c]
        BY <4>3
      <4>13. \A y \in r \cup {c} : e[y] \in Int
        BY <4>3
      <4>14. Total(e, r) \in Int /\ Total(e, r \cup {c}) = Total(e, r) + e[c]
        <5>1. IsFiniteSet(r) /\ c \notin r
          BY <4>3, <4>7
        <5> HIDE DEF bad, Near, pairs
        <5>2. QED
          BY <4>13, <5>1, TotalWith
      <4>15. PICK t \in Int : t = Total(e, r)
        BY <4>14
      <4>16. Total(e, s) = t + h
        BY <4>3, <4>12, <4>14, <4>15
      <4>17. 2 * (d * t - 10 * n) \in -(k * d)..(k * d)
        BY <4>5, <4>6, <4>8, <4>15
      <4>18. 2 * (m * h - 10 * a) \in -m..m
        BY <4>3, <4>10, <4>11, <4>12
      <4>19. /\ d * m \in Nat \ {0} /\ n * m + a * d \in Int
             /\ 2 * ((d * m) * (t + h) - 10 * (n * m + a * d)) \in -((k + 1) * (d * m))..((k + 1) * (d * m))
        BY <4>17, <4>18, GapStep
      <4>20. i[s] = step[<<c, i[r]>>]
        <5>1. i[s] = Add(c, i[r])
          BY <1>12, <3>2, <3>4, <4>1, <4>2
        <5>2. c \in es /\ i[r] \in pairs
          BY <4>3, <4>5
        <5> HIDE DEF bad, Near, pairs
        <5>3. step[<<c, i[r]>>] = Add(c, i[r])
          BY <1>6, <5>2
        <5>4. QED
          BY <5>1, <5>3
      <4>21. i[s] = <<n * m + a * d, d * m>>
        <5>1. c \in es /\ i[r] \in pairs
          BY <4>3, <4>5
        <5>2. i[r][1] = n /\ i[r][2] = d
          BY <4>6
        <5> HIDE DEF bad, Near, pairs
        <5>3. step[<<c, i[r]>>] = <<i[r][1] * mx[c] + pt[c] * i[r][2], i[r][2] * mx[c]>>
          BY <1>6, <5>1
        <5>4. QED
          BY <4>10, <4>11, <4>20, <5>2, <5>3
      <4>22. PICK num \in Int, den \in Nat \ {0} : num = n * m + a * d /\ den = d * m
        BY <4>19
      <4>23. i[s] = <<num, den>> /\ 2 * (den * (t + h) - 10 * num) \in -((k + 1) * den)..((k + 1) * den)
        BY <4>19, <4>21, <4>22
      <4>24. i[s] \in pairs /\ Near(s, i[s])
        BY <4>9, <4>16, <4>23
      <4>25. QED
        BY <3>2, <4>24
    <3>5. QED
      BY <3>3, <3>4
  <2>2. QED
    BY <2>1
<1>14. PICK n \in Int, d \in Nat \ {0} : i[es] = <<n, d>> /\ Near(es, <<n, d>>)
  <2>1. i[es] \in pairs /\ Near(es, i[es])
    BY <1>13
  <2>2. PICK v \in pairs : v = i[es]
    BY <2>1
  <2>3. PICK n \in Int, d \in Nat \ {0} : v = <<n, d>>
    OBVIOUS
  <2> HIDE DEF Near, pairs
  <2>4. i[es] = <<n, d>> /\ Near(es, <<n, d>>)
    BY <2>1, <2>2, <2>3
  <2>5. QED
    BY <2>4
<1>15. Cardinality(es) \in Nat /\ Total(e, es) \in Int
  <2>1. \A c \in es : e[c] = e[c] /\ e[c] \in Int
    OBVIOUS
  <2>2. QED
    BY <2>1, FS_CardinalityType, TotalSame
<1>16. X!exam_total_conv(boards, u) = X!Tenths(n, d)
  BY <1>5, <1>11, <1>14
<1>17. 2 * (d * Total(e, es) - 10 * n) \in -(Cardinality(es) * d)..(Cardinality(es) * d)
  BY <1>14
<1>18. QED
  BY <1>15, <1>16, <1>17

\* The total of the exams differs from their columns by rounding alone.
LEMMA ExamsGap ==
  ASSUME NEW boards, X!Boards(boards), NEW u
  PROVE  LET first == X!summary(boards, u)
             exams == DOMAIN first.exams
         IN  2 * (first.exam_total - X!Total(first.exams, exams))
               \in -(X!Cardinality(exams) + 1)..X!Cardinality(exams) + 1
<1>1. PICK ws : ws = X!weighted(boards)
  OBVIOUS
<1>2. ws \subseteq DOMAIN boards /\ IsFiniteSet(ws) /\ \A c \in ws : Weights[c] \in Int
  <2>1. ws \subseteq X!InGroup(boards, "exam") /\ \A c \in ws : c \in DOMAIN Weights
    BY <1>1 DEF X!weighted
  <2>2. X!InGroup(boards, "exam") \subseteq DOMAIN boards /\ IsFiniteSet(X!InGroup(boards, "exam"))
    BY GroupsOf
  <2>3. \A c \in DOMAIN Weights : Weights[c] \in Int
    BY ExportAssumption
  <2>4. QED
    BY <2>1, <2>2, <2>3, FS_Subset
<1>3. PICK all : all = [c \in ws |-> X!contest_max(boards, c)]
  OBVIOUS
<1>4. PICK asked : asked = [c \in ws |-> X!by_contest(boards, u, c) * Weights[c]]
  OBVIOUS
<1>5. PICK cols : cols = [c \in ws |-> X!Tenths(X!by_contest(boards, u, c) * Weights[c], X!contest_max(boards, c))]
  OBVIOUS
<1>6. \A c \in ws : /\ all[c] \in Nat /\ asked[c] \in Int /\ cols[c] = X!Tenths(asked[c], all[c])
                    /\ all[c] = X!contest_max(boards, c)
                    /\ asked[c] = X!by_contest(boards, u, c) * Weights[c]
  <2>1. ASSUME NEW c \in ws
        PROVE  X!contest_max(boards, c) \in Nat /\ X!by_contest(boards, u, c) \in Nat /\ Weights[c] \in Int
    BY <1>2, ContestPoints
  <2>2. QED
    BY <1>3, <1>4, <1>5, <2>1
<1>7. PICK es : es = {c \in ws : all[c] # 0}
  OBVIOUS
<1>8. /\ es = {c \in X!weighted(boards) : X!contest_max(boards, c) # 0}
      /\ es \in SUBSET ws /\ IsFiniteSet(es) /\ \A c \in es : all[c] \in Nat \ {0}
  <2>1. es \in SUBSET ws
    BY <1>7
  <2>2. IsFiniteSet(es)
    BY <1>2, <2>1, FS_Subset
  <2>3. \A c \in es : all[c] \in Nat \ {0}
    BY <1>6, <1>7
  <2>4. es = {c \in X!weighted(boards) : X!contest_max(boards, c) # 0}
    BY <1>1, <1>6, <1>7
  <2>5. QED
    BY <2>1, <2>2, <2>3, <2>4
<1>9. ASSUME NEW c \in es
      PROVE  cols[c] \in Int /\ 2 * (all[c] * cols[c] - 10 * asked[c]) \in -all[c]..all[c]
  <2>1. PICK m \in Nat \ {0} : m = all[c]
    BY <1>8, <1>9
  <2>2. PICK n \in Int : n = 10 * asked[c]
    BY <1>6, <1>8, <1>9
  <2>3. cols[c] = X!Round(n, m)
    BY <1>6, <1>8, <1>9, <2>1, <2>2 DEF X!Tenths
  <2>4. X!Round(n, m) \in Int /\ 2 * (m * X!Round(n, m) - n) \in -m..m
    BY RoundIsNear
  <2>5. QED
    BY <2>1, <2>2, <2>3, <2>4
<1>10. \A c \in ws \ es : cols[c] = 0
  BY <1>6, <1>7 DEF X!Tenths
<1>11. Total(cols, ws) = Total(cols, es)
  <2>1. \A c \in ws : cols[c] \in Int
    BY <1>9, <1>10
  <2>2. QED
    BY <1>2, <1>8, <1>10, <2>1, TotalOfPart
<1>12. PICK mx : mx = [c \in es |-> all[c]]
  OBVIOUS
<1>13. PICK pt : pt = [c \in es |-> asked[c]]
  OBVIOUS
<1>14. PICK e : e = [c \in es |-> cols[c]]
  OBVIOUS
<1>15. Total(e, es) = Total(cols, es)
  <2>1. \A c \in es : e[c] = cols[c] /\ cols[c] \in Int
    BY <1>9, <1>14
  <2>2. QED
    BY <1>8, <2>1, TotalSame
<1>16. PICK n \in Int, d \in Nat \ {0}, k \in Nat :
         /\ X!exam_total_conv(boards, u) = X!Tenths(n, d)
         /\ k = Cardinality(es) /\ Total(e, es) \in Int
         /\ 2 * (d * Total(e, es) - 10 * n) \in -(k * d)..(k * d)
  <2>1. mx \in [es -> Nat \ {0}] /\ pt \in [es -> Int] /\ e \in [es -> Int]
    BY <1>6, <1>8, <1>9, <1>12, <1>13, <1>14
  <2>2. \A c \in es : mx[c] = X!contest_max(boards, c)
    BY <1>6, <1>8, <1>12
  <2>3. \A c \in es : pt[c] = X!by_contest(boards, u, c) * Weights[c]
    BY <1>6, <1>8, <1>13
  <2>4. \A c \in es : 2 * (mx[c] * e[c] - 10 * pt[c]) \in -mx[c]..mx[c]
    BY <1>9, <1>12, <1>13, <1>14
  <2>5. IsFiniteSet(es) /\ \A c : c \in es <=> c \in X!weighted(boards) /\ X!contest_max(boards, c) # 0
    BY <1>8
  <2>6. Columns(es, mx, pt, e, boards, u)
    BY <2>1, <2>2, <2>3, <2>4, <2>5 DEF Columns
  <2>7. QED
    BY <2>6, ExamSum
<1>17. PICK t \in Int : t = Total(e, es)
  BY <1>16
<1>18. PICK r \in Int : r = X!Round(10 * n, d)
  BY RoundIsNear
<1>19. 2 * (d * r - 10 * n) \in -d..d
  <2>1. PICK m \in Int : m = 10 * n
    OBVIOUS
  <2>2. 2 * (d * X!Round(m, d) - m) \in -d..d
    BY RoundIsNear
  <2>3. QED
    BY <1>18, <2>1, <2>2
<1>20. 2 * (r - t) \in -(k + 1)..(k + 1)
  <2>1. 2 * (d * t - 10 * n) \in -(k * d)..(k * d)
    BY <1>16, <1>17
  <2>2. QED
    BY <1>19, <2>1, GapAtEnd
<1>21. X!exam_total_conv(boards, u) = r
  BY <1>16, <1>18 DEF X!Tenths
<1>22. PICK w \in Nat : w = Cardinality(ws) /\ k <= w
  BY <1>2, <1>8, <1>16, FS_CardinalityType, FS_Subset
<1>23. /\ X!summary(boards, u).exam_total = r
       /\ X!summary(boards, u).exams = cols
  BY <1>1, <1>5, <1>21 DEF X!summary
<1>24. DOMAIN cols = ws /\ X!Total(cols, ws) = t /\ X!Cardinality(ws) = w
  BY <1>5, <1>11, <1>15, <1>17, <1>22, XTotal, XCard
<1>25. 2 * (r - t) \in -(w + 1)..(w + 1)
  BY <1>20, <1>22
<1>26. QED
  BY <1>23, <1>24, <1>25

\* What the invariant says of the boards makes the sheets agree.
LEMMA SheetsTrue ==
  ASSUME X!ExportInv
  PROVE  X!SheetsAgree
<1> SUFFICES ASSUME x6 # None, NEW u \in X!Listed(x6)
             PROVE  LET first == X!summary(x6, u)
                        rows == {r \in X!raw_sheet(x6) : r.user = u}
                        exams == DOMAIN first.exams
                        gap == first.exam_total - X!Total(first.exams, exams)
                    IN
                    /\ first.total = X!Total(first.groups, DOMAIN first.groups)
                    /\ \A g \in X!Groups : LET sheet == X!group_sheet(x6, u, g) IN
                         /\ sheet.subtotal = X!Points({r \in rows : r.group = g})
                         /\ sheet.subtotal = X!Total(sheet.contests, DOMAIN sheet.contests)
                         /\ g \in X!scaled /\ sheet.subtotal <= X!group_max(x6, g)
                              => sheet.converted <= 10 * Scales[g]
                    /\ \A c \in exams : u \in x6[c].users =>
                         first.exams[c] = X!contest_sheet(x6[c], u, Weights[c]).converted
                    /\ 2 * gap \in -(X!Cardinality(exams) + 1) .. X!Cardinality(exams) + 1
  BY DEF X!SheetsAgree
<1>1. X!Boards(x6)
  BY DEF X!ExportInv
<1>2. X!summary(x6, u).total = X!Total(X!summary(x6, u).groups, DOMAIN X!summary(x6, u).groups)
  BY <1>1, TotalOfGroups
<1>3. ASSUME NEW g \in X!Groups
      PROVE  LET sheet == X!group_sheet(x6, u, g) IN
             /\ sheet.subtotal = X!Points({r \in {q \in X!raw_sheet(x6) : q.user = u} : r.group = g})
             /\ sheet.subtotal = X!Total(sheet.contests, DOMAIN sheet.contests)
             /\ g \in X!scaled /\ sheet.subtotal <= X!group_max(x6, g)
                  => sheet.converted <= 10 * Scales[g]
  <2>1. X!group_sheet(x6, u, g).subtotal = X!by_group(x6, u, g)
    BY DEF X!group_sheet
  <2>2. X!by_group(x6, u, g) = X!Points({r \in {q \in X!raw_sheet(x6) : q.user = u} : r.group = g})
    BY <1>1, <1>3, RowsOfGroup
  <2>3. PICK f : f = [c \in X!InGroup(x6, g) |-> X!by_contest(x6, u, c)]
    OBVIOUS
  <2>4. /\ X!group_sheet(x6, u, g).contests = f /\ DOMAIN f = X!InGroup(x6, g)
        /\ X!by_group(x6, u, g) = X!Total(f, X!InGroup(x6, g))
    BY <2>3 DEF X!group_sheet, X!by_group
  <2>5. g \in X!scaled /\ X!by_group(x6, u, g) <= X!group_max(x6, g)
          => X!group_sheet(x6, u, g).converted <= 10 * Scales[g]
    BY <1>1, ConvertedAtMost
  <2>6. QED
    BY <2>1, <2>2, <2>4, <2>5
<1>4. ASSUME NEW c \in DOMAIN X!summary(x6, u).exams, u \in x6[c].users
      PROVE  X!summary(x6, u).exams[c] = X!contest_sheet(x6[c], u, Weights[c]).converted
  <2>1. PICK cols : cols = [d \in X!weighted(x6) |->
                      X!Tenths(X!by_contest(x6, u, d) * Weights[d], X!contest_max(x6, d))]
    OBVIOUS
  <2>2. X!summary(x6, u).exams = cols
    BY <2>1 DEF X!summary
  <2>3. cols[c] = X!Tenths(X!by_contest(x6, u, c) * Weights[c], X!contest_max(x6, c))
    BY <1>4, <2>1, <2>2
  <2>4. /\ X!student_totals(x6[c], u).auto_total = X!by_contest(x6, u, c)
        /\ X!student_totals(x6[c], u).auto_max = X!contest_max(x6, c)
    BY <1>4 DEF X!student_totals, X!by_contest, X!contest_max
  <2>5. X!contest_sheet(x6[c], u, Weights[c]).converted =
          X!Tenths(X!student_totals(x6[c], u).auto_total * Weights[c], X!student_totals(x6[c], u).auto_max)
    BY DEF X!contest_sheet
  <2>6. QED
    BY <2>2, <2>3, <2>4, <2>5
<1>5. LET first == X!summary(x6, u)
          exams == DOMAIN first.exams
      IN  2 * (first.exam_total - X!Total(first.exams, exams))
            \in -(X!Cardinality(exams) + 1)..X!Cardinality(exams) + 1
  BY <1>1, ExamsGap
<1>6. QED
  BY <1>2, <1>3, <1>4, <1>5

-----------------------------------------------------------------------------
(* The services together.                                                  *)

\* The invariant of the test cases' files, whichever bounds they are followed
\* with, and that of the exports.
FocusInv ==
  /\ focus = "files" => P("files")!FilesInv
  /\ focus = "sharing" => P("sharing")!FilesInv
  /\ focus = "export" => X!ExportInv

LEMMA FocusStart == Init => FocusInv
<1> SUFFICES ASSUME Init PROVE FocusInv
  OBVIOUS
<1>1. CASE focus = "files"
  <2>1. P("files")!Init
    BY <1>1 DEF Init
  <2>2. QED
    BY <1>1, <2>1, FilesInit DEF FocusInv
<1>2. CASE focus = "sharing"
  <2>1. P("sharing")!Init
    BY <1>2 DEF Init
  <2>2. QED
    BY <1>2, <2>1, FilesInit DEF FocusInv
<1>3. CASE focus = "export"
  BY <1>3, ExportInit DEF Init, FocusInv
<1>4. QED
  BY <1>1, <1>2, <1>3 DEF FocusInv

LEMMA FocusKeeps ==
  ASSUME NoneIsNoRecord, FocusInv, [Next]_vars
  PROVE  FocusInv'
<1>1. focus' = focus
  BY DEF Next, vars
<1>2. CASE focus = "files"
  <2>1. P("files")!FilesInv /\ (P("files")!Next \/ UNCHANGED vars)
    BY <1>2 DEF FocusInv, Next
  <2>2. P("files")!FilesInv'
    BY <2>1, FilesStep, FilesStutter
  <2>3. QED
    BY <1>1, <1>2, <2>2 DEF FocusInv
<1>3. CASE focus = "sharing"
  <2>1. P("sharing")!FilesInv /\ (P("sharing")!Next \/ UNCHANGED vars)
    BY <1>3 DEF FocusInv, Next
  <2>2. P("sharing")!FilesInv'
    BY <2>1, FilesStep, FilesStutter
  <2>3. QED
    BY <1>1, <1>3, <2>2 DEF FocusInv
<1>4. CASE focus = "export"
  <2>1. X!ExportInv /\ (X!Next \/ UNCHANGED vars)
    BY <1>4 DEF FocusInv, Next
  <2>2. QED
    BY <1>1, <1>4, <2>1, ExportStep, ExportStutter DEF FocusInv
<1>5. QED
  BY <1>1, <1>2, <1>3, <1>4 DEF FocusInv

\* The invariant of uploads, copies, prunings, renamings and exports is kept,
\* for every number of cases, problems, students and requests: also when a
\* renaming dies with its info emptied.
THEOREM FilesAreKept ==
  ASSUME NoneIsNoRecord
  PROVE  Spec => []FocusInv
<1>1. FocusInv /\ [Next]_vars => FocusInv'
  BY FocusKeeps
<1>2. QED
  BY <1>1, FocusStart, PTL DEF Spec

\* A problem has a directory that was written to its end, however uploads,
\* imports, copies, renamings and crashes overlap.  Excepted are a directory
\* that a pruning found without a problem, and the info that a renaming under
\* way has emptied, or one that died there, with the copies taken of it.
THEOREM FilesStay ==
  ASSUME NoneIsNoRecord
  PROVE  Spec => []FilesExist
<1>1. FocusInv => FilesExist
  BY FilesAreGood DEF FocusInv, FilesExist
<1>2. QED
  BY <1>1, FilesAreKept, PTL

\* info describes the files of a directory that no renaming has or left behind.
THEOREM InfoStaysTrue ==
  ASSUME NoneIsNoRecord
  PROVE  Spec => []InfoDescribesFiles
<1>1. FocusInv => InfoDescribesFiles
  BY FilesAreGood DEF FocusInv, InfoDescribesFiles
<1>2. QED
  BY <1>1, FilesAreKept, PTL

\* A renaming loses no file at whichever of its moves it stops, however many
\* cases there are.
THEOREM CasesStay ==
  ASSUME NoneIsNoRecord
  PROVE  Spec => []NoCaseLost
<1>1. FocusInv => NoCaseLost
  BY FilesAreGood DEF FocusInv, NoCaseLost
<1>2. QED
  BY <1>1, FilesAreKept, PTL

\* The sheets of one workbook agree on a student's points, whatever is judged,
\* evaluated, added and deleted while its boards are read one by one.
THEOREM SheetsStayTrue ==
  ASSUME NoneIsNoRecord
  PROVE  Spec => []SheetsAgree
<1>1. FocusInv => SheetsAgree
  BY SheetsTrue DEF FocusInv, SheetsAgree
<1>2. QED
  BY <1>1, FilesAreKept, PTL
====
