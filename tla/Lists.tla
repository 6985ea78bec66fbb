-------------------------------- MODULE Lists --------------------------------
(***************************************************************************)
(* Lemmas about lists without repetitions and the operations on them that  *)
(* the components use: the least-recently-used list of the page cache, the *)
(* server's connections waiting to be accepted and served, the cells of a  *)
(* node.  At the end, induction on a number, stated of a set of numbers,   *)
(* and the functions by which loops are written.                           *)
(***************************************************************************)
EXTENDS Integers, SequencesExt, SequenceTheorems, FiniteSetTheorems, WellFoundedInduction, TLAPS

Member(p, list) == \E i \in 1 .. Len(list) : list[i] = p

Distinct(list) == \A i, j \in 1 .. Len(list) : list[i] = list[j] => i = j

-----------------------------------------------------------------------------
LEMMA EmptyList == Distinct(<<>>) /\ \A q : ~Member(q, <<>>)
BY DEF Distinct, Member

LEMMA AppendElements ==
  ASSUME NEW S, NEW list \in Seq(S), NEW p \in S
  PROVE  /\ Append(list, p) \in Seq(S)
         /\ \A q : Member(q, Append(list, p)) <=> Member(q, list) \/ q = p
         /\ Distinct(list) /\ ~Member(p, list) => Distinct(Append(list, p))
<1> DEFINE new == Append(list, p)
           n == Len(list)
<1>1. /\ new \in Seq(S) /\ n \in Nat /\ Len(new) = n + 1
      /\ new[n + 1] = p /\ \A i \in 1 .. n : new[i] = list[i]
  BY AppendProperties
<1> HIDE DEF new, n
<1>2. \A i \in 1 .. n + 1 : i \in 1 .. n \/ i = n + 1
  BY <1>1
<1>3. n + 1 \in 1 .. n + 1 /\ \A i \in 1 .. n : i \in 1 .. n + 1
  BY <1>1
<1>4. ASSUME NEW q PROVE Member(q, new) <=> Member(q, list) \/ q = p
  <2>1. Member(q, new) <=> \E i \in 1 .. n + 1 : new[i] = q
    BY <1>1 DEF Member
  <2>2. Member(q, list) <=> \E i \in 1 .. n : list[i] = q
    BY DEF Member, n
  <2> QED BY <1>1, <1>2, <1>3, <2>1, <2>2
<1>5. ASSUME Distinct(list), ~Member(p, list) PROVE Distinct(new)
  <2>1. /\ \A i, j \in 1 .. n : list[i] = list[j] => i = j
        /\ \A i \in 1 .. n : list[i] # p
    BY <1>5 DEF Distinct, Member, n
  <2> QED BY <1>1, <1>2, <2>1 DEF Distinct
<1> QED BY <1>1, <1>4, <1>5 DEF new

LEMMA TailElements ==
  ASSUME NEW S, NEW list \in Seq(S), list # <<>>, Distinct(list)
  PROVE  /\ Head(list) \in S /\ Tail(list) \in Seq(S)
         /\ Distinct(Tail(list))
         /\ \A q : Member(q, Tail(list)) <=> Member(q, list) /\ q # Head(list)
         /\ Member(Head(list), list)
<1> DEFINE rest == Tail(list)
           n == Len(list)
<1>1. /\ Head(list) = list[1] /\ rest \in Seq(S) /\ Head(list) \in S
      /\ n \in Nat \ {0} /\ Len(rest) = n - 1
      /\ \A i \in 1 .. n - 1 : rest[i] = list[i + 1]
  BY HeadTailProperties, EmptySeq
<1> HIDE DEF rest, n
<1>2. /\ \A i \in 1 .. n - 1 : i + 1 \in 2 .. n
      /\ \A i \in 2 .. n : i - 1 \in 1 .. n - 1 /\ (i - 1) + 1 = i
      /\ \A i \in 1 .. n : i = 1 \/ i \in 2 .. n
      /\ 1 \in 1 .. n
  BY <1>1
<1>3. \A i, j \in 1 .. n : list[i] = list[j] => i = j
  BY DEF Distinct, n
<1>4. Distinct(rest)
  <2>1. ASSUME NEW i \in 1 .. n - 1, NEW j \in 1 .. n - 1, rest[i] = rest[j] PROVE i = j
    <3>1. i + 1 \in 1 .. n /\ j + 1 \in 1 .. n /\ list[i + 1] = list[j + 1]
      BY <1>1, <2>1
    <3>2. i + 1 = j + 1
      BY <1>3, <3>1
    <3> QED BY <1>1, <3>2
  <2> QED BY <1>1, <2>1 DEF Distinct
<1>5. ASSUME NEW q PROVE Member(q, rest) <=> Member(q, list) /\ q # Head(list)
  <2>1. Member(q, rest) <=> \E i \in 1 .. n - 1 : rest[i] = q
    BY <1>1 DEF Member
  <2>2. Member(q, list) <=> \E i \in 1 .. n : list[i] = q
    BY DEF Member, n
  <2>3. ASSUME NEW i \in 1 .. n - 1, rest[i] = q
        PROVE  Member(q, list) /\ q # Head(list)
    <3>1. i + 1 \in 1 .. n /\ i + 1 # 1 /\ list[i + 1] = q
      BY <1>1, <2>3
    <3> QED BY <1>1, <1>2, <1>3, <2>2, <3>1
  <2>4. ASSUME NEW i \in 1 .. n, list[i] = q, q # Head(list)
        PROVE  Member(q, rest)
    <3>1. i - 1 \in 1 .. n - 1 /\ rest[i - 1] = list[i]
      BY <1>1, <1>2, <2>4
    <3> QED BY <2>1, <2>4, <3>1
  <2> QED BY <2>1, <2>2, <2>3, <2>4
<1>6. Member(Head(list), list)
  BY <1>1, <1>2 DEF Member, n
<1> QED BY <1>1, <1>4, <1>5, <1>6 DEF rest

LEMMA RemoveAtElements ==
  ASSUME NEW S, NEW list \in Seq(S), NEW n \in 1 .. Len(list)
  PROVE  /\ RemoveAt(list, n) \in Seq(S)
         /\ Len(RemoveAt(list, n)) = Len(list) - 1
         /\ \A i \in 1 .. Len(list) - 1 :
              RemoveAt(list, n)[i] = IF i < n THEN list[i] ELSE list[i + 1]
<1> DEFINE before == SubSeq(list, 1, n - 1)
           after  == SubSeq(list, n + 1, Len(list))
<1>1. Len(list) \in Nat /\ \A i \in 1 .. Len(list) : list[i] \in S
  OBVIOUS
<1>2. /\ before \in Seq(S) /\ Len(before) = n - 1
      /\ \A i \in 1 .. n - 1 : before[i] = list[i]
  BY <1>1
<1>3. /\ after \in Seq(S) /\ Len(after) = Len(list) - n
      /\ \A i \in 1 .. Len(list) - n : after[i] = list[n + i]
  BY <1>1
<1>4. RemoveAt(list, n) = before \o after
  BY DEF RemoveAt
<1> QED
  <2> HIDE DEF before, after
  <2>1. /\ before \o after \in Seq(S)
        /\ Len(before \o after) = Len(before) + Len(after)
        /\ \A i \in 1 .. Len(before) + Len(after) :
             (before \o after)[i] = IF i <= Len(before) THEN before[i] ELSE after[i - Len(before)]
    BY <1>2, <1>3, ConcatProperties
  <2>2. Len(before) + Len(after) = Len(list) - 1
    BY <1>1, <1>2, <1>3
  <2>3. ASSUME NEW i \in 1 .. Len(list) - 1
        PROVE  (before \o after)[i] = IF i < n THEN list[i] ELSE list[i + 1]
    <3>1. CASE i < n
      BY <1>1, <1>2, <2>1, <2>2, <3>1
    <3>2. CASE i >= n
      <4>1. i - Len(before) \in 1 .. Len(list) - n /\ n + (i - Len(before)) = i + 1
        BY <1>1, <1>2, <3>2
      <4>2. after[i - Len(before)] = list[i + 1]
        BY <1>3, <4>1
      <4> QED BY <1>1, <1>2, <2>1, <2>2, <3>2, <4>2
    <3>3. i \in Int /\ n \in Int
      BY <1>1
    <3>4. i < n \/ i >= n
      BY <3>3
    <3> QED BY <3>1, <3>2, <3>4
  <2> QED BY <1>4, <2>1, <2>2, <2>3

LEMMA InsertAtElements ==
  ASSUME NEW S, NEW list \in Seq(S), NEW n \in 1 .. Len(list) + 1, NEW e \in S
  PROVE  /\ InsertAt(list, n, e) \in Seq(S)
         /\ Len(InsertAt(list, n, e)) = Len(list) + 1
         /\ \A i \in 1 .. n - 1 : InsertAt(list, n, e)[i] = list[i]
         /\ InsertAt(list, n, e)[n] = e
         /\ \A i \in n + 1 .. Len(list) + 1 : InsertAt(list, n, e)[i] = list[i - 1]
<1> DEFINE before == SubSeq(list, 1, n - 1)
           after  == SubSeq(list, n, Len(list))
           front  == before \o <<e>>
<1>1. Len(list) \in Nat /\ \A i \in 1 .. Len(list) : list[i] \in S
  OBVIOUS
<1>2. /\ before \in Seq(S) /\ Len(before) = n - 1
      /\ \A i \in 1 .. n - 1 : before[i] = list[i]
  BY <1>1
<1>3. /\ after \in Seq(S) /\ Len(after) = Len(list) - n + 1
      /\ \A i \in 1 .. Len(list) - n + 1 : after[i] = list[n + i - 1]
  BY <1>1
<1>4. InsertAt(list, n, e) = front \o after
  BY DEF InsertAt
<1> HIDE DEF before, after
<1>5. /\ front \in Seq(S) /\ Len(front) = n
      /\ \A i \in 1 .. n - 1 : front[i] = list[i]
      /\ front[n] = e
  <2>1. <<e>> \in Seq(S) /\ Len(<<e>>) = 1 /\ <<e>>[1] = e
    OBVIOUS
  <2>2. /\ front \in Seq(S) /\ Len(front) = (n - 1) + 1
        /\ \A i \in 1 .. (n - 1) + 1 : front[i] = IF i <= n - 1 THEN before[i] ELSE <<e>>[i - (n - 1)]
    <3> DEFINE one == <<e>>
    <3> HIDE DEF one
    <3>1. /\ before \o one \in Seq(S) /\ Len(before \o one) = Len(before) + Len(one)
          /\ \A i \in 1 .. Len(before) + Len(one) :
               (before \o one)[i] = IF i <= Len(before) THEN before[i] ELSE one[i - Len(before)]
      <4>1. before \in Seq(S) /\ one \in Seq(S)
        BY <1>2 DEF one
      <4> QED BY ONLY <4>1, ConcatProperties
    <3> QED BY ONLY <1>2, <2>1, <3>1 DEF one, front
  <2>3. n \in Nat /\ n >= 1
    BY <1>1
  <2> HIDE DEF front
  <2>4. front[n] = <<e>>[n - (n - 1)]
    BY <2>2, <2>3
  <2>5. n - (n - 1) = 1
    BY <2>3
  <2>6. \A i \in 1 .. n - 1 : i \in 1 .. (n - 1) + 1 /\ i <= n - 1
    BY <2>3
  <2>7. front \in Seq(S) /\ Len(front) = n
    BY ONLY <2>2, <2>3
  <2>8. front[n] = e
    BY ONLY <2>1, <2>4, <2>5
  <2>9. \A i \in 1 .. n - 1 : front[i] = list[i]
    BY ONLY <1>2, <2>2, <2>6
  <2> QED BY <2>7, <2>8, <2>9
<1> HIDE DEF front
<1>6. /\ front \o after \in Seq(S) /\ Len(front \o after) = Len(list) + 1
      /\ \A i \in 1 .. Len(list) + 1 :
           (front \o after)[i] = IF i <= n THEN front[i] ELSE after[i - n]
  <2>1. /\ front \o after \in Seq(S) /\ Len(front \o after) = Len(front) + Len(after)
        /\ \A i \in 1 .. Len(front) + Len(after) :
             (front \o after)[i] = IF i <= Len(front) THEN front[i] ELSE after[i - Len(front)]
    BY <1>3, <1>5, ConcatProperties
  <2>2. Len(front) + Len(after) = Len(list) + 1
    BY <1>1, <1>3, <1>5
  <2> QED BY <1>5, <2>1, <2>2
<1>7. ASSUME NEW i \in 1 .. n - 1 PROVE (front \o after)[i] = list[i]
  <2>1. i <= n /\ i \in 1 .. Len(list) + 1
    BY <1>1
  <2> QED BY <1>5, <1>6, <2>1
<1>8. (front \o after)[n] = e
  BY <1>1, <1>5, <1>6
<1>9. ASSUME NEW i \in n + 1 .. Len(list) + 1 PROVE (front \o after)[i] = list[i - 1]
  <2>1. /\ ~ (i <= n) /\ i \in 1 .. Len(list) + 1
        /\ i - n \in 1 .. Len(list) - n + 1 /\ n + (i - n) - 1 = i - 1
    BY <1>1
  <2> QED BY <1>3, <1>6, <2>1
<1> QED BY <1>4, <1>6, <1>7, <1>8, <1>9

\* A list without repetitions has one place, or none, for each element.
LEMMA PlacesCounted ==
  ASSUME NEW S, NEW list \in Seq(S), Distinct(list), NEW q
  PROVE  Cardinality({i \in 1 .. Len(list) : list[i] = q}) = IF Member(q, list) THEN 1 ELSE 0
<1> DEFINE places == {i \in 1 .. Len(list) : list[i] = q}
<1>1. CASE Member(q, list)
  <2>1. PICK i \in 1 .. Len(list) : list[i] = q
    BY <1>1 DEF Member
  <2>2. places = {i}
    BY <2>1 DEF Distinct
  <2> QED BY <1>1, <2>2, FS_Singleton
<1>2. CASE ~Member(q, list)
  <2>1. places = {}
    BY <1>2 DEF Member
  <2> QED BY <1>2, <2>1, FS_EmptySet
<1> QED BY <1>1, <1>2

\* So does a set with at most one element that satisfies a condition.
LEMMA AtMostOneCounted ==
  ASSUME NEW T, \A v, w \in T : v = w
  PROVE  Cardinality(T) = IF T # {} THEN 1 ELSE 0
<1>1. CASE T = {}
  BY <1>1, FS_EmptySet
<1>2. CASE T # {}
  <2>1. PICK w \in T : TRUE
    BY <1>2
  <2>2. T = {w}
    BY <2>1
  <2> QED BY <1>2, <2>2, FS_Singleton
<1> QED BY <1>1, <1>2
-----------------------------------------------------------------------------
(***************************************************************************)
(* Induction and loops.                                                    *)
(***************************************************************************)

LEMMA LeastNumber ==
  ASSUME NEW T \in SUBSET Nat, T # {}
  PROVE  \E x \in T : \A y \in T : x <= y
<1> DEFINE R == {ss \in Nat \X Nat : ss[1] < ss[2]}
<1>1. IsWellFoundedOn(R, Nat)
  <2>1. OpToRel(<, Nat) = R
    BY Zenon DEF OpToRel
  <2> QED BY <2>1, NatLessThanWellFounded, Zenon
<1>2. PICK x \in T : \A y \in T : ~ (<<y, x>> \in R)
  <2> HIDE DEF R
  <2> QED BY <1>1, WFMin, Zenon
<1>3. ASSUME NEW y \in T PROVE x <= y
  <2>1. <<y, x>> \in Nat \X Nat /\ <<y, x>>[1] = y /\ <<y, x>>[2] = x
    OBVIOUS
  <2>2. ~ (y < x)
    BY <1>2, <2>1
  <2> QED BY <2>2
<1> QED BY <1>3

LEMMA InductionTo ==
  ASSUME NEW n \in Nat, NEW S,
         0 \in S, \A i \in 0 .. n : i \in S /\ i + 1 <= n => i + 1 \in S
  PROVE  \A i \in 0 .. n : i \in S
<1> SUFFICES ASSUME (0 .. n) \ S # {} PROVE FALSE
  OBVIOUS
<1>1. PICK x \in (0 .. n) \ S : \A y \in (0 .. n) \ S : x <= y
  <2> DEFINE T == (0 .. n) \ S
  <2>1. T \in SUBSET Nat /\ T # {}
    OBVIOUS
  <2> HIDE DEF T
  <2>2. \E x \in T : \A y \in T : x <= y
    BY <2>1, LeastNumber
  <2> QED BY <2>2 DEF T
<1>2. x # 0 /\ x - 1 \in 0 .. n /\ (x - 1) + 1 = x
  BY <1>1
<1>3. x - 1 \in S
  BY <1>1, <1>2
<1> QED BY <1>1, <1>2, <1>3

\* What a loop of n turns makes of s0, turn i being step[i].
LEMMA Loop ==
  ASSUME NEW S, NEW s0 \in S, NEW n \in Nat, NEW step \in [1 .. n -> [S -> S]]
  PROVE  \E f \in [0 .. n -> S] : f[0] = s0 /\ \A i \in 1 .. n : f[i] = step[i][f[i - 1]]
<1> DEFINE Runs(k) == \E f \in [0 .. k -> S] : f[0] = s0 /\ \A i \in 1 .. k : f[i] = step[i][f[i - 1]]
           T == {k \in 0 .. n : Runs(k)}
<1>1. Runs(0)
  <2>1. [i \in 0 .. 0 |-> s0] \in [0 .. 0 -> S] /\ [i \in 0 .. 0 |-> s0][0] = s0
    OBVIOUS
  <2>2. \A i \in 1 .. 0 : FALSE
    OBVIOUS
  <2> QED BY <2>1, <2>2
<1>2. ASSUME NEW k \in 0 .. n, Runs(k), k + 1 <= n PROVE Runs(k + 1)
  <2>1. PICK f \in [0 .. k -> S] : f[0] = s0 /\ \A i \in 1 .. k : f[i] = step[i][f[i - 1]]
    BY <1>2
  <2> DEFINE g == [i \in 0 .. k + 1 |-> IF i <= k THEN f[i] ELSE step[k + 1][f[k]]]
  <2>2. f[k] \in S /\ k + 1 \in 1 .. n
    BY <1>2, <2>1
  <2>3. g \in [0 .. k + 1 -> S]
    BY <2>1, <2>2, <1>2
  <2>4. g[0] = s0
    BY <2>1, <1>2
  <2>5. ASSUME NEW i \in 1 .. k + 1 PROVE g[i] = step[i][g[i - 1]]
    <3>1. CASE i <= k
      <4>1. i \in 1 .. k /\ i \in 0 .. k + 1 /\ i - 1 \in 0 .. k + 1 /\ i - 1 <= k
        BY <3>1, <1>2
      <4> QED BY <2>1, <3>1, <4>1
    <3>2. CASE i = k + 1
      <4>1. i - 1 = k /\ k \in 0 .. k + 1 /\ k + 1 \in 0 .. k + 1 /\ ~ (k + 1 <= k) /\ k <= k
        BY <3>2, <1>2
      <4> QED BY <3>2, <4>1
    <3> QED BY <3>1, <3>2, <1>2
  <2> HIDE DEF g
  <2> QED BY <2>3, <2>4, <2>5
<1>3. n \in T
  <2> HIDE DEF Runs
  <2>1. 0 \in T /\ \A k \in 0 .. n : k \in T /\ k + 1 <= n => k + 1 \in T
    BY <1>1, <1>2
  <2> HIDE DEF T
  <2>2. \A k \in 0 .. n : k \in T
    BY <2>1, InductionTo
  <2> QED BY <2>2
<1> QED BY <1>3
=============================================================================
