----------------------------- MODULE TestRunnersProofs -----------------------------
(***************************************************************************)
(* Proofs about TestRunners, for every tree of tests and every sequence of *)
(* clicks.                                                                 *)
(*                                                                         *)
(* A front end does to the run of the tests what RunSteps lists; what      *)
(* holds of the run alone follows from these steps.                        *)
(***************************************************************************)
EXTENDS TestRunners, SequenceTheorems, FiniteSetTheorems, TLAPS

\* Induction, over a set of natural numbers.
LEMMA InductiveSet ==
  ASSUME NEW S \in SUBSET Nat, 0 \in S, \A n \in S : n + 1 \in S
  PROVE  S = Nat
<1> DEFINE Less == {pair \in Nat \X Nat : pair[1] < pair[2]}
<1> SUFFICES ASSUME Nat \ S # {} PROVE FALSE
  OBVIOUS
<1>1. IsWellFoundedOn(Less, Nat)
  BY NatLessThanWellFounded DEF OpToRel
<1>2. PICK x \in Nat \ S : \A y \in Nat \ S : <<y, x>> \notin Less
  <2> HIDE DEF Less
  <2>1. Nat \ S \subseteq Nat
    OBVIOUS
  <2> QED BY <1>1, <2>1, WFMin
<1>3. x # 0 /\ x - 1 \in Nat
  OBVIOUS
<1>4. <<x - 1, x>> \in Less
  BY <1>3
<1>5. x - 1 \in S
  <2> HIDE DEF Less
  <2> QED BY <1>2, <1>3, <1>4
<1>6. (x - 1) + 1 = x
  BY <1>3
<1> QED
  BY <1>5, <1>6

-----------------------------------------------------------------------------
(***************************************************************************)
(* The number of test cases: countTestCases is a solution of its equation, *)
(* since the tests are a tree, and adds up what the children have.         *)
(***************************************************************************)
Total(count, seq) == FoldLeft(LAMBDA total, child : total + count[child], 0, seq)

IsAdding(iter, count, seq, S) ==
  iter = [s \in SUBSET S |->
            IF s = {} THEN 0
            ELSE LET x == Max(s) IN iter[s \ {x}] + count[seq[x]]]

IsSum(sum, count, seq) ==
  /\ sum[0] = 0
  /\ \A n \in 1 .. Len(seq) : sum[n] = sum[n - 1] + count[seq[n]]

LEMMA TotalIsFold ==
  ASSUME NEW count, NEW seq
  PROVE  Total(count, seq) = (CHOOSE iter : IsAdding(iter, count, seq, DOMAIN seq))[DOMAIN seq]
BY DEF Total, FoldLeft, MapThenFoldSet, IsAdding

\* What is left of a set of places without the last one.
LEMMA WithoutLast ==
  ASSUME NEW n \in Nat, NEW s \in SUBSET (1 .. n + 1)
  PROVE  s \ {Max(s)} \in SUBSET (1 .. n)
<1>1. CASE n + 1 \in s
  <2>1. \A x \in s : (\A y \in s : x >= y) <=> x = n + 1
    BY <1>1
  <2>2. Max(s) = n + 1
    BY <1>1, <2>1 DEF Max
  <2> QED BY <2>2
<1>2. CASE n + 1 \notin s
  <2>1. \A x \in s : x \in 1 .. n + 1 /\ x # n + 1
    BY <1>2
  <2>2. \A x \in s : x \in 1 .. n
    BY <2>1
  <2> QED BY <2>2
<1> QED BY <1>1, <1>2

LEMMA AddingExists ==
  ASSUME NEW count, NEW seq, NEW n \in Nat
  PROVE  \E iter : IsAdding(iter, count, seq, 1 .. n)
<1> DEFINE S == {k \in Nat : \E iter : IsAdding(iter, count, seq, 1 .. k)}
<1>1. 0 \in S
  <2> DEFINE iter == [s \in SUBSET (1 .. 0) |-> 0]
  <2>1. \A s \in SUBSET (1 .. 0) : s = {}
    OBVIOUS
  <2>2. IsAdding(iter, count, seq, 1 .. 0)
    BY <2>1 DEF IsAdding
  <2> QED BY <2>2
<1>2. ASSUME NEW k \in S PROVE k + 1 \in S
  <2>1. PICK h : IsAdding(h, count, seq, 1 .. k)
    OBVIOUS
  <2> DEFINE Body(f, s) == IF s = {} THEN 0 ELSE f[s \ {Max(s)}] + count[seq[Max(s)]]
             g == [s \in SUBSET (1 .. k + 1) |-> Body(h, s)]
  <2>2. \A s \in SUBSET (1 .. k) : h[s] = Body(h, s)
    BY <2>1 DEF IsAdding
  <2>3. k \in Nat /\ \A s \in SUBSET (1 .. k) : s \in SUBSET (1 .. k + 1)
    OBVIOUS
  <2>4. \A s \in SUBSET (1 .. k) : g[s] = h[s]
    BY <2>2, <2>3
  <2>5. \A s \in SUBSET (1 .. k + 1) : s \ {Max(s)} \in SUBSET (1 .. k)
    BY <2>3, WithoutLast
  <2>6. \A s \in SUBSET (1 .. k + 1) : Body(h, s) = Body(g, s)
    BY <2>4, <2>5
  <2>7. g = [s \in SUBSET (1 .. k + 1) |-> Body(g, s)]
    <3> HIDE DEF Body
    <3> QED BY <2>6
  <2>8. IsAdding(g, count, seq, 1 .. k + 1)
    <3> HIDE DEF g
    <3> QED BY <2>7 DEF IsAdding
  <2> QED BY <2>3, <2>8
<1>3. S = Nat
  <2> HIDE DEF S
  <2>1. S \in SUBSET Nat
    BY DEF S
  <2> QED BY <1>1, <1>2, <2>1, InductiveSet
<1> QED BY <1>3

LEMMA TotalIsSum ==
  ASSUME NEW count, NEW seq \in Seq(Tests)
  PROVE  \E sum : IsSum(sum, count, seq) /\ Total(count, seq) = sum[Len(seq)]
<1> DEFINE len == Len(seq)
<1>1. DOMAIN seq = 1 .. len /\ len \in Nat /\ \A n \in 1 .. len : seq[n] \in Tests
  BY LenProperties, ElementOfSeq
<1> HIDE DEF len
<1>2. PICK iter : /\ IsAdding(iter, count, seq, 1 .. len)
                  /\ Total(count, seq) = iter[1 .. len]
  BY <1>1, TotalIsFold, AddingExists
<1> DEFINE sum == [k \in 0 .. len |-> iter[1 .. k]]
<1>3. sum[0] = 0
  <2>1. 1 .. 0 = {} /\ {} \in SUBSET (1 .. len) /\ 0 \in 0 .. len
    BY <1>1
  <2>2. iter[{}] = 0
    BY <1>2, <2>1 DEF IsAdding
  <2> QED BY <2>1, <2>2
<1>4. ASSUME NEW k \in 0 .. len - 1
      PROVE  sum[k + 1] = sum[k] + count[seq[k + 1]]
  <2> DEFINE s == 1 .. k + 1
  <2>1. s \in SUBSET (1 .. len) /\ s # {} /\ s \ {k + 1} = 1 .. k
    <3>1. k \in Nat /\ k + 1 \in s /\ \A x \in s : x \in 1 .. len
      BY <1>1
    <3>2. \A x : x \in s \ {k + 1} <=> x \in 1 .. k
      BY <3>1
    <3> QED BY <3>1, <3>2
  <2>2. Max(s) = k + 1
    <3>1. k \in Nat /\ k + 1 \in s
      BY <1>1
    <3>2. \A x \in s : k + 1 >= x
      BY <3>1
    <3>3. \A x \in s : x >= k + 1 => x = k + 1
      BY <3>1
    <3> HIDE DEF s
    <3>4. \A x \in s : (\A y \in s : x >= y) <=> x = k + 1
      BY <3>1, <3>2, <3>3
    <3> QED BY <3>1, <3>4 DEF Max
  <2>3. iter[s] = iter[1 .. k] + count[seq[k + 1]]
    <3> HIDE DEF s
    <3>1. iter[s] = iter[s \ {Max(s)}] + count[seq[Max(s)]]
      BY <1>2, <2>1 DEF IsAdding
    <3> QED BY <2>1, <2>2, <3>1
  <2>4. k \in 0 .. len /\ k + 1 \in 0 .. len
    BY <1>1
  <2> QED BY <2>3, <2>4
<1>5. Total(count, seq) = sum[len]
  BY <1>1, <1>2
<1> HIDE DEF sum
<1>6. \A n \in 1 .. len : sum[n] = sum[n - 1] + count[seq[n]]
  <2> TAKE n \in 1 .. len
  <2>1. n - 1 \in 0 .. len - 1 /\ (n - 1) + 1 = n
    BY <1>1
  <2> QED BY <1>4, <2>1
<1>7. IsSum(sum, count, seq)
  BY <1>3, <1>6 DEF IsSum, len
<1> QED BY <1>5, <1>7 DEF len

\* Two weights agree on the members of a sequence.
AgreeOn(count, other, seq) == \A n \in 1 .. Len(seq) : count[seq[n]] = other[seq[n]]

\* A sequence has one sum.
LEMMA OneSum ==
  ASSUME NEW count, NEW other, NEW seq, Len(seq) \in Nat, AgreeOn(count, other, seq),
         NEW sum, IsSum(sum, count, seq),
         NEW sumOther, IsSum(sumOther, other, seq)
  PROVE  sum[Len(seq)] = sumOther[Len(seq)]
<1> DEFINE S == {k \in Nat : k =< Len(seq) => sum[k] = sumOther[k]}
<1>1. 0 \in S
  BY DEF IsSum
<1>2. ASSUME NEW k \in S PROVE k + 1 \in S
  <2> SUFFICES ASSUME k + 1 =< Len(seq) PROVE sum[k + 1] = sumOther[k + 1]
    OBVIOUS
  <2>1. k + 1 \in 1 .. Len(seq) /\ (k + 1) - 1 = k /\ sum[k] = sumOther[k]
    OBVIOUS
  <2> QED BY <2>1 DEF IsSum, AgreeOn
<1>3. S \in SUBSET Nat
  OBVIOUS
<1> HIDE DEF S
<1>4. S = Nat
  BY <1>1, <1>2, <1>3, InductiveSet
<1> QED BY <1>4 DEF S

\* The sum of natural numbers is one, up to any place.
LEMMA SumIsNatural ==
  ASSUME NEW count, NEW seq, Len(seq) \in Nat,
         \A n \in 1 .. Len(seq) : count[seq[n]] \in Nat,
         NEW sum, IsSum(sum, count, seq)
  PROVE  \A n \in 0 .. Len(seq) : sum[n] \in Nat
<1> DEFINE S == {k \in Nat : k =< Len(seq) => sum[k] \in Nat}
<1>1. 0 \in S
  BY DEF IsSum
<1>2. ASSUME NEW k \in S PROVE k + 1 \in S
  <2> SUFFICES ASSUME k + 1 =< Len(seq) PROVE sum[k + 1] \in Nat
    OBVIOUS
  <2>1. k + 1 \in 1 .. Len(seq) /\ (k + 1) - 1 = k /\ sum[k] \in Nat
    OBVIOUS
  <2> HIDE DEF S
  <2>2. sum[k + 1] = sum[k] + count[seq[k + 1]]
    BY <2>1 DEF IsSum
  <2>3. count[seq[k + 1]] \in Nat
    BY <2>1
  <2> QED BY <2>1, <2>2, <2>3
<1>3. S \in SUBSET Nat
  OBVIOUS
<1> HIDE DEF S
<1>4. S = Nat
  BY <1>1, <1>2, <1>3, InductiveSet
<1> QED BY <1>4 DEF S

LEMMA TotalsAgree ==
  ASSUME NEW count, NEW other, NEW seq \in Seq(Tests),
         \A n \in 1 .. Len(seq) : count[seq[n]] = other[seq[n]] /\ count[seq[n]] \in Nat
  PROVE  Total(count, seq) = Total(other, seq) /\ Total(count, seq) \in Nat
<1>1. Len(seq) \in Nat /\ Len(seq) \in 0 .. Len(seq)
  BY LenProperties
<1>2. PICK sum : IsSum(sum, count, seq) /\ Total(count, seq) = sum[Len(seq)]
  BY TotalIsSum
<1>3. PICK sumOther : IsSum(sumOther, other, seq) /\ Total(other, seq) = sumOther[Len(seq)]
  BY TotalIsSum
<1>4. AgreeOn(count, other, seq)
  BY DEF AgreeOn
<1>5. sum[Len(seq)] = sumOther[Len(seq)]
  BY <1>1, <1>2, <1>3, <1>4, OneSum
<1>6. sum[Len(seq)] \in Nat
  <2>1. \A n \in 1 .. Len(seq) : count[seq[n]] \in Nat
    OBVIOUS
  <2>2. \A n \in 0 .. Len(seq) : sum[n] \in Nat
    BY <1>1, <1>2, <2>1, SumIsNatural
  <2> QED BY <1>1, <2>2
<1> QED BY <1>2, <1>3, <1>5, <1>6

-----------------------------------------------------------------------------
(***************************************************************************)
(* A weight of the tests: a case weighs 1, and a suite extra more than its *)
(* children.  With nothing extra it is the number of test cases.           *)
(***************************************************************************)
IsWeight(count, extra) ==
  /\ count \in [Tests -> Nat]
  /\ \A t \in Cases : count[t] = 1
  /\ \A t \in Suites : count[t] = extra + Total(count, Children[t])

\* Each suite is higher than its children, and there is a top.
IsHeight(height, top) ==
  /\ height \in [Tests -> Nat]
  /\ top \in Nat
  /\ \A suite \in Suites : \A n \in DOMAIN Children[suite] :
       height[Children[suite][n]] < height[suite]
  /\ \A t \in Tests : height[t] < top

LEMMA HeightExists ==
  \E height, top : IsHeight(height, top)
<1>1. PICK height \in [Tests -> 0 .. Cardinality(Tests)] :
        \A suite \in Suites : \A n \in DOMAIN Children[suite] :
          height[Children[suite][n]] < height[suite]
  BY TreeAssumption
<1>2. Cardinality(Tests) \in Nat
  BY TreeAssumption, FS_CardinalityType
<1>3. \A t \in Tests : height[t] \in Nat /\ height[t] < Cardinality(Tests) + 1
  <2> TAKE t \in Tests
  <2>1. height[t] \in 0 .. Cardinality(Tests)
    BY <1>1
  <2> QED BY <1>2, <2>1
<1>4. height \in [Tests -> Nat] /\ Cardinality(Tests) + 1 \in Nat
  BY <1>2, <1>3
<1> QED BY <1>1, <1>3, <1>4 DEF IsHeight

LEMMA ChildrenOfSuite ==
  ASSUME NEW t \in Tests, t \notin Cases
  PROVE  /\ t \in Suites
         /\ Children[t] \in Seq(Tests)
         /\ Len(Children[t]) \in Nat
         /\ \A n \in 1 .. Len(Children[t]) : Children[t][n] \in Tests
<1>1. t \in Suites
  BY DEF Tests
<1>2. Children[t] \in Seq(Tests)
  BY <1>1, TestsAssumption DEF Tests
<1> QED BY <1>1, <1>2, LenProperties, ElementOfSeq

\* Two counts of the tests below a height that agree.
AgreeBelow(height, n, count, other) ==
  \A t \in Tests : height[t] < n => count[t] = other[t] /\ count[t] \in Nat

\* What the tests below a suite weigh determines what its children weigh together.
LEMMA TotalOfChildren ==
  ASSUME NEW height, NEW top, IsHeight(height, top),
         NEW count, NEW other, NEW n \in Nat, AgreeBelow(height, n, count, other),
         NEW t \in Tests, t \notin Cases, height[t] < n + 1
  PROVE  /\ Total(count, Children[t]) = Total(other, Children[t])
         /\ Total(count, Children[t]) \in Nat
<1>1. \A k \in 1 .. Len(Children[t]) :
        /\ count[Children[t][k]] = other[Children[t][k]]
        /\ count[Children[t][k]] \in Nat
  <2> TAKE k \in 1 .. Len(Children[t])
  <2>1. t \in Suites /\ Children[t][k] \in Tests /\ k \in DOMAIN Children[t]
    BY ChildrenOfSuite, LenProperties
  <2>2. height[Children[t][k]] < height[t]
    BY <2>1 DEF IsHeight
  <2>3. height[Children[t][k]] \in Nat /\ height[t] \in Nat
    BY <2>1 DEF IsHeight
  <2>4. height[Children[t][k]] < n
    BY <2>2, <2>3
  <2> QED BY <2>1, <2>4 DEF AgreeBelow
<1> DEFINE children == Children[t]
<1>2. /\ children \in Seq(Tests)
      /\ \A k \in 1 .. Len(children) :
           count[children[k]] = other[children[k]] /\ count[children[k]] \in Nat
  BY <1>1, ChildrenOfSuite
<1> HIDE DEF children
<1>3. Total(count, children) = Total(other, children) /\ Total(count, children) \in Nat
  BY <1>2, TotalsAgree
<1> QED BY <1>3 DEF children

LEMMA WeightExists ==
  ASSUME NEW extra \in Nat
  PROVE  \E count : IsWeight(count, extra)
<1>1. PICK height, top : IsHeight(height, top)
  BY HeightExists
<1>2. top \in Nat /\ \A t \in Tests : height[t] \in Nat /\ height[t] < top
  BY <1>1 DEF IsHeight
<1> DEFINE Weight(count, t) == IF t \in Cases THEN 1 ELSE extra + Total(count, Children[t])
           WeighsBelow(count, n) == \A t \in Tests : height[t] < n => count[t] = Weight(count, t)
           S == {n \in Nat : \E count \in [Tests -> Nat] : WeighsBelow(count, n)}
<1>3. 0 \in S
  <2> DEFINE none == [t \in Tests |-> 0]
  <2>1. none \in [Tests -> Nat] /\ WeighsBelow(none, 0)
    BY <1>2
  <2> QED BY <2>1
<1>4. ASSUME NEW n \in S PROVE n + 1 \in S
  <2>1. PICK count \in [Tests -> Nat] : WeighsBelow(count, n)
    OBVIOUS
  <2> DEFINE next == [t \in Tests |-> IF height[t] < n THEN count[t] ELSE
                                      IF height[t] < n + 1 THEN Weight(count, t) ELSE 0]
  <2>2. n \in Nat /\ \A t \in Tests : height[t] < n => count[t] = next[t] /\ count[t] \in Nat
    OBVIOUS
  <2>3. ASSUME NEW t \in Tests, height[t] < n + 1
        PROVE  Weight(count, t) = Weight(next, t) /\ Weight(count, t) \in Nat
    <3> HIDE DEF next, S, WeighsBelow, Weight
    <3>1. CASE t \in Cases
      BY <3>1 DEF Weight
    <3>2. CASE t \notin Cases
      <4>1. IsHeight(height, top) /\ n \in Nat /\ height[t] < n + 1
        BY <1>1, <2>2, <2>3
      <4>2. AgreeBelow(height, n, count, next)
        BY <2>2 DEF AgreeBelow
      <4>3. /\ Total(count, Children[t]) = Total(next, Children[t])
            /\ Total(count, Children[t]) \in Nat
        BY <3>2, <4>1, <4>2, TotalOfChildren
      <4> QED BY <3>2, <4>3 DEF Weight
    <3> QED BY <3>1, <3>2
  <2>4. next \in [Tests -> Nat]
    <3> HIDE DEF Weight, WeighsBelow
    <3> QED BY <2>3
  <2>5. ASSUME NEW t \in Tests, height[t] < n + 1
        PROVE  next[t] = Weight(next, t)
    <3>1. next[t] = Weight(count, t)
      BY <2>1, <2>5
    <3> HIDE DEF next, Weight
    <3> QED BY <2>3, <2>5, <3>1
  <2> HIDE DEF next, Weight
  <2> QED BY <2>2, <2>4, <2>5
<1>5. S \in SUBSET Nat
  OBVIOUS
<1>6. top \in S
  <2> HIDE DEF S
  <2> QED BY <1>2, <1>3, <1>4, <1>5, InductiveSet
<1>7. PICK count \in [Tests -> Nat] : WeighsBelow(count, top)
  BY <1>6
<1>8. \A t \in Tests : count[t] = Weight(count, t)
  BY <1>2, <1>7
<1>9. /\ \A t \in Suites : t \in Tests /\ t \notin Cases
      /\ \A t \in Cases : t \in Tests
  BY TestsAssumption DEF Tests
<1> QED BY <1>8, <1>9 DEF IsWeight

\* countTestCases is a solution of its equation, the only one.
LEMMA CountsTests ==
  IsWeight(countTestCases, 0)
<1> DEFINE IsCount(f) ==
             f = [t \in Tests |-> IF t \in Cases THEN 1 ELSE Total(f, Children[t])]
<1>1. countTestCases = CHOOSE f : IsCount(f)
  BY DEF countTestCases, Total
<1>2. PICK count : IsWeight(count, 0)
  BY WeightExists
<1>3. PICK height, top : IsHeight(height, top)
  BY HeightExists
<1>4. top \in Nat /\ \A t \in Tests : height[t] \in Nat /\ height[t] < top
  BY <1>3 DEF IsHeight
<1>5. /\ \A t \in Tests : count[t] \in Nat
      /\ AgreeBelow(height, top, count, count)
      /\ \A t \in Tests : height[t] < top + 1
  BY <1>2, <1>4 DEF IsWeight, AgreeBelow
<1>6. ASSUME NEW t \in Tests
      PROVE  count[t] = IF t \in Cases THEN 1 ELSE Total(count, Children[t])
  <2>1. CASE t \in Cases
    BY <1>2, <2>1 DEF IsWeight
  <2>2. CASE t \notin Cases
    <3>1. count[t] = 0 + Total(count, Children[t])
      BY <1>2, <2>2, ChildrenOfSuite DEF IsWeight
    <3>2. Total(count, Children[t]) \in Nat
      BY <1>3, <1>4, <1>5, <2>2, TotalOfChildren
    <3> QED BY <2>2, <3>1, <3>2
  <2> QED BY <2>1, <2>2
<1>7. IsCount(count)
  <2>1. count = [t \in Tests |-> count[t]]
    BY <1>2 DEF IsWeight
  <2> QED BY <1>6, <2>1
<1>8. IsCount(countTestCases)
  <2> HIDE DEF IsCount
  <2> QED BY <1>1, <1>7
<1>9. \A t \in Tests :
        countTestCases[t] = IF t \in Cases THEN 1 ELSE Total(countTestCases, Children[t])
  BY <1>8
<1> DEFINE S == {n \in Nat : \A t \in Tests : height[t] < n => count[t] = countTestCases[t]}
<1>10. 0 \in S
  BY <1>4
<1>11. ASSUME NEW n \in S PROVE n + 1 \in S
  <2>1. n \in Nat /\ AgreeBelow(height, n, count, countTestCases)
    BY <1>5 DEF AgreeBelow
  <2>2. ASSUME NEW t \in Tests, height[t] < n + 1
        PROVE  count[t] = countTestCases[t]
    <3>1. CASE t \in Cases
      BY <1>6, <1>9, <3>1
    <3>2. CASE t \notin Cases
      <4>1. Total(count, Children[t]) = Total(countTestCases, Children[t])
        <5> HIDE DEF S
        <5> QED BY <1>3, <2>1, <2>2, <3>2, TotalOfChildren
      <4> QED BY <1>6, <1>9, <3>2, <4>1
    <3> QED BY <3>1, <3>2
  <2> QED BY <2>1, <2>2
<1>12. S \in SUBSET Nat
  OBVIOUS
<1>13. top \in S
  <2> HIDE DEF S
  <2> QED BY <1>4, <1>10, <1>11, <1>12, InductiveSet
<1>14. countTestCases = count
  <2>1. \A t \in Tests : countTestCases[t] = count[t]
    BY <1>4, <1>13
  <2>2. /\ countTestCases = [t \in Tests |-> countTestCases[t]]
        /\ count = [t \in Tests |-> count[t]]
    <3>1. countTestCases = [t \in Tests |-> countTestCases[t]]
      BY <1>8
    <3>2. count = [t \in Tests |-> count[t]]
      BY <1>2 DEF IsWeight
    <3> QED BY <3>1, <3>2
  <2> QED BY <2>1, <2>2
<1> QED BY <1>2, <1>14

-----------------------------------------------------------------------------
RunStep ==
  \/ UNCHANGED runVars
  \/ RunChildTest
  \/ RunMethod
  \/ Told
  \/ EndThread
  \/ Stop
  \/ \E t \in Tests : BeginRun(t)

LEMMA MfcRunSteps ==
  ASSUME MfcNext, gui = "freeState" => m_selectedTest \in Tests
  PROVE  RunStep
<1>1. CASE RunTests
  BY <1>1 DEF RunTests, RunStep, NotifyCollector, CheckTestsRun, SetRunCompleted
<1>2. CASE Messages
  BY <1>2 DEF Messages, RunStep, UpdateDisplay, EnableButtons
<1>3. CASE WindowGoesOn
  BY <1>3 DEF WindowGoesOn, RunStep, FreeStateAndRun, StopAndBeIdle
<1>4. CASE User
  BY <1>4 DEF User, RunStep, OnRun, OnStop, OnSelectTestInHistoryCombo, OnBrowseTest
<1>. QED BY <1>1, <1>2, <1>3, <1>4 DEF MfcNext

LEMMA QtRunSteps ==
  ASSUME QtNext, testToRun \in Tests
  PROVE  RunStep
<1>1. CASE QtThread
  BY <1>1 DEF QtThread, RunStep, NotifyModel, PostFinished, FinishThread
<1>2. CASE QtWindow
  BY <1>2 DEF QtWindow, RunStep, BeStoppingTest, ProcessEvent
<1>3. CASE QtUser
  BY <1>3 DEF QtUser, RunStep, RunTest, StopTest, SelectTestToRun
<1>. QED BY <1>1, <1>2, <1>3 DEF QtNext

-----------------------------------------------------------------------------
(***************************************************************************)
(* The run of the tests.                                                   *)
(***************************************************************************)
Frames == [suite : Suites, index : Nat]

FramesInv ==
  /\ frames \in Seq(Frames)
  /\ \A n \in 1 .. Len(frames) : frames[n].index \in 1 .. Len(Children[frames[n].suite]) + 1

CaseInv ==
  /\ toolkit \in {"mfc", "qt"}
  /\ running \in BOOLEAN
  /\ test \in Cases \cup {None}
  /\ phase \in Methods \cup Calls \cup {"idle"}
  /\ thrown \in {<<>>} \cup ({"failure", "error"} \X Methods)
  /\ m_stop \in BOOLEAN
  /\ startedSinceStop \in Nat
  /\ test = None <=> phase = "idle"
  /\ phase = "addFailure" => thrown \in {"failure", "error"} \X Methods
  /\ frames # <<>> \/ test # None => running

RunInv == FramesInv /\ CaseInv

LEMMA RunInvTypes ==
  RunInv => RunTypeOK
BY DEF RunInv, FramesInv, CaseInv, RunTypeOK, Frames

LEMMA SubSeqOfFrames ==
  ASSUME NEW seq \in Seq(Frames), NEW k \in Nat, k =< Len(seq)
  PROVE  /\ SubSeq(seq, 1, k) \in Seq(Frames)
         /\ Len(SubSeq(seq, 1, k)) = k
         /\ \A n \in 1 .. k : SubSeq(seq, 1, k)[n] = seq[n]
<1>1. \A n \in 1 .. k : seq[n] \in Frames
  BY LenProperties, ElementOfSeq
<1>2. 1 .. (IF 1 =< k THEN k - 1 + 1 ELSE 0) = 1 .. k
  OBVIOUS
<1>. QED BY <1>1, LenProperties, SubSeqProperties

LEMMA ChildTest ==
  ASSUME RunInv, RunChildTest, ~ Leaves(Last(frames))
  PROVE  /\ Last(frames) \in Frames
         /\ Last(frames).index \in 1 .. Len(Children[Last(frames).suite])
         /\ Children[Last(frames).suite][Last(frames).index] \in Tests
         /\ Advanced(frames) \in Seq(Frames)
         /\ \A n \in 1 .. Len(Advanced(frames)) :
              Advanced(frames)[n].index \in 1 .. Len(Children[Advanced(frames)[n].suite]) + 1
         /\ Last(frames) = frames[Len(frames)]
         /\ Len(Advanced(frames)) = Len(frames)
         /\ \A n \in 1 .. Len(frames) :
              Advanced(frames)[n] = IF n = Len(frames) THEN [Last(frames) EXCEPT !.index = @ + 1]
                                    ELSE frames[n]
<1> DEFINE last == Last(frames)
<1>1. frames \in Seq(Frames) /\ frames # <<>>
  BY DEF RunInv, FramesInv, RunChildTest
<1>2. Len(frames) \in Nat \ {0}
  BY <1>1, EmptySeq
<1>3. last \in Frames /\ last = frames[Len(frames)]
  BY <1>1, <1>2, ElementOfSeq DEF Last
<1>4. last.index \in 1 .. Len(Children[last.suite]) + 1
  BY <1>2, <1>3 DEF RunInv, FramesInv
<1>5. Children[last.suite] \in Seq(Tests)
  BY <1>3, TestsAssumption DEF Frames, Tests
<1>6. last.index \in 1 .. Len(Children[last.suite])
  BY <1>3, <1>4, <1>5, LenProperties DEF Leaves, Frames
<1>7. Children[last.suite][last.index] \in Tests
  BY <1>5, <1>6, ElementOfSeq
<1> DEFINE advanced == [last EXCEPT !.index = @ + 1]
<1>8. /\ advanced \in Frames
      /\ advanced.index = last.index + 1
      /\ advanced.suite = last.suite
  BY <1>3 DEF Frames
<1>9. Advanced(frames) = [frames EXCEPT ![Len(frames)] = advanced]
  BY <1>3 DEF Advanced
<1>10. /\ Advanced(frames) \in Seq(Frames)
       /\ Len(Advanced(frames)) = Len(frames)
       /\ \A n \in 1 .. Len(frames) :
            Advanced(frames)[n] = IF n = Len(frames) THEN advanced ELSE frames[n]
  BY <1>1, <1>2, <1>8, <1>9, ExceptSeq
<1>11. advanced.index \in 1 .. Len(Children[advanced.suite]) + 1
  BY <1>5, <1>6, <1>8, LenProperties
<1>12. ASSUME NEW n \in 1 .. Len(frames)
       PROVE  Advanced(frames)[n].index \in 1 .. Len(Children[Advanced(frames)[n].suite]) + 1
  BY <1>10, <1>11 DEF RunInv, FramesInv
<1>. QED BY <1>3, <1>6, <1>7, <1>10, <1>12

LEMMA RunChildTestStep ==
  ASSUME RunInv, RunChildTest, toolkit' = toolkit
  PROVE  RunInv'
<1> USE DEF RunChildTest
<1> DEFINE last == Last(frames)
           child == Children[last.suite][last.index]
<1>1. frames \in Seq(Frames) /\ frames # <<>> /\ Len(frames) \in Nat \ {0}
  BY EmptySeq DEF RunInv, FramesInv
<1>2. CASE Leaves(last)
  <2>1. frames' = SubSeq(frames, 1, Len(frames) - 1)
    BY <1>2 DEF Front
  <2>2. \A n \in 1 .. Len(frames) - 1 : frames[n] \in Frames
    BY <1>1, ElementOfSeq
  <2>3. Len(frames) - 1 \in Nat /\ Len(frames) - 1 =< Len(frames)
    BY <1>1
  <2>4. /\ frames' \in Seq(Frames)
        /\ Len(frames') = Len(frames) - 1
        /\ \A n \in 1 .. Len(frames) - 1 : frames'[n] = frames[n]
    BY <1>1, <2>1, <2>3, SubSeqOfFrames
  <2>5. FramesInv'
    BY <1>1, <2>4 DEF RunInv, FramesInv
  <2>6. CaseInv'
    BY <1>2 DEF RunInv, CaseInv
  <2>. QED BY <2>5, <2>6 DEF RunInv
<1>3. CASE ~ Leaves(last) /\ child \in Cases
  <2>1. frames' = Advanced(frames) /\ test' = child /\ phase' = "startTest"
    BY <1>3
  <2>2. FramesInv'
    BY <1>3, <2>1, ChildTest DEF FramesInv
  <2>3. CaseInv'
    BY <1>3, <2>1, TestsAssumption DEF RunInv, CaseInv, Calls
  <2>. QED BY <2>2, <2>3 DEF RunInv
<1>4. CASE ~ Leaves(last) /\ child \notin Cases
  <2> DEFINE entered == [suite |-> child, index |-> 1]
  <2>1. frames' = Append(Advanced(frames), entered)
    BY <1>4
  <2>2. child \in Suites
    BY <1>4, ChildTest DEF Tests
  <2>3. entered \in Frames /\ Children[child] \in Seq(Tests)
    BY <2>2, TestsAssumption DEF Frames, Tests
  <2>4. entered.index \in 1 .. Len(Children[entered.suite]) + 1
    BY <2>3, LenProperties
  <2>5. Advanced(frames) \in Seq(Frames) /\ Len(Advanced(frames)) \in Nat
    BY <1>4, ChildTest, LenProperties
  <2> HIDE DEF entered
  <2>6. /\ frames' \in Seq(Frames)
        /\ Len(frames') = Len(Advanced(frames)) + 1
        /\ \A n \in 1 .. Len(Advanced(frames)) + 1 :
             frames'[n] = IF n = Len(Advanced(frames)) + 1 THEN entered ELSE Advanced(frames)[n]
    BY <2>1, <2>3, <2>5, AppendProperties
  <2>7. ASSUME NEW n \in 1 .. Len(frames')
        PROVE  frames'[n].index \in 1 .. Len(Children[frames'[n].suite]) + 1
    <3>1. CASE n = Len(Advanced(frames)) + 1
      BY <2>4, <2>6, <3>1
    <3>2. CASE n # Len(Advanced(frames)) + 1
      <4>1. n \in 1 .. Len(Advanced(frames)) /\ frames'[n] = Advanced(frames)[n]
        BY <2>5, <2>6, <3>2
      <4>. QED BY <1>4, <4>1, ChildTest
    <3>. QED BY <3>1, <3>2
  <2>8. FramesInv'
    BY <2>6, <2>7 DEF FramesInv
  <2>9. CaseInv'
    BY <1>4 DEF RunInv, CaseInv
  <2>. QED BY <2>8, <2>9 DEF RunInv
<1>. QED BY <1>2, <1>3, <1>4

LEMMA BeginRunStep ==
  ASSUME RunInv, NEW t \in Tests, BeginRun(t), toolkit' = toolkit
  PROVE  RunInv'
<1>1. CaseInv'
  <2>1. CASE t \in Cases
    BY <2>1, TestsAssumption DEF RunInv, CaseInv, BeginRun, Calls, Tests
  <2>2. CASE t \notin Cases
    BY <2>2 DEF RunInv, CaseInv, BeginRun
  <2>. QED BY <2>1, <2>2
<1>2. FramesInv'
  <2>1. CASE t \in Cases
    <3>1. frames' = <<>>
      BY <2>1 DEF BeginRun
    <3>. QED BY <3>1 DEF FramesInv
  <2>2. CASE t \notin Cases
    <3> DEFINE entered == [suite |-> t, index |-> 1]
    <3>1. entered \in Frames /\ Children[t] \in Seq(Tests)
      BY <2>2, TestsAssumption DEF Frames, Tests
    <3>2. frames' = <<entered>>
      BY <2>2 DEF BeginRun
    <3>3. entered.index \in 1 .. Len(Children[entered.suite]) + 1
      BY <3>1, LenProperties
    <3> HIDE DEF entered
    <3>4. frames' \in Seq(Frames) /\ Len(frames') = 1 /\ frames'[1] = entered
      BY <3>1, <3>2
    <3>5. ASSUME NEW n \in 1 .. Len(frames')
          PROVE  frames'[n].index \in 1 .. Len(Children[frames'[n].suite]) + 1
      <4>1. n = 1
        BY <3>4
      <4>. QED BY <3>3, <3>4, <4>1
    <3>. QED BY <3>4, <3>5 DEF FramesInv
  <2>. QED BY <2>1, <2>2
<1>. QED BY <1>1, <1>2 DEF RunInv

LEMMA RunInvStep ==
  ASSUME RunInv, RunStep, toolkit' = toolkit
  PROVE  RunInv'
<1>1. CASE UNCHANGED runVars
  BY <1>1 DEF RunInv, FramesInv, CaseInv, runVars
<1>2. CASE RunChildTest
  BY <1>2, RunChildTestStep
<1>3. CASE RunMethod
  <2>. PICK outcome \in {"succeed", "failure", "error"} : Protect(outcome)
    BY <1>3 DEF RunMethod
  <2>1. FramesInv'
    BY DEF RunInv, FramesInv, Protect
  <2>2. CaseInv'
    <3>1. CASE outcome = "succeed"
      BY <3>1 DEF RunInv, CaseInv, Protect, After, Methods, Calls
    <3>2. CASE outcome # "succeed"
      BY <3>2 DEF RunInv, CaseInv, Protect, Methods, Calls
    <3>. QED BY <3>1, <3>2
  <2>. QED BY <2>1, <2>2 DEF RunInv
<1>4. CASE Told
  <2>1. FramesInv'
    BY <1>4 DEF RunInv, FramesInv, Told
  <2>2. phase' = "idle" <=> phase = "endTest"
    BY <1>4 DEF RunInv, CaseInv, Told, After, Calls, Methods
  <2>3. phase' \in Methods \cup {"endTest", "idle"}
    BY <1>4 DEF RunInv, CaseInv, Told, After, Calls, Methods
  <2>4. CaseInv'
    <3>1. test # None /\ running
      BY <1>4 DEF RunInv, CaseInv, Told, Calls
    <3>2. test' \in Cases \cup {None} /\ (test' = None <=> phase' = "idle")
      BY <1>4, <2>2, <3>1 DEF RunInv, CaseInv, Told
    <3>3. startedSinceStop' \in Nat
      BY <1>4 DEF RunInv, CaseInv, Told
    <3>4. phase' \in Methods \cup Calls \cup {"idle"} /\ phase' # "addFailure"
      BY <2>3 DEF Methods, Calls
    <3>. QED BY <1>4, <3>1, <3>2, <3>3, <3>4 DEF RunInv, CaseInv, Told
  <2>. QED BY <2>1, <2>4 DEF RunInv
<1>5. CASE EndThread
  BY <1>5 DEF RunInv, FramesInv, CaseInv, EndThread, TestsAreOver
<1>6. CASE Stop
  BY <1>6 DEF RunInv, FramesInv, CaseInv, Stop
<1>7. CASE \E t \in Tests : BeginRun(t)
  BY <1>7, BeginRunStep
<1>. QED BY <1>1, <1>2, <1>3, <1>4, <1>5, <1>6, <1>7 DEF RunStep

-----------------------------------------------------------------------------
\* The test that has started since Stop is under way, or over.
StopInv ==
  /\ startedSinceStop \in 0 .. 1
  /\ startedSinceStop = 1 => m_stop /\ phase # "startTest"

LEMMA StopStep ==
  ASSUME StopInv, RunStep
  PROVE  StopInv'
<1>1. CASE UNCHANGED runVars
  BY <1>1 DEF StopInv, runVars
<1>2. CASE RunChildTest
  BY <1>2 DEF StopInv, RunChildTest, Leaves
<1>3. CASE RunMethod
  <2>. PICK outcome \in {"succeed", "failure", "error"} : Protect(outcome)
    BY <1>3 DEF RunMethod
  <2>. QED BY DEF StopInv, Protect, After, Methods
<1>4. CASE Told
  BY <1>4 DEF StopInv, Told, After, Calls
<1>5. CASE EndThread
  BY <1>5 DEF StopInv, EndThread
<1>6. CASE Stop
  BY <1>6 DEF StopInv, Stop
<1>7. CASE \E t \in Tests : BeginRun(t)
  BY <1>7 DEF StopInv, BeginRun
<1>. QED BY <1>1, <1>2, <1>3, <1>4, <1>5, <1>6, <1>7 DEF RunStep

-----------------------------------------------------------------------------
(***************************************************************************)
(* The dialog for MFC.  A run that is going on is that of the ActiveTest,  *)
(* so that no run begins while a callback is under way; and the collector  *)
(* is ahead of the dialog by the test that is under way, and by the call   *)
(* that the dialog has yet to deal with.                                   *)
(***************************************************************************)
CountRecords == [{"tests", "error", "failure"} -> Nat]

MfcInv ==
  /\ gui \in {"loop", "freeState", "stop"}
  /\ history \in Tests \cup {None}
  /\ m_selectedTest \in Tests \cup {None}
  /\ m_activeTest \in BOOLEAN
  /\ m_runCompleted \in BOOLEAN
  /\ m_bIsRunning \in BOOLEAN
  /\ m_result \in CountRecords
  /\ counts \in CountRecords
  /\ callback \in {"none", "display", "displayed", "enable"}
  /\ gui = "freeState" => m_selectedTest \in Tests
  /\ Locked => phase \in Calls
  /\ callback \in {"displayed", "enable"} => phase = "endTest"
  /\ toolkit = "mfc" /\ running => m_activeTest /\ ~ m_runCompleted
  /\ toolkit = "qt" => ~ Locked

Ahead == IF callback = "none" THEN UnderWay ELSE IF callback = "display" THEN 1 ELSE 0

AheadOf(kind) ==
  IF callback = "display" /\ phase = "addFailure" /\ thrown[1] = kind THEN 1 ELSE 0

CountsInv ==
  toolkit = "mfc" =>
    /\ m_result.tests = counts.tests + Ahead
    /\ \A kind \in {"error", "failure"} : m_result[kind] = counts[kind] + AheadOf(kind)

LEMMA MfcInvStep ==
  ASSUME RunInv, MfcInv, CountsInv, MfcNext
  PROVE  MfcInv' /\ CountsInv'
<1> USE DEF MfcInv, CountsInv, Locked, CountRecords, Ahead, AheadOf, UnderWay
<1>0. toolkit = "mfc" /\ toolkit' = "mfc"
  BY DEF MfcNext
<1>1. CASE RunChildTest /\ UNCHANGED mfcVars
  <2>1. phase = "idle" /\ phase' \in {"idle", "startTest"} /\ running /\ running' = running
    BY <1>1 DEF RunChildTest, RunInv, CaseInv
  <2>2. callback = "none"
    BY <2>1 DEF Calls
  <2>. QED BY <1>0, <1>1, <2>1, <2>2 DEF mfcVars, Methods, Calls
<1>2. CASE RunMethod /\ UNCHANGED mfcVars
  <2>. PICK outcome \in {"succeed", "failure", "error"} : Protect(outcome)
    BY <1>2 DEF RunMethod
  <2>1. /\ phase \in Methods
        /\ phase' \in Methods \cup {"addFailure", "endTest"}
        /\ running' = running
    BY DEF Protect, After, Methods
  <2>2. callback = "none"
    BY <2>1 DEF Calls, Methods
  <2>. QED BY <1>0, <1>2, <2>1, <2>2 DEF mfcVars, Methods, Calls
<1>3. CASE NotifyCollector
  <2>1. phase = "addFailure" => thrown[1] \in {"error", "failure"}
    BY DEF RunInv, CaseInv
  <2>. QED BY <1>0, <1>3, <2>1 DEF NotifyCollector, runVars, Calls, Methods
<1>4. CASE CheckTestsRun
  <2>1. CASE AllTestsRun
    BY <1>0, <1>4, <2>1 DEF CheckTestsRun, runVars, Calls
  <2>2. CASE ~ AllTestsRun
    <3>1. phase = "endTest" /\ phase' = "idle"
      BY <1>4, <2>2 DEF CheckTestsRun, Told
    <3>. QED BY <1>0, <1>4, <2>2, <3>1 DEF CheckTestsRun, Told, Calls, Methods
  <2>. QED BY <2>1, <2>2
<1>5. CASE SetRunCompleted
  <2>1. phase = "idle"
    BY <1>5 DEF SetRunCompleted, EndThread, TestsAreOver, RunInv, CaseInv
  <2>. QED BY <1>0, <1>5, <2>1 DEF SetRunCompleted, EndThread, Calls
<1>6. CASE UpdateDisplay
  <2>1. CASE phase = "startTest"
    BY <1>0, <1>6, <2>1 DEF UpdateDisplay, Told, Calls, Methods
  <2>2. CASE phase = "addFailure"
    <3>1. thrown[1] \in {"error", "failure"} /\ thrown[2] \in Methods
      BY <2>2 DEF RunInv, CaseInv
    <3>2. phase' \in {"tearDown", "endTest"} /\ running' = running
      BY <1>6, <2>2, <3>1 DEF UpdateDisplay, Told, After, Methods
    <3>. QED BY <1>0, <1>6, <2>2, <3>1, <3>2 DEF UpdateDisplay, Methods, Calls
  <2>3. CASE phase = "endTest"
    BY <1>0, <1>6, <2>3 DEF UpdateDisplay, runVars, Calls, Methods
  <2>. QED BY <1>6, <2>1, <2>2, <2>3 DEF UpdateDisplay, Calls
<1>7. CASE EnableButtons
  <2>1. phase = "endTest" /\ phase' = "idle"
    BY <1>7 DEF EnableButtons, Told
  <2>. QED BY <1>0, <1>7, <2>1 DEF EnableButtons, Told, Calls, Methods
<1>8. CASE FreeStateAndRun
  <2>1. ~ running
    BY <1>0, <1>8 DEF FreeStateAndRun
  <2>2. callback = "none"
    BY <2>1 DEF RunInv, CaseInv, Calls
  <2>3. phase' \in {"idle", "startTest"}
    BY <1>8 DEF FreeStateAndRun, BeginRun
  <2>4. m_result' = NoCounts /\ counts' = NoCounts
    BY <1>8 DEF FreeStateAndRun, FreshCounts
  <2>5. MfcInv'
    <3>1. NoCounts \in CountRecords
      BY DEF NoCounts
    <3>2. m_selectedTest' = m_selectedTest /\ callback' = "none" /\ gui' = "loop"
      BY <1>8, <2>2 DEF FreeStateAndRun
    <3>. QED BY <1>0, <1>8, <2>4, <3>1, <3>2 DEF FreeStateAndRun
  <2>6. CountsInv'
    BY <1>0, <1>8, <2>2, <2>3, <2>4 DEF FreeStateAndRun, NoCounts, Methods
  <2>. QED BY <2>5, <2>6
<1>9. CASE StopAndBeIdle
  BY <1>0, <1>9 DEF StopAndBeIdle, Stop
<1>10. CASE User
  <2>1. CASE OnRun
    BY <1>0, <2>1 DEF OnRun, runVars
  <2>2. CASE OnStop
    BY <1>0, <2>2 DEF OnStop, runVars
  <2>3. CASE \E t \in Tests : OnSelectTestInHistoryCombo(t)
    <3>. PICK t \in Tests : OnSelectTestInHistoryCombo(t)
      BY <2>3
    <3>. QED BY <1>0 DEF OnSelectTestInHistoryCombo, runVars
  <2>4. CASE \E t \in Tests : OnBrowseTest(t)
    BY <1>0, <2>4 DEF OnBrowseTest, runVars
  <2>. QED BY <1>10, <2>1, <2>2, <2>3, <2>4 DEF User
<1>. QED
  BY <1>1, <1>2, <1>3, <1>4, <1>5, <1>6, <1>7, <1>8, <1>9, <1>10
  DEF MfcNext, RunTests, Messages, WindowGoesOn

LEMMA MfcInvOfQtStep ==
  ASSUME MfcInv, CountsInv, QtNext, UNCHANGED mfcVars
  PROVE  MfcInv' /\ CountsInv'
BY DEF MfcInv, CountsInv, QtNext, Locked, mfcVars

-----------------------------------------------------------------------------
(***************************************************************************)
(* The events of one kind in a queue carry on, one by one, from the number *)
(* that is shown to the number that has been counted.                      *)
(***************************************************************************)
Events == [of : {"run", "failure", "finished"}, number : Nat]

IsLast(queue, kind, n) ==
  queue[n].of = kind /\ \A m \in n + 1 .. Len(queue) : queue[m].of # kind

FirstFollows(queue, kind, shown) ==
  \A n \in 1 .. Len(queue) :
    queue[n].of = kind /\ (\A m \in 1 .. n - 1 : queue[m].of # kind) =>
      queue[n].number = shown + 1

Consecutive(queue, kind) ==
  \A m, n \in 1 .. Len(queue) :
    /\ m < n
    /\ queue[m].of = kind
    /\ queue[n].of = kind
    /\ \A between \in m + 1 .. n - 1 : queue[between].of # kind
    => queue[n].number = queue[m].number + 1

EndsWith(queue, kind, counted) ==
  \A n \in 1 .. Len(queue) : IsLast(queue, kind, n) => queue[n].number = counted

Follow(queue, kind, shown, counted) ==
  /\ FirstFollows(queue, kind, shown)
  /\ Consecutive(queue, kind)
  /\ EndsWith(queue, kind, counted)
  /\ (\A n \in 1 .. Len(queue) : queue[n].of # kind) => shown = counted

LEMMA Posted ==
  ASSUME NEW queue \in Seq(Events), NEW event \in Events
  PROVE  /\ Append(queue, event) \in Seq(Events)
         /\ Len(queue) \in Nat
         /\ Len(Append(queue, event)) = Len(queue) + 1
         /\ \A n \in 1 .. Len(queue) : Append(queue, event)[n] = queue[n]
         /\ Append(queue, event)[Len(queue) + 1] = event
BY AppendProperties, LenProperties

LEMMA Taken ==
  ASSUME NEW queue \in Seq(Events), queue # <<>>
  PROVE  /\ Tail(queue) \in Seq(Events)
         /\ Len(queue) \in Nat \ {0}
         /\ Len(Tail(queue)) = Len(queue) - 1
         /\ \A n \in 1 .. Len(queue) - 1 : Tail(queue)[n] = queue[n + 1]
         /\ Head(queue) = queue[1]
         /\ Head(queue) \in Events
BY HeadTailProperties, EmptySeq, ElementOfSeq

LEMMA FollowAppendOther ==
  ASSUME NEW queue \in Seq(Events), NEW event \in Events,
         NEW kind, NEW shown \in Nat, NEW counted \in Nat,
         Follow(queue, kind, shown, counted), event.of # kind
  PROVE  Follow(Append(queue, event), kind, shown, counted)
<1> DEFINE longer == Append(queue, event)
<1>1. /\ Len(queue) \in Nat
      /\ Len(longer) = Len(queue) + 1
      /\ \A n \in 1 .. Len(queue) : n \in 1 .. Len(longer) /\ longer[n] = queue[n]
      /\ longer[Len(queue) + 1] = event
  BY Posted
<1> HIDE DEF longer
<1>2. ASSUME NEW n \in 1 .. Len(longer), longer[n].of = kind
      PROVE  n \in 1 .. Len(queue) /\ longer[n] = queue[n]
  BY <1>1, <1>2
<1>3. FirstFollows(longer, kind, shown)
  <2>1. ASSUME NEW n \in 1 .. Len(longer), longer[n].of = kind,
               \A m \in 1 .. n - 1 : longer[m].of # kind
        PROVE  longer[n].number = shown + 1
    <3>1. n \in 1 .. Len(queue) /\ longer[n] = queue[n]
      BY <1>2, <2>1
    <3>2. \A m \in 1 .. n - 1 : queue[m].of # kind
      BY <1>1, <2>1, <3>1
    <3>. QED BY <2>1, <3>1, <3>2 DEF Follow, FirstFollows
  <2>. QED BY <2>1 DEF FirstFollows
<1>4. Consecutive(longer, kind)
  <2>1. ASSUME NEW m \in 1 .. Len(longer), NEW n \in 1 .. Len(longer), m < n,
               longer[m].of = kind, longer[n].of = kind,
               \A between \in m + 1 .. n - 1 : longer[between].of # kind
        PROVE  longer[n].number = longer[m].number + 1
    <3>1. m \in 1 .. Len(queue) /\ n \in 1 .. Len(queue)
      BY <1>2, <2>1
    <3>2. \A between \in m + 1 .. n - 1 : queue[between].of # kind
      BY <1>1, <2>1, <3>1
    <3>3. queue[n].number = queue[m].number + 1
      BY <1>1, <2>1, <3>1, <3>2 DEF Follow, Consecutive
    <3>. QED BY <1>1, <3>1, <3>3
  <2>. QED BY <2>1 DEF Consecutive
<1>5. EndsWith(longer, kind, counted)
  <2>1. ASSUME NEW n \in 1 .. Len(longer), IsLast(longer, kind, n)
        PROVE  longer[n].number = counted
    <3>1. n \in 1 .. Len(queue) /\ longer[n] = queue[n]
      BY <1>2, <2>1 DEF IsLast
    <3>2. IsLast(queue, kind, n)
      BY <1>1, <2>1, <3>1 DEF IsLast
    <3>. QED BY <3>1, <3>2 DEF Follow, EndsWith
  <2>. QED BY <2>1 DEF EndsWith
<1>6. (\A n \in 1 .. Len(longer) : longer[n].of # kind) => shown = counted
  BY <1>1 DEF Follow
<1>. QED BY <1>3, <1>4, <1>5, <1>6 DEF Follow, longer

LEMMA FollowAppend ==
  ASSUME NEW queue \in Seq(Events), NEW event \in Events,
         NEW kind, NEW shown \in Nat, NEW counted \in Nat,
         Follow(queue, kind, shown, counted),
         event.of = kind, event.number = counted + 1
  PROVE  Follow(Append(queue, event), kind, shown, counted + 1)
<1> DEFINE longer == Append(queue, event)
<1>1. /\ Len(queue) \in Nat
      /\ Len(longer) = Len(queue) + 1
      /\ \A n \in 1 .. Len(queue) : n \in 1 .. Len(longer) /\ longer[n] = queue[n]
      /\ longer[Len(queue) + 1] = event
  BY Posted
<1> HIDE DEF longer
<1>2. Len(longer) \in 1 .. Len(longer) /\ longer[Len(longer)] = event
  BY <1>1
<1>3. \A n \in 1 .. Len(longer) : n \in 1 .. Len(queue) \/ n = Len(longer)
  BY <1>1
<1>4. FirstFollows(longer, kind, shown)
  <2>1. ASSUME NEW n \in 1 .. Len(longer), longer[n].of = kind,
               \A m \in 1 .. n - 1 : longer[m].of # kind
        PROVE  longer[n].number = shown + 1
    <3>1. CASE n \in 1 .. Len(queue)
      <4>1. queue[n].of = kind /\ \A m \in 1 .. n - 1 : queue[m].of # kind
        BY <1>1, <2>1, <3>1
      <4>. QED BY <1>1, <3>1, <4>1 DEF Follow, FirstFollows
    <3>2. CASE n = Len(longer)
      <4>1. \A m \in 1 .. Len(queue) : queue[m].of # kind
        BY <1>1, <2>1, <3>2
      <4>. QED BY <1>2, <3>2, <4>1 DEF Follow
    <3>. QED BY <1>3, <3>1, <3>2
  <2>. QED BY <2>1 DEF FirstFollows
<1>5. Consecutive(longer, kind)
  <2>1. ASSUME NEW m \in 1 .. Len(longer), NEW n \in 1 .. Len(longer), m < n,
               longer[m].of = kind, longer[n].of = kind,
               \A between \in m + 1 .. n - 1 : longer[between].of # kind
        PROVE  longer[n].number = longer[m].number + 1
    <3>1. m \in 1 .. Len(queue) /\ longer[m] = queue[m]
      BY <1>1, <2>1
    <3>2. CASE n \in 1 .. Len(queue)
      <4>1. \A between \in m + 1 .. n - 1 : queue[between].of # kind
        <5>1. \A between \in m + 1 .. n - 1 : between \in 1 .. Len(queue)
          BY <1>1, <3>2
        <5> QED BY <1>1, <2>1, <5>1
      <4>2. queue[n].number = queue[m].number + 1
        BY <1>1, <2>1, <3>1, <3>2, <4>1 DEF Follow, Consecutive
      <4>. QED BY <1>1, <3>1, <3>2, <4>2
    <3>3. CASE n = Len(longer)
      <4>1. IsLast(queue, kind, m)
        BY <1>1, <2>1, <3>1, <3>3 DEF IsLast
      <4>2. queue[m].number = counted
        BY <3>1, <4>1 DEF Follow, EndsWith
      <4>. QED BY <1>2, <3>1, <3>3, <4>2
    <3>. QED BY <1>3, <3>2, <3>3
  <2>. QED BY <2>1 DEF Consecutive
<1>6. EndsWith(longer, kind, counted + 1)
  <2>1. ASSUME NEW n \in 1 .. Len(longer), IsLast(longer, kind, n)
        PROVE  n = Len(longer)
    BY <1>1, <1>2, <2>1 DEF IsLast
  <2>. QED BY <1>2, <2>1 DEF EndsWith
<1>7. (\A n \in 1 .. Len(longer) : longer[n].of # kind) => shown = counted + 1
  BY <1>2
<1>. QED BY <1>4, <1>5, <1>6, <1>7 DEF Follow, longer

\* What the tail of a queue keeps of Follow.
LEMMA FollowOfTail ==
  ASSUME NEW queue \in Seq(Events), queue # <<>>,
         NEW kind, NEW shown \in Nat, NEW counted \in Nat,
         Follow(queue, kind, shown, counted)
  PROVE  Consecutive(Tail(queue), kind) /\ EndsWith(Tail(queue), kind, counted)
<1> DEFINE tail == Tail(queue)
<1>1. /\ Len(queue) \in Nat \ {0}
      /\ Len(tail) = Len(queue) - 1
      /\ \A n \in 1 .. Len(tail) : n + 1 \in 1 .. Len(queue) /\ tail[n] = queue[n + 1]
  BY Taken
<1> HIDE DEF tail
<1>2. ASSUME NEW m \in 1 .. Len(tail), NEW n \in 1 .. Len(tail), m < n,
             tail[m].of = kind, tail[n].of = kind,
             \A between \in m + 1 .. n - 1 : tail[between].of # kind
      PROVE  tail[n].number = tail[m].number + 1
  <2>1. ASSUME NEW between \in (m + 1) + 1 .. (n + 1) - 1
        PROVE  queue[between].of # kind
    <3>1. between - 1 \in m + 1 .. n - 1 /\ between - 1 \in 1 .. Len(tail)
      BY <1>1
    <3>2. tail[between - 1] = queue[between]
      BY <1>1, <3>1
    <3>. QED BY <1>2, <3>1, <3>2
  <2>2. m + 1 \in 1 .. Len(queue) /\ n + 1 \in 1 .. Len(queue) /\ m + 1 < n + 1
    BY <1>1, <1>2
  <2>3. queue[m + 1].of = kind /\ queue[n + 1].of = kind
    BY <1>1, <1>2
  <2>4. queue[n + 1].number = queue[m + 1].number + 1
    BY <2>1, <2>2, <2>3 DEF Follow, Consecutive
  <2>. QED BY <1>1, <2>4
<1>3. ASSUME NEW n \in 1 .. Len(tail), IsLast(tail, kind, n)
      PROVE  tail[n].number = counted
  <2>1. ASSUME NEW m \in (n + 1) + 1 .. Len(queue)
        PROVE  queue[m].of # kind
    <3>1. m - 1 \in n + 1 .. Len(tail) /\ m - 1 \in 1 .. Len(tail)
      BY <1>1
    <3>2. tail[m - 1] = queue[m]
      BY <1>1, <3>1
    <3>. QED BY <1>3, <3>1, <3>2 DEF IsLast
  <2>2. n + 1 \in 1 .. Len(queue) /\ IsLast(queue, kind, n + 1)
    BY <1>1, <1>3, <2>1 DEF IsLast
  <2>. QED BY <1>1, <2>2 DEF Follow, EndsWith
<1>4. Consecutive(tail, kind) /\ EndsWith(tail, kind, counted)
  BY <1>2, <1>3 DEF Consecutive, EndsWith
<1>. QED BY <1>4 DEF tail

LEMMA FollowTailOther ==
  ASSUME NEW queue \in Seq(Events), queue # <<>>,
         NEW kind, NEW shown \in Nat, NEW counted \in Nat,
         Follow(queue, kind, shown, counted), Head(queue).of # kind
  PROVE  Follow(Tail(queue), kind, shown, counted)
<1> DEFINE tail == Tail(queue)
<1>1. /\ Len(queue) \in Nat \ {0}
      /\ Len(tail) = Len(queue) - 1
      /\ \A n \in 1 .. Len(tail) : n + 1 \in 1 .. Len(queue) /\ tail[n] = queue[n + 1]
      /\ queue[1].of # kind
  BY Taken
<1> HIDE DEF tail
<1>2. ASSUME NEW n \in 1 .. Len(queue), n # 1
      PROVE  n - 1 \in 1 .. Len(tail) /\ tail[n - 1] = queue[n]
  BY <1>1, <1>2
<1>3. ASSUME NEW n \in 1 .. Len(tail), tail[n].of = kind,
             \A m \in 1 .. n - 1 : tail[m].of # kind
      PROVE  tail[n].number = shown + 1
  <2>1. ASSUME NEW m \in 1 .. (n + 1) - 1
        PROVE  queue[m].of # kind
    <3>1. m \in 1 .. Len(queue)
      BY <1>1
    <3>2. CASE m # 1
      <4>1. m - 1 \in 1 .. n - 1
        BY <3>2
      <4>. QED BY <1>2, <1>3, <3>1, <3>2, <4>1
    <3>. QED BY <1>1, <3>2
  <2>2. n + 1 \in 1 .. Len(queue) /\ queue[n + 1] = tail[n]
    BY <1>1
  <2>. QED BY <1>3, <2>1, <2>2 DEF Follow, FirstFollows
<1>4. ASSUME \A n \in 1 .. Len(tail) : tail[n].of # kind
      PROVE  shown = counted
  <2>1. \A n \in 1 .. Len(queue) : queue[n].of # kind
    BY <1>1, <1>2, <1>4
  <2>. QED BY <2>1 DEF Follow
<1>5. Consecutive(tail, kind) /\ EndsWith(tail, kind, counted)
  BY FollowOfTail DEF tail
<1>6. Follow(tail, kind, shown, counted)
  BY <1>3, <1>4, <1>5 DEF Follow, FirstFollows
<1>. QED BY <1>6 DEF tail

LEMMA FollowTail ==
  ASSUME NEW queue \in Seq(Events), queue # <<>>,
         NEW kind, NEW shown \in Nat, NEW counted \in Nat,
         Follow(queue, kind, shown, counted), Head(queue).of = kind
  PROVE  /\ Head(queue).number = shown + 1
         /\ Follow(Tail(queue), kind, shown + 1, counted)
<1> DEFINE tail == Tail(queue)
<1>1. /\ Len(queue) \in Nat \ {0}
      /\ Len(tail) = Len(queue) - 1
      /\ \A n \in 1 .. Len(tail) : n + 1 \in 1 .. Len(queue) /\ tail[n] = queue[n + 1]
      /\ Head(queue) = queue[1]
      /\ queue[1].of = kind
  BY Taken
<1> HIDE DEF tail
<1>2. ASSUME NEW n \in 1 .. Len(queue), n # 1
      PROVE  n - 1 \in 1 .. Len(tail) /\ tail[n - 1] = queue[n]
  BY <1>1, <1>2
<1>3. queue[1].number = shown + 1
  <2>1. 1 \in 1 .. Len(queue) /\ \A m \in 1 .. 1 - 1 : queue[m].of # kind
    BY <1>1
  <2>. QED BY <1>1, <2>1 DEF Follow, FirstFollows
<1>4. ASSUME NEW n \in 1 .. Len(tail), tail[n].of = kind,
             \A m \in 1 .. n - 1 : tail[m].of # kind
      PROVE  tail[n].number = (shown + 1) + 1
  <2>1. ASSUME NEW m \in 1 + 1 .. (n + 1) - 1
        PROVE  queue[m].of # kind
    <3>1. m \in 1 .. Len(queue) /\ m # 1 /\ m - 1 \in 1 .. n - 1
      BY <1>1
    <3>. QED BY <1>2, <1>4, <3>1
  <2>2. 1 \in 1 .. Len(queue) /\ n + 1 \in 1 .. Len(queue) /\ 1 < n + 1
    BY <1>1
  <2>3. queue[n + 1] = tail[n]
    BY <1>1
  <2>4. queue[n + 1].number = queue[1].number + 1
    BY <1>1, <1>4, <2>1, <2>2, <2>3 DEF Follow, Consecutive
  <2>. QED BY <1>3, <2>3, <2>4
<1>5. ASSUME \A n \in 1 .. Len(tail) : tail[n].of # kind
      PROVE  shown + 1 = counted
  <2>1. ASSUME NEW m \in 1 + 1 .. Len(queue)
        PROVE  queue[m].of # kind
    <3>1. m \in 1 .. Len(queue) /\ m # 1
      BY <1>1
    <3>. QED BY <1>2, <1>5, <3>1
  <2>2. 1 \in 1 .. Len(queue) /\ IsLast(queue, kind, 1)
    BY <1>1, <2>1 DEF IsLast
  <2>. QED BY <1>3, <2>2 DEF Follow, EndsWith
<1>6. Consecutive(tail, kind) /\ EndsWith(tail, kind, counted)
  BY FollowOfTail DEF tail
<1>7. Follow(tail, kind, shown + 1, counted)
  BY <1>4, <1>5, <1>6 DEF Follow, FirstFollows
<1>. QED BY <1>1, <1>3, <1>7 DEF tail

LEMMA FollowEmpty ==
  ASSUME NEW kind, NEW shown \in Nat, NEW counted \in Nat
  PROVE  Follow(<<>>, kind, shown, counted) <=> shown = counted
BY DEF Follow, FirstFollows, Consecutive, EndsWith, IsLast

(***************************************************************************)
(* The dialog for Qt.  The finished event is the last of a run, and only   *)
(* when it has been taken can the dialog count from zero for another run.  *)
(***************************************************************************)
QtInv ==
  /\ dialog \in QtStates
  /\ testToRun \in Tests
  /\ numberOf \in [{"testCase", "run", "failure"} -> Nat]
  /\ events \in Seq(Events)
  /\ posted \in BOOLEAN
  /\ labels \in [{"testCase", "run", "failure", "listed"} -> Nat]
  /\ dialog = "canRun" => events = <<>>
  /\ toolkit = "qt" /\ dialog = "canRun" /\ running => posted
  /\ toolkit = "qt" /\ posted => frames = <<>> /\ test = None
  /\ \A n \in 1 .. Len(events) : events[n].of = "finished" => posted /\ n = Len(events)

LabelsInv ==
  /\ labels.testCase = numberOf.testCase
  /\ labels.listed = labels.failure
  /\ Follow(events, "run", labels.run, numberOf.run)
  /\ Follow(events, "failure", labels.failure, numberOf.failure)

LEMMA FreshCounters ==
  ASSUME NEW t \in Tests
  PROVE  /\ Counters(t) \in [{"testCase", "run", "failure"} -> Nat]
         /\ Labels(t) \in [{"testCase", "run", "failure", "listed"} -> Nat]
         /\ Labels(t).testCase = Counters(t).testCase
         /\ Labels(t).listed = Labels(t).failure
         /\ Labels(t).run = 0 /\ Counters(t).run = 0
         /\ Labels(t).failure = 0 /\ Counters(t).failure = 0
BY CountsTests DEF Counters, Labels, IsWeight

LEMMA FreshLabels ==
  ASSUME NEW t \in Tests, numberOf' = Counters(t), labels' = Labels(t), events' = <<>>
  PROVE  LabelsInv'
BY FreshCounters, FollowEmpty DEF LabelsInv

LEMMA ProcessEventStep ==
  ASSUME QtInv, LabelsInv, ProcessEvent, toolkit' = toolkit
  PROVE  QtInv' /\ LabelsInv'
<1> DEFINE event == Head(events)
<1>1. /\ events \in Seq(Events) /\ events # <<>> /\ events' = Tail(events)
      /\ UNCHANGED <<testToRun, numberOf, posted, running, frames, test>>
  BY DEF QtInv, ProcessEvent, runVars
<1>2. /\ events' \in Seq(Events)
      /\ Len(events) \in Nat \ {0}
      /\ Len(events') = Len(events) - 1
      /\ \A n \in 1 .. Len(events') : n + 1 \in 1 .. Len(events) /\ events'[n] = events[n + 1]
      /\ event = events[1] /\ event \in Events
  BY <1>1, Taken
<1>3. /\ labels \in [{"testCase", "run", "failure", "listed"} -> Nat]
      /\ numberOf \in [{"testCase", "run", "failure"} -> Nat]
  BY DEF QtInv
<1>4. event.of = "finished" => posted /\ Len(events) = 1
  BY <1>2 DEF QtInv
<1>5. ASSUME NEW n \in 1 .. Len(events'), events'[n].of = "finished"
      PROVE  posted /\ n = Len(events')
  <2>1. n + 1 \in 1 .. Len(events) /\ events[n + 1].of = "finished"
    BY <1>2, <1>5
  <2>2. posted /\ n + 1 = Len(events)
    BY <2>1 DEF QtInv
  <2>. QED BY <1>2, <2>2
<1>6. CASE event.of = "run"
  <2>1. /\ labels' = [labels EXCEPT !.run = event.number]
        /\ dialog' = dialog /\ dialog # "canRun"
    BY <1>1, <1>6 DEF ProcessEvent, QtInv
  <2>2. event.number = labels.run + 1 /\ Follow(events', "run", event.number, numberOf.run)
    BY <1>1, <1>3, <1>6, FollowTail DEF LabelsInv
  <2>3. Follow(events', "failure", labels.failure, numberOf.failure)
    BY <1>1, <1>3, <1>6, FollowTailOther DEF LabelsInv
  <2>4. LabelsInv'
    BY <1>1, <1>3, <2>1, <2>2, <2>3 DEF LabelsInv
  <2>5. labels' \in [{"testCase", "run", "failure", "listed"} -> Nat]
    BY <1>3, <2>1, <2>2
  <2>. QED BY <1>1, <1>2, <1>5, <2>1, <2>4, <2>5 DEF QtInv
<1>7. CASE event.of = "failure"
  <2>1. /\ labels' = [labels EXCEPT !.failure = event.number, !.listed = @ + 1]
        /\ dialog' = dialog /\ dialog # "canRun"
    BY <1>1, <1>7 DEF ProcessEvent, QtInv
  <2>2. /\ event.number = labels.failure + 1
        /\ Follow(events', "failure", event.number, numberOf.failure)
    BY <1>1, <1>3, <1>7, FollowTail DEF LabelsInv
  <2>3. Follow(events', "run", labels.run, numberOf.run)
    BY <1>1, <1>3, <1>7, FollowTailOther DEF LabelsInv
  <2>4. LabelsInv'
    BY <1>1, <1>3, <2>1, <2>2, <2>3 DEF LabelsInv
  <2>5. labels' \in [{"testCase", "run", "failure", "listed"} -> Nat]
    <3>1. event.number \in Nat /\ labels.listed + 1 \in Nat
      BY <1>3, <2>2
    <3>. QED BY <1>3, <2>1, <3>1
  <2>. QED BY <1>1, <1>2, <1>5, <2>1, <2>4, <2>5 DEF QtInv
<1>8. CASE event.of = "finished"
  <2>1. labels' = labels /\ dialog' = "canRun" /\ posted /\ events' = <<>>
    <3>1. labels' = labels /\ dialog' = "canRun"
      BY <1>8 DEF ProcessEvent
    <3>2. Len(events') = 0
      BY <1>2, <1>4, <1>8
    <3>. QED BY <1>2, <1>4, <1>8, <3>1, <3>2, EmptySeq
  <2>2. Follow(events', "run", labels.run, numberOf.run)
    BY <1>1, <1>3, <1>8, FollowTailOther DEF LabelsInv
  <2>3. Follow(events', "failure", labels.failure, numberOf.failure)
    BY <1>1, <1>3, <1>8, FollowTailOther DEF LabelsInv
  <2>4. LabelsInv'
    BY <1>1, <2>1, <2>2, <2>3 DEF LabelsInv
  <2>. QED BY <1>1, <1>2, <1>5, <2>1, <2>4 DEF QtInv, QtStates
<1>. QED BY <1>2, <1>6, <1>7, <1>8 DEF Events

\* The thread counts and posts while its run is under way.
LEMMA PostStep ==
  ASSUME QtInv, LabelsInv, NEW event \in Events, Post(event), ~ posted
  PROVE  /\ events' \in Seq(Events)
         /\ \A n \in 1 .. Len(events') : events'[n].of = "finished" =>
              event.of = "finished" /\ n = Len(events')
         /\ event.of # "run" => Follow(events', "run", labels.run, numberOf.run)
         /\ event.of # "failure" =>
              Follow(events', "failure", labels.failure, numberOf.failure)
         /\ event = [of |-> "run", number |-> numberOf.run + 1] =>
              Follow(events', "run", labels.run, numberOf.run + 1)
         /\ event = [of |-> "failure", number |-> numberOf.failure + 1] =>
              Follow(events', "failure", labels.failure, numberOf.failure + 1)
<1>1. events \in Seq(Events) /\ events' = Append(events, event)
  BY DEF QtInv, Post
<1>2. /\ labels.run \in Nat /\ labels.failure \in Nat
      /\ numberOf.run \in Nat /\ numberOf.failure \in Nat
  BY DEF QtInv
<1>3. \A n \in 1 .. Len(events) : events[n].of # "finished"
  BY DEF QtInv
<1>4. /\ Len(events) \in Nat
      /\ Len(events') = Len(events) + 1
      /\ events' \in Seq(Events)
      /\ \A n \in 1 .. Len(events) : events'[n] = events[n]
      /\ events'[Len(events) + 1] = event
  BY <1>1, Posted
<1>5. ASSUME NEW n \in 1 .. Len(events'), events'[n].of = "finished"
      PROVE  event.of = "finished" /\ n = Len(events')
  BY <1>3, <1>4, <1>5
<1>6. /\ event.of # "run" => Follow(events', "run", labels.run, numberOf.run)
      /\ event.of # "failure" => Follow(events', "failure", labels.failure, numberOf.failure)
  BY <1>1, <1>2, FollowAppendOther DEF LabelsInv
<1>7. event = [of |-> "run", number |-> numberOf.run + 1] =>
        Follow(events', "run", labels.run, numberOf.run + 1)
  BY <1>1, <1>2, FollowAppend DEF LabelsInv
<1>8. event = [of |-> "failure", number |-> numberOf.failure + 1] =>
        Follow(events', "failure", labels.failure, numberOf.failure + 1)
  BY <1>1, <1>2, FollowAppend DEF LabelsInv
<1>. QED BY <1>4, <1>5, <1>6, <1>7, <1>8

LEMMA NotifyModelStep ==
  ASSUME RunInv, QtInv, LabelsInv, toolkit = "qt", toolkit' = toolkit, NotifyModel
  PROVE  QtInv' /\ LabelsInv'
<1>1. /\ phase \in Calls /\ test # None /\ running
      /\ UNCHANGED <<running, frames, dialog, testToRun, posted, labels>>
  BY DEF NotifyModel, Told, RunInv, CaseInv, Calls
<1>2. ~ posted /\ dialog # "canRun"
  BY <1>1 DEF QtInv
<1>3. numberOf \in [{"testCase", "run", "failure"} -> Nat]
  BY DEF QtInv
<1>4. CASE phase = "startTest"
  BY <1>1, <1>2, <1>4 DEF NotifyModel, QtInv, LabelsInv
<1>5. CASE phase = "addFailure"
  <2> DEFINE event == [of |-> "failure", number |-> numberOf.failure + 1]
  <2>1. numberOf' = [numberOf EXCEPT !.failure = @ + 1] /\ Post(event)
    BY <1>5 DEF NotifyModel
  <2>2. event \in Events /\ event.of = "failure"
    BY <1>3 DEF Events
  <2>3. /\ events' \in Seq(Events)
        /\ \A n \in 1 .. Len(events') : events'[n].of # "finished"
        /\ Follow(events', "run", labels.run, numberOf.run)
        /\ Follow(events', "failure", labels.failure, numberOf.failure + 1)
    BY <1>2, <2>1, <2>2, PostStep
  <2>4. /\ numberOf' \in [{"testCase", "run", "failure"} -> Nat]
        /\ numberOf'.testCase = numberOf.testCase
        /\ numberOf'.run = numberOf.run
        /\ numberOf'.failure = numberOf.failure + 1
    BY <1>3, <2>1
  <2>5. QtInv'
    BY <1>1, <1>2, <2>3, <2>4 DEF QtInv
  <2>6. LabelsInv'
    BY <1>1, <2>3, <2>4 DEF LabelsInv
  <2>. QED BY <2>5, <2>6
<1>6. CASE phase = "endTest"
  <2> DEFINE event == [of |-> "run", number |-> numberOf.run + 1]
  <2>1. numberOf' = [numberOf EXCEPT !.run = @ + 1] /\ Post(event)
    BY <1>6 DEF NotifyModel
  <2>2. event \in Events /\ event.of = "run"
    BY <1>3 DEF Events
  <2>3. /\ events' \in Seq(Events)
        /\ \A n \in 1 .. Len(events') : events'[n].of # "finished"
        /\ Follow(events', "failure", labels.failure, numberOf.failure)
        /\ Follow(events', "run", labels.run, numberOf.run + 1)
    BY <1>2, <2>1, <2>2, PostStep
  <2>4. /\ numberOf' \in [{"testCase", "run", "failure"} -> Nat]
        /\ numberOf'.testCase = numberOf.testCase
        /\ numberOf'.failure = numberOf.failure
        /\ numberOf'.run = numberOf.run + 1
    BY <1>3, <2>1
  <2>5. QtInv'
    BY <1>1, <1>2, <2>3, <2>4 DEF QtInv
  <2>6. LabelsInv'
    BY <1>1, <2>3, <2>4 DEF LabelsInv
  <2>. QED BY <2>5, <2>6
<1>. QED BY <1>1, <1>4, <1>5, <1>6 DEF Calls

LEMMA QtInvStep ==
  ASSUME RunInv, QtInv, LabelsInv, QtNext
  PROVE  QtInv' /\ LabelsInv'
<1>0. toolkit = "qt" /\ toolkit' = "qt"
  BY DEF QtNext
<1>1. CASE RunChildTest /\ UNCHANGED qtVars
  BY <1>0, <1>1 DEF RunChildTest, QtInv, LabelsInv, qtVars
<1>2. CASE RunMethod /\ UNCHANGED qtVars
  <2>1. UNCHANGED <<running, frames, test>>
    BY <1>2 DEF RunMethod, Protect
  <2>. QED BY <1>0, <1>2, <2>1 DEF QtInv, LabelsInv, qtVars
<1>3. CASE NotifyModel
  BY <1>0, <1>3, NotifyModelStep
<1>4. CASE PostFinished
  <2> DEFINE event == [of |-> "finished", number |-> 0]
  <2>1. /\ Post(event) /\ ~ posted /\ posted' = TRUE /\ TestsAreOver
        /\ UNCHANGED <<dialog, testToRun, numberOf, labels, running, frames, test>>
    BY <1>4 DEF PostFinished, MayPost, runVars
  <2>2. event \in Events /\ event.of = "finished"
    BY DEF Events
  <2>3. /\ events' \in Seq(Events)
        /\ \A n \in 1 .. Len(events') : events'[n].of = "finished" => n = Len(events')
        /\ Follow(events', "run", labels.run, numberOf.run)
        /\ Follow(events', "failure", labels.failure, numberOf.failure)
    BY <2>1, <2>2, PostStep
  <2>4. dialog # "canRun"
    BY <1>0, <2>1 DEF TestsAreOver, QtInv
  <2>. QED BY <1>0, <2>1, <2>3, <2>4 DEF QtInv, LabelsInv, TestsAreOver
<1>5. CASE FinishThread
  BY <1>0, <1>5 DEF FinishThread, EndThread, QtInv, LabelsInv, qtVars
<1>6. CASE BeStoppingTest
  BY <1>0, <1>6 DEF BeStoppingTest, QtStates, QtInv, LabelsInv, runVars
<1>7. CASE ProcessEvent
  BY <1>0, <1>7, ProcessEventStep
<1>8. CASE RunTest
  <2>1. CASE running
    BY <1>0, <1>8, <2>1 DEF RunTest, QtInv, LabelsInv, runVars
  <2>2. CASE ~ running
    <3>1. /\ numberOf' = Counters(testToRun) /\ labels' = Labels(testToRun)
          /\ dialog' = "running" /\ posted' = FALSE /\ events' = events
          /\ testToRun' = testToRun /\ testToRun \in Tests /\ events = <<>>
      BY <1>8, <2>2 DEF RunTest, QtInv
    <3>2. LabelsInv'
      BY <3>1, FreshLabels
    <3>3. /\ numberOf' \in [{"testCase", "run", "failure"} -> Nat]
          /\ labels' \in [{"testCase", "run", "failure", "listed"} -> Nat]
      BY <3>1, FreshCounters
    <3>4. events' \in Seq(Events) /\ \A n \in 1 .. Len(events') : events'[n].of # "finished"
      BY <3>1, EmptySeq
    <3>. QED BY <3>1, <3>2, <3>3, <3>4 DEF QtInv, QtStates
  <2>. QED BY <2>1, <2>2
<1>9. CASE StopTest
  <2>1. UNCHANGED <<running, frames, test>>
    BY <1>9 DEF StopTest, Stop, runVars
  <2>. QED BY <1>0, <1>9, <2>1 DEF StopTest, QtStates, QtInv, LabelsInv
<1>10. CASE \E t \in Tests : SelectTestToRun(t)
  <2>. PICK t \in Tests : SelectTestToRun(t)
    BY <1>10
  <2>1. /\ testToRun' = t /\ events = <<>>
        /\ UNCHANGED <<dialog, events, posted, running, frames, test>>
    BY DEF SelectTestToRun, CanSelect, QtInv, runVars
  <2>2. CASE running
    <3>1. UNCHANGED <<numberOf, labels>>
      BY <2>2 DEF SelectTestToRun
    <3>. QED BY <1>0, <2>1, <3>1 DEF QtInv, LabelsInv
  <2>3. CASE ~ running
    <3>1. numberOf' = Counters(t) /\ labels' = Labels(t)
      BY <2>3 DEF SelectTestToRun
    <3>2. LabelsInv'
      BY <2>1, <3>1, FreshLabels
    <3>. QED BY <1>0, <2>1, <3>1, <3>2, FreshCounters DEF QtInv
  <2>. QED BY <2>2, <2>3
<1>. QED
  BY <1>1, <1>2, <1>3, <1>4, <1>5, <1>6, <1>7, <1>8, <1>9, <1>10
  DEF QtNext, QtThread, QtWindow, QtUser

LEMMA QtInvOfMfcStep ==
  ASSUME QtInv, LabelsInv, MfcNext, UNCHANGED qtVars
  PROVE  QtInv' /\ LabelsInv'
BY DEF QtInv, LabelsInv, MfcNext, qtVars

-----------------------------------------------------------------------------
(***************************************************************************)
(* The invariant of both programs.                                         *)
(***************************************************************************)
Inv == RunInv /\ StopInv /\ MfcInv /\ CountsInv /\ QtInv /\ LabelsInv

LEMMA InitInv ==
  ASSUME RunnersInit
  PROVE  Inv
<1>1. RunInv
  <2>1. frames = <<>> /\ FramesInv
    <3>1. frames = <<>>
      BY DEF RunnersInit, RunInit
    <3>2. frames \in Seq(Frames) /\ Len(frames) = 0
      BY <3>1, EmptySeq
    <3>. QED BY <3>1, <3>2 DEF FramesInv
  <2>2. CaseInv
    BY <2>1 DEF RunnersInit, RunInit, CaseInv
  <2>. QED BY <2>1, <2>2 DEF RunInv
<1>2. StopInv
  BY DEF RunnersInit, RunInit, StopInv
<1>3. MfcInv
  <2>1. NoCounts \in CountRecords
    BY DEF NoCounts, CountRecords
  <2>. QED BY <2>1 DEF RunnersInit, RunInit, MfcInit, MfcInv, Locked
<1>4. CountsInv
  BY DEF RunnersInit, RunInit, MfcInit, NoCounts, CountsInv, Ahead, AheadOf, UnderWay,
         Methods
<1>5. LabelsInv
  BY FreshCounters, FollowEmpty DEF RunnersInit, QtInit, LabelsInv
<1>6. QtInv
  <2>1. /\ numberOf = Counters(testToRun) /\ labels = Labels(testToRun)
        /\ dialog = "canRun" /\ testToRun \in Tests /\ events = <<>> /\ posted = FALSE
        /\ ~ running
    BY DEF RunnersInit, RunInit, QtInit
  <2>2. /\ numberOf \in [{"testCase", "run", "failure"} -> Nat]
        /\ labels \in [{"testCase", "run", "failure", "listed"} -> Nat]
    BY <2>1, FreshCounters
  <2>3. events \in Seq(Events) /\ \A n \in 1 .. Len(events) : events[n].of # "finished"
    BY <2>1, EmptySeq
  <2>. QED BY <2>1, <2>2, <2>3 DEF QtInv, QtStates
<1>. QED BY <1>1, <1>2, <1>3, <1>4, <1>5, <1>6 DEF Inv

LEMMA NextInv ==
  ASSUME Inv, [RunnersNext]_allVars
  PROVE  Inv'
<1> USE DEF Inv
<1>1. CASE MfcNext /\ UNCHANGED qtVars
  <2>1. RunStep /\ toolkit' = toolkit
    BY <1>1, MfcRunSteps DEF MfcInv, MfcNext
  <2>. QED BY <1>1, <2>1, RunInvStep, StopStep, MfcInvStep, QtInvOfMfcStep
<1>2. CASE QtNext /\ UNCHANGED mfcVars
  <2>1. RunStep /\ toolkit' = toolkit
    BY <1>2, QtRunSteps DEF QtInv, QtNext
  <2>. QED BY <1>2, <2>1, RunInvStep, StopStep, QtInvStep, MfcInvOfQtStep
<1>3. CASE UNCHANGED allVars
  <2>1. UNCHANGED <<toolkit, runVars, mfcVars, qtVars>>
    BY <1>3 DEF allVars
  <2>2. RunStep
    BY <2>1 DEF RunStep
  <2>3. RunInv' /\ StopInv'
    BY <2>1, <2>2, RunInvStep, StopStep
  <2>4. MfcInv' /\ CountsInv'
    BY <2>1 DEF runVars, mfcVars, MfcInv, CountsInv, Locked, Ahead, AheadOf, UnderWay
  <2>5. QtInv' /\ LabelsInv'
    BY <2>1 DEF runVars, qtVars, QtInv, LabelsInv
  <2>. QED BY <2>3, <2>4, <2>5
<1>. QED BY <1>1, <1>2, <1>3 DEF RunnersNext

LEMMA RunnersInvariant ==
  RunnersSpec => []Inv
<1>1. RunnersInit => Inv
  BY InitInv
<1>2. Inv /\ [RunnersNext]_allVars => Inv'
  BY NextInv
<1>. QED BY <1>1, <1>2, PTL DEF RunnersSpec

(***************************************************************************)
(* The variables have the values of their types, in both programs.         *)
(***************************************************************************)
THEOREM RunnersTypes ==
  RunnersSpec => []TypeOK
<1>1. Inv => TypeOK
  BY RunInvTypes DEF Inv, MfcInv, QtInv, TypeOK, MfcTypeOK, QtTypeOK, CountRecords, Events
<1>. QED BY <1>1, RunnersInvariant, PTL

(***************************************************************************)
(* TestResult::stop is heeded by every tree of tests, however deep, and    *)
(* under both front ends: at most the test that was about to start starts. *)
(***************************************************************************)
THEOREM StopTakesEffect ==
  RunnersSpec => []StopIsHeeded
<1>1. Inv => StopIsHeeded
  BY DEF Inv, StopInv, StopIsHeeded
<1>. QED BY <1>1, RunnersInvariant, PTL

(***************************************************************************)
(* Whatever the user clicks, the dialog for MFC shows what the collector   *)
(* has counted, less the test that is under way: TestResult never tells    *)
(* them of different runs.                                                 *)
(***************************************************************************)
THEOREM DialogCountsTheRun ==
  RunnersSpec => []DialogAgreesWithCollector
<1>1. Inv => DialogAgreesWithCollector
  <2> SUFFICES ASSUME Inv, toolkit = "mfc", ~ Locked
               PROVE  m_result = [counts EXCEPT !.tests = @ + UnderWay]
    BY DEF DialogAgreesWithCollector
  <2>1. m_result \in CountRecords /\ counts \in CountRecords
    BY DEF Inv, MfcInv
  <2>2. /\ m_result["tests"] = counts["tests"] + UnderWay
        /\ m_result["error"] = counts["error"]
        /\ m_result["failure"] = counts["failure"]
    BY <2>1 DEF Inv, CountsInv, Locked, Ahead, AheadOf, CountRecords
  <2>. QED BY <2>1, <2>2 DEF CountRecords
<1>. QED BY <1>1, RunnersInvariant, PTL

(***************************************************************************)
(* Whenever the dialog for Qt has taken all its events, it shows the       *)
(* counters of the model and has listed each failure once, for any number  *)
(* of events that wait in the queue.                                       *)
(***************************************************************************)
THEOREM LabelsShowTheRun ==
  RunnersSpec => []LabelsCatchUp
<1>1. Inv => LabelsCatchUp
  <2> SUFFICES ASSUME Inv, events = <<>>
               PROVE  labels = [testCase |-> numberOf.testCase, run |-> numberOf.run,
                                failure |-> numberOf.failure, listed |-> numberOf.failure]
    BY DEF LabelsCatchUp
  <2>1. /\ labels \in [{"testCase", "run", "failure", "listed"} -> Nat]
        /\ numberOf \in [{"testCase", "run", "failure"} -> Nat]
    BY DEF Inv, QtInv
  <2>2. labels.run = numberOf.run /\ labels.failure = numberOf.failure
    BY <2>1, FollowEmpty DEF Inv, LabelsInv
  <2>. QED BY <2>1, <2>2 DEF Inv, LabelsInv
<1>. QED BY <1>1, RunnersInvariant, PTL

-----------------------------------------------------------------------------
(***************************************************************************)
(* What a run has before it: what the suites on the stack have left from   *)
(* their next children on.  A suite of which nothing has been run has left *)
(* what it weighs, without what it takes to enter it.                      *)
(***************************************************************************)
CountedUpTo(count, suite) ==
  CHOOSE sum : /\ IsSum(sum, count, Children[suite])
               /\ Total(count, Children[suite]) = sum[Len(Children[suite])]

LeftIn(count, entry, frame) ==
  (count[frame.suite] - entry) - CountedUpTo(count, frame.suite)[frame.index - 1]

\* The sum up to a place is at most that of the whole sequence.
LEMMA SumGrows ==
  ASSUME NEW count, NEW seq, Len(seq) \in Nat,
         \A n \in 1 .. Len(seq) : count[seq[n]] \in Nat,
         NEW sum, IsSum(sum, count, seq)
  PROVE  \A n \in 0 .. Len(seq) : sum[n] =< sum[Len(seq)]
<1>1. \A n \in 0 .. Len(seq) : sum[n] \in Nat
  BY SumIsNatural
<1> DEFINE S == {k \in Nat : k =< Len(seq) => \A n \in 0 .. k : sum[n] =< sum[k]}
<1>2. 0 \in S
  <2>1. \A n \in 0 .. 0 : n = 0
    OBVIOUS
  <2>2. 0 \in 0 .. Len(seq)
    OBVIOUS
  <2>3. sum[0] =< sum[0]
    BY <1>1, <2>2
  <2> QED BY <2>1, <2>3
<1>3. ASSUME NEW k \in S PROVE k + 1 \in S
  <2> SUFFICES ASSUME k + 1 =< Len(seq), NEW n \in 0 .. k + 1
               PROVE  sum[n] =< sum[k + 1]
    OBVIOUS
  <2>1. /\ k \in Nat /\ k \in 0 .. Len(seq) /\ n \in 0 .. Len(seq)
        /\ k + 1 \in 1 .. Len(seq) /\ k + 1 \in 0 .. Len(seq) /\ (k + 1) - 1 = k
        /\ \A m \in 0 .. k : sum[m] =< sum[k]
    OBVIOUS
  <2> HIDE DEF S
  <2>2. sum[k + 1] = sum[k] + count[seq[k + 1]] /\ count[seq[k + 1]] \in Nat
    BY <2>1 DEF IsSum
  <2>3. sum[n] \in Nat /\ sum[k] \in Nat /\ sum[k + 1] \in Nat
    BY <1>1, <2>1
  <2>4. CASE n = k + 1
    BY <2>3, <2>4
  <2>5. CASE n \in 0 .. k
    <3>1. sum[n] =< sum[k]
      BY <2>1, <2>5
    <3> QED BY <2>2, <2>3, <3>1
  <2>6. n = k + 1 \/ n \in 0 .. k
    BY <2>1
  <2> QED BY <2>4, <2>5, <2>6
<1>4. S \in SUBSET Nat
  OBVIOUS
<1> HIDE DEF S
<1>5. Len(seq) \in S
  BY <1>2, <1>3, <1>4, InductiveSet
<1> QED BY <1>5 DEF S

LEMMA LeftInSuite ==
  ASSUME NEW count, NEW extra \in Nat, NEW entry \in 0 .. extra, IsWeight(count, extra),
         NEW suite \in Suites, NEW index \in 1 .. Len(Children[suite]) + 1
  PROVE  /\ LeftIn(count, entry, [suite |-> suite, index |-> index]) \in Nat
         /\ LeftIn(count, entry, [suite |-> suite, index |-> index]) >= extra - entry
         /\ LeftIn(count, entry, [suite |-> suite, index |-> 1]) = count[suite] - entry
         /\ index = Len(Children[suite]) + 1 =>
              LeftIn(count, entry, [suite |-> suite, index |-> index]) = extra - entry
         /\ index =< Len(Children[suite]) =>
              LeftIn(count, entry, [suite |-> suite, index |-> index])
                = count[Children[suite][index]]
                    + LeftIn(count, entry, [suite |-> suite, index |-> index + 1])
<1> DEFINE seq == Children[suite]
           sum == CountedUpTo(count, suite)
<1>1. seq \in Seq(Tests) /\ Len(seq) \in Nat /\ \A n \in 1 .. Len(seq) : seq[n] \in Tests
  <2>1. suite \in Tests /\ suite \notin Cases
    BY TestsAssumption DEF Tests
  <2> QED BY <2>1, ChildrenOfSuite
<1>2. /\ IsSum(sum, count, seq)
      /\ Total(count, seq) = sum[Len(seq)]
  <2>1. \E other : IsSum(other, count, seq) /\ Total(count, seq) = other[Len(seq)]
    BY <1>1, TotalIsSum
  <2> QED BY <2>1 DEF CountedUpTo
<1> HIDE DEF sum
<1>3. count[suite] = extra + sum[Len(seq)]
  BY <1>2 DEF IsWeight
<1>4. \A n \in 1 .. Len(seq) : count[seq[n]] \in Nat
  BY <1>1 DEF IsWeight
<1>5. \A n \in 0 .. Len(seq) : sum[n] \in Nat /\ sum[n] =< sum[Len(seq)]
  <2> HIDE DEF seq
  <2> QED BY <1>1, <1>2, <1>4, SumIsNatural, SumGrows
<1>6. count[suite] \in Nat /\ sum[Len(seq)] \in Nat /\ extra - entry \in Nat /\ entry \in Nat
  <2>1. Len(seq) \in 0 .. Len(seq)
    BY <1>1
  <2>2. sum[Len(seq)] \in Nat
    BY <1>5, <2>1
  <2> QED BY <1>3, <2>2
<1>7. \A n : LeftIn(count, entry, [suite |-> suite, index |-> n]) = (count[suite] - entry) - sum[n - 1]
  BY DEF LeftIn, sum
<1>8. sum[0] = 0 /\ \A n \in 1 .. Len(seq) : sum[n] = sum[n - 1] + count[seq[n]]
  BY <1>2 DEF IsSum
<1>9. index - 1 \in 0 .. Len(seq) /\ index \in Nat /\ (index + 1) - 1 = index
  BY <1>1
<1>10. LeftIn(count, entry, [suite |-> suite, index |-> 1]) = count[suite] - entry
  <2>1. (count[suite] - entry) - 0 = count[suite] - entry
    BY <1>6
  <2> QED BY <1>7, <1>8, <2>1
<1>11. /\ LeftIn(count, entry, [suite |-> suite, index |-> index]) \in Nat
       /\ LeftIn(count, entry, [suite |-> suite, index |-> index]) >= extra - entry
  <2>1. sum[index - 1] \in Nat /\ sum[index - 1] =< sum[Len(seq)]
    BY <1>5, <1>9
  <2>2. LeftIn(count, entry, [suite |-> suite, index |-> index])
          = ((extra + sum[Len(seq)]) - entry) - sum[index - 1]
    BY <1>3, <1>7
  <2>3. extra \in Nat /\ entry \in Nat /\ entry =< extra
    OBVIOUS
  <2>4. \A whole, part, most, lost \in Nat :
          (part =< whole /\ lost =< most) =>
            /\ ((most + whole) - lost) - part \in Nat
            /\ ((most + whole) - lost) - part >= most - lost
    OBVIOUS
  <2>5. sum[Len(seq)] \in Nat
    BY <1>6
  <2> HIDE DEF seq
  <2> QED BY <2>1, <2>2, <2>3, <2>4, <2>5
<1>12. ASSUME index = Len(seq) + 1
       PROVE  LeftIn(count, entry, [suite |-> suite, index |-> index]) = extra - entry
  <2>1. index - 1 = Len(seq)
    BY <1>1, <1>12
  <2>2. LeftIn(count, entry, [suite |-> suite, index |-> index])
          = ((extra + sum[Len(seq)]) - entry) - sum[Len(seq)]
    BY <1>3, <1>7, <2>1
  <2> HIDE DEF seq
  <2> QED BY <1>6, <2>2
<1>13. ASSUME index =< Len(seq)
       PROVE  LeftIn(count, entry, [suite |-> suite, index |-> index])
                = count[seq[index]] + LeftIn(count, entry, [suite |-> suite, index |-> index + 1])
  <2>1. index \in 1 .. Len(seq) /\ index \in 0 .. Len(seq)
    BY <1>1, <1>13
  <2>2. sum[index] = sum[index - 1] + count[seq[index]]
    BY <1>8, <2>1
  <2>3. sum[index] \in Nat /\ sum[index - 1] \in Nat /\ count[seq[index]] \in Nat
    BY <1>4, <1>5, <1>9, <2>1
  <2>4. LeftIn(count, entry, [suite |-> suite, index |-> index + 1])
          = (count[suite] - entry) - sum[index]
    BY <1>7, <1>9
  <2>5. LeftIn(count, entry, [suite |-> suite, index |-> index])
          = (count[suite] - entry) - sum[index - 1]
    BY <1>7
  <2> DEFINE weight == count[seq[index]]
             before == sum[index - 1]
             all == count[suite]
  <2>6. weight \in Nat /\ before \in Nat /\ all \in Nat /\ entry \in Nat
    BY <1>6, <2>3
  <2> HIDE DEF weight, before, all
  <2>7. (all - entry) - before = weight + ((all - entry) - (before + weight))
    BY <2>6
  <2> QED BY <2>2, <2>4, <2>5, <2>7 DEF weight, before, all
<1> QED BY <1>10, <1>11, <1>12, <1>13

\* What a suite has left, from the end of its children backwards.
LeftFits(count, least, entry, suite, index) ==
  LET before == LeftIn(count, entry, [suite |-> suite, index |-> index])
      after == LeftIn(count, entry, [suite |-> suite, index |-> index + 1])
  IN  /\ before \in Nat
      /\ before >= least
      /\ index = Len(Children[suite]) + 1 => before = least
      /\ index =< Len(Children[suite]) => before = count[Children[suite][index]] + after

LEMMA LeftFitsSuite ==
  ASSUME NEW count, NEW extra \in Nat, NEW entry \in 0 .. extra, IsWeight(count, extra),
         NEW suite \in Suites, NEW index \in 1 .. Len(Children[suite]) + 1
  PROVE  LeftFits(count, extra - entry, entry, suite, index)
<1>1. /\ LeftIn(count, entry, [suite |-> suite, index |-> index]) \in Nat
      /\ LeftIn(count, entry, [suite |-> suite, index |-> index]) >= extra - entry
      /\ index = Len(Children[suite]) + 1 =>
           LeftIn(count, entry, [suite |-> suite, index |-> index]) = extra - entry
      /\ index =< Len(Children[suite]) =>
           LeftIn(count, entry, [suite |-> suite, index |-> index])
             = count[Children[suite][index]]
                 + LeftIn(count, entry, [suite |-> suite, index |-> index + 1])
  BY LeftInSuite
<1> QED BY <1>1 DEF LeftFits

\* The suites of a stack have number left.
AllLeft(count, entry, stack, number) ==
  \E left \in [0 .. Len(stack) -> Nat] :
    /\ left[0] = 0
    /\ \A n \in 1 .. Len(stack) : left[n] = left[n - 1] + LeftIn(count, entry, stack[n])
    /\ left[Len(stack)] = number

LEMMA NoneLeft ==
  ASSUME NEW count, NEW entry
  PROVE  \A number : AllLeft(count, entry, <<>>, number) <=> number = 0
<1>1. Len(<<>>) = 0
  BY EmptySeq
<1>2. ASSUME NEW number, AllLeft(count, entry, <<>>, number) PROVE number = 0
  BY <1>1, <1>2 DEF AllLeft
<1>3. AllLeft(count, entry, <<>>, 0)
  <2> DEFINE left == [n \in 0 .. 0 |-> 0]
  <2>1. left \in [0 .. 0 -> Nat] /\ left[0] = 0 /\ \A n \in 1 .. 0 : FALSE
    OBVIOUS
  <2> HIDE DEF left
  <2> QED BY <1>1, <2>1 DEF AllLeft
<1> QED BY <1>2, <1>3

\* A stack that agrees with another one below its top has left what its top adds.
LEMMA LeftWithTop ==
  ASSUME NEW count, NEW entry,
         NEW below, NEW stack, Len(below) \in Nat, Len(stack) = Len(below) + 1,
         \A n \in 1 .. Len(below) : stack[n] = below[n],
         NEW top \in Nat, top = LeftIn(count, entry, stack[Len(stack)])
  PROVE  /\ \A number \in Nat :
              AllLeft(count, entry, below, number) => AllLeft(count, entry, stack, number + top)
         /\ \A number \in Nat :
              AllLeft(count, entry, stack, number) =>
                number - top \in Nat /\ AllLeft(count, entry, below, number - top)
<1> DEFINE len == Len(below)
<1>1. /\ len \in Nat /\ top \in Nat
      /\ \A n \in 1 .. len : n \in 1 .. len + 1
      /\ \A n \in 0 .. len : n \in 0 .. len + 1
      /\ \A n \in 1 .. len + 1 : n \in 1 .. len \/ n = len + 1
      /\ (len + 1) - 1 = len /\ len \in 0 .. len /\ len + 1 \in 1 .. len + 1
      /\ \A n \in 1 .. len : n \in 0 .. len /\ n - 1 \in 0 .. len
  OBVIOUS
<1>2. ASSUME NEW number \in Nat, AllLeft(count, entry, below, number)
      PROVE  AllLeft(count, entry, stack, number + top)
  <2>1. PICK left \in [0 .. len -> Nat] :
          /\ left[0] = 0
          /\ \A n \in 1 .. len : left[n] = left[n - 1] + LeftIn(count, entry, below[n])
          /\ left[len] = number
    BY <1>2 DEF AllLeft
  <2> DEFINE longer == [n \in 0 .. len + 1 |-> IF n = len + 1 THEN number + top ELSE left[n]]
  <2>2. longer \in [0 .. len + 1 -> Nat]
    BY <1>1
  <2>3. \A n \in 0 .. len : longer[n] = left[n]
    BY <1>1
  <2>4. longer[0] = 0 /\ longer[len + 1] = number + top
    BY <1>1, <2>1
  <2> HIDE DEF longer
  <2>5. ASSUME NEW n \in 1 .. len + 1
        PROVE  longer[n] = longer[n - 1] + LeftIn(count, entry, stack[n])
    <3>1. CASE n = len + 1
      BY <1>1, <2>1, <2>3, <2>4, <3>1
    <3>2. CASE n \in 1 .. len
      <4>1. n \in 0 .. len /\ n - 1 \in 0 .. len /\ stack[n] = below[n]
        BY <1>1, <3>2
      <4> QED BY <2>1, <2>3, <3>2, <4>1
    <3> QED BY <1>1, <3>1, <3>2
  <2> QED BY <2>2, <2>4, <2>5 DEF AllLeft
<1>3. ASSUME NEW number \in Nat, AllLeft(count, entry, stack, number)
      PROVE  number - top \in Nat /\ AllLeft(count, entry, below, number - top)
  <2>1. PICK left \in [0 .. len + 1 -> Nat] :
          /\ left[0] = 0
          /\ \A n \in 1 .. len + 1 : left[n] = left[n - 1] + LeftIn(count, entry, stack[n])
          /\ left[len + 1] = number
    BY <1>3 DEF AllLeft
  <2> DEFINE shorter == [n \in 0 .. len |-> left[n]]
  <2>2. shorter \in [0 .. len -> Nat]
    BY <1>1
  <2>3. shorter[0] = 0 /\ shorter[len] = left[len] /\ left[len] \in Nat
    BY <1>1, <2>1
  <2>4. left[len + 1] = left[len] + top
    BY <1>1, <2>1
  <2>5. number - top \in Nat /\ shorter[len] = number - top
    BY <1>1, <2>1, <2>3, <2>4
  <2>6. \A n \in 1 .. len : shorter[n] = shorter[n - 1] + LeftIn(count, entry, below[n])
    BY <1>1, <2>1
  <2> HIDE DEF shorter
  <2> QED BY <2>2, <2>3, <2>5, <2>6 DEF AllLeft
<1> QED BY <1>2, <1>3

(***************************************************************************)
(* What a step through the tree of the tests takes away from what is left: *)
(* a test case that the run has got to is no longer left; to enter a suite *)
(* and to leave it takes its share; and a run that has been stopped leaves *)
(* out what it would have come to.                                         *)
(***************************************************************************)
LEMMA ChildIsLeft ==
  ASSUME NEW count, NEW extra \in Nat, NEW entry \in 0 .. extra, IsWeight(count, extra),
         RunInv, RunChildTest, NEW number \in Nat, AllLeft(count, entry, frames, number)
  PROVE  \E lost \in 0 .. number :
           /\ AllLeft(count, entry, frames', number - lost)
           /\ test' # None => lost = 1
           /\ test' = None =>
                lost \in {entry, extra - entry} \/ (m_stop /\ lost >= extra - entry)
<1> DEFINE last == Last(frames)
           len == Len(frames)
           below == SubSeq(frames, 1, len - 1)
           child == Children[last.suite][last.index]
           step == [last EXCEPT !.index = @ + 1]
           Left(frame) == LeftIn(count, entry, frame)
<1>1. frames \in Seq(Frames) /\ frames # <<>> /\ len \in Nat \ {0} /\ test = None
  BY EmptySeq DEF RunInv, FramesInv, RunChildTest
<1>2. /\ Len(below) = len - 1 /\ len - 1 \in Nat
      /\ \A n \in 1 .. len - 1 : below[n] = frames[n]
  <2>1. len - 1 \in Nat /\ len - 1 =< Len(frames)
    BY <1>1
  <2> QED BY <1>1, <2>1, SubSeqOfFrames
<1>3. last = frames[len] /\ last \in Frames /\ last.index \in 1 .. Len(Children[last.suite]) + 1
  <2>1. last = frames[len] /\ len \in 1 .. len
    BY <1>1 DEF Last
  <2> QED BY <1>1, <2>1, ElementOfSeq DEF RunInv, FramesInv
<1>4. /\ last.suite \in Suites /\ last.index \in Nat
      /\ last = [suite |-> last.suite, index |-> last.index]
      /\ step = [suite |-> last.suite, index |-> last.index + 1]
      /\ Len(Children[last.suite]) \in Nat
  <2>1. /\ last.suite \in Suites /\ last.index \in Nat
        /\ last = [suite |-> last.suite, index |-> last.index]
        /\ step = [suite |-> last.suite, index |-> last.index + 1]
    BY <1>3 DEF Frames
  <2> QED BY <2>1, TestsAssumption, LenProperties
<1>5. /\ Left(last) \in Nat
      /\ Left(last) >= extra - entry
      /\ last.index = Len(Children[last.suite]) + 1 => Left(last) = extra - entry
      /\ last.index =< Len(Children[last.suite]) => Left(last) = count[child] + Left(step)
  <2>1. last.suite \in Suites /\ last.index \in 1 .. Len(Children[last.suite]) + 1
    BY <1>3, <1>4
  <2>2. [suite |-> last.suite, index |-> last.index] = last
    BY <1>4
  <2>3. [suite |-> last.suite, index |-> last.index + 1] = step
    BY <1>4
  <2> HIDE DEF last, step
  <2>4. LeftFits(count, extra - entry, entry, last.suite, last.index)
    BY <2>1, LeftFitsSuite
  <2> DEFINE Fits(before, after) ==
               /\ before \in Nat
               /\ before >= extra - entry
               /\ last.index = Len(Children[last.suite]) + 1 => before = extra - entry
               /\ last.index =< Len(Children[last.suite]) =>
                    before = count[Children[last.suite][last.index]] + after
  <2>5. Fits(LeftIn(count, entry, [suite |-> last.suite, index |-> last.index]),
             LeftIn(count, entry, [suite |-> last.suite, index |-> last.index + 1]))
    BY <2>4 DEF LeftFits
  <2>6. /\ LeftIn(count, entry, [suite |-> last.suite, index |-> last.index]) = Left(last)
        /\ LeftIn(count, entry, [suite |-> last.suite, index |-> last.index + 1]) = Left(step)
    BY <2>2, <2>3
  <2> HIDE DEF Left, Fits
  <2>7. Fits(Left(last), Left(step))
    BY <2>5, <2>6
  <2> QED BY <2>7 DEF Fits
<1>6. number - Left(last) \in Nat /\ AllLeft(count, entry, below, number - Left(last))
  <2> HIDE DEF below, last
  <2>1. Len(frames) = Len(below) + 1 /\ Len(below) \in Nat
    BY <1>1, <1>2
  <2>2. \A n \in 1 .. Len(below) : frames[n] = below[n]
    BY <1>2
  <2>3. Left(last) = LeftIn(count, entry, frames[Len(frames)])
    BY <1>3
  <2> HIDE DEF Left
  <2> QED BY <1>5, <2>1, <2>2, <2>3, LeftWithTop
<1>7. extra - entry \in Nat /\ entry \in Nat /\ extra \in Nat /\ number \in Nat
  OBVIOUS
<1> HIDE DEF Left
<1>8. CASE Leaves(last)
  <2>1. frames' = below /\ test' = None
    BY <1>1, <1>8 DEF RunChildTest, Front
  <2>2. last.index = Len(Children[last.suite]) + 1 \/ m_stop
    BY <1>3, <1>4, <1>8 DEF Leaves
  <2>3. Left(last) = extra - entry \/ (m_stop /\ Left(last) >= extra - entry)
    BY <1>5, <2>2
  <2>4. Left(last) \in 0 .. number
    <3> HIDE DEF last
    <3> QED BY <1>5, <1>6, <1>7
  <2> HIDE DEF last, below
  <2> QED BY <1>6, <2>1, <2>3, <2>4
<1>9. CASE ~ Leaves(last)
  <2> DEFINE advanced == Advanced(frames)
  <2>1. /\ last.index \in 1 .. Len(Children[last.suite])
        /\ child \in Tests
        /\ advanced \in Seq(Frames) /\ Len(advanced) = len
        /\ \A n \in 1 .. len : advanced[n] = IF n = len THEN step ELSE frames[n]
    BY <1>9, ChildTest
  <2>2. last.index + 1 \in 1 .. Len(Children[last.suite]) + 1
        /\ last.index =< Len(Children[last.suite])
    BY <1>4, <2>1
  <2>3. Left(step) \in Nat /\ Left(last) = count[child] + Left(step)
    <3>1. last.suite \in Suites
      BY <1>4
    <3>2. [suite |-> last.suite, index |-> last.index + 1] = step
      BY <1>4
    <3> HIDE DEF last, step
    <3>3. LeftIn(count, entry, [suite |-> last.suite, index |-> last.index + 1]) \in Nat
      <4>1. LeftFits(count, extra - entry, entry, last.suite, last.index + 1)
        BY <2>2, <3>1, LeftFitsSuite
      <4> QED BY <4>1 DEF LeftFits
    <3> QED BY <1>5, <2>2, <3>2, <3>3 DEF Left
  <2>4. count[child] \in Nat
    BY <2>1 DEF IsWeight
  <2> HIDE DEF below, last, advanced, step, child
  <2>5. /\ number - count[child] \in Nat /\ count[child] \in 0 .. number
        /\ (number - Left(last)) + Left(step) = number - count[child]
    <3>1. \A all \in Nat, inLast \in Nat, inStep \in Nat, inChild \in Nat :
            all - inLast \in Nat /\ inLast = inChild + inStep =>
              /\ all - inChild \in Nat /\ inChild \in 0 .. all
              /\ (all - inLast) + inStep = all - inChild
      OBVIOUS
    <3>2. /\ number \in Nat /\ Left(last) \in Nat /\ Left(step) \in Nat /\ count[child] \in Nat
          /\ number - Left(last) \in Nat /\ Left(last) = count[child] + Left(step)
      BY <1>5, <1>6, <1>7, <2>3, <2>4
    <3> QED BY <3>1, <3>2
  <2>6. AllLeft(count, entry, advanced, number - count[child])
    <3>1. Len(advanced) = Len(below) + 1 /\ Len(below) \in Nat
      BY <1>1, <1>2, <2>1
    <3>2. \A n \in 1 .. Len(below) : advanced[n] = below[n]
      BY <1>1, <1>2, <2>1
    <3>3. Left(step) = LeftIn(count, entry, advanced[Len(advanced)])
      <4>1. advanced[Len(advanced)] = step
        BY <1>1, <2>1
      <4> QED BY <4>1 DEF Left
    <3>4. \A rest \in Nat :
            AllLeft(count, entry, below, rest) => AllLeft(count, entry, advanced, rest + Left(step))
      BY <2>3, <3>1, <3>2, <3>3, LeftWithTop
    <3>5. AllLeft(count, entry, advanced, (number - Left(last)) + Left(step))
      BY <1>6, <3>4
    <3> QED BY <2>5, <3>5
  <2>7. CASE child \in Cases
    <3>1. frames' = advanced /\ test' = child
      BY <1>9, <2>7 DEF RunChildTest, last, advanced, child
    <3>2. test' # None /\ count[child] = 1
      BY <2>7, <3>1, TestsAssumption DEF IsWeight
    <3> QED BY <2>5, <2>6, <3>1, <3>2
  <2>8. CASE child \notin Cases
    <3> DEFINE entered == [suite |-> child, index |-> 1]
    <3>1. frames' = Append(advanced, entered) /\ test' = None
      BY <1>1, <1>9, <2>8 DEF RunChildTest, last, advanced, child
    <3>2. child \in Suites /\ Len(Children[child]) \in Nat
      BY <2>1, <2>8, ChildrenOfSuite
    <3>3. entered \in Frames
      BY <3>2 DEF Frames
    <3>4. /\ Left(entered) \in Nat
          /\ Left(entered) = count[child] - entry
      <4>1. 1 \in 1 .. Len(Children[child]) + 1
        BY <3>2
      <4>2. /\ LeftIn(count, entry, entered) \in Nat
            /\ LeftIn(count, entry, entered) = count[child] - entry
        BY <3>2, <4>1, LeftInSuite
      <4> QED BY <4>2 DEF Left
    <3> HIDE DEF entered
    <3>5. /\ Len(frames') = Len(advanced) + 1 /\ Len(advanced) \in Nat
          /\ \A n \in 1 .. Len(advanced) : frames'[n] = advanced[n]
          /\ frames'[Len(frames')] = entered
      BY <1>1, <2>1, <3>1, <3>3, AppendProperties
    <3>6. Left(entered) = LeftIn(count, entry, frames'[Len(frames')])
      BY <3>5 DEF Left
    <3>7. AllLeft(count, entry, frames', (number - count[child]) + Left(entered))
      BY <2>5, <2>6, <3>4, <3>5, <3>6, LeftWithTop
    <3>8. entry \in 0 .. number /\ (number - count[child]) + Left(entered) = number - entry
      BY <1>7, <2>4, <2>5, <3>4
    <3>9. AllLeft(count, entry, frames', number - entry)
      BY <3>7, <3>8
    <3> QED BY <3>1, <3>8, <3>9
  <2> QED BY <2>7, <2>8
<1> QED BY <1>8, <1>9

LEMMA FirstIsLeft ==
  ASSUME NEW count, NEW extra \in Nat, NEW entry \in 0 .. extra, IsWeight(count, extra),
         NEW t \in Tests, BeginRun(t)
  PROVE  \/ test' = t /\ count[t] = 1 /\ AllLeft(count, entry, frames', 0)
         \/ /\ test' = None
            /\ count[t] - entry \in Nat
            /\ AllLeft(count, entry, frames', count[t] - entry)
<1>1. CASE t \in Cases
  BY <1>1, NoneLeft DEF BeginRun, IsWeight
<1>2. CASE t \notin Cases
  <2> DEFINE entered == [suite |-> t, index |-> 1]
             top == LeftIn(count, entry, entered)
  <2>1. frames' = <<entered>> /\ test' = None
    BY <1>2 DEF BeginRun
  <2>2. t \in Suites /\ 1 \in 1 .. Len(Children[t]) + 1
    BY <1>2, ChildrenOfSuite
  <2>3. top = count[t] - entry /\ top \in Nat
    BY <2>2, LeftInSuite
  <2> HIDE DEF entered, top
  <2>4. Len(frames') = 1 /\ frames'[1] = entered /\ Len(<<>>) = 0
    BY <2>1, EmptySeq
  <2>5. AllLeft(count, entry, frames', 0 + top)
    <3>1. /\ Len(<<>>) \in Nat /\ Len(frames') = Len(<<>>) + 1
          /\ \A n \in 1 .. Len(<<>>) : frames'[n] = <<>>[n]
      BY <2>4
    <3>2. top = LeftIn(count, entry, frames'[Len(frames')])
      BY <2>4 DEF top
    <3>3. AllLeft(count, entry, <<>>, 0)
      BY NoneLeft
    <3> QED BY <2>3, <3>1, <3>2, <3>3, LeftWithTop
  <2>6. 0 + top = count[t] - entry
    BY <2>3
  <2> QED BY <2>1, <2>3, <2>5, <2>6
<1> QED BY <1>1, <1>2

(***************************************************************************)
(* The test cases that a run has counted, the one under way and those that *)
(* are left make up all that there are; a run that has been stopped leaves *)
(* some of them out.                                                       *)
(***************************************************************************)
CasesLeft(stack, number) == AllLeft(countTestCases, 0, stack, number)

MakesUp(stack, stopped, counted, total) ==
  \E left \in Nat :
    /\ CasesLeft(stack, left)
    /\ counted + left =< total
    /\ ~ stopped => counted + left = total

LEMMA CountsAreNatural ==
  ASSUME NEW t \in Tests
  PROVE  countTestCases[t] \in Nat
BY CountsTests DEF IsWeight

LEMMA ChildIsCounted ==
  ASSUME RunInv, RunChildTest, NEW counted \in Nat, NEW total \in Nat,
         MakesUp(frames, m_stop, counted, total)
  PROVE  MakesUp(frames', m_stop', counted + (IF test' # None THEN 1 ELSE 0), total)
<1>1. PICK left \in Nat :
        /\ CasesLeft(frames, left)
        /\ counted + left =< total
        /\ ~ m_stop => counted + left = total
  BY DEF MakesUp
<1>2. PICK lost \in 0 .. left :
        /\ CasesLeft(frames', left - lost)
        /\ test' # None => lost = 1
        /\ test' = None => lost \in {0, 0 - 0} \/ (m_stop /\ lost >= 0 - 0)
  <2>1. 0 \in Nat /\ 0 \in 0 .. 0
    OBVIOUS
  <2>2. AllLeft(countTestCases, 0, frames, left)
    BY <1>1 DEF CasesLeft
  <2> QED BY <2>1, <2>2, CountsTests, ChildIsLeft DEF CasesLeft
<1>3. m_stop' = m_stop
  BY DEF RunChildTest
<1> DEFINE one == IF test' # None THEN 1 ELSE 0
<1>4. left - lost \in Nat /\ one \in Nat /\ one =< lost /\ (~ m_stop => one = lost)
  BY <1>2
<1> HIDE DEF one
<1>5. /\ (counted + one) + (left - lost) =< total
      /\ ~ m_stop => (counted + one) + (left - lost) = total
  BY <1>1, <1>2, <1>4
<1> QED BY <1>2, <1>3, <1>4, <1>5 DEF MakesUp, one

LEMMA NothingIsCounted ==
  ASSUME NEW t \in Tests, BeginRun(t)
  PROVE  MakesUp(frames', m_stop', IF test' # None THEN 1 ELSE 0, countTestCases[t])
<1>1. countTestCases[t] \in Nat
  BY CountsAreNatural
<1>2. \/ test' = t /\ countTestCases[t] = 1 /\ CasesLeft(frames', 0)
      \/ test' = None /\ CasesLeft(frames', countTestCases[t])
  <2>1. 0 \in Nat /\ 0 \in 0 .. 0 /\ countTestCases[t] - 0 = countTestCases[t]
    BY <1>1
  <2> QED BY <2>1, CountsTests, FirstIsLeft DEF CasesLeft
<1>3. CASE test' = t /\ countTestCases[t] = 1 /\ CasesLeft(frames', 0)
  <2>1. test' # None
    BY <1>3, TestsAssumption DEF Tests
  <2> QED BY <1>3, <2>1 DEF MakesUp
<1>4. CASE test' = None /\ CasesLeft(frames', countTestCases[t])
  BY <1>1, <1>4 DEF MakesUp
<1> QED BY <1>2, <1>3, <1>4

LEMMA AllIsCounted ==
  ASSUME NEW stopped, NEW counted \in Nat, NEW total \in Nat,
         MakesUp(<<>>, stopped, counted, total)
  PROVE  counted =< total /\ (~ stopped => counted = total)
BY NoneLeft DEF MakesUp, CasesLeft

LEMMA NotMoreThanAll ==
  ASSUME NEW stack, NEW stopped, NEW counted \in Nat, NEW total \in Nat,
         MakesUp(stack, stopped, counted, total)
  PROVE  counted =< total /\ MakesUp(stack, TRUE, counted, total)
BY DEF MakesUp

-----------------------------------------------------------------------------
(***************************************************************************)
(* The dialog for MFC counts a test case when it has ended.  What it has   *)
(* selected is what is run, until the user has clicked on Run again.       *)
(***************************************************************************)
Pending == IF test # None /\ callback \notin {"displayed", "enable"} THEN 1 ELSE 0

SelectedInv ==
  toolkit = "mfc" =>
    /\ gui = "freeState" => history \in Tests
    /\ m_activeTest => history \in Tests
    /\ m_activeTest /\ gui # "freeState" =>
         /\ m_selectedTest \in Tests
         /\ MakesUp(frames, m_stop, counts.tests + Pending, countTestCases[m_selectedTest])

LEMMA SelectedStep ==
  ASSUME RunInv, MfcInv, SelectedInv, MfcNext
  PROVE  SelectedInv'
<1>0. /\ toolkit = "mfc" /\ toolkit' = "mfc"
      /\ counts \in CountRecords /\ counts.tests \in Nat
      /\ Pending \in Nat
      /\ m_selectedTest \in Tests => countTestCases[m_selectedTest] \in Nat
  BY CountsAreNatural DEF MfcNext, MfcInv, CountRecords, Pending
<1> DEFINE total == countTestCases[m_selectedTest]
           counted == counts.tests + Pending
\* A step that neither runs a child nor begins a run, in the loop of the window or not.
<1>1. ASSUME UNCHANGED <<gui, history, m_selectedTest, m_activeTest, frames>>,
             m_stop' = m_stop \/ m_stop' = TRUE,
             counts'.tests + Pending' = counts.tests + Pending
      PROVE  SelectedInv'
  <2> SUFFICES ASSUME m_activeTest, gui # "freeState"
               PROVE  /\ m_selectedTest \in Tests
                      /\ MakesUp(frames, m_stop', counted, total)
    BY <1>0, <1>1 DEF SelectedInv
  <2>1. m_selectedTest \in Tests /\ MakesUp(frames, m_stop, counted, total)
    BY <1>0 DEF SelectedInv
  <2>2. counted \in Nat /\ total \in Nat
    BY <1>0, <2>1
  <2> HIDE DEF counted, total
  <2>3. MakesUp(frames, TRUE, counted, total)
    BY <2>1, <2>2, NotMoreThanAll
  <2> QED BY <1>1, <2>1, <2>3
<1>2. CASE RunChildTest /\ UNCHANGED mfcVars
  <2>1. phase = "idle" /\ test = None
    BY <1>2 DEF RunChildTest, RunInv, CaseInv
  <2>2. callback = "none" /\ callback' = "none"
    BY <1>2, <2>1 DEF MfcInv, Locked, Calls, mfcVars
  <2>3. Pending = 0 /\ Pending' = IF test' # None THEN 1 ELSE 0
    BY <2>1, <2>2 DEF Pending
  <2> SUFFICES ASSUME m_activeTest, gui # "freeState"
               PROVE  /\ m_selectedTest \in Tests
                      /\ MakesUp(frames', m_stop', counts.tests + Pending', total)
    BY <1>0, <1>2 DEF SelectedInv, mfcVars
  <2>4. m_selectedTest \in Tests /\ MakesUp(frames, m_stop, counts.tests, total)
    <3>1. counts.tests + 0 = counts.tests
      BY <1>0
    <3> QED BY <1>0, <2>3, <3>1 DEF SelectedInv
  <2>5. total \in Nat
    BY <1>0, <2>4
  <2> HIDE DEF total
  <2>6. MakesUp(frames', m_stop', counts.tests + (IF test' # None THEN 1 ELSE 0), total)
    BY <1>0, <1>2, <2>4, <2>5, ChildIsCounted
  <2> QED BY <2>3, <2>4, <2>6
<1>3. CASE RunMethod /\ UNCHANGED mfcVars
  <2>1. UNCHANGED <<frames, test, m_stop>>
    BY <1>3 DEF RunMethod, Protect
  <2> QED BY <1>1, <1>3, <2>1 DEF mfcVars, Pending
<1>4. CASE NotifyCollector
  <2>1. callback = "none" /\ callback' = "display"
    BY <1>4 DEF NotifyCollector, Locked
  <2> QED BY <1>1, <1>4, <2>1 DEF NotifyCollector, runVars, Pending
<1>5. CASE CheckTestsRun
  <2>1. callback = "displayed" /\ phase = "endTest"
    BY <1>5 DEF CheckTestsRun, MfcInv
  <2>2. Pending = 0 /\ Pending' = 0 /\ UNCHANGED <<frames, m_stop>>
    BY <1>5, <2>1 DEF CheckTestsRun, Told, Pending, runVars
  <2> QED BY <1>1, <1>5, <2>2 DEF CheckTestsRun
<1>6. CASE SetRunCompleted
  BY <1>1, <1>6 DEF SetRunCompleted, EndThread, Pending
<1>7. CASE UpdateDisplay
  <2>1. callback = "display" /\ phase \in Calls /\ test # None
    BY <1>7 DEF UpdateDisplay, MfcInv, Locked, RunInv, CaseInv, Calls
  <2>2. UNCHANGED <<gui, history, m_selectedTest, m_activeTest>>
    BY <1>7 DEF UpdateDisplay
  <2>3. CASE phase = "endTest"
    <3>1. /\ counts'.tests = counts.tests + 1 /\ callback' = "displayed"
          /\ UNCHANGED <<frames, test, m_stop>>
      BY <1>0, <1>7, <2>3 DEF UpdateDisplay, CountRecords, runVars
    <3>2. Pending = 1 /\ Pending' = 0
      BY <2>1, <3>1 DEF Pending
    <3>3. counts'.tests + Pending' = counts.tests + Pending
      BY <1>0, <3>1, <3>2
    <3> QED BY <1>1, <2>2, <3>1, <3>3
  <2>4. CASE phase # "endTest"
    <3>1. counts'.tests = counts.tests
      BY <1>0, <1>7, <2>4 DEF UpdateDisplay, CountRecords, RunInv, CaseInv
    <3>2. callback' = "none" /\ UNCHANGED <<frames, test, m_stop>>
      BY <1>7, <2>4 DEF UpdateDisplay, Told
    <3>3. Pending = 1 /\ Pending' = 1
      BY <2>1, <3>2 DEF Pending
    <3> QED BY <1>1, <2>2, <3>1, <3>2, <3>3
  <2> QED BY <2>3, <2>4
<1>8. CASE EnableButtons
  <2>1. callback = "enable" /\ phase = "endTest"
    BY <1>8 DEF EnableButtons, MfcInv
  <2>2. Pending = 0 /\ Pending' = 0 /\ UNCHANGED <<frames, m_stop>>
    BY <1>8, <2>1 DEF EnableButtons, Told, Pending
  <2> QED BY <1>1, <1>8, <2>2 DEF EnableButtons
<1>9. CASE FreeStateAndRun
  <2>1. /\ gui = "freeState" /\ gui' = "loop" /\ counts' = NoCounts
        /\ BeginRun(m_selectedTest) /\ m_selectedTest \in Tests
        /\ UNCHANGED <<history, m_selectedTest, callback>>
    BY <1>9 DEF FreeStateAndRun, FreshCounts, MfcInv
  <2>2. ~ running
    BY <1>0, <1>9 DEF FreeStateAndRun, MfcInv
  <2>3. callback = "none"
    BY <2>2 DEF RunInv, CaseInv, MfcInv, Locked, Calls
  <2>4. counts'.tests + Pending' = IF test' # None THEN 1 ELSE 0
    <3>1. counts'.tests = 0 /\ Pending' = IF test' # None THEN 1 ELSE 0
      BY <2>1, <2>3 DEF NoCounts, Pending
    <3> QED BY <3>1
  <2>5. MakesUp(frames', m_stop', IF test' # None THEN 1 ELSE 0, total)
    BY <2>1, NothingIsCounted
  <2> QED BY <1>0, <2>1, <2>4, <2>5 DEF SelectedInv
<1>10. CASE StopAndBeIdle
  <2>1. /\ gui = "stop" /\ gui' = "loop" /\ m_stop' = TRUE
        /\ UNCHANGED <<history, m_selectedTest, m_activeTest, frames, test, counts, callback>>
    BY <1>10 DEF StopAndBeIdle, Stop
  <2> SUFFICES ASSUME m_activeTest
               PROVE  /\ m_selectedTest \in Tests
                      /\ MakesUp(frames, TRUE, counted, total)
    BY <1>0, <2>1 DEF SelectedInv, Pending
  <2>2. m_selectedTest \in Tests /\ MakesUp(frames, m_stop, counted, total)
    BY <1>0, <2>1 DEF SelectedInv
  <2>3. counted \in Nat /\ total \in Nat
    BY <1>0, <2>2
  <2> HIDE DEF counted, total
  <2> QED BY <2>2, <2>3, NotMoreThanAll
<1>11. CASE User
  <2>1. CASE OnRun
    <3>1. history \in Tests => history # None
      BY TestsAssumption DEF Tests
    <3>2. /\ history' = history /\ m_activeTest' = m_activeTest
          /\ gui' = IF history = None THEN "loop" ELSE "freeState"
          /\ history \in Tests \cup {None}
      BY <2>1 DEF OnRun, MfcInv
    <3> QED BY <1>0, <2>1, <3>1, <3>2 DEF SelectedInv, OnRun
  <2>2. CASE OnStop
    <3>1. UNCHANGED <<history, m_selectedTest, m_activeTest, frames, test, m_stop, counts, callback>>
      BY <2>2 DEF OnStop, runVars
    <3>2. gui = "loop" /\ gui' # "freeState"
      BY <2>2 DEF OnStop
    <3> QED BY <1>0, <3>1, <3>2 DEF SelectedInv, Pending
  <2>3. CASE \E t \in Tests : OnSelectTestInHistoryCombo(t) \/ OnBrowseTest(t)
    <3>1. /\ history' \in Tests
          /\ UNCHANGED <<gui, m_selectedTest, m_activeTest, frames, test, m_stop, counts, callback>>
      BY <2>3 DEF OnSelectTestInHistoryCombo, OnBrowseTest, runVars
    <3> QED BY <1>0, <3>1 DEF SelectedInv, Pending
  <2> QED BY <1>11, <2>1, <2>2, <2>3 DEF User
<1> QED
  BY <1>2, <1>3, <1>4, <1>5, <1>6, <1>7, <1>8, <1>9, <1>10, <1>11
  DEF MfcNext, RunTests, Messages, WindowGoesOn

LEMMA SelectedInvariant ==
  RunnersSpec => []SelectedInv
<1>1. RunnersInit => SelectedInv
  BY DEF RunnersInit, MfcInit, SelectedInv
<1>2. Inv /\ SelectedInv /\ [RunnersNext]_allVars => SelectedInv'
  <2> SUFFICES ASSUME Inv, SelectedInv, [RunnersNext]_allVars
               PROVE  SelectedInv'
    OBVIOUS
  <2>1. CASE MfcNext /\ UNCHANGED qtVars
    BY <2>1, SelectedStep DEF Inv
  <2>2. CASE QtNext /\ UNCHANGED mfcVars
    BY <2>2 DEF QtNext, SelectedInv
  <2>3. CASE UNCHANGED allVars
    BY <2>3 DEF allVars, runVars, mfcVars, SelectedInv, Pending
  <2> QED BY <2>1, <2>2, <2>3 DEF RunnersNext
<1> QED BY <1>1, <1>2, RunnersInvariant, PTL DEF RunnersSpec

(***************************************************************************)
(* However deep the tree is, and whatever the user clicks, the dialog for  *)
(* MFC never counts more test cases than countTestCases has found in what  *)
(* is run; and a run that nobody has stopped has counted them all when it  *)
(* is over.                                                                *)
(***************************************************************************)
DialogCountsTheTree ==
  toolkit = "mfc" /\ m_activeTest /\ gui # "freeState" =>
    /\ counts.tests =< countTestCases[m_selectedTest]
    /\ m_runCompleted /\ ~ m_stop => counts.tests = countTestCases[m_selectedTest]

THEOREM DialogCountsAllTests ==
  RunnersSpec => []DialogCountsTheTree
<1>1. Inv /\ SelectedInv => DialogCountsTheTree
  <2> SUFFICES ASSUME Inv, SelectedInv, toolkit = "mfc", m_activeTest, gui # "freeState"
               PROVE  /\ counts.tests =< countTestCases[m_selectedTest]
                      /\ m_runCompleted /\ ~ m_stop =>
                           counts.tests = countTestCases[m_selectedTest]
    BY DEF DialogCountsTheTree
  <2> DEFINE total == countTestCases[m_selectedTest]
             counted == counts.tests + Pending
  <2>1. m_selectedTest \in Tests /\ MakesUp(frames, m_stop, counted, total)
    BY DEF SelectedInv
  <2>2. counts.tests \in Nat /\ Pending \in Nat /\ total \in Nat
    BY <2>1, CountsAreNatural DEF Inv, MfcInv, CountRecords, Pending
  <2>3. counted \in Nat /\ counts.tests =< counted
    BY <2>2
  <2> HIDE DEF counted, total
  <2>4. counts.tests =< total
    <3>1. counted =< total
      BY <2>1, <2>2, <2>3, NotMoreThanAll
    <3> QED BY <2>2, <2>3, <3>1
  <2>5. ASSUME m_runCompleted, ~ m_stop PROVE counts.tests = total
    <3>1. ~ running
      BY <2>5 DEF Inv, MfcInv
    <3>2. frames = <<>> /\ test = None
      BY <3>1 DEF Inv, RunInv, CaseInv
    <3>3. counted = counts.tests
      BY <2>2, <3>2 DEF Pending, counted
    <3> QED BY <2>1, <2>2, <2>3, <2>5, <3>2, <3>3, AllIsCounted
  <2> QED BY <2>4, <2>5 DEF total
<1> QED BY <1>1, RunnersInvariant, SelectedInvariant, PTL

(***************************************************************************)
(* While the dialog for MFC is busy, nobody has stopped its run.  It stays *)
(* busy over the last test case only if there is none.                     *)
(***************************************************************************)
Busy ==
  /\ toolkit = "mfc"
  /\ m_activeTest
  /\ gui # "freeState"
  /\ ~ m_stop
  /\ callback # "displayed" => ~ AllTestsRun \/ countTestCases[m_selectedTest] = 0

IdleInv == m_bIsRunning => Busy

LEMMA IdleStep ==
  ASSUME RunInv, MfcInv, IdleInv, MfcNext
  PROVE  IdleInv'
<1> SUFFICES ASSUME m_bIsRunning' PROVE Busy'
  BY DEF IdleInv
<1> USE DEF IdleInv, Busy
<1>0. /\ toolkit = "mfc" /\ toolkit' = "mfc"
      /\ counts \in CountRecords
      /\ m_bIsRunning \in BOOLEAN
  BY DEF MfcNext, MfcInv
<1>1. CASE (RunChildTest \/ RunMethod) /\ UNCHANGED mfcVars
  <2>1. m_stop' = m_stop
    BY <1>1 DEF RunChildTest, RunMethod, Protect
  <2> QED BY <1>0, <1>1, <2>1 DEF mfcVars, AllTestsRun
<1>2. CASE NotifyCollector
  <2>1. callback = "none" /\ callback' = "display"
    BY <1>2 DEF NotifyCollector, Locked
  <2> QED BY <1>0, <1>2, <2>1 DEF NotifyCollector, runVars, AllTestsRun
<1>3. CASE CheckTestsRun
  <2>1. /\ ~ AllTestsRun /\ callback = "displayed" /\ callback' = "none" /\ Told
        /\ UNCHANGED <<m_bIsRunning, gui, m_selectedTest, m_activeTest, counts>>
    BY <1>3 DEF CheckTestsRun
  <2> QED BY <1>0, <2>1 DEF AllTestsRun, Told
<1>4. CASE SetRunCompleted
  BY <1>0, <1>4 DEF SetRunCompleted, EndThread, AllTestsRun
<1>5. CASE UpdateDisplay
  <2>1. callback = "display" /\ UNCHANGED <<gui, m_selectedTest, m_activeTest, m_bIsRunning>>
    BY <1>5 DEF UpdateDisplay
  <2>2. m_stop' = m_stop
    BY <1>5 DEF UpdateDisplay, Told, runVars
  <2>3. CASE phase = "endTest"
    <3>1. callback' = "displayed"
      BY <1>5, <2>3 DEF UpdateDisplay
    <3> QED BY <1>0, <2>1, <2>2, <3>1
  <2>4. CASE phase # "endTest"
    <3>1. counts'.tests = counts.tests
      BY <1>0, <1>5, <2>4 DEF UpdateDisplay, CountRecords, RunInv, CaseInv
    <3> QED BY <1>0, <2>1, <2>2, <3>1 DEF AllTestsRun
  <2> QED BY <2>3, <2>4
<1>6. CASE EnableButtons
  <2>1. /\ callback = "enable" /\ callback' = "none" /\ Told
        /\ UNCHANGED <<m_bIsRunning, gui, m_selectedTest, m_activeTest, counts>>
    BY <1>6 DEF EnableButtons
  <2> QED BY <1>0, <2>1 DEF AllTestsRun, Told
<1>7. CASE FreeStateAndRun
  <2>1. /\ gui' = "loop" /\ m_activeTest' /\ counts' = NoCounts /\ BeginRun(m_selectedTest)
        /\ UNCHANGED <<m_selectedTest, callback>> /\ m_selectedTest \in Tests
    BY <1>7 DEF FreeStateAndRun, FreshCounts, MfcInv
  <2>2. counts'.tests = 0 /\ ~ m_stop' /\ countTestCases[m_selectedTest] \in Nat
    BY <2>1, CountsAreNatural DEF NoCounts, BeginRun
  <2>3. ~ AllTestsRun' \/ countTestCases[m_selectedTest] = 0
    BY <2>1, <2>2 DEF AllTestsRun
  <2> QED BY <1>0, <2>1, <2>2, <2>3
<1>8. CASE StopAndBeIdle
  BY <1>8 DEF StopAndBeIdle
<1>9. CASE User
  <2>1. CASE OnRun
    BY <1>0, <2>1 DEF OnRun
  <2>2. CASE OnStop
    BY <1>0, <2>2 DEF OnStop, runVars, AllTestsRun
  <2>3. CASE \E t \in Tests : OnSelectTestInHistoryCombo(t)
    BY <2>3 DEF OnSelectTestInHistoryCombo
  <2>4. CASE \E t \in Tests : OnBrowseTest(t)
    BY <2>4 DEF OnBrowseTest
  <2> QED BY <1>9, <2>1, <2>2, <2>3, <2>4 DEF User
<1> QED
  BY <1>1, <1>2, <1>3, <1>4, <1>5, <1>6, <1>7, <1>8, <1>9
  DEF MfcNext, RunTests, Messages, WindowGoesOn

(***************************************************************************)
(* Whatever tree of tests is run, and whatever the user clicks, the dialog *)
(* for MFC is idle again when a run is over: the tests that it has counted *)
(* up to then are as many as countTestCases has found in the tree, unless  *)
(* there are none.                                                         *)
(***************************************************************************)
THEOREM DialogIsIdleAgain ==
  RunnersSpec => []IdleAfterRun
<1>1. RunnersInit => IdleInv
  BY DEF RunnersInit, MfcInit, IdleInv
<1>2. Inv /\ IdleInv /\ [RunnersNext]_allVars => IdleInv'
  <2> SUFFICES ASSUME Inv, IdleInv, [RunnersNext]_allVars
               PROVE  IdleInv'
    OBVIOUS
  <2>1. CASE MfcNext /\ UNCHANGED qtVars
    BY <2>1, IdleStep DEF Inv
  <2>2. CASE QtNext /\ UNCHANGED mfcVars
    BY <2>2 DEF QtNext, mfcVars, IdleInv, Busy
  <2>3. CASE UNCHANGED allVars
    BY <2>3 DEF allVars, runVars, mfcVars, IdleInv, Busy, AllTestsRun
  <2> QED BY <2>1, <2>2, <2>3 DEF RunnersNext
<1>3. Inv /\ IdleInv /\ SelectedInv /\ DialogCountsTheTree => IdleAfterRun
  <2> SUFFICES ASSUME Inv, IdleInv, SelectedInv, DialogCountsTheTree,
                      m_bIsRunning, m_runCompleted
               PROVE  countTestCases[m_selectedTest] = 0
    BY DEF IdleAfterRun
  <2>1. Busy /\ ~ running
    BY DEF IdleInv, Busy, Inv, MfcInv
  <2>2. m_selectedTest \in Tests /\ counts.tests = countTestCases[m_selectedTest]
    BY <2>1 DEF Busy, SelectedInv, DialogCountsTheTree
  <2>3. countTestCases[m_selectedTest] \in Nat
    BY <2>2, CountsAreNatural
  <2>4. AllTestsRun
    BY <2>2, <2>3 DEF AllTestsRun
  <2>5. callback = "none"
    BY <2>1 DEF Inv, RunInv, CaseInv, MfcInv, Locked, Calls
  <2> QED BY <2>1, <2>4, <2>5 DEF Busy
<1> QED
  BY <1>1, <1>2, <1>3, RunnersInvariant, SelectedInvariant, DialogCountsAllTests, PTL
  DEF RunnersSpec

-----------------------------------------------------------------------------
(***************************************************************************)
(* The model for Qt counts a test case when it has ended, and the dialog   *)
(* shows no more than that.  Until the dialog can run tests again, the     *)
(* signal that it can is due: the thread has yet to post the event, or the *)
(* event is the last one in the queue.                                     *)
(***************************************************************************)
FinishedIsDue ==
  \/ running /\ ~ posted
  \/ events # <<>> /\ events[Len(events)].of = "finished"

CasesInRun == IF test # None THEN 1 ELSE 0

ProgressInv ==
  toolkit = "qt" =>
    /\ numberOf.run =< numberOf.testCase
    /\ labels.run =< numberOf.run
    /\ \A n \in 1 .. Len(events) : events[n].of = "run" => events[n].number =< numberOf.run
    /\ running \/ dialog # "canRun" =>
         MakesUp(frames, m_stop, numberOf.run + CasesInRun, numberOf.testCase)
    /\ dialog # "canRun" => FinishedIsDue

\* What an event that is posted or taken leaves of the queue.
LEMMA PostedQueue ==
  ASSUME QtInv, NEW event \in Events, Post(event)
  PROVE  /\ events' # <<>> /\ events'[Len(events')] = event
         /\ \A n \in 1 .. Len(events') : n \in 1 .. Len(events) \/ events'[n] = event
         /\ \A n \in 1 .. Len(events) : events'[n] = events[n]
<1>1. events \in Seq(Events) /\ events' = Append(events, event)
  BY DEF QtInv, Post
<1>2. /\ Len(events) \in Nat
      /\ Len(events') = Len(events) + 1
      /\ events' \in Seq(Events)
      /\ \A n \in 1 .. Len(events) : events'[n] = events[n]
      /\ events'[Len(events) + 1] = event
  BY <1>1, Posted
<1>3. events' # <<>>
  BY <1>2, EmptySeq
<1>4. \A n \in 1 .. Len(events) + 1 : n \in 1 .. Len(events) \/ n = Len(events) + 1
  BY <1>2
<1> QED BY <1>2, <1>3, <1>4

LEMMA TakenQueue ==
  ASSUME QtInv, events # <<>>, events' = Tail(events)
  PROVE  /\ 1 \in 1 .. Len(events) /\ Head(events) = events[1]
         /\ \A n \in 1 .. Len(events') : \E m \in 1 .. Len(events) : events'[n] = events[m]
         /\ \/ events'# <<>> /\ events'[Len(events')] = events[Len(events)]
            \/ Head(events) = events[Len(events)]
<1>1. events \in Seq(Events)
  BY DEF QtInv
<1>2. /\ events' \in Seq(Events)
      /\ Len(events) \in Nat \ {0}
      /\ Len(events') = Len(events) - 1
      /\ \A n \in 1 .. Len(events) - 1 : events'[n] = events[n + 1]
      /\ Head(events) = events[1]
  BY <1>1, Taken
<1>3. 1 \in 1 .. Len(events)
  BY <1>2
<1>4. ASSUME NEW n \in 1 .. Len(events')
      PROVE  \E m \in 1 .. Len(events) : events'[n] = events[m]
  <2>1. n + 1 \in 1 .. Len(events) /\ n \in 1 .. Len(events) - 1
    BY <1>2
  <2> QED BY <1>2, <2>1
<1>5. CASE Len(events) = 1
  BY <1>2, <1>3, <1>5
<1>6. CASE Len(events) # 1
  <2>1. /\ Len(events') \in 1 .. Len(events) - 1
        /\ Len(events') + 1 = Len(events)
    BY <1>2, <1>6
  <2>2. events'[Len(events')] = events[Len(events)]
    BY <1>2, <2>1
  <2>3. events' # <<>>
    BY <2>1, EmptySeq
  <2> QED BY <1>2, <1>3, <1>4, <2>2, <2>3
<1> QED BY <1>2, <1>3, <1>4, <1>5, <1>6

LEMMA ProgressStep ==
  ASSUME RunInv, QtInv, LabelsInv, ProgressInv, QtNext
  PROVE  ProgressInv'
<1>0. /\ toolkit = "qt" /\ toolkit' = "qt"
      /\ numberOf \in [{"testCase", "run", "failure"} -> Nat]
      /\ labels \in [{"testCase", "run", "failure", "listed"} -> Nat]
      /\ numberOf.run \in Nat /\ numberOf.testCase \in Nat /\ labels.run \in Nat
      /\ CasesInRun \in Nat /\ numberOf.run + CasesInRun \in Nat
  BY DEF QtNext, QtInv, CasesInRun
<1>1. CASE RunChildTest /\ UNCHANGED qtVars
  <2>1. running /\ running' /\ test = None /\ UNCHANGED <<dialog, numberOf, events, posted, labels>>
    BY <1>1 DEF RunChildTest, qtVars
  <2>2. MakesUp(frames, m_stop, numberOf.run, numberOf.testCase)
    <3>1. numberOf.run + CasesInRun = numberOf.run
      BY <1>0, <2>1 DEF CasesInRun
    <3> QED BY <1>0, <2>1, <3>1 DEF ProgressInv
  <2>3. MakesUp(frames', m_stop', numberOf.run + CasesInRun', numberOf.testCase)
    BY <1>0, <1>1, <2>2, ChildIsCounted DEF CasesInRun
  <2> QED BY <1>0, <2>1, <2>3 DEF ProgressInv, FinishedIsDue
<1>2. CASE RunMethod /\ UNCHANGED qtVars
  <2>1. UNCHANGED <<running, frames, test, m_stop, dialog, numberOf, events, posted, labels>>
    BY <1>2 DEF RunMethod, Protect, qtVars
  <2> QED BY <1>0, <2>1 DEF ProgressInv, FinishedIsDue, CasesInRun
<1>3. CASE NotifyModel
  <2>1. /\ phase \in Calls /\ test # None /\ running /\ ~ posted
        /\ UNCHANGED <<running, frames, m_stop, dialog, posted, labels>>
    BY <1>0, <1>3 DEF NotifyModel, Told, RunInv, CaseInv, QtInv, Calls
  <2>2. CASE phase = "startTest"
    <3>1. UNCHANGED <<numberOf, events, test>>
      BY <1>3, <2>2 DEF NotifyModel, Told
    <3> QED BY <1>0, <2>1, <3>1 DEF ProgressInv, FinishedIsDue, CasesInRun
  <2>3. CASE phase = "addFailure"
    <3> DEFINE event == [of |-> "failure", number |-> numberOf.failure + 1]
    <3>1. /\ numberOf'.run = numberOf.run /\ numberOf'.testCase = numberOf.testCase
          /\ test' = test /\ Post(event)
      BY <1>0, <1>3, <2>3 DEF NotifyModel, Told
    <3>2. event \in Events /\ event.of # "run"
      BY <1>0 DEF Events
    <3> HIDE DEF event
    <3>3. \A n \in 1 .. Len(events') : events'[n].of = "run" => events'[n].number =< numberOf.run
      BY <1>0, <3>1, <3>2, PostedQueue DEF ProgressInv
    <3> QED BY <1>0, <2>1, <3>1, <3>3 DEF ProgressInv, FinishedIsDue, CasesInRun
  <2>4. CASE phase = "endTest"
    <3> DEFINE event == [of |-> "run", number |-> numberOf.run + 1]
    <3>1. /\ numberOf'.run = numberOf.run + 1 /\ numberOf'.testCase = numberOf.testCase
          /\ test' = None /\ Post(event)
      BY <1>0, <1>3, <2>4 DEF NotifyModel, Told
    <3>2. event \in Events /\ event.number = numberOf.run + 1
      BY <1>0 DEF Events
    <3> HIDE DEF event
    <3>3. ASSUME NEW n \in 1 .. Len(events'), events'[n].of = "run"
          PROVE  events'[n].number =< numberOf.run + 1
      <4>1. CASE events'[n] = event
        BY <1>0, <3>2, <4>1
      <4>2. CASE n \in 1 .. Len(events) /\ events'[n] = events[n]
        <5>1. events[n] \in Events
          BY <4>2, LenProperties, ElementOfSeq DEF QtInv
        <5>2. events[n].number \in Nat /\ events[n].number =< numberOf.run
          BY <1>0, <3>3, <4>2, <5>1 DEF ProgressInv, Events
        <5>3. \A few, many \in Nat : few =< many => few =< many + 1
          OBVIOUS
        <5>4. numberOf.run \in Nat
          BY <1>0
        <5>5. events[n].number =< numberOf.run + 1
          BY <5>2, <5>3, <5>4
        <5> QED BY <4>2, <5>5
      <4> QED BY <3>1, <3>2, <4>1, <4>2, PostedQueue
    <3>4. MakesUp(frames, m_stop, numberOf.run + 1, numberOf.testCase)
      BY <1>0, <2>1 DEF ProgressInv, CasesInRun
    <3>5. numberOf.run + 1 =< numberOf.testCase /\ numberOf.run + 1 \in Nat
      <4>1. numberOf.run + 1 \in Nat /\ numberOf.testCase \in Nat
        BY <1>0
      <4> QED BY <3>4, <4>1, NotMoreThanAll
    <3>6. numberOf'.run + CasesInRun' = numberOf.run + 1
      BY <1>0, <3>1 DEF CasesInRun
    <3>7. labels'.run =< numberOf'.run
      BY <1>0, <2>1, <3>1 DEF ProgressInv
    <3> QED BY <1>0, <2>1, <3>1, <3>3, <3>4, <3>5, <3>6, <3>7 DEF ProgressInv, FinishedIsDue
  <2> QED BY <2>1, <2>2, <2>3, <2>4 DEF Calls
<1>4. CASE PostFinished
  <2> DEFINE event == [of |-> "finished", number |-> 0]
  <2>1. /\ Post(event)
        /\ UNCHANGED <<running, frames, test, m_stop, dialog, numberOf, labels>>
    BY <1>4 DEF PostFinished, runVars
  <2>2. event \in Events /\ event.of = "finished"
    BY DEF Events
  <2> HIDE DEF event
  <2>3. /\ events' # <<>> /\ events'[Len(events')].of = "finished"
        /\ \A n \in 1 .. Len(events') : events'[n].of = "run" => events'[n].number =< numberOf.run
    BY <1>0, <2>1, <2>2, PostedQueue DEF ProgressInv
  <2> QED BY <1>0, <2>1, <2>3 DEF ProgressInv, FinishedIsDue, CasesInRun
<1>5. CASE FinishThread
  <2>1. /\ posted /\ running /\ ~ running'
        /\ UNCHANGED <<frames, test, m_stop, dialog, numberOf, events, posted, labels>>
    BY <1>5 DEF FinishThread, EndThread, TestsAreOver, qtVars
  <2> QED BY <1>0, <2>1 DEF ProgressInv, FinishedIsDue, CasesInRun
<1>6. CASE BeStoppingTest
  <2>1. /\ dialog # "canRun" /\ dialog' # "canRun"
        /\ UNCHANGED <<running, frames, test, m_stop, numberOf, events, posted, labels>>
    BY <1>6 DEF BeStoppingTest, runVars
  <2> QED BY <1>0, <2>1 DEF ProgressInv, FinishedIsDue, CasesInRun
<1>7. CASE ProcessEvent
  <2>1. /\ events # <<>> /\ events' = Tail(events)
        /\ dialog # "canRun"
        /\ dialog' = IF Head(events).of = "finished" THEN "canRun" ELSE dialog
        /\ UNCHANGED <<running, frames, test, m_stop, numberOf, posted>>
    BY <1>7 DEF ProcessEvent, runVars, QtInv
  <2>2. labels'.run = IF Head(events).of = "run" THEN Head(events).number ELSE labels.run
    BY <1>0, <1>7 DEF ProcessEvent
  <2>3. labels'.run =< numberOf.run
    BY <1>0, <2>1, <2>2, TakenQueue DEF ProgressInv
  <2>4. \A n \in 1 .. Len(events') : events'[n].of = "run" => events'[n].number =< numberOf.run
    BY <1>0, <2>1, TakenQueue DEF ProgressInv
  <2>5. dialog' # "canRun" => FinishedIsDue'
    BY <1>0, <2>1, TakenQueue DEF ProgressInv, FinishedIsDue
  <2> QED BY <1>0, <2>1, <2>3, <2>4, <2>5 DEF ProgressInv, CasesInRun
<1>8. CASE RunTest
  <2>1. CASE running
    <3>1. UNCHANGED <<running, frames, test, m_stop, dialog, numberOf, events, posted, labels>>
      BY <1>8, <2>1 DEF RunTest, runVars
    <3> QED BY <1>0, <3>1 DEF ProgressInv, FinishedIsDue, CasesInRun
  <2>2. CASE ~ running
    <3>1. /\ numberOf' = Counters(testToRun) /\ labels' = Labels(testToRun)
          /\ ~ posted' /\ BeginRun(testToRun) /\ events' = <<>> /\ testToRun \in Tests
      BY <1>8, <2>2 DEF RunTest, QtInv
    <3>2. /\ numberOf'.run = 0 /\ labels'.run = 0
          /\ numberOf'.testCase = countTestCases[testToRun] /\ countTestCases[testToRun] \in Nat
      BY <3>1, CountsAreNatural DEF Counters, Labels
    <3>3. running' /\ Len(events') = 0
      BY <3>1, EmptySeq DEF BeginRun
    <3>4. MakesUp(frames', m_stop', CasesInRun', countTestCases[testToRun])
      BY <3>1, NothingIsCounted DEF CasesInRun
    <3>5. numberOf'.run + CasesInRun' = CasesInRun'
      BY <3>2 DEF CasesInRun
    <3> QED BY <1>0, <3>1, <3>2, <3>3, <3>4, <3>5 DEF ProgressInv, FinishedIsDue
  <2> QED BY <2>1, <2>2
<1>9. CASE StopTest
  <2>1. /\ dialog # "canRun" /\ dialog' # "canRun"
        /\ m_stop' = m_stop \/ m_stop' = TRUE
        /\ UNCHANGED <<running, frames, test, numberOf, events, posted, labels>>
    BY <1>9 DEF StopTest, Stop, runVars
  <2>2. MakesUp(frames, m_stop', numberOf.run + CasesInRun, numberOf.testCase)
    <3>1. MakesUp(frames, m_stop, numberOf.run + CasesInRun, numberOf.testCase)
      BY <1>0, <2>1 DEF ProgressInv
    <3>2. MakesUp(frames, TRUE, numberOf.run + CasesInRun, numberOf.testCase)
      BY <1>0, <3>1, NotMoreThanAll
    <3> QED BY <2>1, <3>1, <3>2
  <2>3. CasesInRun' = CasesInRun
    BY <2>1 DEF CasesInRun
  <2> QED BY <1>0, <2>1, <2>2, <2>3 DEF ProgressInv, FinishedIsDue
<1>10. CASE \E t \in Tests : SelectTestToRun(t)
  <2> PICK t \in Tests : SelectTestToRun(t)
    BY <1>10
  <2>1. /\ dialog = "canRun" /\ events = <<>> /\ events' = <<>>
        /\ UNCHANGED <<dialog, running, frames, test, m_stop>>
    BY DEF SelectTestToRun, CanSelect, QtInv, runVars
  <2>2. CASE running
    <3>1. UNCHANGED <<numberOf, labels>>
      BY <2>2 DEF SelectTestToRun
    <3> QED BY <1>0, <2>1, <3>1 DEF ProgressInv, CasesInRun
  <2>3. CASE ~ running
    <3>1. numberOf' = Counters(t) /\ labels' = Labels(t)
      BY <2>3 DEF SelectTestToRun
    <3>2. /\ numberOf'.run = 0 /\ labels'.run = 0
          /\ numberOf'.testCase = countTestCases[t] /\ countTestCases[t] \in Nat
      BY <3>1, CountsAreNatural DEF Counters, Labels
    <3>3. Len(events') = 0
      BY <2>1, EmptySeq
    <3> QED BY <1>0, <2>1, <2>3, <3>2, <3>3 DEF ProgressInv
  <2> QED BY <2>2, <2>3
<1> QED
  BY <1>1, <1>2, <1>3, <1>4, <1>5, <1>6, <1>7, <1>8, <1>9, <1>10
  DEF QtNext, QtThread, QtWindow, QtUser

LEMMA ProgressInvariant ==
  RunnersSpec => []ProgressInv
<1>1. RunnersInit => ProgressInv
  <2> SUFFICES ASSUME RunnersInit PROVE ProgressInv
    OBVIOUS
  <2>1. /\ numberOf = Counters(testToRun) /\ labels = Labels(testToRun)
        /\ dialog = "canRun" /\ testToRun \in Tests /\ events = <<>>
        /\ ~ running
    BY DEF RunnersInit, RunInit, QtInit
  <2>2. /\ numberOf.run = 0 /\ labels.run = 0
        /\ numberOf.testCase = countTestCases[testToRun] /\ countTestCases[testToRun] \in Nat
    BY <2>1, CountsAreNatural DEF Counters, Labels
  <2>3. Len(events) = 0
    BY <2>1, EmptySeq
  <2> QED BY <2>1, <2>2, <2>3 DEF ProgressInv
<1>2. Inv /\ ProgressInv /\ [RunnersNext]_allVars => ProgressInv'
  <2> SUFFICES ASSUME Inv, ProgressInv, [RunnersNext]_allVars
               PROVE  ProgressInv'
    OBVIOUS
  <2>1. CASE MfcNext /\ UNCHANGED qtVars
    BY <2>1 DEF MfcNext, ProgressInv
  <2>2. CASE QtNext /\ UNCHANGED mfcVars
    BY <2>2, ProgressStep DEF Inv
  <2>3. CASE UNCHANGED allVars
    BY <2>3 DEF allVars, runVars, qtVars, ProgressInv, FinishedIsDue, CasesInRun
  <2> QED BY <2>1, <2>2, <2>3 DEF RunnersNext
<1> QED BY <1>1, <1>2, RunnersInvariant, PTL DEF RunnersSpec

(***************************************************************************)
(* The progress bar of the dialog for Qt is never beyond its end, however  *)
(* deep the tree is and however many events are on their way; and when the *)
(* signal comes that a run has finished which nobody has stopped, it is at *)
(* its end.                                                                *)
(***************************************************************************)
ProgressStaysInRange ==
  toolkit = "qt" =>
    /\ labels.run =< labels.testCase
    /\ dialog # "canRun" /\ ~ m_stop /\ events # <<>> /\ Head(events).of = "finished" =>
         labels.run = labels.testCase

THEOREM ProgressBarFills ==
  RunnersSpec => []ProgressStaysInRange
<1>1. Inv /\ ProgressInv => ProgressStaysInRange
  <2> SUFFICES ASSUME Inv, ProgressInv, toolkit = "qt"
               PROVE  /\ labels.run =< labels.testCase
                      /\ dialog # "canRun" /\ ~ m_stop /\ events # <<>>
                           /\ Head(events).of = "finished" => labels.run = labels.testCase
    BY DEF ProgressStaysInRange
  <2>1. /\ labels.testCase = numberOf.testCase
        /\ numberOf.run \in Nat /\ numberOf.testCase \in Nat /\ labels.run \in Nat
    BY DEF Inv, QtInv, LabelsInv
  <2>2. labels.run =< numberOf.run /\ numberOf.run =< numberOf.testCase
    BY DEF ProgressInv
  <2>3. ASSUME dialog # "canRun", ~ m_stop, events # <<>>, Head(events).of = "finished"
        PROVE  labels.run = labels.testCase
    <3>1. /\ events \in Seq(Events)
          /\ Len(events) \in Nat \ {0} /\ Head(events) = events[1] /\ Head(events) \in Events
      BY <2>3, Taken DEF Inv, QtInv
    <3>2. posted /\ Len(events) = 1
      <4>1. 1 \in 1 .. Len(events)
        BY <3>1
      <4> QED BY <2>3, <3>1, <4>1 DEF Inv, QtInv
    <3>3. frames = <<>> /\ test = None
      BY <3>2 DEF Inv, QtInv
    <3>4. MakesUp(<<>>, m_stop, numberOf.run, numberOf.testCase)
      <4>1. numberOf.run + CasesInRun = numberOf.run
        BY <2>1, <3>3 DEF CasesInRun
      <4> QED BY <2>3, <3>3, <4>1 DEF ProgressInv
    <3>5. numberOf.run = numberOf.testCase
      BY <2>1, <2>3, <3>4, AllIsCounted
    <3>6. labels.run = numberOf.run
      <4>1. events # <<>> /\ Head(events).of # "run"
        BY <2>3
      <4>2. Follow(Tail(events), "run", labels.run, numberOf.run)
        <5>1. Follow(events, "run", labels.run, numberOf.run)
          BY DEF Inv, LabelsInv
        <5> QED BY <2>1, <3>1, <4>1, <5>1, FollowTailOther
      <4> DEFINE tail == Tail(events)
      <4>3. tail \in Seq(Events) /\ Len(tail) = Len(events) - 1
        BY <3>1, <4>1, Taken
      <4>4. Follow(tail, "run", labels.run, numberOf.run)
        BY <4>2
      <4> HIDE DEF tail
      <4>5. Len(tail) = 0
        BY <3>2, <4>3
      <4>6. tail = <<>>
        BY <4>3, <4>5, EmptySeq
      <4>7. Follow(<<>>, "run", labels.run, numberOf.run)
        BY <4>4, <4>6
      <4> QED BY <2>1, <4>7, FollowEmpty
    <3> QED BY <2>1, <3>5, <3>6
  <2> QED BY <2>1, <2>2, <2>3
<1> QED BY <1>1, RunnersInvariant, ProgressInvariant, PTL

(***************************************************************************)
(* The signal that the tests have stopped running is never lost, whenever  *)
(* the user clicks on Stop: the dialog waits for the thread or for an      *)
(* event that is in the queue; and when it can run tests again, none is    *)
(* run any more.  CanRunAgain adds that the wait ends.                     *)
(***************************************************************************)
SignalIsDue ==
  toolkit = "qt" =>
    IF dialog = "canRun" THEN running => TestsAreOver ELSE FinishedIsDue

THEOREM FinishedSignalIsNeverLost ==
  RunnersSpec => []SignalIsDue
<1>1. Inv /\ ProgressInv => SignalIsDue
  BY DEF Inv, QtInv, ProgressInv, SignalIsDue, TestsAreOver
<1> QED BY <1>1, RunnersInvariant, ProgressInvariant, PTL

-----------------------------------------------------------------------------
(***************************************************************************)
(* Once the two threads of the program for MFC wait for each other,        *)
(* nothing moves any more: no thread can go on, no message is taken and no *)
(* click is heard.  The run of the tests does not end, and the destructor  *)
(* of ActiveTest does not return.                                          *)
(***************************************************************************)
NothingMovesInTheEmbrace == [][~ (toolkit = "mfc" /\ Embraced)]_allVars

THEOREM EmbraceIsForEver ==
  RunnersSpec => NothingMovesInTheEmbrace
<1>1. Inv /\ [RunnersNext]_allVars => [~ (toolkit = "mfc" /\ Embraced)]_allVars
  <2> SUFFICES ASSUME Inv, RunnersNext, toolkit = "mfc", Embraced
               PROVE  FALSE
    OBVIOUS
  <2>1. /\ callback \in {"display", "enable"} /\ gui \in {"freeState", "stop"}
        /\ phase \in Calls /\ phase \notin Methods /\ test # None
    BY DEF Embraced, Inv, MfcInv, RunInv, CaseInv, Locked, Calls, Methods
  <2>2. m_activeTest /\ ~ m_runCompleted
    BY <2>1 DEF Inv, MfcInv, RunInv, CaseInv
  <2>3. ~ RunTests
    BY <2>1 DEF RunTests, RunChildTest, RunMethod, Protect, NotifyCollector, Locked,
                CheckTestsRun, SetRunCompleted, EndThread, TestsAreOver
  <2>4. ~ Messages
    BY <2>1 DEF Messages, UpdateDisplay, EnableButtons
  <2>5. ~ WindowGoesOn
    BY <2>1, <2>2 DEF WindowGoesOn, FreeStateAndRun, StopAndBeIdle, Locked
  <2>6. ~ User
    BY <2>1 DEF User, OnRun, OnStop, OnSelectTestInHistoryCombo, OnBrowseTest
  <2> QED BY <2>3, <2>4, <2>5, <2>6 DEF RunnersNext, MfcNext, QtNext
<1> QED BY <1>1, RunnersInvariant, PTL DEF RunnersSpec, NothingMovesInTheEmbrace

-----------------------------------------------------------------------------
(***************************************************************************)
(* The steps that a run has to go, at most.  To enter a suite and to leave *)
(* it is a step each, and a test case is eight: the call of startTest, the *)
(* three methods with a failure each, and the call of endTest; in each of  *)
(* them the callback of the dialog for MFC has four.                       *)
(***************************************************************************)
Work == CHOOSE count : IsWeight(count, 2)

StepsInPhase ==
  CASE phase = "startTest" -> 8
    [] phase = "setUp" -> 7
    [] phase = "runTest" -> 5
    [] phase = "tearDown" -> 3
    [] phase = "endTest" -> 1
    [] phase = "addFailure" ->
         IF thrown[2] = "setUp" THEN 6 ELSE IF thrown[2] = "runTest" THEN 4 ELSE 2
    [] OTHER -> 0

StepsInCallback ==
  CASE callback = "none" -> 3
    [] callback = "display" -> 2
    [] callback = "displayed" -> 1
    [] OTHER -> 0

StepsInTest ==
  4 * StepsInPhase + StepsInCallback + (IF running THEN 1 ELSE 0) + (IF posted THEN 0 ELSE 1)

StepsToGo(number) ==
  \E left \in Nat : AllLeft(Work, 1, frames, left) /\ number = 36 * left + StepsInTest

LEMMA WorkIsWeight ==
  IsWeight(Work, 2)
<1>1. 2 \in Nat
  OBVIOUS
<1> QED BY <1>1, WeightExists DEF Work

LEMMA StepsAreNatural ==
  /\ StepsInPhase \in 0 .. 8 /\ StepsInPhase' \in 0 .. 8
  /\ StepsInCallback \in 0 .. 3 /\ StepsInCallback' \in 0 .. 3
  /\ StepsInTest \in Nat /\ StepsInTest' \in Nat
<1>1. StepsInPhase \in 0 .. 8 /\ StepsInPhase' \in 0 .. 8
  BY DEF StepsInPhase
<1>2. StepsInCallback \in 0 .. 3 /\ StepsInCallback' \in 0 .. 3
  BY DEF StepsInCallback
<1>3. \A inPhase \in 0 .. 8, inCallback \in 0 .. 3, going \in 0 .. 1, tosend \in 0 .. 1 :
        4 * inPhase + inCallback + going + tosend \in Nat
  OBVIOUS
<1>4. /\ (IF running THEN 1 ELSE 0) \in 0 .. 1 /\ (IF running' THEN 1 ELSE 0) \in 0 .. 1
      /\ (IF posted THEN 0 ELSE 1) \in 0 .. 1 /\ (IF posted' THEN 0 ELSE 1) \in 0 .. 1
  OBVIOUS
<1> HIDE DEF StepsInPhase, StepsInCallback
<1> QED BY <1>1, <1>2, <1>3, <1>4 DEF StepsInTest

\* Two numbers of steps that differ in the phase and in the callback only.
LEMMA StepsCompared ==
  ASSUME running' = running, posted' = posted
  PROVE  /\ StepsInCallback' =< StepsInCallback => StepsInTest' =< StepsInTest + 32
         /\ StepsInPhase' < StepsInPhase /\ StepsInCallback' =< StepsInCallback + 3 =>
              StepsInTest' < StepsInTest
<1>1. PICK going \in 0 .. 1, tosend \in 0 .. 1 :
        going = (IF running THEN 1 ELSE 0) /\ tosend = (IF posted THEN 0 ELSE 1)
  OBVIOUS
<1>2. /\ StepsInTest = 4 * StepsInPhase + StepsInCallback + going + tosend
      /\ StepsInTest' = 4 * StepsInPhase' + StepsInCallback' + going + tosend
  BY <1>1 DEF StepsInTest
<1>3. PICK p \in 0 .. 8, q \in 0 .. 8, c \in 0 .. 3, d \in 0 .. 3 :
        p = StepsInPhase /\ q = StepsInPhase' /\ c = StepsInCallback /\ d = StepsInCallback'
  BY StepsAreNatural
<1>4. /\ d =< c => 4 * q + d + going + tosend =< 4 * p + c + going + tosend + 32
      /\ q < p /\ d =< c + 3 => 4 * q + d + going + tosend < 4 * p + c + going + tosend
  OBVIOUS
<1> QED BY <1>2, <1>3, <1>4

\* How the number changes with its two parts.
LEMMA StepsAddUp ==
  ASSUME NEW left \in Nat, NEW lost \in 0 .. left, NEW here \in Nat, NEW next \in Nat
  PROVE  /\ left - lost \in Nat
         /\ 36 * (left - lost) + next \in Nat
         /\ next =< here => 36 * left + next =< 36 * left + here
         /\ next < here => 36 * left + next < 36 * left + here
         /\ (lost >= 1 /\ next =< here + 32) => 36 * (left - lost) + next < 36 * left + here
  OBVIOUS

\* The steps of a test case that is under way, while the stack stays as it is.
LEMMA StepInTest ==
  ASSUME frames' = frames, StepsInTest' =< StepsInTest,
         NEW number \in Nat, StepsToGo(number)
  PROVE  \E fewer \in Nat :
           /\ StepsToGo(fewer)'
           /\ fewer =< number
           /\ StepsInTest' < StepsInTest => fewer < number
<1>1. PICK left \in Nat : AllLeft(Work, 1, frames, left) /\ number = 36 * left + StepsInTest
  BY DEF StepsToGo
<1>2. StepsInTest \in Nat /\ StepsInTest' \in Nat
  BY StepsAreNatural
<1>3. PICK here \in Nat, next \in Nat : here = StepsInTest /\ next = StepsInTest'
  BY <1>2
<1>4. PICK fewer \in Nat :
        /\ fewer = 36 * left + next
        /\ next =< here => fewer =< 36 * left + here
        /\ next < here => fewer < 36 * left + here
  <2>1. 0 \in 0 .. left /\ left - 0 = left
    OBVIOUS
  <2>2. /\ 36 * left + next \in Nat
        /\ next =< here => 36 * left + next =< 36 * left + here
        /\ next < here => 36 * left + next < 36 * left + here
    BY <2>1, StepsAddUp
  <2> QED BY <2>2
<1>5. StepsToGo(fewer)'
  BY <1>1, <1>3, <1>4 DEF StepsToGo
<1>6. fewer =< number /\ (StepsInTest' < StepsInTest => fewer < number)
  BY <1>1, <1>3, <1>4
<1> QED BY <1>5, <1>6

LEMMA StepInTree ==
  ASSUME RunInv, RunChildTest, UNCHANGED <<callback, posted>>,
         NEW number \in Nat, StepsToGo(number)
  PROVE  \E fewer \in Nat : StepsToGo(fewer)' /\ fewer < number
<1>1. PICK left \in Nat : AllLeft(Work, 1, frames, left) /\ number = 36 * left + StepsInTest
  BY DEF StepsToGo
<1>2. PICK lost \in 0 .. left : AllLeft(Work, 1, frames', left - lost) /\ lost >= 1
  <2>1. 2 \in Nat /\ 1 \in 0 .. 2
    OBVIOUS
  <2>2. PICK lost \in 0 .. left :
          /\ AllLeft(Work, 1, frames', left - lost)
          /\ test' # None => lost = 1
          /\ test' = None => lost \in {1, 2 - 1} \/ (m_stop /\ lost >= 2 - 1)
    BY <1>1, <2>1, WorkIsWeight, ChildIsLeft
  <2>3. lost >= 1
    BY <2>2
  <2> QED BY <2>2, <2>3
<1>3. StepsInCallback' =< StepsInCallback
  <2>1. StepsInCallback' = StepsInCallback
    BY DEF StepsInCallback
  <2> QED BY <2>1, StepsAreNatural
<1>4. StepsInTest' =< StepsInTest + 32 /\ StepsInTest \in Nat /\ StepsInTest' \in Nat
  <2>1. running' = running /\ posted' = posted
    BY DEF RunChildTest
  <2> QED BY <1>3, <2>1, StepsCompared, StepsAreNatural
<1>5. PICK here \in Nat, next \in Nat : here = StepsInTest /\ next = StepsInTest'
  BY <1>4
<1>6. PICK still \in Nat, fewer \in Nat :
        still = left - lost /\ fewer = 36 * still + next /\ fewer < 36 * left + here
  <2>1. next =< here + 32
    BY <1>4, <1>5
  <2>2. /\ left - lost \in Nat
        /\ 36 * (left - lost) + next \in Nat
        /\ 36 * (left - lost) + next < 36 * left + here
    BY <1>2, <2>1, StepsAddUp
  <2> QED BY <2>2
<1>7. StepsToGo(fewer)'
  BY <1>2, <1>5, <1>6 DEF StepsToGo
<1>8. fewer < number
  BY <1>1, <1>5, <1>6
<1> QED BY <1>7, <1>8

LEMMA StepOfTest ==
  ASSUME RunInv, RunMethod \/ Told
  PROVE  /\ StepsInPhase' < StepsInPhase
         /\ UNCHANGED <<running, frames>>
<1>1. CASE RunMethod
  <2> PICK outcome \in {"succeed", "failure", "error"} : Protect(outcome)
    BY <1>1 DEF RunMethod
  <2>1. UNCHANGED <<running, frames>> /\ phase \in Methods
    BY DEF Protect
  <2>2. CASE outcome = "succeed"
    BY <2>1, <2>2 DEF Protect, After, Methods, StepsInPhase
  <2>3. CASE outcome # "succeed"
    <3>1. phase' = "addFailure" /\ thrown'[2] = phase
      BY <2>3 DEF Protect
    <3> QED BY <2>1, <3>1 DEF Methods, StepsInPhase
  <2> QED BY <2>1, <2>2, <2>3
<1>2. CASE Told
  <2>1. UNCHANGED <<running, frames>> /\ phase \in Calls
    BY <1>2 DEF Told
  <2>2. CASE phase = "addFailure"
    <3>1. thrown[2] \in Methods
      BY <2>2 DEF RunInv, CaseInv
    <3>2. phase' = IF thrown[2] = "setUp" \/ thrown[2] = "runTest" THEN "tearDown" ELSE "endTest"
      BY <1>2, <2>2, <3>1 DEF Told, After, Methods
    <3> QED BY <2>1, <2>2, <3>1, <3>2 DEF Methods, StepsInPhase
  <2>3. CASE phase # "addFailure"
    BY <1>2, <2>1, <2>3 DEF Told, Calls, StepsInPhase
  <2> QED BY <2>1, <2>2, <2>3
<1> QED BY <1>1, <1>2

LEMMA FewerInPhase ==
  ASSUME RunInv, RunMethod \/ Told, posted' = posted,
         StepsInCallback' =< StepsInCallback + 3
  PROVE  StepsInTest' < StepsInTest
<1>1. StepsInPhase' < StepsInPhase /\ running' = running
  BY StepOfTest
<1> QED BY <1>1, StepsCompared

LEMMA FewerElsewhere ==
  ASSUME UNCHANGED <<phase, thrown>>,
         \/ StepsInCallback' = StepsInCallback - 1 /\ UNCHANGED <<running, posted>>
         \/ UNCHANGED callback /\ running /\ ~ running' /\ posted' = posted
         \/ UNCHANGED <<callback, running>> /\ ~ posted /\ posted'
  PROVE  StepsInTest' < StepsInTest
<1>1. StepsInPhase' = StepsInPhase /\ StepsInPhase \in 0 .. 8
  BY StepsAreNatural DEF StepsInPhase
<1>2. StepsInCallback \in 0 .. 3 /\ (UNCHANGED callback => StepsInCallback' = StepsInCallback)
  BY StepsAreNatural DEF StepsInCallback
<1> QED BY <1>1, <1>2 DEF StepsInTest

\* A step of the thread of the tests, or a message that it has been waiting for.
TestsGoOn ==
  \/ toolkit = "mfc" /\ (RunTests \/ Messages)
  \/ toolkit = "qt" /\ QtThread

LEMMA StepOfThread ==
  ASSUME RunInv, MfcInv, RunnersNext, TestsGoOn, ~ RunChildTest
  PROVE  StepsInTest' < StepsInTest /\ frames' = frames
<1>1. CASE toolkit = "mfc"
  <2>1. posted' = posted /\ (RunTests \/ Messages)
    BY <1>1 DEF RunnersNext, QtNext, qtVars, TestsGoOn
  <2>2. CASE RunMethod /\ UNCHANGED mfcVars
    <3>1. StepsInCallback' = StepsInCallback
      BY <2>2 DEF mfcVars, StepsInCallback
    <3>2. StepsInCallback' =< StepsInCallback + 3
      BY <3>1, StepsAreNatural
    <3> QED BY <2>1, <2>2, <3>2, StepOfTest, FewerInPhase
  <2>3. CASE NotifyCollector
    <3>1. callback = "none" /\ callback' = "display"
      BY <2>3 DEF NotifyCollector, Locked
    <3>2. StepsInCallback' = StepsInCallback - 1
      BY <3>1 DEF StepsInCallback
    <3> QED BY <2>1, <2>3, <3>2, FewerElsewhere DEF NotifyCollector, runVars
  <2>4. CASE CheckTestsRun
    <3>1. callback = "displayed"
      BY <2>4 DEF CheckTestsRun
    <3>2. CASE AllTestsRun
      <4>1. callback' = "enable" /\ UNCHANGED runVars
        BY <2>4, <3>2 DEF CheckTestsRun
      <4>2. StepsInCallback' = StepsInCallback - 1
        BY <3>1, <4>1 DEF StepsInCallback
      <4> QED BY <2>1, <4>1, <4>2, FewerElsewhere DEF runVars
    <3>3. CASE ~ AllTestsRun
      <4>1. callback' = "none" /\ Told
        BY <2>4, <3>3 DEF CheckTestsRun
      <4>2. StepsInCallback' =< StepsInCallback + 3
        BY <3>1, <4>1 DEF StepsInCallback
      <4> QED BY <2>1, <4>1, <4>2, StepOfTest, FewerInPhase
    <3> QED BY <3>2, <3>3
  <2>5. CASE SetRunCompleted
    BY <2>1, <2>5, FewerElsewhere DEF SetRunCompleted, EndThread, TestsAreOver
  <2>6. CASE UpdateDisplay
    <3>1. callback = "display"
      BY <2>6 DEF UpdateDisplay
    <3>2. CASE phase = "endTest"
      <4>1. callback' = "displayed" /\ UNCHANGED runVars
        BY <2>6, <3>2 DEF UpdateDisplay
      <4>2. StepsInCallback' = StepsInCallback - 1
        BY <3>1, <4>1 DEF StepsInCallback
      <4> QED BY <2>1, <4>1, <4>2, FewerElsewhere DEF runVars
    <3>3. CASE phase # "endTest"
      <4>1. callback' = "none" /\ Told
        BY <2>6, <3>3 DEF UpdateDisplay
      <4>2. StepsInCallback' =< StepsInCallback + 3
        BY <3>1, <4>1 DEF StepsInCallback
      <4> QED BY <2>1, <4>1, <4>2, StepOfTest, FewerInPhase
    <3> QED BY <3>2, <3>3
  <2>7. CASE EnableButtons
    <3>1. callback = "enable" /\ callback' = "none" /\ Told
      BY <2>7 DEF EnableButtons
    <3>2. StepsInCallback' =< StepsInCallback + 3
      BY <3>1 DEF StepsInCallback
    <3> QED BY <2>1, <3>1, <3>2, StepOfTest, FewerInPhase
  <2> QED BY <2>1, <2>2, <2>3, <2>4, <2>5, <2>6, <2>7 DEF RunTests, Messages
<1>2. CASE toolkit = "qt"
  <2>1. callback' = callback /\ QtThread
    BY <1>2 DEF RunnersNext, MfcNext, mfcVars, TestsGoOn
  <2>2. StepsInCallback' = StepsInCallback /\ StepsInCallback' =< StepsInCallback + 3
    <3>1. StepsInCallback' = StepsInCallback
      BY <2>1 DEF StepsInCallback
    <3> QED BY <3>1, StepsAreNatural
  <2>3. CASE RunMethod /\ UNCHANGED qtVars
    BY <2>2, <2>3, StepOfTest, FewerInPhase DEF qtVars
  <2>4. CASE NotifyModel
    BY <2>2, <2>4, StepOfTest, FewerInPhase DEF NotifyModel
  <2>5. CASE PostFinished
    BY <2>1, <2>5, FewerElsewhere DEF PostFinished, MayPost, runVars
  <2>6. CASE FinishThread
    BY <2>1, <2>6, FewerElsewhere DEF FinishThread, EndThread, TestsAreOver, qtVars
  <2> QED BY <2>1, <2>3, <2>4, <2>5, <2>6 DEF QtThread
<1> QED BY <1>1, <1>2 DEF RunInv, CaseInv

\* While the tests run, the window and the user neither begin another run nor change
\* where this one is.
LEMMA StepOfWindow ==
  ASSUME RunInv, MfcInv, RunnersNext, ~ TestsGoOn, running
  PROVE  frames' = frames /\ StepsInTest' = StepsInTest
<1>1. UNCHANGED <<frames, phase, thrown, callback, running, posted>>
  <2>1. CASE MfcNext /\ UNCHANGED qtVars
    <3>1. toolkit = "mfc" /\ (WindowGoesOn \/ User) /\ posted' = posted
      BY <2>1 DEF MfcNext, TestsGoOn, qtVars
    <3>2. ~ FreeStateAndRun
      BY <3>1 DEF FreeStateAndRun, MfcInv
    <3> QED BY <3>1, <3>2 DEF WindowGoesOn, StopAndBeIdle, Stop, User, OnRun, OnStop,
                              OnSelectTestInHistoryCombo, OnBrowseTest, runVars
  <2>2. CASE QtNext /\ UNCHANGED mfcVars
    <3>1. (QtWindow \/ QtUser) /\ callback' = callback
      BY <2>2 DEF QtNext, TestsGoOn, mfcVars
    <3> QED BY <3>1 DEF QtWindow, QtUser, BeStoppingTest, ProcessEvent, RunTest, StopTest, Stop,
                        SelectTestToRun, runVars
  <2> QED BY <2>1, <2>2 DEF RunnersNext
<1> QED BY <1>1 DEF StepsInTest, StepsInPhase, StepsInCallback

(***************************************************************************)
(* Every run is finite, whatever tree of tests it runs, whichever of them  *)
(* fail, and wherever it is stopped: it has so many steps to go, each step *)
(* of its thread leaves fewer, and nothing that the window or the user do  *)
(* meanwhile leaves more.  So a run can only fail to end by waiting for    *)
(* ever, which is what RunEndsOrEmbraces and CanRunAgain are about.        *)
(***************************************************************************)
StepsAreLeft == \E number \in Nat : StepsToGo(number)

RunComesNearerToItsEnd ==
  [][running =>
       \A number \in Nat : StepsToGo(number) =>
         \E fewer \in Nat :
           /\ StepsToGo(fewer)'
           /\ fewer =< number
           /\ TestsGoOn => fewer < number]_allVars

LEMMA NoneOrSomeLeft ==
  /\ frames = <<>> => StepsAreLeft
  /\ (\E left \in Nat : AllLeft(Work, 1, frames', left)) => StepsAreLeft'
<1>1. ASSUME frames = <<>> PROVE StepsAreLeft
  <2>1. AllLeft(Work, 1, frames, 0)
    BY <1>1, NoneLeft
  <2>2. PICK here \in Nat : here = StepsInTest
    BY StepsAreNatural
  <2>3. 0 \in Nat /\ here = 36 * 0 + here
    OBVIOUS
  <2>4. StepsToGo(here)
    BY <2>1, <2>2, <2>3 DEF StepsToGo
  <2> QED BY <2>4 DEF StepsAreLeft
<1>2. ASSUME NEW left \in Nat, AllLeft(Work, 1, frames', left) PROVE StepsAreLeft'
  <2>1. PICK next \in Nat : next = StepsInTest'
    BY StepsAreNatural
  <2>2. PICK number \in Nat : number = 36 * left + next
    OBVIOUS
  <2>3. StepsToGo(number)'
    BY <1>2, <2>1, <2>2 DEF StepsToGo
  <2> QED BY <2>3 DEF StepsAreLeft
<1> QED BY <1>1, <1>2

THEOREM RunsAreFinite ==
  RunnersSpec => []StepsAreLeft /\ RunComesNearerToItsEnd
<1> DEFINE Nearer(number) ==
             \E fewer \in Nat :
               StepsToGo(fewer)' /\ fewer =< number /\ (TestsGoOn => fewer < number)
<1>1. ASSUME Inv, RunnersNext, running, NEW number \in Nat, StepsToGo(number)
      PROVE  Nearer(number)
  <2>1. RunInv /\ MfcInv
    BY <1>1 DEF Inv
  <2>2. CASE TestsGoOn /\ RunChildTest
    <3>1. UNCHANGED <<callback, posted>>
      <4>1. test = None /\ phase = "idle"
        BY <2>1, <2>2 DEF RunChildTest, RunInv, CaseInv
      <4>2. callback = "none"
        BY <2>1, <4>1 DEF MfcInv, Locked, Calls
      <4>3. CASE MfcNext /\ UNCHANGED qtVars
        <5>1. toolkit = "mfc" /\ (RunTests \/ Messages)
          BY <2>2, <4>3 DEF TestsGoOn, MfcNext
        <5>2. ~ Messages /\ ~ NotifyCollector /\ ~ CheckTestsRun
          BY <4>1, <4>2 DEF Messages, UpdateDisplay, EnableButtons, NotifyCollector, CheckTestsRun,
                            Calls
        <5> QED BY <4>3, <5>1, <5>2 DEF RunTests, SetRunCompleted, mfcVars, qtVars
      <4>4. CASE QtNext /\ UNCHANGED mfcVars
        <5>1. toolkit = "qt" /\ QtThread
          BY <2>2, <4>4 DEF TestsGoOn, QtNext
        <5>2. ~ NotifyModel
          BY <4>1 DEF NotifyModel, Told, Calls
        <5>3. ~ PostFinished /\ ~ FinishThread
          BY <2>2 DEF PostFinished, MayPost, FinishThread, EndThread, TestsAreOver, RunChildTest
        <5> QED BY <4>4, <5>1, <5>2, <5>3 DEF QtThread, mfcVars, qtVars
      <4> QED BY <1>1, <4>3, <4>4 DEF RunnersNext
    <3>2. PICK fewer \in Nat : StepsToGo(fewer)' /\ fewer < number
      BY <1>1, <2>1, <2>2, <3>1, StepInTree
    <3> QED BY <3>2
  <2>3. CASE TestsGoOn /\ ~ RunChildTest
    <3>1. StepsInTest' < StepsInTest /\ frames' = frames
      BY <1>1, <2>1, <2>3, StepOfThread
    <3>2. StepsInTest' =< StepsInTest
      BY <3>1, StepsAreNatural
    <3> QED BY <1>1, <3>1, <3>2, StepInTest
  <2>4. CASE ~ TestsGoOn
    <3>1. frames' = frames /\ StepsInTest' = StepsInTest
      BY <1>1, <2>1, <2>4, StepOfWindow
    <3>2. StepsInTest' =< StepsInTest
      BY <3>1, StepsAreNatural
    <3> QED BY <1>1, <2>4, <3>1, <3>2, StepInTest
  <2> QED BY <2>2, <2>3, <2>4
<1>2. ASSUME Inv, ~ running PROVE StepsAreLeft
  <2>1. frames = <<>>
    BY <1>2 DEF Inv, RunInv, CaseInv
  <2> QED BY <2>1, NoneOrSomeLeft
<1>3. ASSUME Inv, ~ running, RunnersNext, Inv' PROVE StepsAreLeft'
  <2>1. CASE \E t \in Tests : BeginRun(t)
    <3> PICK t \in Tests : BeginRun(t)
      BY <2>1
    <3>1. 2 \in Nat /\ 1 \in 0 .. 2
      OBVIOUS
    <3>2. \/ AllLeft(Work, 1, frames', 0)
          \/ Work[t] - 1 \in Nat /\ AllLeft(Work, 1, frames', Work[t] - 1)
      BY <3>1, WorkIsWeight, FirstIsLeft
    <3>3. 0 \in Nat
      OBVIOUS
    <3>4. \E left \in Nat : AllLeft(Work, 1, frames', left)
      BY <3>2, <3>3
    <3> QED BY <3>4, NoneOrSomeLeft
  <2>2. CASE ~ \E t \in Tests : BeginRun(t)
    <3>1. RunStep
      BY <1>3, MfcRunSteps, QtRunSteps DEF RunnersNext, Inv, MfcInv, QtInv
    <3>2. ~ running'
      BY <1>3, <2>2, <3>1 DEF RunStep, runVars, RunChildTest, RunMethod, Protect, Told, EndThread, Stop
    <3>3. frames' = <<>>
      BY <1>3, <3>2 DEF Inv, RunInv, CaseInv
    <3>4. AllLeft(Work, 1, frames', 0) /\ 0 \in Nat
      BY <3>3, NoneLeft
    <3> QED BY <3>4, NoneOrSomeLeft
  <2> QED BY <2>1, <2>2
<1>4. RunnersInit => StepsAreLeft
  <2> SUFFICES ASSUME RunnersInit PROVE StepsAreLeft
    OBVIOUS
  <2>1. Inv /\ ~ running
    BY InitInv DEF RunnersInit, RunInit
  <2> QED BY <1>2, <2>1
<1>5. Inv /\ Inv' /\ StepsAreLeft /\ [RunnersNext]_allVars => StepsAreLeft'
  <2> SUFFICES ASSUME Inv, Inv', StepsAreLeft, [RunnersNext]_allVars
               PROVE  StepsAreLeft'
    OBVIOUS
  <2>1. CASE UNCHANGED allVars
    <3>1. frames' = frames /\ StepsInTest' = StepsInTest
      BY <2>1 DEF allVars, runVars, mfcVars, qtVars, StepsInTest, StepsInPhase, StepsInCallback
    <3> QED BY <3>1 DEF StepsAreLeft, StepsToGo
  <2>2. CASE RunnersNext /\ running
    BY <1>1, <2>2 DEF StepsAreLeft
  <2>3. CASE RunnersNext /\ ~ running
    BY <1>3, <2>3
  <2> QED BY <2>1, <2>2, <2>3
<1>6. Inv /\ [RunnersNext]_allVars =>
        [running => \A number \in Nat : StepsToGo(number) =>
           \E fewer \in Nat :
             /\ StepsToGo(fewer)'
             /\ fewer =< number
             /\ TestsGoOn => fewer < number]_allVars
  BY <1>1
<1>7. RunnersSpec => []StepsAreLeft
  BY <1>4, <1>5, RunnersInvariant, PTL DEF RunnersSpec
<1>8. RunnersSpec => RunComesNearerToItsEnd
  BY <1>6, RunnersInvariant, PTL DEF RunnersSpec, RunComesNearerToItsEnd
<1> QED BY <1>7, <1>8
=============================================================================
