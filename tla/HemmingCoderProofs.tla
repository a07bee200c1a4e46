--------------------------- MODULE HemmingCoderProofs ---------------------------
(***************************************************************************)
(* Proofs about HemmingCoder, for codes of any length.  A vector of bits   *)
(* times a matrix is linear in the vector, so what holds of the rows of    *)
(* the generating matrix holds of every code word.                         *)
(***************************************************************************)
EXTENDS HemmingCoder, FiniteSetTheorems, NaturalsInduction, WellFoundedInduction, TLAPS

\* Odd numbers of elements.
Odd(S) == Cardinality(S) % 2 = 1

LEMMA OddNumbers ==
  ASSUME NEW a \in Nat, NEW b \in Nat, NEW common \in Nat
  PROVE  (a + b - 2 * common) % 2 = 1 <=> ((a % 2 = 1) # (b % 2 = 1))
OBVIOUS

LEMMA OddDifference ==
  ASSUME NEW A, NEW B, IsFiniteSet(A), IsFiniteSet(B)
  PROVE  IsFiniteSet(SymDiff(A, B)) /\ (Odd(SymDiff(A, B)) <=> (Odd(A) # Odd(B)))
<1>1. IsFiniteSet(A \ B) /\ IsFiniteSet(B \ A) /\ IsFiniteSet(A \cap B)
  BY FS_Subset
<1>2. /\ Cardinality(A) = Cardinality(A \ B) + Cardinality(A \cap B)
      /\ Cardinality(B) = Cardinality(B \ A) + Cardinality(A \cap B)
      /\ Cardinality(SymDiff(A, B)) = Cardinality(A \ B) + Cardinality(B \ A)
      /\ IsFiniteSet(SymDiff(A, B))
  <2>1. A = (A \ B) \cup (A \cap B) /\ (A \ B) \cap (A \cap B) = {}
    OBVIOUS
  <2>2. B = (B \ A) \cup (A \cap B) /\ (B \ A) \cap (A \cap B) = {}
    OBVIOUS
  <2>3. (A \ B) \cap (B \ A) = {}
    OBVIOUS
  <2>4. \A S, T : (IsFiniteSet(S) /\ IsFiniteSet(T) /\ S \cap T = {}) =>
          /\ IsFiniteSet(S \cup T)
          /\ Cardinality(S \cup T) = Cardinality(S) + Cardinality(T)
    <3> SUFFICES ASSUME NEW S, NEW T, IsFiniteSet(S), IsFiniteSet(T), S \cap T = {}
                 PROVE  /\ IsFiniteSet(S \cup T)
                        /\ Cardinality(S \cup T) = Cardinality(S) + Cardinality(T)
      OBVIOUS
    <3>1. Cardinality(S \cup T) = Cardinality(S) + Cardinality(T) - Cardinality(S \cap T)
      BY FS_Union
    <3>2. Cardinality(S \cap T) = 0
      BY FS_EmptySet
    <3>3. Cardinality(S) \in Nat /\ Cardinality(T) \in Nat
      BY FS_CardinalityType
    <3> QED BY <3>1, <3>2, <3>3, FS_Union
  <2>5. Cardinality((A \ B) \cup (A \cap B)) = Cardinality(A \ B) + Cardinality(A \cap B)
    BY <1>1, <2>1, <2>4
  <2>6. Cardinality((B \ A) \cup (A \cap B)) = Cardinality(B \ A) + Cardinality(A \cap B)
    BY <1>1, <2>2, <2>4
  <2>7. /\ IsFiniteSet((A \ B) \cup (B \ A))
        /\ Cardinality((A \ B) \cup (B \ A)) = Cardinality(A \ B) + Cardinality(B \ A)
    BY <1>1, <2>3, <2>4
  <2> QED BY <2>1, <2>2, <2>5, <2>6, <2>7 DEF SymDiff
<1>3. /\ Cardinality(A \ B) \in Nat /\ Cardinality(B \ A) \in Nat
      /\ Cardinality(A \cap B) \in Nat
  BY <1>1, FS_CardinalityType
<1> DEFINE a == Cardinality(A \ B)
           b == Cardinality(B \ A)
           c == Cardinality(A \cap B)
<1>4. (a + b) % 2 = 1 <=> (((a + c) % 2 = 1) # ((b + c) % 2 = 1))
  <2>1. a \in Nat /\ b \in Nat /\ c \in Nat
    BY <1>3
  <2> HIDE DEF a, b, c
  <2>2. (a + c) + (b + c) - 2 * c = a + b /\ a + c \in Nat /\ b + c \in Nat
    BY <2>1
  <2> QED BY <2>1, <2>2, OddNumbers
<1> QED BY <1>2, <1>4 DEF Odd

LEMMA OddSingle ==
  ASSUME NEW x
  PROVE  Odd({x}) /\ ~ Odd({})
<1>1. Cardinality({x}) = 1 /\ Cardinality({}) = 0
  BY FS_Singleton, FS_EmptySet
<1>2. 1 % 2 = 1 /\ 0 % 2 = 0
  OBVIOUS
<1> QED BY <1>1, <1>2 DEF Odd

-----------------------------------------------------------------------------
(***************************************************************************)
(* The product of the vector with the ones S and a matrix: the columns in  *)
(* which an odd number of the rows in S have a one.                        *)
(***************************************************************************)
Sum(m, S) == {c \in Columns(m) : Odd({r \in S : <<r, c>> \in m.ones})}

IsMatrix(m) ==
  /\ m.row \in Nat /\ m.col \in Nat
  /\ m.ones \in SUBSET (Rows(m) \X Columns(m))

LEMMA Product ==
  ASSUME NEW m, IsMatrix(m), NEW S \in SUBSET Rows(m)
  PROVE  Mul(CreateVector(m.row, S), m) = CreateVector(m.col, Sum(m, S))
<1> DEFINE vector == CreateVector(m.row, S)
<1>1. vector.row = 1 /\ vector.col = m.row /\ vector.ones = {0} \X S
  BY DEF CreateVector, Matrix
<1>2. Rows(vector) = {0} /\ Columns(vector) = Rows(m)
  BY <1>1 DEF Rows, Columns
<1>3. ASSUME NEW c \in Columns(m)
      PROVE  {r \in Columns(vector) : <<0, r>> \in vector.ones /\ <<r, c>> \in m.ones}
               = {r \in S : <<r, c>> \in m.ones}
  BY <1>1, <1>2
<1>4. {place \in Rows(vector) \X Columns(m) :
         Cardinality({r \in Columns(vector) : /\ <<place[1], r>> \in vector.ones
                                              /\ <<r, place[2]>> \in m.ones}) % 2 = 1}
        = {0} \X Sum(m, S)
  <2> DEFINE L == {place \in Rows(vector) \X Columns(m) :
         Cardinality({r \in Columns(vector) : /\ <<place[1], r>> \in vector.ones
                                              /\ <<r, place[2]>> \in m.ones}) % 2 = 1}
  <2>1. ASSUME NEW place \in {0} \X Columns(m)
        PROVE  place \in L <=> place[2] \in Sum(m, S)
    <3>1. PICK c \in Columns(m) : place = <<0, c>>
      OBVIOUS
    <3>2. place[1] = 0 /\ place[2] = c
      BY <3>1
    <3>3. place \in L <=>
            Cardinality({r \in Columns(vector) : /\ <<0, r>> \in vector.ones
                                                 /\ <<r, c>> \in m.ones}) % 2 = 1
      BY <1>2, <3>2
    <3> QED BY <1>3, <3>2, <3>3 DEF Sum, Odd
  <2>2. L \subseteq {0} \X Columns(m)
    BY <1>2
  <2>3. {0} \X Sum(m, S) \subseteq {0} \X Columns(m)
    BY DEF Sum
  <2> HIDE DEF L
  <2>4. L = {0} \X Sum(m, S)
    BY <2>1, <2>2, <2>3
  <2> QED BY <2>4 DEF L
<1> HIDE DEF vector
<1> QED BY <1>1, <1>4 DEF Mul, CreateVector, Matrix, vector

\* The sum of the rows of a symmetric difference.
LEMMA SumIsLinear ==
  ASSUME NEW m, NEW A, NEW B, IsFiniteSet(A), IsFiniteSet(B)
  PROVE  Sum(m, SymDiff(A, B)) = SymDiff(Sum(m, A), Sum(m, B))
<1>1. ASSUME NEW c \in Columns(m)
      PROVE  c \in Sum(m, SymDiff(A, B)) <=> (c \in Sum(m, A)) # (c \in Sum(m, B))
  <2> DEFINE In(S) == {r \in S : <<r, c>> \in m.ones}
  <2>1. In(SymDiff(A, B)) = SymDiff(In(A), In(B))
    BY DEF SymDiff
  <2>2. IsFiniteSet(In(A)) /\ IsFiniteSet(In(B))
    BY FS_Subset
  <2>3. Odd(SymDiff(In(A), In(B))) <=> (Odd(In(A)) # Odd(In(B)))
    <3> HIDE DEF In
    <3> QED BY <2>2, OddDifference
  <2>4. \A S : c \in Sum(m, S) <=> Odd(In(S))
    BY DEF Sum
  <2>5. Odd(In(A)) \in BOOLEAN /\ Odd(In(B)) \in BOOLEAN
    BY DEF Odd
  <2> HIDE DEF In
  <2> QED BY <2>1, <2>3, <2>4, <2>5
<1>2. Sum(m, SymDiff(A, B)) \subseteq Columns(m) /\ SymDiff(Sum(m, A), Sum(m, B)) \subseteq Columns(m)
  BY DEF Sum, SymDiff
<1>3. \A c \in Columns(m) :
        c \in SymDiff(Sum(m, A), Sum(m, B)) <=> (c \in Sum(m, A)) # (c \in Sum(m, B))
  BY DEF SymDiff
<1> QED BY <1>1, <1>2, <1>3

LEMMA SumOfOne ==
  ASSUME NEW m, NEW r
  PROVE  Sum(m, {r}) = {c \in Columns(m) : <<r, c>> \in m.ones} /\ Sum(m, {}) = {}
<1>1. ASSUME NEW c
      PROVE  /\ Odd({x \in {r} : <<x, c>> \in m.ones}) <=> <<r, c>> \in m.ones
             /\ ~ Odd({x \in {} : <<x, c>> \in m.ones})
  <2>1. CASE <<r, c>> \in m.ones
    <3>1. {x \in {r} : <<x, c>> \in m.ones} = {r} /\ {x \in {} : <<x, c>> \in m.ones} = {}
      BY <2>1
    <3> QED BY <2>1, <3>1, OddSingle
  <2>2. CASE <<r, c>> \notin m.ones
    <3>1. {x \in {r} : <<x, c>> \in m.ones} = {} /\ {x \in {} : <<x, c>> \in m.ones} = {}
      BY <2>2
    <3> QED BY <2>2, <3>1, OddSingle
  <2> QED BY <2>1, <2>2
<1> QED BY <1>1 DEF Sum
-----------------------------------------------------------------------------
(***************************************************************************)
(* The matrices of the coder.                                              *)
(***************************************************************************)
Lengths ==
  /\ dataBlockLen \in Nat \ {0} /\ additionalBlockLen \in Nat \ {0}
  /\ entireBlockLen \in Nat /\ entireBlockLen = dataBlockLen + additionalBlockLen

LEMMA LengthsAssumed == Lengths
BY HemmingAssumption DEF Lengths

CheckBits == 0 .. additionalBlockLen - 1

\* P has a one in row i and column j.
InP(i, j) == <<i, j>> \in pMatrix.ones

LEMMA PMatrix ==
  /\ pMatrix.row = additionalBlockLen /\ pMatrix.col = dataBlockLen
  /\ pMatrix.ones \in SUBSET (CheckBits \X DataBits)
BY DEF pMatrix, Matrix, CheckBits

LEMMA TransposeOfP ==
  /\ Transpose(pMatrix).row = dataBlockLen /\ Transpose(pMatrix).col = additionalBlockLen
  /\ \A j, i : <<j, i>> \in Transpose(pMatrix).ones <=> InP(i, j)
  /\ Transpose(pMatrix).ones \in SUBSET (DataBits \X CheckBits)
<1>1. Transpose(pMatrix).ones = {<<place[2], place[1]>> : place \in pMatrix.ones}
  BY DEF Transpose, Matrix
<1>2. \A j, i : <<j, i>> \in Transpose(pMatrix).ones <=> InP(i, j)
  <2> TAKE j, i
  <2>1. ASSUME <<j, i>> \in Transpose(pMatrix).ones PROVE InP(i, j)
    <3>1. PICK place \in pMatrix.ones : <<j, i>> = <<place[2], place[1]>>
      BY <1>1, <2>1
    <3>2. PICK a \in CheckBits, b \in DataBits : place = <<a, b>>
      BY PMatrix
    <3> QED BY <3>1, <3>2 DEF InP
  <2>2. ASSUME InP(i, j) PROVE <<j, i>> \in Transpose(pMatrix).ones
    BY <1>1, <2>2 DEF InP
  <2> QED BY <2>1, <2>2
<1>3. Transpose(pMatrix).ones \in SUBSET (DataBits \X CheckBits)
  BY <1>1, PMatrix
<1> QED BY <1>2, <1>3, PMatrix DEF Transpose, Matrix

LEMMA GeneratingMatrix ==
  /\ generatingMatrix.row = dataBlockLen /\ generatingMatrix.col = entireBlockLen
  /\ \A i \in DataBits, j \in LineBits :
       <<i, j>> \in generatingMatrix.ones <=>
         IF j < dataBlockLen THEN j = i ELSE InP(j - dataBlockLen, i)
  /\ IsMatrix(generatingMatrix)
<1> USE LengthsAssumed DEF Lengths
<1>1. /\ generatingMatrix.row = dataBlockLen /\ generatingMatrix.col = entireBlockLen
      /\ generatingMatrix.ones =
           {<<i, i>> : i \in DataBits}
             \cup {<<place[1], place[2] + dataBlockLen>> : place \in Transpose(pMatrix).ones}
  BY TransposeOfP DEF generatingMatrix, ConcatWidth, CreateIdentityMatrix, Matrix, DataBits
<1>2. ASSUME NEW place \in Transpose(pMatrix).ones
      PROVE  \E i \in DataBits, c \in CheckBits : place = <<i, c>> /\ InP(c, i)
  <2>1. PICK i \in DataBits, c \in CheckBits : place = <<i, c>>
    BY TransposeOfP
  <2> QED BY <2>1, TransposeOfP
<1>3. \A i \in DataBits, j \in LineBits :
        <<i, j>> \in generatingMatrix.ones <=>
          IF j < dataBlockLen THEN j = i ELSE InP(j - dataBlockLen, i)
  <2> TAKE i \in DataBits, j \in LineBits
  <2>1. ASSUME <<i, j>> \in generatingMatrix.ones
        PROVE  IF j < dataBlockLen THEN j = i ELSE InP(j - dataBlockLen, i)
    <3>1. CASE \E k \in DataBits : <<i, j>> = <<k, k>>
      BY <3>1 DEF DataBits
    <3>2. CASE \E place \in Transpose(pMatrix).ones :
                 <<i, j>> = <<place[1], place[2] + dataBlockLen>>
      <4>1. PICK place \in Transpose(pMatrix).ones :
                   <<i, j>> = <<place[1], place[2] + dataBlockLen>>
        BY <3>2
      <4>2. PICK k \in DataBits, c \in CheckBits : place = <<k, c>> /\ InP(c, k)
        BY <1>2
      <4>3. i = k /\ j = c + dataBlockLen
        BY <4>1, <4>2
      <4>4. j - dataBlockLen = c /\ ~ (j < dataBlockLen)
        BY <4>3 DEF CheckBits
      <4> QED BY <4>2, <4>3, <4>4
    <3> QED BY <1>1, <2>1, <3>1, <3>2
  <2>2. ASSUME j < dataBlockLen, j = i
        PROVE  <<i, j>> \in generatingMatrix.ones
    BY <1>1, <2>2
  <2>3. ASSUME ~ (j < dataBlockLen), InP(j - dataBlockLen, i)
        PROVE  <<i, j>> \in generatingMatrix.ones
    <3>1. <<i, j - dataBlockLen>> \in Transpose(pMatrix).ones
      BY <2>3, TransposeOfP
    <3>2. <<<<i, j - dataBlockLen>>[1], <<i, j - dataBlockLen>>[2] + dataBlockLen>> = <<i, j>>
      BY DEF LineBits
    <3> QED BY <1>1, <3>1, <3>2
  <2> QED BY <2>1, <2>2, <2>3
<1>4. IsMatrix(generatingMatrix)
  <2>1. generatingMatrix.ones \subseteq DataBits \X LineBits
    <3> SUFFICES ASSUME NEW one \in generatingMatrix.ones PROVE one \in DataBits \X LineBits
      OBVIOUS
    <3>1. CASE \E k \in DataBits : one = <<k, k>>
      BY <3>1 DEF DataBits, LineBits
    <3>2. CASE \E place \in Transpose(pMatrix).ones :
                 one = <<place[1], place[2] + dataBlockLen>>
      BY <1>2, <3>2 DEF CheckBits, LineBits
    <3> QED BY <1>1, <3>1, <3>2
  <2> QED BY <1>1, <2>1 DEF IsMatrix, Rows, Columns, DataBits, LineBits
<1> QED BY <1>1, <1>3, <1>4

LEMMA CheckingMatrix ==
  /\ checkingMatrix.row = entireBlockLen /\ checkingMatrix.col = additionalBlockLen
  /\ \A j \in LineBits, c \in CheckBits :
       <<j, c>> \in checkingMatrix.ones <=>
         IF j < dataBlockLen THEN InP(c, j) ELSE j - dataBlockLen = c
  /\ IsMatrix(checkingMatrix)
<1> USE LengthsAssumed DEF Lengths
<1>1. /\ checkingMatrix.row = entireBlockLen /\ checkingMatrix.col = additionalBlockLen
      /\ checkingMatrix.ones =
           Transpose(pMatrix).ones
             \cup {<<place[1] + dataBlockLen, place[2]>> : place \in {<<i, i>> : i \in CheckBits}}
  BY TransposeOfP DEF checkingMatrix, ConcatHeight, CreateIdentityMatrix, Matrix, CheckBits
<1>2. checkingMatrix.ones =
        Transpose(pMatrix).ones \cup {<<i + dataBlockLen, i>> : i \in CheckBits}
  <2>1. {<<place[1] + dataBlockLen, place[2]>> : place \in {<<i, i>> : i \in CheckBits}}
          = {<<i + dataBlockLen, i>> : i \in CheckBits}
    <3> DEFINE L == {<<place[1] + dataBlockLen, place[2]>> : place \in {<<i, i>> : i \in CheckBits}}
               R == {<<i + dataBlockLen, i>> : i \in CheckBits}
    <3>1. ASSUME NEW one \in L PROVE one \in R
      <4>1. PICK place \in {<<i, i>> : i \in CheckBits} :
                   one = <<place[1] + dataBlockLen, place[2]>>
        OBVIOUS
      <4>2. PICK i \in CheckBits : place = <<i, i>>
        OBVIOUS
      <4> QED BY <4>1, <4>2
    <3>2. ASSUME NEW one \in R PROVE one \in L
      <4>1. PICK i \in CheckBits : one = <<i + dataBlockLen, i>>
        OBVIOUS
      <4>2. <<i, i>> \in {<<k, k>> : k \in CheckBits}
        OBVIOUS
      <4>3. one = <<<<i, i>>[1] + dataBlockLen, <<i, i>>[2]>>
        BY <4>1
      <4> QED BY <4>2, <4>3
    <3> QED BY <3>1, <3>2
  <2> QED BY <1>1, <2>1
<1>3. \A j \in LineBits, c \in CheckBits :
        <<j, c>> \in checkingMatrix.ones <=>
          IF j < dataBlockLen THEN InP(c, j) ELSE j - dataBlockLen = c
  <2> TAKE j \in LineBits, c \in CheckBits
  <2>1. CASE j < dataBlockLen
    <3>1. \A i \in CheckBits : <<j, c>> # <<i + dataBlockLen, i>>
      BY <2>1 DEF CheckBits, LineBits
    <3> QED BY <1>2, <2>1, <3>1, TransposeOfP
  <2>2. CASE ~ (j < dataBlockLen)
    <3>1. j \notin DataBits
      BY <2>2 DEF DataBits, LineBits
    <3>2. <<j, c>> \notin Transpose(pMatrix).ones
      BY <3>1, TransposeOfP
    <3>3. j - dataBlockLen = c <=> \E i \in CheckBits : <<j, c>> = <<i + dataBlockLen, i>>
      BY DEF CheckBits, LineBits
    <3> QED BY <1>2, <2>2, <3>2, <3>3
  <2> QED BY <2>1, <2>2
<1>4. IsMatrix(checkingMatrix)
  <2>1. checkingMatrix.ones \subseteq LineBits \X CheckBits
    BY <1>2, TransposeOfP DEF CheckBits, LineBits, DataBits
  <2> QED BY <1>1, <2>1 DEF IsMatrix, Rows, Columns, CheckBits, LineBits
<1> QED BY <1>1, <1>3, <1>4

\* Sorting leaves each row a place of its own height.
LEMMA SortedMatrix ==
  ASSUME NEW m, IsMatrix(m)
  PROVE  IsMatrix(SortRowsAsc(m)) /\ SortRowsAsc(m).row = m.row /\ SortRowsAsc(m).col = m.col
<1>1. /\ SortRowsAsc(m).row = m.row /\ SortRowsAsc(m).col = m.col
      /\ SortRowsAsc(m).ones = {<<PlaceOf(m, place[1]), place[2]>> : place \in m.ones}
  BY DEF SortRowsAsc, Matrix
<1>2. ASSUME NEW row \in Rows(m)
      PROVE  PlaceOf(m, row) \in Rows(m)
  <2> DEFINE Before == {other \in Rows(m) : \/ RowBefore(m, other, row)
                                            \/ other < row /\ ~ RowBefore(m, row, other)}
  <2>1. m.row \in Nat /\ row \in Int
    BY DEF IsMatrix, Rows
  <2>2. IsFiniteSet(Rows(m)) /\ Cardinality(Rows(m)) = m.row
    <3> DEFINE last == m.row - 1
    <3>1. last \in Int /\ last + 1 = m.row /\ Rows(m) = 0 .. last
      BY <2>1 DEF Rows
    <3> HIDE DEF last
    <3>2. IsFiniteSet(0 .. last)
          /\ Cardinality(0 .. last) = IF 0 > last THEN 0 ELSE last - 0 + 1
      BY <3>1, FS_Interval
    <3> QED BY <2>1, <3>1, <3>2
  <2>3. row \notin Before
    <3>1. ~ RowBefore(m, row, row)
      BY DEF RowBefore
    <3> QED BY <2>1, <3>1
  <2>4. Before \subseteq Rows(m) \ {row}
    BY <2>3
  <2>5. IsFiniteSet(Rows(m) \ {row}) /\ Cardinality(Rows(m) \ {row}) = m.row - 1
    BY <2>2, FS_RemoveElement
  <2> HIDE DEF Before
  <2>6. Cardinality(Before) =< m.row - 1 /\ Cardinality(Before) \in Nat
    BY <2>4, <2>5, FS_Subset, FS_CardinalityType
  <2>7. PlaceOf(m, row) = Cardinality(Before)
    BY DEF PlaceOf, Before
  <2> QED BY <2>1, <2>6, <2>7 DEF Rows
<1>3. SortRowsAsc(m).ones \subseteq Rows(m) \X Columns(m)
  BY <1>1, <1>2 DEF IsMatrix
<1> QED BY <1>1, <1>3 DEF IsMatrix, Rows, Columns

-----------------------------------------------------------------------------
(***************************************************************************)
(* Code words.                                                             *)
(***************************************************************************)
Word(S) == Sum(generatingMatrix, S)

LEMMA Bits ==
  /\ DataBits \subseteq LineBits
  /\ \A S \in SUBSET LineBits : IsFiniteSet(S)
  /\ \A S : Word(S) \in SUBSET LineBits
<1> USE LengthsAssumed DEF Lengths
<1>1. DataBits \subseteq LineBits
  BY DEF DataBits, LineBits
<1>2. IsFiniteSet(LineBits)
  <2>1. IsFiniteSet(0 .. entireBlockLen - 1)
    BY FS_Interval
  <2> QED BY <2>1 DEF LineBits
<1>3. \A S : Word(S) \in SUBSET LineBits
  BY GeneratingMatrix DEF Word, Sum, Columns, LineBits
<1> QED BY <1>1, <1>2, <1>3, FS_Subset

\* A code word begins with its source block.
LEMMA WordIsSystematic ==
  ASSUME NEW S \in SUBSET DataBits
  PROVE  Word(S) \cap DataBits = S
<1>1. ASSUME NEW j \in DataBits
      PROVE  j \in Word(S) <=> j \in S
  <2>1. j \in LineBits /\ j < dataBlockLen
    BY Bits, LengthsAssumed DEF DataBits, Lengths
  <2>2. \A r \in S : <<r, j>> \in generatingMatrix.ones <=> r = j
    BY <2>1, GeneratingMatrix
  <2>3. {r \in S : <<r, j>> \in generatingMatrix.ones} = S \cap {j}
    BY <2>2
  <2>4. j \in Columns(generatingMatrix)
    BY <2>1, GeneratingMatrix DEF Columns, LineBits
  <2>5. CASE j \in S
    <3>1. S \cap {j} = {j}
      BY <2>5
    <3> QED BY <2>3, <2>4, <2>5, <3>1, OddSingle DEF Word, Sum
  <2>6. CASE j \notin S
    <3>1. S \cap {j} = {}
      BY <2>6
    <3> QED BY <2>3, <2>4, <2>6, <3>1, OddSingle DEF Word, Sum
  <2> QED BY <2>5, <2>6
<1> QED BY <1>1

\* A matrix that passes the rows of the generating matrix passes all code words.
LEMMA WordsPass ==
  ASSUME NEW m, \A i \in DataBits : Sum(m, Word({i})) = {}
  PROVE  \A S \in SUBSET DataBits : Sum(m, Word(S)) = {}
<1> DEFINE Wrong == {S \in SUBSET DataBits : Sum(m, Word(S)) # {}}
           Sizes == {Cardinality(S) : S \in Wrong}
           Less == {pair \in Nat \X Nat : pair[1] < pair[2]}
<1> SUFFICES ASSUME Wrong # {} PROVE FALSE
  OBVIOUS
<1>1. \A S \in Wrong : IsFiniteSet(S) /\ Cardinality(S) \in Nat
  BY Bits, FS_CardinalityType
<1>2. Sizes \in SUBSET Nat /\ Sizes # {}
  <2> HIDE DEF Wrong
  <2> QED BY <1>1
<1>3. PICK size \in Sizes : \A other \in Sizes : <<other, size>> \notin Less
  <2>1. IsWellFoundedOn(Less, Nat)
    BY NatLessThanWellFounded DEF OpToRel
  <2> HIDE DEF Less, Sizes
  <2> QED BY <1>2, <2>1, WFMin
<1>4. PICK S \in Wrong : Cardinality(S) = size
  OBVIOUS
<1>5. S # {}
  <2>1. Word({}) = {}
    BY SumOfOne DEF Word
  <2>2. Sum(m, {}) = {}
    BY SumOfOne
  <2> QED BY <2>1, <2>2
<1>6. PICK x \in S : TRUE
  BY <1>5
<1> DEFINE T == S \ {x}
<1>7. S \in SUBSET DataBits /\ Sum(m, Word(S)) # {} /\ IsFiniteSet(S)
  BY <1>1
<1>8. IsFiniteSet(T) /\ T \in SUBSET DataBits /\ Cardinality(T) = size - 1
  BY <1>4, <1>6, <1>7, FS_RemoveElement
<1>9. Sum(m, Word(T)) = {}
  <2> SUFFICES ASSUME Sum(m, Word(T)) # {} PROVE FALSE
    OBVIOUS
  <2>1. T \in Wrong
    BY <1>8
  <2>2. size - 1 \in Sizes
    <3> HIDE DEF T, Wrong
    <3> QED BY <1>8, <2>1
  <2>3. size \in Nat /\ size - 1 \in Nat
    <3> HIDE DEF Sizes
    <3> QED BY <1>2, <2>2
  <2>4. <<size - 1, size>> \in Less
    BY <2>3
  <2> HIDE DEF Less, Sizes, T
  <2> QED BY <1>3, <2>2, <2>4
<1>10. S = SymDiff(T, {x})
  BY <1>6 DEF SymDiff
<1>11. Word(S) = SymDiff(Word(T), Word({x}))
  <2>1. IsFiniteSet({x})
    BY FS_Singleton
  <2> HIDE DEF T
  <2> QED BY <1>8, <1>10, <2>1, SumIsLinear DEF Word
<1>12. Sum(m, Word(S)) = SymDiff(Sum(m, Word(T)), Sum(m, Word({x})))
  <2>1. IsFiniteSet(Word(T)) /\ IsFiniteSet(Word({x}))
    <3> HIDE DEF T
    <3> QED BY Bits
  <2>2. \A A, B : IsFiniteSet(A) /\ IsFiniteSet(B) =>
                    Sum(m, SymDiff(A, B)) = SymDiff(Sum(m, A), Sum(m, B))
    BY SumIsLinear
  <2> HIDE DEF T, Wrong
  <2> QED BY <1>11, <2>1, <2>2
<1>13. Sum(m, Word({x})) = {}
  BY <1>6, <1>7
<1>14. SymDiff({}, {}) = {}
  BY DEF SymDiff
<1> HIDE DEF T
<1> QED BY <1>7, <1>9, <1>12, <1>13, <1>14

\* The checking matrix as it is before its rows are sorted passes all code words.
LEMMA UnsortedPasses ==
  \A S \in SUBSET DataBits : Sum(checkingMatrix, Word(S)) = {}
<1> USE LengthsAssumed DEF Lengths
<1> SUFFICES ASSUME NEW i \in DataBits PROVE Sum(checkingMatrix, Word({i})) = {}
  BY WordsPass
<1>1. Word({i}) = {j \in LineBits : <<i, j>> \in generatingMatrix.ones}
  BY SumOfOne, GeneratingMatrix DEF Word, Columns, LineBits
<1>2. ASSUME NEW c \in CheckBits
      PROVE  ~ Odd({j \in Word({i}) : <<j, c>> \in checkingMatrix.ones})
  <2> DEFINE Both == {j \in Word({i}) : <<j, c>> \in checkingMatrix.ones}
             check == c + dataBlockLen
  <2>1. check \in LineBits /\ i \in LineBits /\ i < dataBlockLen /\ ~ (check < dataBlockLen)
        /\ check - dataBlockLen = c /\ check # i
    BY DEF CheckBits, LineBits, DataBits
  <2>2. ASSUME NEW j \in LineBits
        PROVE  j \in Both <=> InP(c, i) /\ j \in {i, check}
    <3>1. CASE j < dataBlockLen
      <4>1. j # check
        BY <2>1, <3>1
      <4> QED BY <1>1, <2>1, <3>1, <4>1, GeneratingMatrix, CheckingMatrix
    <3>2. CASE ~ (j < dataBlockLen)
      <4>1. j # i /\ (j - dataBlockLen = c <=> j = check)
        BY <2>1, <3>2 DEF LineBits, CheckBits
      <4>2. j \in Word({i}) <=> InP(j - dataBlockLen, i)
        BY <1>1, <3>2, GeneratingMatrix
      <4>3. <<j, c>> \in checkingMatrix.ones <=> j = check
        BY <3>2, <4>1, CheckingMatrix
      <4>4. j \in Both <=> j \in Word({i}) /\ <<j, c>> \in checkingMatrix.ones
        OBVIOUS
      <4>5. check - dataBlockLen = c
        BY <2>1
      <4> HIDE DEF Both, check
      <4> QED BY <4>1, <4>2, <4>3, <4>4, <4>5
    <3> QED BY <3>1, <3>2
  <2>3. Both \subseteq LineBits
    BY <1>1
  <2> HIDE DEF Both
  <2>4. CASE InP(c, i)
    <3>1. Both = {i, check}
      BY <2>1, <2>2, <2>3, <2>4
    <3>2. Cardinality({i, check}) = 2
      <4>1. IsFiniteSet({i}) /\ Cardinality({i}) = 1
        BY FS_Singleton
      <4>2. Cardinality({i} \cup {check}) = Cardinality({i}) + 1
        BY <2>1, <4>1, FS_AddElement
      <4>3. {i} \cup {check} = {i, check}
        OBVIOUS
      <4> HIDE DEF check
      <4> QED BY <4>1, <4>2, <4>3
    <3>3. 2 % 2 # 1
      OBVIOUS
    <3> QED BY <3>1, <3>2, <3>3 DEF Odd, Both
  <2>5. CASE ~ InP(c, i)
    <3>1. Both = {}
      BY <2>2, <2>3, <2>5
    <3> QED BY <3>1, OddSingle DEF Both
  <2> QED BY <2>4, <2>5
<1>3. Columns(checkingMatrix) = CheckBits
  BY CheckingMatrix DEF Columns, CheckBits
<1> QED BY <1>2, <1>3 DEF Sum
-----------------------------------------------------------------------------
(***************************************************************************)
(* The blocks on their way from Encode to Decode.                          *)
(***************************************************************************)
LineVector(S) == CreateVector(entireBlockLen, S)

\* A line vector passes a matrix when its rows in the vector add up to nothing.
LEMMA LineVectorPasses ==
  ASSUME NEW m, IsMatrix(m), m.row = entireBlockLen, NEW S \in SUBSET LineBits
  PROVE  /\ Mul(LineVector(S), m) = CreateVector(m.col, Sum(m, S))
         /\ IsZero(Mul(LineVector(S), m)) <=> Sum(m, S) = {}
<1>1. S \in SUBSET Rows(m)
  BY DEF Rows, LineBits
<1>2. Mul(LineVector(S), m) = CreateVector(m.col, Sum(m, S))
  BY <1>1, Product DEF LineVector
<1>3. CreateVector(m.col, Sum(m, S)).ones = {0} \X Sum(m, S)
  BY DEF CreateVector, Matrix
<1>4. \A T : {0} \X T = {} <=> T = {}
  <2> SUFFICES ASSUME NEW T, NEW x \in T PROVE <<0, x>> \in {0} \X T
    OBVIOUS
  <2> QED OBVIOUS
<1> QED BY <1>2, <1>3, <1>4 DEF IsZero

\* What Encode makes of a source block.
LEMMA EncodedBlock ==
  ASSUME NEW S \in SUBSET DataBits
  PROVE  Mul(CreateVector(dataBlockLen, S), generatingMatrix) = LineVector(Word(S))
<1>1. S \in SUBSET Rows(generatingMatrix)
  BY GeneratingMatrix DEF Rows, DataBits
<1> QED BY <1>1, Product, GeneratingMatrix DEF LineVector, Word

\* The first bits of a line vector.
LEMMA CroppedLineVector ==
  ASSUME NEW S, NEW last
  PROVE  /\ Crop(LineVector(S), last) = S \cap (0 .. last)
         /\ LineVector(S).row = 1 /\ LineVector(S).col = entireBlockLen
         /\ LineVector(S).ones = {0} \X S
BY DEF Crop, LineVector, CreateVector, Matrix

\* The second inversion of a bit takes back the first.
LEMMA InvertedTwice ==
  ASSUME NEW S \in SUBSET LineBits, NEW n
  PROVE  InvertItem(LineVector(SymDiff(S, {n})), 0, n) = LineVector(S)
<1>1. SymDiff({0} \X SymDiff(S, {n}), {<<0, n>>}) = {0} \X S
  <2> DEFINE L == SymDiff({0} \X SymDiff(S, {n}), {<<0, n>>})
  <2>1. L \subseteq {0} \X (S \cup {n}) /\ {0} \X S \subseteq {0} \X (S \cup {n})
    BY DEF SymDiff
  <2>2. ASSUME NEW j \in S \cup {n}
        PROVE  <<0, j>> \in L <=> j \in S
    BY DEF SymDiff
  <2>3. \A one \in {0} \X (S \cup {n}) : \E j \in S \cup {n} : one = <<0, j>>
    OBVIOUS
  <2>4. \A j : <<0, j>> \in {0} \X S <=> j \in S
    OBVIOUS
  <2> HIDE DEF L
  <2>5. L = {0} \X S
    BY <2>1, <2>2, <2>3, <2>4
  <2> QED BY <2>5 DEF L
<1> QED BY <1>1, CroppedLineVector DEF InvertItem, LineVector, CreateVector, Matrix

-----------------------------------------------------------------------------
(***************************************************************************)
(* Encode puts the code word of the source block on the line, and the line *)
(* inverts bits of it.                                                     *)
(***************************************************************************)
BlockInv ==
  /\ source \in SUBSET DataBits
  /\ phase = "transmit" => block = LineVector(Word(source))
  /\ phase = "decode" =>
       \E noise \in SUBSET LineBits :
          /\ Cardinality(noise) =< MaxErrors
          /\ block = LineVector(SymDiff(Word(source), noise))

LEMMA BlockInit == Init => BlockInv
BY DEF Init, BlockInv

LEMMA BlockStep == BlockInv /\ [Next]_vars => BlockInv'
<1> SUFFICES ASSUME BlockInv, [Next]_vars PROVE BlockInv'
  OBVIOUS
<1> USE DEF BlockInv
<1>1. ASSUME NEW src \in SUBSET DataBits, Encode(src) PROVE BlockInv'
  BY <1>1, EncodedBlock DEF Encode
<1>2. ASSUME NEW noise \in SUBSET LineBits, HandleData(noise) PROVE BlockInv'
  <2>1. Crop(block, entireBlockLen - 1) = Word(source)
    <3>1. Word(source) \cap (0 .. entireBlockLen - 1) = Word(source)
      BY Bits DEF LineBits
    <3>2. block = LineVector(Word(source))
      BY <1>2 DEF HandleData
    <3> QED BY <3>1, <3>2, CroppedLineVector
  <2>2. block' = LineVector(SymDiff(Word(source), noise)) /\ source' = source
    BY <1>2, <2>1 DEF HandleData, LineVector
  <2>3. Word(source)' = Word(source)
    BY <2>2 DEF Word
  <2> QED BY <1>2, <2>2, <2>3 DEF HandleData
<1>3. CASE Decode
  BY <1>3 DEF Decode
<1>4. CASE UNCHANGED vars
  BY <1>4 DEF vars, LineVector
<1> QED BY <1>1, <1>2, <1>3, <1>4 DEF Next

(***************************************************************************)
(* What Encode puts on the line is the code word of the source block, and  *)
(* what Decode is given is that word with at most MaxErrors bits inverted. *)
(***************************************************************************)
THEOREM BlockIsTheWord == Spec => []BlockInv
BY BlockInit, BlockStep, PTL DEF Spec

\* The check of Decode, with the checking matrix as it is before its rows are sorted.
UnsortedMatrixPasses == phase = "transmit" => IsZero(Mul(block, checkingMatrix))

(***************************************************************************)
(* For a code of any length the checking matrix that InitCheckingMatrix    *)
(* builds passes every block that Encode makes, before it sorts the rows.  *)
(* What can fail in CodewordsPassTheCheck is the sorting.                  *)
(***************************************************************************)
THEOREM UnsortedMatrixPassesCodewords == Spec => []UnsortedMatrixPasses
<1>1. BlockInv => UnsortedMatrixPasses
  BY UnsortedPasses, LineVectorPasses, CheckingMatrix, Bits DEF BlockInv, UnsortedMatrixPasses
<1> QED BY <1>1, BlockIsTheWord, PTL

LEMMA SortedCheckingMatrix ==
  /\ IsMatrix(checkingMatrixSorted) /\ checkingMatrixSorted.row = entireBlockLen
  /\ checkingMatrixSorted.col = additionalBlockLen
BY CheckingMatrix, SortedMatrix DEF checkingMatrixSorted

\* The rows of the generating matrix decide for all code words.
LEMMA SortedPasses ==
  ASSUME RowsPassTheCheck
  PROVE  \A S \in SUBSET DataBits : Sum(checkingMatrixSorted, Word(S)) = {}
<1> SUFFICES ASSUME NEW i \in DataBits PROVE Sum(checkingMatrixSorted, Word({i})) = {}
  BY WordsPass
<1>1. RowOf(generatingMatrix, i) = LineVector(Word({i}))
  BY SumOfOne, GeneratingMatrix DEF RowOf, Word, LineVector
<1>2. IsZero(Mul(LineVector(Word({i})), checkingMatrixSorted))
  BY <1>1 DEF RowsPassTheCheck
<1> QED BY <1>2, LineVectorPasses, SortedCheckingMatrix, Bits

(***************************************************************************)
(* If the sorted matrix passes the rows of the generating one, it passes   *)
(* every block that Encode makes.                                          *)
(***************************************************************************)
THEOREM CodewordsPass ==
  ASSUME RowsPassTheCheck
  PROVE  Spec => []CodewordsPassTheCheck
<1>1. BlockInv => CodewordsPassTheCheck
  BY SortedPasses, LineVectorPasses, SortedCheckingMatrix, Bits
  DEF BlockInv, CodewordsPassTheCheck
<1> QED BY <1>1, BlockIsTheWord, PTL

-----------------------------------------------------------------------------
\* A zero syndrome numbers no bit.
LEMMA ZeroIndex ==
  ASSUME NEW syndrome, IsZero(syndrome)
  PROVE  BitIndex(syndrome) = 0
<1>1. Crop(syndrome, syndrome.col - 1) = {}
  BY DEF Crop, IsZero
<1>2. UNION {{i} \X (1 .. Weight(i)) : i \in {}} = {}
  OBVIOUS
<1> QED BY <1>1, <1>2, FS_EmptySet DEF BitIndex

\* At most one bit in error.
LEMMA NoneOrOne ==
  ASSUME NEW noise \in SUBSET LineBits, Cardinality(noise) =< 1
  PROVE  noise = {} \/ \E n \in LineBits : noise = {n}
<1> SUFFICES ASSUME NEW n \in noise PROVE noise = {n}
  OBVIOUS
<1>1. IsFiniteSet(noise)
  BY Bits
<1>2. IsFiniteSet(noise \ {n}) /\ Cardinality(noise \ {n}) = Cardinality(noise) - 1
  BY <1>1, FS_RemoveElement
<1>3. Cardinality(noise) \in Nat /\ Cardinality(noise \ {n}) \in Nat
  BY <1>1, <1>2, FS_CardinalityType
<1>4. Cardinality(noise \ {n}) = 0
  BY <1>2, <1>3
<1> QED BY <1>2, <1>4, FS_EmptySet

\* What Decode computes of a code word with no bit or one bit in error.
LEMMA SyndromeOfOne ==
  ASSUME RowsPassTheCheck, RowsNumberTheirBits,
         NEW S \in SUBSET DataBits, NEW n \in LineBits
  PROVE  LET syndrome == Mul(LineVector(SymDiff(Word(S), {n})), checkingMatrixSorted)
         IN  ~ IsZero(syndrome) /\ BitIndex(syndrome) = n + 1
<1> DEFINE m == checkingMatrixSorted
           syndrome == Mul(LineVector(SymDiff(Word(S), {n})), m)
<1>1. Word(S) \in SUBSET LineBits /\ IsFiniteSet(Word(S)) /\ IsFiniteSet({n})
  BY Bits, FS_Singleton
<1>2. SymDiff(Word(S), {n}) \in SUBSET LineBits
  BY <1>1 DEF SymDiff
<1>3. Sum(m, SymDiff(Word(S), {n})) = Sum(m, {n})
  <2>1. Sum(m, SymDiff(Word(S), {n})) = SymDiff(Sum(m, Word(S)), Sum(m, {n}))
    BY <1>1, SumIsLinear
  <2>2. SymDiff({}, Sum(m, {n})) = Sum(m, {n})
    BY DEF SymDiff
  <2> QED BY <2>1, <2>2, SortedPasses
<1>4. syndrome = RowOf(m, n)
  <2>1. syndrome = CreateVector(m.col, Sum(m, SymDiff(Word(S), {n})))
    BY <1>2, LineVectorPasses, SortedCheckingMatrix
  <2>2. Sum(m, {n}) = {c \in Columns(m) : <<n, c>> \in m.ones}
    BY SumOfOne
  <2> QED BY <1>3, <2>1, <2>2 DEF RowOf
<1>5. BitIndex(syndrome) = n + 1
  BY <1>4 DEF RowsNumberTheirBits
<1>6. n + 1 # 0
  BY DEF LineBits
<1> HIDE DEF syndrome
<1>7. ~ IsZero(syndrome)
  BY <1>5, <1>6, ZeroIndex
<1> QED BY <1>5, <1>7 DEF syndrome

\* Decoded is what was sent.
CorrectInv == BlockInv /\ CorrectsOneError

(***************************************************************************)
(* If moreover the rows of the sorted matrix are the numbers of their      *)
(* bits, a block with at most one inverted bit is decoded as it was sent.  *)
(***************************************************************************)
THEOREM SingleErrorsCorrected ==
  ASSUME RowsPassTheCheck, RowsNumberTheirBits, MaxErrors =< 1
  PROVE  Spec => []CorrectsOneError
<1>1. Init => CorrectInv
  BY BlockInit DEF Init, CorrectInv, CorrectsOneError
<1>2. CorrectInv /\ [Next]_vars => CorrectInv'
  <2> SUFFICES ASSUME CorrectInv, [Next]_vars PROVE CorrectsOneError'
    BY BlockStep DEF CorrectInv
  <2> USE DEF CorrectInv, CorrectsOneError
  <2>1. ASSUME NEW src \in SUBSET DataBits, Encode(src) PROVE CorrectsOneError'
    BY <2>1 DEF Encode
  <2>2. ASSUME NEW noise \in SUBSET LineBits, HandleData(noise) PROVE CorrectsOneError'
    BY <2>2 DEF HandleData
  <2>3. CASE Decode
    <3> DEFINE syndrome == Mul(block, checkingMatrixSorted)
    <3>1. PICK noise \in SUBSET LineBits :
             Cardinality(noise) =< MaxErrors /\ block = LineVector(SymDiff(Word(source), noise))
      BY <2>3 DEF Decode, BlockInv
    <3>2. source \in SUBSET DataBits /\ source' = source
      BY <2>3 DEF Decode, BlockInv
    <3>3. Crop(LineVector(Word(source)), dataBlockLen - 1) = source
      BY <3>2, CroppedLineVector, WordIsSystematic DEF DataBits
    <3>4. noise = {} \/ \E n \in LineBits : noise = {n}
      <4>1. Cardinality(noise) =< 1
        <5>1. Cardinality(noise) \in Nat
          BY Bits, FS_CardinalityType
        <5> QED BY <3>1, <5>1, HemmingAssumption
      <4> QED BY <4>1, NoneOrOne
    <3>5. CASE noise = {}
      <4>1. block = LineVector(Word(source))
        <5>1. SymDiff(Word(source), {}) = Word(source)
          BY DEF SymDiff
        <5> QED BY <3>1, <3>5, <5>1
      <4>2. IsZero(syndrome)
        BY <3>2, <4>1, SortedPasses, LineVectorPasses, SortedCheckingMatrix, Bits
      <4> QED BY <2>3, <3>2, <3>3, <4>1, <4>2 DEF Decode
    <3>6. ASSUME NEW n \in LineBits, noise = {n} PROVE CorrectsOneError'
      <4>1. ~ IsZero(syndrome) /\ BitIndex(syndrome) = n + 1
        BY <3>1, <3>2, <3>6, SyndromeOfOne
      <4>2. BitIndex(syndrome) - 1 = n
        BY <4>1 DEF LineBits
      <4>3. InvertItem(block, 0, n) = LineVector(Word(source))
        BY <3>1, <3>6, InvertedTwice, Bits
      <4> QED BY <2>3, <3>2, <3>3, <4>1, <4>2, <4>3 DEF Decode
    <3> QED BY <3>4, <3>5, <3>6
  <2>4. CASE UNCHANGED vars
    BY <2>4 DEF vars
  <2> QED BY <2>1, <2>2, <2>3, <2>4 DEF Next
<1>3. CorrectInv => CorrectsOneError
  BY DEF CorrectInv
<1> QED BY <1>1, <1>2, <1>3, PTL DEF Spec

=============================================================================
