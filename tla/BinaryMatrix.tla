------------------------------- MODULE BinaryMatrix -------------------------------
(***************************************************************************)
(* The matrices of bits of core_library/BinaryMatrix.cpp, as HemmingCoder  *)
(* uses them.  A matrix is the record of its numbers of rows and columns   *)
(* and the set of the places <<row, column>> of its ones, from <<0, 0>>.   *)
(***************************************************************************)
EXTENDS Integers, FiniteSetsExt

Matrix(rowSize, colSize, ones) == [row |-> rowSize, col |-> colSize, ones |-> ones]

Rows(m) == 0 .. m.row - 1
Columns(m) == 0 .. m.col - 1

\* A vector is a matrix of one row; here, with ones in the columns of a set.
CreateVector(size, columns) == Matrix(1, size, {0} \X columns)

CreateIdentityMatrix(size) == Matrix(size, size, {<<i, i>> : i \in 0 .. size - 1})

IsZero(m) == m.ones = {}

\* The columns from 0 to colEnd of a vector that hold a one.
Crop(vector, colEnd) == {j \in 0 .. colEnd : <<0, j>> \in vector.ones}

Transpose(m) == Matrix(m.col, m.row, {<<place[2], place[1]>> : place \in m.ones})

\* The other matrix to the right of m, and below m.
ConcatWidth(m, other) ==
  Matrix(m.row, m.col + other.col,
         m.ones \cup {<<place[1], place[2] + m.col>> : place \in other.ones})

ConcatHeight(m, other) ==
  Matrix(m.row + other.row, m.col,
         m.ones \cup {<<place[1] + m.row, place[2]>> : place \in other.ones})

Mul(m, other) ==
  Matrix(m.row, other.col,
         {place \in Rows(m) \X Columns(other) :
            Cardinality({r \in Columns(m) : /\ <<place[1], r>> \in m.ones
                                            /\ <<r, place[2]>> \in other.ones})
              % 2 = 1})

InvertItem(m, row, col) ==
  Matrix(m.row, m.col, SymDiff(m.ones, {<<row, col>>}))

-----------------------------------------------------------------------------
\* CompareRows is negative: at the first column where they differ, the left row
\* has the zero.
RowBefore(m, left, right) ==
  \E c \in Columns(m) :
     /\ <<left, c>> \notin m.ones
     /\ <<right, c>> \in m.ones
     /\ \A earlier \in 0 .. c - 1 :
           <<left, earlier>> \in m.ones <=> <<right, earlier>> \in m.ones

\* Where the bubble sort puts a row: it exchanges neighbours only when the left
\* one is greater, and so keeps the order of equal rows.
PlaceOf(m, row) ==
  Cardinality({other \in Rows(m) : \/ RowBefore(m, other, row)
                                   \/ other < row /\ ~ RowBefore(m, row, other)})

SortRowsAsc(m) ==
  Matrix(m.row, m.col, {<<PlaceOf(m, place[1]), place[2]>> : place \in m.ones})

=============================================================================
