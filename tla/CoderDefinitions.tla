---------------------------- MODULE CoderDefinitions ----------------------------
(***************************************************************************)
(* The definition of a convolutional self-orthogonal code, as the struct   *)
(* CoderDefinition of core_library/CoderDefinitions.cpp keeps it: a list of *)
(* items (i, j, powersPolynom), one generating polynomial for each pair of *)
(* a data branch i and a check branch j that the code connects.            *)
(*                                                                         *)
(* The vector of items is the set Items: no operation depends on the order *)
(* of the vector.  The vector powersPolynom of an item is a set, since     *)
(* GeneratingPolynom::GetFactorsVector lists every power once.             *)
(***************************************************************************)
EXTENDS Integers, FiniteSetsExt

CONSTANT Items      \* itemsCoderDefinition

(***************************************************************************)
(* A pair (i, j) has at most one item: CheckThresholdCondition reads every *)
(* item of a pair, DropFlagsSyndromeRegistry only the first one            *)
(* (FindItemByDataCheckIndexes), and a definition with two polynomials for *)
(* one pair is not one the tool is given.                                  *)
(***************************************************************************)
ItemsAreSound ==
  /\ Items # {}
  /\ IsFiniteSet(Items)
  /\ \A it \in Items : /\ it.i \in Nat \ {0}
                       /\ it.j \in Nat \ {0}
                       /\ it.powersPolynom \in SUBSET Nat
                       /\ IsFiniteSet(it.powersPolynom)
  /\ \A it, other \in Items :
        (it.i = other.i /\ it.j = other.j) => it = other

ASSUME ItemsAssumption == ItemsAreSound

-----------------------------------------------------------------------------
\* The number of data branches: the greatest i of an item.
GetCountInputs == Max({it.i : it \in Items})

\* The number of check branches: the greatest j of an item.
GetCountCheckOutputs == Max({it.j : it \in Items})

GetCountOutputs == GetCountInputs + GetCountCheckOutputs

\* The greatest power of a polynomial, 0 when no item has a polynomial.
GetMaxM == Max({0} \cup UNION {it.powersPolynom : it \in Items})

FilterItemsByOutputBranchIndex(c) == {it \in Items : it.j = c}

GetItemsForDataBranchIndex(b) == {it \in Items : it.i = b}

\* The terms of the polynomials of data branch b, each with its item.
Terms(b) ==
  UNION {{it} \X it.powersPolynom : it \in GetItemsForDataBranchIndex(b)}

\* The code distance is one more than the least number of polynomial terms
\* that a data branch of some item has.
GetDmin == Min({1 + Cardinality(Terms(it.i)) : it \in Items})

=============================================================================
