------------------------------ MODULE Ordering ------------------------------
(***************************************************************************)
(* Numbers in order, and what is picked out of a sequence: SetToSortSeq and  *)
(* SelectSeq of the library, without the operator they take, which the       *)
(* provers cannot be given.                                                  *)
(***************************************************************************)
EXTENDS Naturals, FiniteSets, Sequences

\* The numbers of a set, the lowest first.
InOrder(numbers) ==
    [i \in 1 .. Cardinality(numbers) |->
        CHOOSE n \in numbers : Cardinality({m \in numbers : m < n}) = i - 1]

\* Those of a sequence's elements that are in a set, in the order they came.
Only(kept, line) ==
    LET at == InOrder({i \in DOMAIN line : line[i] \in kept})
    IN  [i \in DOMAIN at |-> line[at[i]]]
=============================================================================
