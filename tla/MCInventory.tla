----------------------------- MODULE MCInventory -----------------------------
(* Small instances of Inventory for TLC.                                   *)
EXTENDS Inventory, TLC

CONSTANTS p1, p2

Line(p, q) == [productId |-> p, quantity |-> q]

(* Two products, two orders that overlap, one list that names a product    *)
(* twice and one that asks for more than there can be.                     *)
MCLists == {<<Line(p1, 1), Line(p2, 2)>>, <<Line(p2, 1), Line(p1, 1)>>, <<Line(p1, 1), Line(p1, 1)>>}

(* One product, quantities that race for the same units.                   *)
RaceLists == {<<Line(p1, 1)>>, <<Line(p1, 2)>>, <<Line(p1, 1), Line(p1, 2)>>, <<>>}

CallSymmetry == Permutations(Calls)
=============================================================================
