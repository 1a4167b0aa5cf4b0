----------------------------- MODULE MCCheckout -----------------------------
(* Small instances of Checkout for TLC.                                    *)
EXTENDS Checkout, TLC

CONSTANTS p1, p2, o1, o2, x1, x2

Line(product, n) == [productId |-> product, quantity |-> n]

(* One line: the stock of one product is contended.                        *)
OneLine == {<<Line(p1, 1)>>}

(* Two lines: handlers can be caught between them.                         *)
TwoLines == {<<Line(p1, 1), Line(p2, 1)>>}
=============================================================================
