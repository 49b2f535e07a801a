------------------------- MODULE MCLayoutTransition -------------------------
(* Two forms of one plane a travel apart, one of another plane, and one of  *)
(* a third that shows one pane maximized.                                   *)
EXTENDS LayoutTransition

CONSTANTS left, right, other, solo, p, q, z

TwoForms == {left, right}
ThreeForms == {left, right, other}
FourForms == {left, right, other, solo}
Planes == [f \in Forms |-> CASE f = other -> q [] f = solo -> z [] OTHER -> p]
Solo == [f \in Forms |-> f = solo]
Travel == {<<left, right>>, <<right, left>>}
=============================================================================
