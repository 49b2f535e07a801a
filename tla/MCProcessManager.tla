-------------------------- MODULE MCProcessManager --------------------------
(***************************************************************************)
(* ProcessManager for TLC: which child belongs to a window.                *)
(***************************************************************************)
EXTENDS ProcessManager, TLC

CONSTANTS c1, c2, w1

\* One child of a window and one of no window.
OneStamped == [w \in {w1} |-> {c1}]
=============================================================================
