-------------------------- MODULE MCWindowPersistence --------------------------
(* WindowPersistence with two windows and two roots, for TLC. *)
EXTENDS WindowPersistence, TLC

(* A window is named by nothing but its label. *)
AlikeWindows == Permutations(Windows)
==============================================================================
