------------------------------ MODULE MCCoreSync ------------------------------
(* CoreSync with two windows and two values, for TLC. *)
EXTENDS CoreSync, TLC

(* The windows are alike, and so are the values: no property names one. *)
Alike == Permutations(Windows) \cup Permutations(Values)
==============================================================================
