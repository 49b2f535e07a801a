--------------------------- MODULE MCPluginLifecycle ---------------------------
(* PluginLifecycle for TLC. *)
EXTENDS PluginLifecycle

CONSTANTS a, b, c

Pair == <<a, b>>
PairNeeds == [p \in {a, b} |-> IF p = b THEN {a} ELSE {}]

(* b needs a and c, and c needs a. *)
Diamond == <<a, b, c>>
DiamondNeeds == [p \in {a, b, c} |-> CASE p = a -> {} [] p = b -> {a, c} [] p = c -> {a}]

(* Every graph of three plugins, one of which may not be installed. *)
SmallGraphs == [needs : [{a, b, c} -> SUBSET {a, b, c}],
                installed : {<<a, b, c>>, <<c, b, a>>, <<b, a, c>>, <<a, b>>}]
==============================================================================
