---------------------------- MODULE MCModelCalls ----------------------------
(***************************************************************************)
(* Two stages that draw on one budget: "spec" calls a model through the    *)
(* cache, "places" is a WithCostCap caller without one.                    *)
(***************************************************************************)
EXTENDS ModelCalls, TLC

CONSTANTS k1, spec, places

MCKeysOf == [s \in Stages |-> IF s = spec THEN {k1} ELSE {NoKey}]
MCCap == [s \in Stages |-> 3]

Symmetry == Permutations(Containers)
=============================================================================
