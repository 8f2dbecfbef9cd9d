----------------------------- MODULE MCPrewarmMjcf -----------------------------
(* Two launches, the second of another description and forced, and then the  *)
(* pre-warm run; a converter whose output fits every patch, or all but one. *)
EXTENDS PrewarmMjcf

MCKey == [r \in Runs |-> IF r = 2 THEN "b" ELSE "a"]

MCOutputs == {Patches, Patches \ {"inertial"}}
=============================================================================
