----------------------------- MODULE MCEnsureMjcf -----------------------------
(* Three launches, the second of another description, and a converter whose *)
(* output fits every patch, or all but the last.                            *)
EXTENDS EnsureMjcf

MCKey == [r \in Runs |-> IF r = 2 THEN "b" ELSE "a"]

MCOutputs == {Patches, Patches \ {"inertial"}}
=============================================================================
