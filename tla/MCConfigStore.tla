---------------------------- MODULE MCConfigStore ----------------------------
(* ConfigStore for TLC: what users type, and symmetric instances. *)
EXTENDS ConfigStore, TLC

Plaintexts == {Empty} \cup {Plain(t) : t \in Text}

Symmetry == Permutations(Instance)
==============================================================================
