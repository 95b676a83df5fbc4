----------------------------- MODULE MCStateFile -----------------------------
(* An instance of StateFile for TLC: a document is the set of entries made *)
(* in it, and a mutation adds one.                                         *)
EXTENDS StateFile

CONSTANT Entries

MCDocs     == {d \cup {} : d \in SUBSET Entries}
MCDefault  == {}
MCMutators == {[d \in MCDocs |-> d \cup {e}] : e \in Entries}
=============================================================================
