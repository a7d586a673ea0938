--------------------------- MODULE MCFindMutations ---------------------------
EXTENDS FindMutations

(* Everything, what is on by default, and one type of two-type tokens off. *)
MCConfigurations == {MutantTypes, DefaultEnabled, MutantTypes \ {"ConditionalsBoundary"}}
=============================================================================
