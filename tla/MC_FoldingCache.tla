-------------------------- MODULE MC_FoldingCache --------------------------
(***************************************************************************)
(* Two callers and two folding threads over one base content; one         *)
(* ordinary NONE transformation and one PREFERRED_LAST transformation     *)
(* that refreshes its attributes on insertion, so that requests whose      *)
(* newTransformation is found in the list and requests whose is not both  *)
(* occur.                                                                  *)
(***************************************************************************)
EXTENDS FoldingCache

CONSTANTS c1, c2, w1, w2, b, a, d

MCRequirement == [t \in {a, d} |-> IF t = d THEN "PREFERRED_LAST" ELSE "NONE"]
MCKind == [t \in {a, d} |-> "Other"]
====
