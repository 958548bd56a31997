------------------------ MODULE MC_BarrierConstraint ------------------------
(* The two constraints, every combination of the three pass options, both *)
(* constructors, up to three pass instances on one module.                 *)
EXTENDS BarrierConstraint

CONSTANTS BARR_MAX_VARIANT_SUM, BARR_MAX_VARIANT_COUNT

MCConstraintNames == <<BARR_MAX_VARIANT_SUM, BARR_MAX_VARIANT_COUNT>>
====
