--------------------------- MODULE MC_ContentAttr ---------------------------
(***************************************************************************)
(* ContentAttr with seven transformations: one of each quantization kind,  *)
(* an ordinary NONE one, two PREFERRED_LAST ones (one refreshing its       *)
(* attributes on insertion) and a LAST one.  The quantization attributes   *)
(* keep the interface's default requirement NONE.                          *)
(***************************************************************************)
EXTENDS ContentAttr

CONSTANTS n, q, dq, qc, p, p2, l

MCTransforms == {n, q, dq, qc, p, p2, l}

MCRequirement ==
    [t \in MCTransforms |->
        CASE t = p \/ t = p2 -> "PREFERRED_LAST"
          [] t = l -> "LAST"
          [] OTHER -> "NONE"]

MCKind ==
    [t \in MCTransforms |->
        CASE t = q -> "Quantize"
          [] t = dq -> "Dequantize"
          [] t = qc -> "QuantCast"
          [] OTHER -> "Other"]

MCDependent == {p}

\* A pass starts from a ContentAttr built with no transformations.
MCBuiltLists == {<<>>}

\* Lists the parser accepts: verify() checks only that no entry is null,
\* not their order.
MCParsedLists == {<<>>, <<NewTransformation(l), NewTransformation(n)>>}
====
