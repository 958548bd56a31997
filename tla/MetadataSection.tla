--------------------------- MODULE MetadataSection ---------------------------
(***************************************************************************)
(* ELF::CreateMetadataSectionOp::serialize (src/.../NPU40XX/dialect/ELF/   *)
(* ops/create_metadata_section.cpp): the section is added to the writer,   *)
(* then the loop walks the ops of the section's body, serializing each     *)
(* NetworkMetadataOp, and the section is entered into sectionMap when one *)
(* metadata op was serialized.  An op of the body is "meta" (a             *)
(* NetworkMetadataOp) or "other"; one step is one loop iteration.          *)
(***************************************************************************)
EXTENDS Naturals, Sequences, SequencesExt

CONSTANTS
    MaxOps   \* bound on the number of ops in the section's body

OpKinds == {"meta", "other"}

VARIABLES
    ops,                  \* block->getOperations()
    i,                    \* index of the next op of the loop
    isMetadataSerialized, \* the flag of the loop
    serialized,           \* number of metadata_op.serialize calls made
    status                \* "running", "done" (sectionMap set) or "failed" (a throw)

vars == <<ops, i, isMetadataSerialized, serialized, status>>

Init ==
    /\ ops \in BoundedSeq(OpKinds, MaxOps)
    /\ i = 1
    /\ isMetadataSerialized = FALSE
    /\ serialized = 0
    /\ status = "running"

(***************************************************************************)
(* One iteration: the VPUX_THROW_UNLESS at the loop head, then the         *)
(* serialization of a metadata op.                                         *)
(***************************************************************************)
\* Fault: the check at the loop head left out.
LoopStepNoCheck ==
    /\ status = "running"
    /\ i <= Len(ops)
    /\ isMetadataSerialized' = (isMetadataSerialized \/ ops[i] = "meta")
    /\ serialized' = IF ops[i] = "meta" THEN serialized + 1 ELSE serialized
    /\ i' = i + 1
    /\ UNCHANGED <<ops, status>>

LoopStep ==
    /\ status = "running"
    /\ i <= Len(ops)
    /\ IF isMetadataSerialized
       THEN /\ status' = "failed"
            /\ UNCHANGED <<i, isMetadataSerialized, serialized>>
       ELSE /\ isMetadataSerialized' = (ops[i] = "meta")
            /\ serialized' = IF ops[i] = "meta" THEN serialized + 1 ELSE serialized
            /\ i' = i + 1
            /\ UNCHANGED status
    /\ UNCHANGED ops

\* After the loop: "No metadata defined" unless one was serialized.
LoopExit ==
    /\ status = "running"
    /\ i > Len(ops)
    /\ status' = IF isMetadataSerialized THEN "done" ELSE "failed"
    /\ UNCHANGED <<ops, i, isMetadataSerialized, serialized>>

Next == LoopStep \/ LoopExit

Spec == Init /\ [][Next]_vars

-----------------------------------------------------------------------------

NumMeta == Cardinality({k \in DOMAIN ops : ops[k] = "meta"})

(***************************************************************************)
(* A section that reaches sectionMap had exactly one NetworkMetadataOp     *)
(* serialized into it, and its body holds exactly one.                     *)
(***************************************************************************)
ExactlyOneSerialized ==
    status = "done" => serialized = 1 /\ NumMeta = 1

(***************************************************************************)
(* The message of the loop-head check, "There should be only 1 metadata op *)
(* in an ELF metadata section": a body with exactly one metadata op is     *)
(* serialized.                                                             *)
(***************************************************************************)
SingleMetadataAccepted ==
    status /= "running" /\ NumMeta = 1 => status = "done"

====
