----------------------------- MODULE SplatDetect -----------------------------
(***************************************************************************)
(* Raw data and splatness of a ContentAttr's base content                  *)
(* (getRawDataAndSplatness, detectSplatManually, detectSplatElementWise in *)
(* src/.../dialect/const/attributes/content.cpp).                          *)
(*                                                                         *)
(* A base content is a dense elements attribute, a dense resource blob or *)
(* a symbol reference, of `numElements` elements of `elemSize` bytes each. *)
(* Its raw buffer either holds every element or, the splat encoding, one   *)
(* element standing for all of them.  Bytes are abstracted to a small set. *)
(* One step computes the result; the run checks it for every buffer.      *)
(***************************************************************************)
EXTENDS Naturals, Sequences, SequencesExt

CONSTANTS
    Bytes,      \* byte values
    ElemSizes,  \* element sizes in bytes (getElemTypeSize of the type)
    MaxElems    \* bound on the number of elements of the tensor type

BaseKinds == {"dense", "resource", "sym"}

ASSUME /\ ElemSizes \subseteq Nat \ {0}
       /\ MaxElems \in Nat

VARIABLES
    kind,        \* which ElementsAttr the base content is
    elemSize,    \* bytes per element
    numElements, \* elements of the shaped type
    data,        \* the raw buffer of the attribute
    result       \* the pair getRawDataAndSplatness returns, err "pending" before

vars == <<kind, elemSize, numElements, data, result>>

Chunk(d, k, i) == SubSeq(d, i + 1, i + k)   \* the element at byte offset i

(***************************************************************************)
(* detectSplatElementWise: the two VPUX_THROW_WHENs, the one-element       *)
(* shortcut, then memcmp of every element against the first.               *)
(***************************************************************************)
\* Fault: the scan stops before the last element.
RECURSIVE AllEqualButLast(_, _, _)
AllEqualButLast(d, k, i) ==
    IF i + k >= Len(d) THEN TRUE
    ELSE Chunk(d, k, i) = Chunk(d, k, 0) /\ AllEqualButLast(d, k, i + k)

RECURSIVE AllEqualFrom(_, _, _)
AllEqualFrom(d, k, i) ==
    IF i >= Len(d) THEN TRUE
    ELSE Chunk(d, k, i) = Chunk(d, k, 0) /\ AllEqualFrom(d, k, i + k)

DetectSplatElementWise(d, k) ==
    CASE Len(d) < k -> [err |-> "NoElement", data |-> d, isSplat |-> FALSE]
      [] Len(d) % k /= 0 -> [err |-> "UnexpectedLength", data |-> d, isSplat |-> FALSE]
      [] Len(d) = k -> [err |-> "none", data |-> d, isSplat |-> TRUE]
      [] AllEqualFrom(d, k, k) -> [err |-> "none", data |-> Chunk(d, k, 0), isSplat |-> TRUE]
      [] OTHER -> [err |-> "none", data |-> d, isSplat |-> FALSE]

(***************************************************************************)
(* detectSplatManually: empty data is not a splat; isValidRawBuffer        *)
(* reports a splat exactly when the buffer holds one element; otherwise    *)
(* the element-wise scan decides.                                          *)
(***************************************************************************)
\* Fault: trusting isValidRawBuffer alone, without the element-wise scan.
DetectSplatValidRawOnly(d, k) ==
    [err |-> "none", data |-> d, isSplat |-> d /= <<>> /\ Len(d) = k]

DetectSplatManually(d, k) ==
    CASE d = <<>> -> [err |-> "none", data |-> d, isSplat |-> FALSE]
      [] Len(d) = k -> [err |-> "none", data |-> d, isSplat |-> TRUE]
      [] OTHER -> DetectSplatElementWise(d, k)

\* DenseElementsAttr::isSplat(): the attribute stores a single element.
DenseIsSplat(d, k) == Len(d) = k

GetRawDataAndSplatness(kd, d, k) ==
    CASE kd = "dense" -> [err |-> "none", data |-> d, isSplat |-> DenseIsSplat(d, k)]
      [] kd = "sym" -> [err |-> "none", data |-> <<>>, isSplat |-> FALSE]
      [] kd = "resource" -> DetectSplatManually(d, k)

-----------------------------------------------------------------------------

\* Buffers that verify() accepts for the type: all elements, or one element.
ValidBuffers(k, n) ==
    {d \in BoundedSeq(Bytes, k * MaxElems) : Len(d) = k * n \/ (n > 0 /\ Len(d) = k)}

Pending == [err |-> "pending", data |-> <<>>, isSplat |-> FALSE]

Init ==
    /\ kind \in BaseKinds
    /\ elemSize \in ElemSizes
    /\ numElements \in 0..MaxElems
    /\ data \in IF kind = "sym" THEN {<<>>} ELSE ValidBuffers(elemSize, numElements)
    /\ result = Pending

\* getRawDataAndSplatness(baseContent), as wrapBaseContent and
\* inferFinalTypeAndSplat call it.
GetRawData ==
    /\ result.err = "pending"
    /\ result' = GetRawDataAndSplatness(kind, data, elemSize)
    /\ UNCHANGED <<kind, elemSize, numElements, data>>

Next == GetRawData

Spec == Init /\ [][Next]_vars

-----------------------------------------------------------------------------

(***************************************************************************)
(* The tensor a buffer stands for, element by element, computed directly   *)
(* from the encoding and not by the scan.                                  *)
(***************************************************************************)
Logical(d, k, n) ==
    IF Len(d) = k * n THEN d ELSE [i \in 1..(k * n) |-> d[((i - 1) % k) + 1]]

Uniform(d, k, n) ==
    \A i \in 1..(k * n) : Logical(d, k, n)[i] = Logical(d, k, n)[((i - 1) % k) + 1]

(***************************************************************************)
(* A splat result is one element whose repetition is the same tensor as    *)
(* the base content; a non-splat result is the buffer itself; no verified  *)
(* buffer makes the detection throw.                                       *)
(***************************************************************************)
SplatViewFaithful ==
    result.err /= "pending" /\ kind /= "sym" =>
        /\ result.err = "none"
        /\ result.isSplat => /\ Len(result.data) = elemSize
                             /\ Logical(result.data, elemSize, numElements)
                                  = Logical(data, elemSize, numElements)
        /\ ~result.isSplat => result.data = data

(***************************************************************************)
(* A dense resource whose elements are all equal is detected as a splat,   *)
(* whatever the number of elements (the case isValidRawBuffer misses).     *)
(***************************************************************************)
ResourceSplatComplete ==
    result.err /= "pending" /\ kind = "resource" /\ numElements > 0
        /\ Uniform(data, elemSize, numElements) => result.isSplat

(***************************************************************************)
(* Spec 4.1 and 8: detectSplat on an empty buffer fails with               *)
(* InvalidBuffer.                                                          *)
(***************************************************************************)
EmptyBufferRejected ==
    result.err /= "pending" /\ kind = "resource" /\ data = <<>> => result.err /= "none"

====
