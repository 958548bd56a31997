----------------------------- MODULE ContentAttr -----------------------------
(***************************************************************************)
(* The ordered list of deferred transformations of a Const::ContentAttr    *)
(* (src/.../dialect/const/attributes/content.cpp).                         *)
(*                                                                         *)
(* A ContentAttr is an immutable value; a pass that holds one replaces it  *)
(* by the result of addTransformation or stripTransformationsFrom.  The    *)
(* variable `transformations` is the list of the value currently held.     *)
(* A transformation is a record [t, ctx]: t is its kind and parameters (a  *)
(* model value), ctx the prefix of kinds its updateAttributes hook last    *)
(* saw; ctx stands for the parameters a transformation derives from the   *)
(* transformations before it (<<>> when never refreshed).                  *)
(***************************************************************************)
EXTENDS Naturals, Sequences, FiniteSets, SequencesExt

CONSTANTS
    Transforms,     \* transformation values (kind + fixed parameters)
    Requirement,    \* Transforms -> PositionRequirement
    Kind,           \* Transforms -> {"Quantize", "Dequantize", "QuantCast", "Other"}
    Dependent,      \* transformations whose updateAttributes returns a new attribute
    InitialLists,   \* lists a pass can start from (built empty, or parsed/verified)
    MaxLen          \* bound on the length of a list

Requirements == {"NONE", "PREFERRED_LAST", "LAST"}
Kinds == {"Quantize", "Dequantize", "QuantCast", "Other"}

ASSUME /\ Requirement \in [Transforms -> Requirements]
       /\ Kind \in [Transforms -> Kinds]
       /\ Dependent \subseteq Transforms
       /\ MaxLen \in Nat \ {0}

VARIABLES
    transformations, \* getTransformations() of the ContentAttr the pass holds
    error,           \* the VPUX_THROW that ended the pass, or "none"
    lastInsert       \* index at which the last step inserted, 0 if it did not

vars == <<transformations, error, lastInsert>>

Errors == {"none", "DuplicateLastTransformation", "InvalidQuantizationChain"}

\* A transformation as built by a caller, before any updateAttributes call.
NewTransformation(t) == [t |-> t, ctx |-> <<>>]

Elements == [t : Transforms, ctx : Seq(Transforms)]

Req(e) == Requirement[e.t]

Ids(s) == [i \in DOMAIN s |-> s[i].t]

(***************************************************************************)
(* getInsertionPosition, as a 1-based index for InsertAt.  A new LAST      *)
(* transformation goes to the end; any other one goes right after the      *)
(* rightmost NONE element, or the rightmost PREFERRED_LAST element when it *)
(* is PREFERRED_LAST itself.                                               *)
(***************************************************************************)
\* Faults of the scan condition, for mutation runs: a new transformation
\* stopping at any PREFERRED_LAST one, or only at NONE ones.
StopsScanAnyPreferred(newReq, e) == Req(e) = "NONE" \/ Req(e) = "PREFERRED_LAST"
StopsScanNoneOnly(newReq, e) == Req(e) = "NONE"

StopsScan(newReq, e) ==
    \/ Req(e) = "NONE"
    \/ Req(e) = "PREFERRED_LAST" /\ newReq = "PREFERRED_LAST"

GetInsertionPosition(tr, new) ==
    IF tr = <<>> \/ Req(new) = "LAST"
    THEN Len(tr) + 1
    ELSE SelectLastInSeq(tr, LAMBDA e : StopsScan(Req(new), e)) + 1

\* The VPUX_THROW_WHEN of getInsertionPosition: both new and back are LAST.
\* Fault: comparing with the front instead of the back.
DuplicateLastFront(tr, new) ==
    tr /= <<>> /\ Req(new) = "LAST" /\ Req(tr[1]) = "LAST"
DuplicateLast(tr, new) ==
    tr /= <<>> /\ Req(new) = "LAST" /\ Req(Last(tr)) = "LAST"

(***************************************************************************)
(* canAddQuantCast: scanning back from the insertion point, the nearest    *)
(* Quantize/Dequantize, if any, is a Quantize.                             *)
(***************************************************************************)
IsQuantStep(e) == Kind[e.t] \in {"Quantize", "Dequantize"}

\* Fault: looking at the neighbour only.
CanAddQuantCastNeighbour(tr, pos) ==
    pos = 1 \/ Kind[tr[pos - 1].t] /= "Dequantize"

CanAddQuantCast(tr, pos) ==
    LET k == SelectLastInSubSeq(tr, 1, pos - 1, IsQuantStep)
    IN  k = 0 \/ Kind[tr[k].t] = "Quantize"

(***************************************************************************)
(* The loop of addTransformation that refreshes every transformation from  *)
(* the inserted one to the end with the list up to and including itself.  *)
(***************************************************************************)
\* Fault: refreshing the inserted transformation only.
UpdateAttributesInsertedOnly(tr, pos) ==
    [i \in DOMAIN tr |->
        IF i = pos /\ tr[i].t \in Dependent
        THEN [tr[i] EXCEPT !.ctx = Ids(SubSeq(tr, 1, i))]
        ELSE tr[i]]

UpdateAttributes(tr, pos) ==
    [i \in DOMAIN tr |->
        IF i >= pos /\ tr[i].t \in Dependent
        THEN [tr[i] EXCEPT !.ctx = Ids(SubSeq(tr, 1, i))]
        ELSE tr[i]]

(***************************************************************************)
(* addTransformation as a function of the list: the error it throws, or    *)
(* the new list and the insertion index.                                   *)
(***************************************************************************)
AddResult(tr, new) ==
    LET pos == GetInsertionPosition(tr, new)
    IN  CASE DuplicateLast(tr, new)
               -> [err |-> "DuplicateLastTransformation", tr |-> tr, pos |-> 0]
          [] Kind[new.t] = "QuantCast" /\ ~CanAddQuantCast(tr, pos)
               -> [err |-> "InvalidQuantizationChain", tr |-> tr, pos |-> 0]
          [] OTHER
               -> [err |-> "none", pos |-> pos,
                   tr |-> UpdateAttributes(InsertAt(tr, pos, new), pos)]

(***************************************************************************)
(* stripTransformationsFrom / getLastTransformationsFrom: split the list   *)
(* at the rightmost element equal to e; the head excludes it, the tail     *)
(* starts with it.  Strip of an absent element returns nullptr: the      *)
(* result is a record whose field null says so.                            *)
(***************************************************************************)
RightmostIndex(tr, e) == SelectLastInSeq(tr, LAMBDA x : x = e)

StripTransformationsFrom(tr, e) ==
    LET r == RightmostIndex(tr, e)
    IN  [null |-> r = 0, tr |-> IF r = 0 THEN <<>> ELSE SubSeq(tr, 1, r - 1)]

\* Fault: the tail strictly after e, as spec 6 words it.
GetLastTransformationsFromAfter(tr, e) ==
    LET r == RightmostIndex(tr, e)
    IN  IF r = 0 THEN <<>> ELSE SubSeq(tr, r + 1, Len(tr))

GetLastTransformationsFrom(tr, e) ==
    LET r == RightmostIndex(tr, e)
    IN  IF r = 0 THEN <<>> ELSE SubSeq(tr, r, Len(tr))

-----------------------------------------------------------------------------

Init ==
    /\ transformations \in InitialLists
    /\ error = "none"
    /\ lastInsert = 0

\* Const::ContentAttr::addTransformation(input, newTransformation).
AddTransformation(t) ==
    LET res == AddResult(transformations, NewTransformation(t))
    IN  /\ error = "none"
        /\ Len(transformations) < MaxLen
        /\ transformations' = res.tr
        /\ error' = res.err
        /\ lastInsert' = res.pos

\* The pass replaces its value by stripTransformationsFrom(e) of an element.
StripFrom(e) ==
    /\ error = "none"
    /\ RightmostIndex(transformations, e) > 0
    /\ transformations' = StripTransformationsFrom(transformations, e).tr
    /\ lastInsert' = 0
    /\ UNCHANGED error

Next ==
    \/ \E t \in Transforms : AddTransformation(t)
    \/ \E i \in DOMAIN transformations : StripFrom(transformations[i])

Spec == Init /\ [][Next]_vars

-----------------------------------------------------------------------------

(***************************************************************************)
(* The partition the comment above getInsertionPosition promises:          *)
(* [NONE]* -> [PREFERRED_LAST]* -> [LAST].  Breaking it takes an insertion *)
(* that lands on the wrong side of an element of another requirement,     *)
(* after several insertions of mixed requirements.                        *)
(***************************************************************************)
Rank(e) == CASE Req(e) = "NONE" -> 0
             [] Req(e) = "PREFERRED_LAST" -> 1
             [] Req(e) = "LAST" -> 2

PositionPartition ==
    \A i, j \in DOMAIN transformations :
        i < j => Rank(transformations[i]) <= Rank(transformations[j])

(***************************************************************************)
(* "The order of elements with the same requirement is stable": the        *)
(* transformation addTransformation just inserted comes after every other  *)
(* transformation that has its requirement.                                *)
(***************************************************************************)
StableInsertion ==
    lastInsert > 0 =>
        \A j \in DOMAIN transformations :
            /\ j /= lastInsert
            /\ Req(transformations[j]) = Req(transformations[lastInsert])
            => j < lastInsert

(***************************************************************************)
(* Spec 8: inserting a second LAST transformation always fails.  As an     *)
(* action property: no step raises the number of LAST transformations of  *)
(* a list that already has one.                                            *)
(***************************************************************************)
NumLast(tr) == Cardinality({i \in DOMAIN tr : Req(tr[i]) = "LAST"})

SecondLastRejected ==
    [][NumLast(transformations') > NumLast(transformations)
         => NumLast(transformations) = 0]_vars

(***************************************************************************)
(* No QuantCast follows a Dequantize without a Quantize in between, in     *)
(* the whole list and not only at the moment the QuantCast was inserted:  *)
(* a later Quantize/Dequantize insertion must not land in front of it.    *)
(***************************************************************************)
QuantChainValid ==
    \A i, j \in DOMAIN transformations :
        /\ j < i
        /\ Kind[transformations[i].t] = "QuantCast"
        /\ Kind[transformations[j].t] = "Dequantize"
        => \E m \in (j + 1)..(i - 1) : Kind[transformations[m].t] = "Quantize"

(***************************************************************************)
(* Every transformation whose attributes depend on what precedes it was    *)
(* refreshed against its current prefix, also when a later insertion put  *)
(* a new transformation in front of it.                                    *)
(***************************************************************************)
ParamsFresh ==
    \A i \in DOMAIN transformations :
        transformations[i].t \in Dependent =>
            transformations[i].ctx = Ids(SubSeq(transformations, 1, i))

(***************************************************************************)
(* Spec 8 idempotent stripping: re-adding getLastTransformationsFrom(e),   *)
(* one addTransformation at a time, to stripTransformationsFrom(e)        *)
(* rebuilds the list, for every element e.                                 *)
(***************************************************************************)
RECURSIVE ReAdd(_, _)
ReAdd(attr, suffix) ==
    IF suffix = <<>> \/ attr.null THEN attr
    ELSE LET r == AddResult(attr.tr, Head(suffix))
         IN  ReAdd([null |-> r.err /= "none", tr |-> r.tr], Tail(suffix))

StripRoundTrip ==
    \A i \in DOMAIN transformations :
        LET e == transformations[i]
            rebuilt == ReAdd(StripTransformationsFrom(transformations, e),
                             GetLastTransformationsFrom(transformations, e))
        IN  ~rebuilt.null /\ rebuilt.tr = transformations

====
