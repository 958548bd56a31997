------------------------ MODULE AbstractFoldingCache ------------------------
(***************************************************************************)
(* What the folding cache promises its callers (spec 4.6 and 8): a store   *)
(* from ContentAttrs to contents that only grows, where every content is   *)
(* the one the ContentAttr denotes, and a fold that returns that content,  *)
(* cached or not.  Who folds, when, and incrementally or not is left out.  *)
(***************************************************************************)
EXTENDS Naturals, Sequences, TLC

CONSTANTS
    Callers, Bases, Transforms, Requirement, Kind, Dependent, MaxLen

LOCAL CA == INSTANCE ContentAttr
    WITH transformations <- <<>>, error <- "none", lastInsert <- 0,
         InitialLists <- {<<>>}

VARIABLES
    attr,    \* attr[c]: the ContentAttr [base, tr] caller c holds
    result,  \* result[c]: the last fold c did, [attr, content]
    store    \* the contents the cache holds, a partial function

\* The content a ContentAttr stands for: its base, then its transformations.
Denotation(k) == <<k.base>> \o k.tr

Init ==
    /\ attr \in [Callers -> [base : Bases, tr : {<<>>}]]
    /\ result = [c \in Callers |->
                    [attr |-> [base |-> "none", tr |-> <<>>], content |-> <<>>]]
    /\ DOMAIN store = {}

AddTransformation(c, t) ==
    LET res == CA!AddResult(attr[c].tr, CA!NewTransformation(t))
    IN  /\ Len(attr[c].tr) < MaxLen
        /\ res.err = "none"
        /\ attr' = [attr EXCEPT ![c].tr = res.tr]
        /\ UNCHANGED <<result, store>>

Fold(c) ==
    /\ result' = [result EXCEPT ![c] = [attr |-> attr[c], content |-> Denotation(attr[c])]]
    /\ UNCHANGED <<attr, store>>

\* A ContentAttr k not yet held gets its content.
Store(k) ==
    /\ k \notin DOMAIN store
    /\ store' = (k :> Denotation(k)) @@ store
    /\ UNCHANGED <<attr, result>>

Next ==
    \/ \E c \in Callers, t \in Transforms : AddTransformation(c, t)
    \/ \E c \in Callers : Fold(c)
    \/ \E k \in DOMAIN store' : Store(k)   \* the key a step adds, if any

Spec == Init /\ [][Next]_<<attr, result, store>>

====
