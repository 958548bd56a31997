---------------------------- MODULE FoldingCache ----------------------------
(***************************************************************************)
(* Background constant folding: ContentAttr::addTransformation enqueues a  *)
(* FoldingRequest{newContentAttr, newTransformation} on the compilation    *)
(* context's folding cache, worker threads fold requests off the critical  *)
(* path, and ContentAttr::fold(bypassCache) returns a cached content when  *)
(* there is one (content.cpp, BACKGROUND_FOLDING_ENABLED).                 *)
(*                                                                         *)
(* The cache itself is not in this repository's sources: its actions are   *)
(* modelled from spec 4.6 (an entry is absent, pending while one worker    *)
(* folds it, or populated; requests for the same key collapse into one     *)
(* fold).  A worker whose request's prefix, stripTransformationsFrom(new-  *)
(* Transformation), is already cached applies getLastTransformationsFrom(  *)
(* newTransformation) to it instead of folding from the base content: the *)
(* use the request's newTransformation field and those two helpers exist  *)
(* for.                                                                    *)
(*                                                                         *)
(* A content is abstracted to the term it denotes: the base content        *)
(* followed by the transformations applied to it, in order.               *)
(***************************************************************************)
EXTENDS Naturals, Sequences, SequencesExt, TLC

CONSTANTS
    Callers,      \* compiler threads holding and folding ContentAttrs
    Workers,      \* background folding threads
    Bases,        \* base contents
    Transforms, Requirement, Kind, Dependent, MaxLen,  \* as in ContentAttr
    CacheActive,  \* cacheManager.contains(ctx)
    MaxQueue      \* bound on the number of queued requests

ASSUME CacheActive \in BOOLEAN /\ MaxQueue \in Nat \ {0}

LOCAL CA == INSTANCE ContentAttr
    WITH transformations <- <<>>, error <- "none", lastInsert <- 0,
         InitialLists <- {<<>>}

VARIABLES
    attr,      \* attr[c]: the ContentAttr [base, tr] caller c holds
    result,    \* result[c]: the last fold c did, [attr, content], or NoResult
    cache,     \* partial function key -> [state, content]
    requests,  \* queue of FoldingRequests not yet taken by a worker
    folding    \* folding[w]: the request worker w is folding, or NoRequest

vars == <<attr, result, cache, requests, folding>>

NoResult == [attr |-> [base |-> "none", tr |-> <<>>], content |-> <<>>]
NoRequest == [attr |-> [base |-> "none", tr |-> <<>>], newT |-> [t |-> "none", ctx |-> <<>>]]

(***************************************************************************)
(* wrapBaseContent and the loop of ContentAttr::fold: every transformation *)
(* applied in order to the content so far.                                 *)
(***************************************************************************)
WrapBaseContent(b) == <<b>>

Transform(content, e) == Append(content, e)

ApplyAll(content, tr) == FoldLeft(Transform, content, tr)

FoldAttr(a) == ApplyAll(WrapBaseContent(a.base), a.tr)

Cached(k) == k \in DOMAIN cache /\ cache[k].state = "populated"

\* cache.getContent(*this): a populated entry only (spec 4.6).
GetContent(k) == cache[k].content

-----------------------------------------------------------------------------

Init ==
    /\ attr \in [Callers -> [base : Bases, tr : {<<>>}]]
    /\ result = [c \in Callers |-> NoResult]
    /\ cache = <<>>
    /\ requests = <<>>
    /\ folding = [w \in Workers |-> NoRequest]

(***************************************************************************)
(* ContentAttr::addTransformation by caller c, when it succeeds (its       *)
(* throws are ContentAttr's subject), with the enqueue of the request      *)
(* carrying the transformation as the caller built it.                     *)
(***************************************************************************)
AddTransformation(c, t) ==
    LET new == CA!NewTransformation(t)
        res == CA!AddResult(attr[c].tr, new)
        newAttr == [attr[c] EXCEPT !.tr = res.tr]
    IN  /\ Len(attr[c].tr) < MaxLen
        /\ res.err = "none"
        /\ attr' = [attr EXCEPT ![c] = newAttr]
        /\ IF CacheActive
           THEN /\ Len(requests) < MaxQueue
                /\ requests' = Append(requests, [attr |-> newAttr, newT |-> new])
           ELSE UNCHANGED requests
        /\ UNCHANGED <<result, cache, folding>>

(***************************************************************************)
(* ContentAttr::fold(bypassCache) by caller c: a populated cache entry is  *)
(* returned as is; otherwise the content is folded from the base.  The    *)
(* result is not stored in the cache.                                      *)
(***************************************************************************)
Fold(c, bypassCache) ==
    LET k == attr[c]
        content == IF ~bypassCache /\ CacheActive /\ Cached(k)
                   THEN GetContent(k)
                   ELSE FoldAttr(k)
    IN  /\ result' = [result EXCEPT ![c] = [attr |-> k, content |-> content]]
        /\ UNCHANGED <<attr, cache, requests, folding>>

(***************************************************************************)
(* A worker takes the oldest request.  A key with an entry, pending or     *)
(* populated, is already being or been folded: the request is dropped.    *)
(***************************************************************************)
\* Faults: waiting for the
\* key's entry to go instead of dropping the request; not recording the
\* pending entry; keys compared by their base content only.
TakeRequestBaseOnly(w) ==
    LET r == Head(requests)
    IN  /\ folding[w] = NoRequest
        /\ requests /= <<>>
        /\ requests' = Tail(requests)
        /\ IF \E k \in DOMAIN cache : k.base = r.attr.base
           THEN UNCHANGED <<cache, folding>>
           ELSE /\ cache' = (r.attr :> [state |-> "pending", content |-> <<>>]) @@ cache
                /\ folding' = [folding EXCEPT ![w] = r]
        /\ UNCHANGED <<attr, result>>
TakeRequestWaits(w) ==
    LET r == Head(requests)
    IN  /\ folding[w] = NoRequest
        /\ requests /= <<>>
        /\ r.attr \notin DOMAIN cache
        /\ requests' = Tail(requests)
        /\ cache' = (r.attr :> [state |-> "pending", content |-> <<>>]) @@ cache
        /\ folding' = [folding EXCEPT ![w] = r]
        /\ UNCHANGED <<attr, result>>
TakeRequestNoMarker(w) ==
    LET r == Head(requests)
    IN  /\ folding[w] = NoRequest
        /\ requests /= <<>>
        /\ requests' = Tail(requests)
        /\ IF r.attr \in DOMAIN cache
           THEN UNCHANGED folding
           ELSE folding' = [folding EXCEPT ![w] = r]
        /\ UNCHANGED <<attr, result, cache>>

TakeRequest(w) ==
    LET r == Head(requests)
    IN  /\ folding[w] = NoRequest
        /\ requests /= <<>>
        /\ requests' = Tail(requests)
        /\ IF r.attr \in DOMAIN cache
           THEN UNCHANGED <<cache, folding>>
           ELSE /\ cache' = (r.attr :> [state |-> "pending", content |-> <<>>]) @@ cache
                /\ folding' = [folding EXCEPT ![w] = r]
        /\ UNCHANGED <<attr, result>>

(***************************************************************************)
(* The worker's fold: from the cached prefix when there is one, else from  *)
(* the base content; the entry becomes populated.                          *)
(***************************************************************************)
FoldRequest(r) ==
    LET prefix == CA!StripTransformationsFrom(r.attr.tr, r.newT)
        prefixKey == [base |-> r.attr.base, tr |-> prefix.tr]
    IN  IF ~prefix.null /\ Cached(prefixKey)
        THEN ApplyAll(GetContent(prefixKey), CA!GetLastTransformationsFrom(r.attr.tr, r.newT))
        ELSE FoldAttr(r.attr)

FinishFold(w) ==
    LET r == folding[w]
    IN  /\ r /= NoRequest
        /\ cache' = [cache EXCEPT ![r.attr] = [state |-> "populated", content |-> FoldRequest(r)]]
        /\ folding' = [folding EXCEPT ![w] = NoRequest]
        /\ UNCHANGED <<attr, result, requests>>

Next ==
    \/ \E c \in Callers, t \in Transforms : AddTransformation(c, t)
    \/ \E c \in Callers, b \in BOOLEAN : Fold(c, b)
    \/ \E w \in Workers : TakeRequest(w) \/ FinishFold(w)

\* The folding threads keep running while there is work.
Fairness == \A w \in Workers : WF_vars(TakeRequest(w)) /\ WF_vars(FinishFold(w))

Spec == Init /\ [][Next]_vars /\ Fairness

-----------------------------------------------------------------------------

TypeOK ==
    /\ \A c \in Callers : attr[c].base \in Bases /\ Len(attr[c].tr) <= MaxLen
    /\ \A k \in DOMAIN cache : cache[k].state \in {"pending", "populated"}
    /\ Len(requests) <= MaxQueue
    /\ \A w \in Workers : folding[w] = NoRequest \/ folding[w].attr \in DOMAIN cache

(***************************************************************************)
(* The cache implements AbstractFoldingCache: its populated entries form a *)
(* store that only grows, every content in it, incremental or not, is the  *)
(* one its ContentAttr denotes, and every fold a caller does, from the     *)
(* cache or not, returns that content (cache transparency, spec 8).        *)
(* Pending entries and the request queue are invisible to callers.         *)
(***************************************************************************)
StoreBar == [k \in {k \in DOMAIN cache : Cached(k)} |-> GetContent(k)]

Abs == INSTANCE AbstractFoldingCache WITH store <- StoreBar

AbstractSpec == Abs!Spec

(***************************************************************************)
(* Every request is eventually served: the queue drains and no worker      *)
(* stays busy, once the callers stop adding transformations.              *)
(***************************************************************************)
QueueDrains ==
    <>[](requests = <<>> /\ \A w \in Workers : folding[w] = NoRequest)

\* The ContentAttrs callers can hold: lists built by up to MaxLen additions.
RECURSIVE Built(_)
Built(n) ==
    IF n = 0 THEN {<<>>}
    ELSE Built(n - 1) \cup
         {CA!AddResult(tr, CA!NewTransformation(t)).tr : tr \in Built(n - 1), t \in Transforms}

Keys == [base : Bases, tr : Built(MaxLen)]

Enqueued(k) == \E i \in DOMAIN requests : requests[i].attr = k

(***************************************************************************)
(* Every FoldingRequest addTransformation enqueues is eventually served:   *)
(* its ContentAttr ends up populated in the cache, also when a worker      *)
(* dropped the request as a duplicate of an entry it matched.  A queue     *)
(* that drains is not enough: a request dropped against the wrong entry   *)
(* leaves the queue empty and the content never cached.                    *)
(***************************************************************************)
RequestsServed == \A k \in Keys : Enqueued(k) ~> Cached(k)

====
