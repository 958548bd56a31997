----------------------------- MODULE RDFTUncut -----------------------------
(***************************************************************************)
(* VPU::RDFTUncutOp (src/.../dialect/VPU/ops/rdft_uncut.cpp): the output   *)
(* type inferred from the input shape, the axes and the signal sizes; the *)
(* dims excluded from tiling (the axes and the trailing complex dim); and  *)
(* the input tile back-inferred from an output tile.                       *)
(*                                                                         *)
(* A shape is a function from dims 0..rank-1 to sizes; a tile is           *)
(* [shape, offsets, axis] (axis: the number of tiles along each dim).  The *)
(* split along a dim that may be tiled (getSWLayerTilingStrategy, outside  *)
(* this file) is any of the even divisions of the dim.                     *)
(***************************************************************************)
EXTENDS Naturals, Sequences, SequencesExt, Functions

CONSTANTS
    MaxRank,  \* bound on the rank of the input
    Sizes     \* dim sizes of the input and signal sizes

ASSUME MaxRank \in Nat \ {0} /\ Sizes \subseteq Nat \ {0}

VARIABLES
    inShape,   \* shape of input()
    axes,      \* axes_attr, distinct dims of the input
    signal,    \* signal_size_attr, one entry per axis, -1 for "keep"
    outShape,  \* the inferred output shape, <<>> before inferReturnTypes
    outTile,   \* the output tile the tiling strategy produced
    inTile,    \* the input tile backInferTileInfo returned
    phase      \* "infer", "tile", "back", "done"

vars == <<inShape, axes, signal, outShape, outTile, inTile, phase>>

NoTile == [shape |-> <<>>, offsets |-> <<>>, axis |-> <<>>]

Dims(s) == 0..(Len(s) - 1)
At(s, d) == s[d + 1]                      \* s[Dim(d)], dims counted from 0
Set(s, d, v) == [s EXCEPT ![d + 1] = v]

(***************************************************************************)
(* inferReturnTypes: each axis with a signal size other than -1 takes it;  *)
(* a trailing dim of 2 holds the complex pair.                             *)
(***************************************************************************)
InferShape(in, ax, sig) ==
    LET set(s, i) == IF sig[i] /= -1 THEN Set(s, ax[i], sig[i]) ELSE s
    IN  Append(FoldLeft(set, in, [i \in DOMAIN ax |-> i]), 2)

(***************************************************************************)
(* getTilingStrategy: the axes and the last output dim may not be split.   *)
(***************************************************************************)
\* Fault: the complex dim not excluded.
ExcludedDimsNoComplex(ax, out) == ToSet(ax)

ExcludedDims(ax, out) == ToSet(ax) \cup {Len(out) - 1}

\* The tiles of an even split of size into n parts.
Split(size, n) ==
    {[off |-> k * (size \div n),
      len |-> IF k = n - 1 THEN size - k * (size \div n) ELSE size \div n] :
        k \in 0..(n - 1)}

TilesOf(out, ax) ==
    LET full == [shape |-> out, offsets |-> [i \in DOMAIN out |-> 0],
                 axis |-> [i \in DOMAIN out |-> 1]]
        split(d, n) ==
            {[shape |-> Set(out, d, p.len), offsets |-> Set(full.offsets, d, p.off),
              axis |-> Set(full.axis, d, n)] : p \in Split(At(out, d), n)}
    IN  {full} \cup
        UNION {UNION {split(d, n) : n \in 2..At(out, d)} :
                  d \in Dims(out) \ ExcludedDims(ax, out)}

(***************************************************************************)
(* backInferTileInfo: the axes take their whole input size, then the       *)
(* complex dim is removed from shape, offsets and axis.                    *)
(***************************************************************************)
\* Fault: the axes keep the output tile's size.
BackInferTileInfoKeepShape(tile, in, ax) ==
    [shape |-> Front(tile.shape), offsets |-> Front(tile.offsets), axis |-> Front(tile.axis)]

BackInferTileInfo(tile, in, ax) ==
    LET full == FoldLeft(LAMBDA s, a : Set(s, a, At(in, a)), tile.shape, ax)
    IN  [shape |-> Front(full), offsets |-> Front(tile.offsets), axis |-> Front(tile.axis)]

-----------------------------------------------------------------------------

\* The axes/signal pairs op.verify accepts: distinct dims, one size per axis.
Attrs(in) ==
    UNION {{<<ax, sig>> : sig \in [DOMAIN ax -> Sizes \cup {-1}]} :
              ax \in {a \in BoundedSeq(Dims(in), Len(in)) : a /= <<>> /\ IsInjective(a)}}

Init ==
    /\ inShape \in UNION {[1..r -> Sizes] : r \in 1..MaxRank}
    /\ \E p \in Attrs(inShape) : axes = p[1] /\ signal = p[2]
    /\ outShape = <<>>
    /\ outTile = NoTile
    /\ inTile = NoTile
    /\ phase = "infer"

InferReturnTypes ==
    /\ phase = "infer"
    /\ outShape' = InferShape(inShape, axes, signal)
    /\ phase' = "tile"
    /\ UNCHANGED <<inShape, axes, signal, outTile, inTile>>

GetTilingStrategy ==
    /\ phase = "tile"
    /\ \E t \in TilesOf(outShape, axes) : outTile' = t
    /\ phase' = "back"
    /\ UNCHANGED <<inShape, axes, signal, outShape, inTile>>

BackInfer ==
    /\ phase = "back"
    /\ inTile' = BackInferTileInfo(outTile, inShape, axes)
    /\ phase' = "done"
    /\ UNCHANGED <<inShape, axes, signal, outShape, outTile>>

Next == InferReturnTypes \/ GetTilingStrategy \/ BackInfer

Spec == Init /\ [][Next]_vars

-----------------------------------------------------------------------------

(***************************************************************************)
(* The input tile backInferTileInfo gives lies inside the input: the SW    *)
(* kernel reads offsets + shape along every dim.  It relies on the tiling  *)
(* strategy never splitting an axis, whose offset backInferTileInfo keeps. *)
(***************************************************************************)
InputTileInBounds ==
    phase = "done" =>
        /\ Len(inTile.shape) = Len(inShape)
        /\ \A d \in Dims(inShape) :
               At(inTile.offsets, d) + At(inTile.shape, d) <= At(inShape, d)

(***************************************************************************)
(* Inferring the output type of the input tile gives back the output tile: *)
(* the tile of the input computes exactly the tile of the output.          *)
(***************************************************************************)
TileShapeRoundTrip ==
    phase = "done" => InferShape(inTile.shape, axes, signal) = outTile.shape

====
