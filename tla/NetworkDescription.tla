------------------------- MODULE NetworkDescription -------------------------
(***************************************************************************)
(* VPUMI37XX::getNetworkMetadata (src/.../dialect/VPUMI37XX/               *)
(* network_description.cpp): the ELF metadata of a compiled blob is read  *)
(* back into the OpenVINO-side NetworkMetadata: parameter and result       *)
(* descriptors with their names in order, state and shape descriptors      *)
(* found by tensor-name prefix, and the input/output order that the IMD   *)
(* backend relies on (extractIOOrder).                                     *)
(*                                                                         *)
(* A name is a record [kind, base]: kind "plain" for a node's friendly     *)
(* name, or the prefix a tensor name starts with ("readvalue", "assign",   *)
(* "shape"); stripping the prefix (substr) gives the plain name of base.   *)
(* A descriptor is abstracted to the tensor or node it was read from.      *)
(***************************************************************************)
EXTENDS Naturals, Sequences, SequencesExt, Functions, TLC

CONSTANTS
    Bases,        \* base names of tensors and nodes
    MaxNodes,     \* bound on parameters/results in the metadata
    MaxTensors,   \* bound on net inputs/outputs in the metadata
    MaxProfiling, \* bound on profiling outputs in the metadata
    Repeats       \* whether a node list may repeat a friendly name

ASSUME Repeats \in BOOLEAN

Plain(b) == [kind |-> "plain", base |-> b]
NodeNames == {Plain(b) : b \in Bases}
InTensorNames == [kind : {"plain", "readvalue", "shape"}, base : Bases]
OutTensorNames == [kind : {"plain", "assign", "shape"}, base : Bases]

\* Lists without repeated names, as tensor names are.
Distinct(S, n) == {s \in BoundedSeq(S, n) : IsInjective(s)}

\* Node lists: OpenVINO does not require friendly names to be unique.
NodeLists == IF Repeats THEN BoundedSeq(NodeNames, MaxNodes)
             ELSE Distinct(NodeNames, MaxNodes)

\* The blob: empty, without a VPU_SHT_NETDESC section, or with the
\* elf::NetworkMetadata that section deserializes to.
NoMetadata(sec) == [section |-> sec, params |-> <<>>, results |-> <<>>,
                    netInputs |-> <<>>, netOutputs |-> <<>>, profiling |-> <<>>]
Metadata ==
    [section : {"found"}, params : NodeLists, results : NodeLists,
     netInputs : Distinct(InTensorNames, MaxTensors),
     netOutputs : Distinct(OutTensorNames, MaxTensors),
     profiling : Distinct(NodeNames, MaxProfiling)]
        \cup {NoMetadata("empty"), NoMetadata("none")}

VARIABLES
    metadata, \* the deserialized elf::NetworkMetadata
    network,  \* the NetworkMetadata returned
    status    \* "reading", "done", or "failed" (a VPUX_THROW)

vars == <<metadata, network, status>>

(***************************************************************************)
(* deserializeIONodes: each node's descriptor under its friendly name, and *)
(* the name appended to names.                                             *)
(***************************************************************************)
AddNode(acc, node) ==
    [map |-> (node :> node) @@ acc.map, names |-> Append(acc.names, node)]

DeserializeIONodes(nodes) ==
    FoldLeft(AddNode, [map |-> <<>>, names |-> <<>>], nodes)

(***************************************************************************)
(* deserializeStateTensors / deserializeShapeTensors: a tensor whose name  *)
(* has the prefix is stored under its name without it.  Its descriptor is  *)
(* the tensor and the list (dir) it was read from.                         *)
(***************************************************************************)
AddPrefixed(kind, dir, acc, t) ==
    IF t.kind = kind
    THEN [map |-> (Plain(t.base) :> [dir |-> dir, tensor |-> t]) @@ acc.map,
          names |-> Append(acc.names, Plain(t.base))]
    ELSE acc

DeserializeStateTensors(tensors) ==
    FoldLeft(LAMBDA acc, t : AddPrefixed("readvalue", "in", acc, t),
             [map |-> <<>>, names |-> <<>>], tensors)

DeserializeShapeTensors(inTensors, outTensors) ==
    LET addIn(acc, t) == AddPrefixed("shape", "in", acc, t)
        addOut(acc, t) == AddPrefixed("shape", "out", acc, t)
    IN  FoldLeft(addOut, FoldLeft(addIn, [map |-> <<>>, names |-> <<>>], inTensors),
                 outTensors)

\* deserializeProfilingOutputTensors: each tensor's descriptor under its name.
DeserializeProfilingOutputTensors(tensors) ==
    FoldLeft(LAMBDA map, t : (t :> t) @@ map, <<>>, tensors)

(***************************************************************************)
(* extractIOOrder: nodes first, then state and shape tensors; emplace      *)
(* keeps the first index of a name, and the index advances either way.    *)
(***************************************************************************)
Emplace(acc, name) ==
    [order |-> IF name \in DOMAIN acc.order THEN acc.order
               ELSE (name :> acc.index) @@ acc.order,
     index |-> acc.index + 1]

\* Fault: the isStateInputName test left out.
IsOrderedTensorNoStateInput(t) == t.kind \in {"assign", "shape"}

IsOrderedTensor(t) == t.kind \in {"readvalue", "assign", "shape"}

\* Fault: the tensor loop restarting the index the node loop advanced.
ExtractIOOrderRestart(nodes, tensors) ==
    LET afterNodes == FoldLeft(Emplace, [order |-> <<>>, index |-> 0], nodes)
    IN  FoldLeft(Emplace, [order |-> afterNodes.order, index |-> 0],
                 SelectSeq(tensors, IsOrderedTensor)).order

ExtractIOOrder(nodes, tensors) ==
    LET afterNodes == FoldLeft(Emplace, [order |-> <<>>, index |-> 0], nodes)
    IN  FoldLeft(Emplace, afterNodes, SelectSeq(tensors, IsOrderedTensor)).order

-----------------------------------------------------------------------------

Init ==
    /\ metadata \in Metadata
    /\ network = [done |-> FALSE]
    /\ status = "reading"

\* getNetworkMetadata(blob), with its three VPUX_THROW_UNLESS checks.
GetNetworkMetadata ==
    LET params == DeserializeIONodes(metadata.params)
        results == DeserializeIONodes(metadata.results)
        states == DeserializeStateTensors(metadata.netInputs)
        shapes == DeserializeShapeTensors(metadata.netInputs, metadata.netOutputs)
    IN  /\ status = "reading"
        /\ IF metadata.section /= "found" \/ results.map = <<>>
           THEN /\ status' = "failed"
                /\ UNCHANGED network
           ELSE /\ status' = "done"
                /\ network' =
                     [done |-> TRUE,
                      parameters |-> params.map, inputNames |-> params.names,
                      results |-> results.map, outputNames |-> results.names,
                      states |-> states.map, stateNames |-> states.names,
                      shapes |-> shapes.map, shapeNames |-> shapes.names,
                      profilingOutputs |->
                          DeserializeProfilingOutputTensors(metadata.profiling),
                      inputOrder |-> ExtractIOOrder(metadata.params, metadata.netInputs),
                      outputOrder |-> ExtractIOOrder(metadata.results, metadata.netOutputs)]
        /\ UNCHANGED metadata

Next == GetNetworkMetadata

Spec == Init /\ [][Next]_vars

-----------------------------------------------------------------------------

(***************************************************************************)
(* The order extractIOOrder gives is a numbering without gaps or repeats,  *)
(* and numbers the inputs (outputs) in the order of inputNames             *)
(* (outputNames) before any state or shape tensor: the IMD backend binds   *)
(* buffers by these indices.                                               *)
(***************************************************************************)
OrderIsNumbering(order, names) ==
    /\ IsInjective(order)
    /\ Range(order) = 0..(Cardinality(DOMAIN order) - 1)
    /\ \A k \in DOMAIN names : order[names[k]] = k - 1

IOOrderConsistent ==
    network.done =>
        /\ OrderIsNumbering(network.inputOrder, network.inputNames)
        /\ OrderIsNumbering(network.outputOrder, network.outputNames)

(***************************************************************************)
(* Every state descriptor, found under its stripped name, has its          *)
(* ReadValue tensor numbered after all the inputs in inputOrder.           *)
(***************************************************************************)
StatesOrdered ==
    network.done =>
        \A s \in DOMAIN network.states :
            LET t == [kind |-> "readvalue", base |-> s.base]
            IN  /\ t \in DOMAIN network.inputOrder
                /\ network.inputOrder[t] >= Len(network.inputNames)

(***************************************************************************)
(* deserializeShapeTensors's comment: shapeNames holds the names "in the   *)
(* order in which the descriptors are found", so the k-th name of          *)
(* shapeNames finds the descriptor of the k-th shape tensor read, input    *)
(* shape tensors first: the plugin reads each shape descriptor by name.    *)
(***************************************************************************)
ShapeTensorsRead ==
    LET read(dir, ts) ==
            LET shapeTensors == SelectSeq(ts, LAMBDA t : t.kind = "shape")
            IN  [k \in DOMAIN shapeTensors |-> [dir |-> dir, tensor |-> shapeTensors[k]]]
    IN  read("in", metadata.netInputs) \o read("out", metadata.netOutputs)

ShapeDescriptorPerName ==
    network.done =>
        \A k \in DOMAIN network.shapeNames :
            network.shapes[network.shapeNames[k]] = ShapeTensorsRead[k]

====
