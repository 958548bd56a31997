# TLA+ models of the constant-content core and neighbouring passes of npu_plugin

The modules check the code under `src/src/vpux_compiler/src/`. Each run
named below is listed in `PROJECT.json` with its module, its cfg and its
properties. The check command is `tlc -workers 2 -config <cfg> <MC module>`.

## The system's parts and how they interact

| Part | Source | State and operations |
|---|---|---|
| `Const::ContentAttr` | `dialect/const/attributes/content.cpp` | An immutable value: a base content plus an ordered list of transformations. `addTransformation` inserts one transformation by its position requirement (`NONE`, `PREFERRED_LAST`, `LAST`). It throws when a second `LAST` would be added (it checks the back only) and when a `QuantCast` follows a `Dequantize`. It then refreshes every transformation from the insertion point on (`updateAttributes`). With background folding on, it enqueues a `FoldingRequest{newContentAttr, newTransformation}`. `stripTransformationsFrom` and `getLastTransformationsFrom` split the list at the rightmost equal element. `parse` plus `verify` build a list in any order. |
| Splat detection | `content.cpp` | `getRawDataAndSplatness` covers three base kinds. Dense: the stored flag. Symbol: no data. Dense resource: `detectSplatManually`, which is an empty check, then `isValidRawBuffer`, then the element-wise `memcmp` scan. |
| Folding | `content.cpp`, plus the cache (not in `src`) | `fold(bypassCache)` returns the cache's content when there is one. Otherwise it wraps the base and applies every transformation. Worker threads of the folding cache fold queued requests off the critical path. |
| Barrier-constraint pass | `VPU/transforms/passes/setup_per_barrier_variant_constraint.cpp` | Options go into fields, in this order: enablePWM, then the wlmRollback override, then allowCustomValues. Then two `addConstraint` calls act on the module's `PipelineOptionsOp`. Each throws, keeps the existing option, or creates one. |
| ELF metadata section | `NPU40XX/dialect/ELF/ops/create_metadata_section.cpp` | `serialize` loops over the body's ops and serializes the one `NetworkMetadataOp`. |
| Network description | `VPUMI37XX/network_description.cpp` | `getNetworkMetadata` reads the ELF metadata back into OpenVINO descriptors. It collects parameters and results with their names in order, states and shape tensors by name prefix, and the input/output order (`extractIOOrder`) that the IMD backend binds buffers by. |
| RDFTUncut | `VPU/ops/rdft_uncut.cpp` | `inferReturnTypes` sets each axis to its signal size (unless -1) and appends a complex dim of 2. `getTilingStrategy` forbids splitting the axes and the complex dim. `backInferTileInfo` gives the axes their whole input size and drops the complex dim from the output tile. |

How they interact:

- `addTransformation` feeds the folding cache.
- `fold` reads the cache.
- The cache's incremental path folds from a cached prefix. It uses `stripTransformationsFrom` for the prefix and `getLastTransformationsFrom` for the suffix.
- Splat detection runs when a base content is wrapped.

The hard parts are these:

- the ordering rules of the list across mixed insertions;
- the refresh of transformations after an insertion point;
- the rightmost-element split;
- the byte-level splat scan at its edges (an empty buffer, one element, the last element);
- concurrent callers and workers on the cache;
- repeated or partially failing runs of the pass on one module.

## Modules

- **ContentAttr.tla** models the transformation list.
  - The variable `transformations` is the list the pass holds.
  - An element is `[t, ctx]`: `t` is the transformation, as a model value. `ctx` is the prefix its `updateAttributes` hook last saw, and stands for the parameters it derives from that prefix.
  - The actions are `AddTransformation(t)` (the whole of `addTransformation`) and `StripFrom(e)`.
  - `GetInsertionPosition`, `CanAddQuantCast`, `UpdateAttributes`, `StripTransformationsFrom` and `GetLastTransformationsFrom` are operators.
  - `Init` takes its lists from `InitialLists`. These are the lists a pass starts from: built, which means empty, or parsed.
- **SplatDetect.tla** models the splat algorithms as operators (`AllEqualFrom` is recursive).
  - Bytes are a small set.
  - `Init` ranges over every buffer that `verify()` accepts for a type: all elements, or one element.
  - One step computes `getRawDataAndSplatness`.
- **FoldingCache.tla** composes ContentAttr (a `LOCAL INSTANCE`) with folding.
  - Callers run `AddTransformation` with its enqueue, and `Fold(c, bypassCache)`.
  - Workers run `TakeRequest` and `FinishFold`. `FinishFold` uses `FoldRequest`: incremental from a cached prefix, else from the base.
  - A content is the term it denotes: the base followed by the transformations applied.
  - The cache is a partial function from a key to `pending` or `populated`.
  - The cache's actions are modelled from spec 4.6, because that code is not in `src`. They are marked `spec_modelled` in the map.
- **AbstractFoldingCache.tla** states what the cache promises. `store` is a partial function from a ContentAttr to the content it denotes (`Denotation`: the base, then the transformations). It only grows (`Store(k)`). `Fold(c)` returns the denoted content. FoldingCache maps its populated entries to `store` (`StoreBar`), and checks `AbstractSpec == Abs!Spec` as a property. Pending entries, the queue and the workers are invisible to callers, so their steps are stuttering steps of the abstract spec.
- **RDFTUncut.tla** runs one op through three steps: `InferReturnTypes`, `GetTilingStrategy` (any even split of one dim that is not excluded) and `BackInfer`.
  - Shapes are sequences indexed by dim + 1.
  - The split itself (`getSWLayerTilingStrategy`) is outside `src`, so every even split is enumerated.
  - `Init` enumerates input shapes of rank 1..3 with sizes 1..3, and every list of distinct axes with a signal size (or -1) per axis.
- **BarrierConstraint.tla** models the pass.
  - `options` is the list of `OptionOp`s. Each has a name, whether it was there before any instance ran (custom), the workload-management flag its value was computed for, and whether a rollback instance wrote it.
  - `CreateAndInitializeOptions` (the factory without options, then `initializeOptions`) and `CreateFromInitCompilerOptions` (the other constructor) both end in `initializeFromOptions`. The option fields can each be unset, true or false. The field starts as `false` (default constructor) or as the option's declared default. The member initializer reads the option before `copyOptionValuesFrom`.
  - `SafeRunOnModule` models the two `addConstraint` calls (`AddAll`). A throw in the second call keeps the option the first one created. `CustomOptions` lists the `PipelineOptionsOp` that `getPipelineOptionsOp` can return: a new empty one, or the module's own holding custom values.
- **NetworkDescription.tla** models `getNetworkMetadata` as one step, with its three throws: an empty blob, no metadata section, and no results.
  - The deserialization loops (parameters, results, states, shape tensors, profiling outputs) are folds (`FoldLeft`) over the metadata's lists.
  - A state or shape descriptor is the tensor it was read from and the list (`in` or `out`) it was in.
  - A name is `[kind, base]`. `kind` is `plain` or the prefix (`readvalue`, `assign`, `shape`), and stripping the prefix gives `[plain, base]`.
  - `Emplace` keeps the first index of a name and always advances the counter, as `order.emplace` followed by `++tensorIndex` does.
  - `Init` enumerates an empty blob, a blob without metadata, and every metadata within the bounds. Tensor names are distinct within a list. Node lists repeat friendly names only when the constant `Repeats` is TRUE, because OpenVINO does not require friendly names to be unique.
- **MetadataSection.tla** models one loop iteration per step, `LoopStep`, with the check at its head. `LoopExit` is the check after the loop.

## Runs

| Run | Expect | What it shows |
|---|---|---|
| `content_attr` | pass | Seven transformations: NONE, Quantize, Dequantize, QuantCast, two PREFERRED_LAST (one dependent), and LAST. The lists have length up to 5 (5489 states). The checks are `PositionPartition`, `StableInsertion`, `QuantChainValid` (in the whole list, after later insertions), `ParamsFresh` (dependent transformations refreshed after insertions in front of them), `StripRoundTrip` (strip + re-add gives the list back) and the action property `SecondLastRejected`. |
| `content_attr_parsed` | violation | A parsed `[LAST, NONE]` takes a second `LAST`. The throw looks only at the back element, and `verify` checks no order. |
| `splat_detect` | pass | Buffers of 0–4 elements of 1, 2 or 3 bytes over {0,1} (20410 states). A splat result stands for the same tensor, computed independently by `Logical`. Every uniform resource is a splat, including the multi-element case that `isValidRawBuffer` misses. |
| `splat_empty` | violation | An empty resource buffer is returned as a non-splat without error. Spec 4.1/8 says it should fail with InvalidBuffer. |
| `folding_cache` | pass | Two callers, two workers, one base, two transformations (one dependent PREFERRED_LAST), and queue bound 2 (19737 states). The cache implements `AbstractFoldingCache` (`AbstractSpec`). Populated entries never change or go back to pending, and every cached content (incremental or not) and every fold result is the content its ContentAttr denotes. The queue drains (`QueueDrains`). Every ContentAttr whose request was enqueued ends up populated in the cache, including when a worker dropped the request as a duplicate (`RequestsServed`, a leads-to over every ContentAttr the callers can build). A queue that drains does not imply this: a worker that matched duplicates by base content alone would drop requests for good while the queue still empties. |
| `barrier_constraint` | pass | Up to 3 pass instances on a module that starts with no options, with SUM, with SUM+COUNT, or with COUNT alone (292 states). After every instance that completes without a throw, each constraint is defined exactly once, and the values the passes computed agree on one WLM setting (`ConstraintsConsistent`). This needs the early return at line 51 to skip only the existing constraint, and the throw at line 48 to stop a second definition. A rollback instance always writes non-WLM values (`RollbackUsesNonWLMValues`). |
| `metadata_section` | pass | For every body of up to 4 ops, a section that reaches `sectionMap` had exactly one metadata op serialized. |
| `network_description` | pass | Every metadata of up to 2 parameters/results, 2 net inputs/outputs and 1 profiling output over 2 base names, without repeated friendly names (205354 states). The input and output orders are a numbering without gaps that puts nodes first, in the order of `inputNames`/`outputNames`. Every state's ReadValue tensor is numbered after the inputs. |
| `rdft_uncut` | pass | Every input of rank up to 3 with sizes 1..3, every axes/signal_size pair, and every even split the strategy allows (70080 states). The back-inferred input tile lies inside the input (`InputTileInBounds`). This relies on no axis being split, because the axes' offsets are kept. Inferring the output type of the input tile gives back the output tile (`TileShapeRoundTrip`). This relies on the complex dim not being split. |
| `network_shapes` | violation | An input shape tensor and an output shape tensor with the same stripped name `x` give `shapeNames = [x, x]`, but `shapes[x]` holds only the output's descriptor. The input's descriptor is overwritten (`ShapeDescriptorPerName`). It happens whenever an output tensor carries the name of an input. |
| `network_repeats` | violation | With `Repeats`, two results with the friendly name `x` give `outputNames = [x, x]`, but `outputOrder` numbers `x` once, so index 1 is bound to nothing (`IOOrderConsistent`). |
| `metadata_trailing` | violation | `[meta, other]` is rejected by the "only 1 metadata op" check: the check also fires for a trailing non-metadata op. |

Every property of a passing run has a mutant in `PROJECT.json`. The mutant is a plausible bug in the mapped code (a wrong scan stop, a check on the front instead of the back, a missing early return, a swapped override order, a scan that stops one element early), and TLC finds it.

Only `folding_cache` checks a type invariant. In the other modules, the only way to break one would be a value the C++ types cannot hold. The folding cache's dedup (at most one worker folds a key at a time) is not checked as a property. Its check-and-mark is the model's own design, because the cache code is not in `src`, so a property about it would test only that design.

### Bounds

- Lists of length 5 can hold a NONE, two PREFERRED_LAST and a LAST, or a Dequantize/Quantize/QuantCast chain plus one more element. That is enough for each ordering rule to meet an element it must pass over.
- Buffers of up to 4 elements of 1–3 bytes include "all but the last element equal" with a stride of 2 or 3, which is where an off-by-one scan goes wrong.
- The folding cache runs with MaxLen 2. With MaxLen 3 it also passes (323451 states), but it takes about four minutes, too long to keep in the run.
- RDFTUncut with rank 3 has a dim that is neither an axis nor the complex dim even with two axes, and sizes up to 3 give uneven splits.
- Two callers with equal attributes produce duplicate requests.
- Two workers can take them concurrently.
- Three pass instances include a run after a throw-free run and after custom values. A throw ends compilation (the pass fails), so the run stops in the `failed` phase. The option the first `addConstraint` added before the second one threw is therefore never used again.

### Fairness

- `folding_cache` assumes weak fairness of each worker's `TakeRequest` and `FinishFold`. Folding threads run as long as requests are queued.
- Callers get no fairness: a compiler thread may stop adding transformations or folding at any time.
- The other runs check safety only.
- `CHECK_DEADLOCK FALSE` is set where the system really stops:
  - a `VPUX_THROW` ends the pass;
  - the list has its maximal length;
  - `serialize` returned;
  - the bounded number of pass instances has run.

## What is not modelled

- The folding cache's own code is not in `src`. Its actions follow spec 4.6.
- The following are not modelled:
  - `inferFinalTypeAndSplat`;
  - the sub-byte storage check in `fold`: whether a storage type is sub-byte after each transformation depends on transformations outside `src`;
  - the numeric semantics of individual transformations (out of scope of the spec);
  - print/parse syntax, except as the lists parse can produce.
- In `network_description.cpp`, the precision and shape conversions and `numStreams` are not modelled. The search for the `VPU_SHT_NETDESC` section is abstracted to its result, because only the first such section is read.
- In `rdft_uncut.cpp`, `serialize` (which only throws) and `adjustAttrs` (empty) are not modelled. `getSWLayerTilingStrategy` and the op's verifier are outside `src`.
- In the barrier pass, the declared default of `enablePartialWorkloadManagement`, and whether `copyOptionValuesFrom` makes `hasValue()` true, are defined outside `src`. The default is the constant `OptionDefaultPWM`. The constructor from `InitCompilerOptions` reads the option before the values are copied, so an unset option gives a different starting value from the default constructor. This is listed as a hazard, but no source says which value is intended.
- `tensor.hpp` and `pipelines_options.hpp` are declarations.
- The functional tests are test instantiations.

## Open items

1. Sub-byte element sizes in splat detection (content.cpp:165). These need the byte size `getElemTypeSize` gives for them, which is defined outside `src`.
2. The check-then-get on the folding cache manager (content.cpp:226). The manager's registration and removal code is outside `src`.
3. A `signal_size` attribute shorter than `axes` (rdft_uncut.cpp:31). Whether the op's verifier rejects it is defined outside `src`.
4. The folding cache with lists of length 3 passes with a queue bound of 1 (178333 states, about 2 minutes). It could replace the current run if the check time allows.
5. Liveness of the barrier pass and the metadata loop holds immediately, because each is a single call. It is not checked.
