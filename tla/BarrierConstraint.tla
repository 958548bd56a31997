-------------------------- MODULE BarrierConstraint --------------------------
(***************************************************************************)
(* SetupPerBarrierVariantConstraintPass (src/.../VPU/transforms/passes/    *)
(* setup_per_barrier_variant_constraint.cpp): each instance of the pass   *)
(* reads its options into _enablePartialWorkloadManagement and            *)
(* _allowCustomValues, then adds the BARR_MAX_VARIANT_SUM and             *)
(* BARR_MAX_VARIANT_COUNT OptionOps to the module's PipelineOptionsOp.    *)
(* Several instances may run on the same module (init-compiler run twice),*)
(* and the module may already hold custom values.                          *)
(*                                                                         *)
(* The value getPerBarrierVariantConstraint gives is abstracted to the     *)
(* workload-management flag it was computed for; an OptionOp the module    *)
(* held before any instance ran is marked custom.                         *)
(***************************************************************************)
EXTENDS Naturals, Sequences, SequencesExt

CONSTANTS
    ConstraintNames, \* {BARR_MAX_VARIANT_SUM, BARR_MAX_VARIANT_COUNT}, in the order added
    Unset,           \* an Option without a value (hasValue() is false)
    OptionDefaultPWM,\* the declared default of the enablePartialWorkloadManagement option
    MaxRuns          \* bound on the number of pass instances run on the module

ASSUME /\ OptionDefaultPWM \in BOOLEAN
       /\ MaxRuns \in Nat \ {0}

\* The pass options an instance can be given.
OptionValues ==
    [enablePWM : {Unset, TRUE, FALSE}, wlmRollback : {Unset, TRUE, FALSE},
     allowCustom : {Unset, TRUE, FALSE}]

VARIABLES
    options,   \* the OptionOps of the PipelineOptionsOp: [name, custom, value, rollback]
    pwm,       \* _enablePartialWorkloadManagement of the running instance
    allow,     \* _allowCustomValues of the running instance
    rollback,  \* wlmRollback of the running instance (history, for properties)
    phase,     \* "idle", "initialized", or "failed" (a VPUX_THROW ended it)
    runs       \* pass instances run so far

vars == <<options, pwm, allow, rollback, phase, runs>>

Names == ToSet(ConstraintNames)

HasOption(opts, name) == \E i \in DOMAIN opts : opts[i].name = name

(***************************************************************************)
(* initializeFromOptions: an explicit enablePartialWorkloadManagement      *)
(* overrides the field, then a true wlmRollback forces it off, then an     *)
(* explicit allowCustomValues is copied.  The field starts as the         *)
(* constructor left it: false, or the option's value when it was built     *)
(* from InitCompilerOptions.                                               *)
(***************************************************************************)
\* Fault: the rollback applied before the explicit option is read.
InitializeFromOptionsRollbackFirst(o, initialPWM) ==
    LET p1 == IF o.wlmRollback = TRUE THEN FALSE ELSE initialPWM
        p2 == IF o.enablePWM /= Unset THEN o.enablePWM ELSE p1
    IN  [pwm |-> p2, allow |-> IF o.allowCustom /= Unset THEN o.allowCustom ELSE FALSE]

InitializeFromOptions(o, initialPWM) ==
    LET p1 == IF o.enablePWM /= Unset THEN o.enablePWM ELSE initialPWM
        p2 == IF o.wlmRollback = TRUE THEN FALSE ELSE p1
    IN  [pwm |-> p2, allow |-> IF o.allowCustom /= Unset THEN o.allowCustom ELSE FALSE]

(***************************************************************************)
(* addConstraint: throw when the option exists and custom values are not  *)
(* allowed; keep an existing one; else create it.                          *)
(***************************************************************************)
AddConstraint(opts, name, value, allowCustom) ==
    CASE ~allowCustom /\ HasOption(opts, name) -> [thrown |-> TRUE, opts |-> opts]
      [] HasOption(opts, name) -> [thrown |-> FALSE, opts |-> opts]
      [] OTHER -> [thrown |-> FALSE, opts |-> Append(opts, value @@ [name |-> name])]

\* safeRunOnModule: the two addConstraint calls in order; a throw in the
\* second leaves the first one's OptionOp in the module.
\* Fault: the early return for an existing option ends the whole run, as
\* it would if addConstraint were inlined into safeRunOnModule.
RECURSIVE AddAllStopOnExisting(_, _, _, _)
AddAllStopOnExisting(opts, names, value, allowCustom) ==
    IF names = <<>> \/ (HasOption(opts, Head(names)) /\ allowCustom)
    THEN [thrown |-> FALSE, opts |-> opts]
    ELSE LET r == AddConstraint(opts, Head(names), value, allowCustom)
         IN  IF r.thrown THEN r ELSE AddAllStopOnExisting(r.opts, Tail(names), value, allowCustom)

RECURSIVE AddAll(_, _, _, _)
AddAll(opts, names, value, allowCustom) ==
    IF names = <<>> THEN [thrown |-> FALSE, opts |-> opts]
    ELSE LET r == AddConstraint(opts, Head(names), value, allowCustom)
         IN  IF r.thrown THEN r ELSE AddAll(r.opts, Tail(names), value, allowCustom)

-----------------------------------------------------------------------------

\* The PipelineOptionsOp getPipelineOptionsOp (95) returns: a new empty one,
\* or the module's own, holding custom values for some of the constraints.
CustomOptions ==
    {[i \in 1..Len(s) |-> [name |-> s[i], custom |-> TRUE, value |-> FALSE, rollback |-> FALSE]] :
        s \in {SubSeq(ConstraintNames, 1, k) : k \in 0..Len(ConstraintNames)}
            \cup {<<ConstraintNames[Len(ConstraintNames)]>>}}

Init ==
    /\ options \in CustomOptions
    /\ pwm = FALSE
    /\ allow = FALSE
    /\ rollback = FALSE
    /\ phase = "idle"
    /\ runs = 0

(***************************************************************************)
(* A new pass instance, field and option values set, then                 *)
(* initializeFromOptions.                                                  *)
(***************************************************************************)
StartInstance(o, initialPWM) ==
    LET f == InitializeFromOptions(o, initialPWM)
    IN  /\ phase = "idle"
        /\ runs < MaxRuns
        /\ pwm' = f.pwm
        /\ allow' = f.allow
        /\ rollback' = (o.wlmRollback = TRUE)
        /\ phase' = "initialized"
        /\ runs' = runs + 1
        /\ UNCHANGED options

\* createSetupPerBarrierVariantConstraintPass() and initializeOptions(options):
\* the field keeps its in-class initializer, false.
CreateAndInitializeOptions(o) == StartInstance(o, FALSE)

\* The constructor from InitCompilerOptions: the member initializer reads the
\* option before copyOptionValuesFrom, so the field takes its declared default.
CreateFromInitCompilerOptions(o) == StartInstance(o, OptionDefaultPWM)

SafeRunOnModule ==
    LET r == AddAll(options, ConstraintNames, [custom |-> FALSE, value |-> pwm, rollback |-> rollback], allow)
    IN  /\ phase = "initialized"
        /\ options' = r.opts
        /\ phase' = IF r.thrown THEN "failed" ELSE "idle"
        /\ UNCHANGED <<pwm, allow, rollback, runs>>

Next ==
    \/ \E o \in OptionValues : CreateAndInitializeOptions(o) \/ CreateFromInitCompilerOptions(o)
    \/ SafeRunOnModule

Spec == Init /\ [][Next]_vars

-----------------------------------------------------------------------------

(***************************************************************************)
(* After every instance that finished safeRunOnModule without a throw, the *)
(* module defines each of the two constraints exactly once, and the values *)
(* the passes computed (not custom ones) were all computed for one and the *)
(* same workload-management setting.  Getting this wrong takes a module   *)
(* already holding a custom or earlier constraint and a later instance with *)
(* other options: the early return of addConstraint (51-53) must skip only *)
(* that constraint, and the throw (48) must stop a second definition.     *)
(***************************************************************************)
ConstraintsConsistent ==
    (phase = "idle" /\ runs > 0) =>
        /\ \A name \in Names : \E i \in DOMAIN options : options[i].name = name
        /\ \A i, j \in DOMAIN options : i /= j => options[i].name /= options[j].name
        /\ \A i, j \in DOMAIN options :
              ~options[i].custom /\ ~options[j].custom => options[i].value = options[j].value

(***************************************************************************)
(* "Using non-WLM values ... is safer in case compilation with WLM enabled *)
(* fails": every constraint an instance with wlmRollback created holds the *)
(* non-WLM value, whatever enablePartialWorkloadManagement said.           *)
(***************************************************************************)
RollbackUsesNonWLMValues ==
    \A i \in DOMAIN options : options[i].rollback => options[i].value = FALSE

====
