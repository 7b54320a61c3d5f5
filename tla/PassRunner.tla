----------------------------- MODULE PassRunner -----------------------------
(***************************************************************************)
(* PassRunner::run and what it calls (src/src/passes/pass.cpp): how a      *)
(* pipeline of passes is applied to the functions of a module by the       *)
(* threads of the pool, and what happens to the cached effects of          *)
(* functions and of indirect calls.                                        *)
(*                                                                         *)
(* The pool appears through its promise (WorkPool): the closure of each    *)
(* worker is called until it answers Finished, and work() returns when all *)
(* of them have.  The body of a function is the sequence of passes it has  *)
(* been through and the effects they added; code that a pass inspects is   *)
(* not modelled.                                                           *)
(***************************************************************************)
EXTENDS Naturals, Sequences, FiniteSets

CONSTANTS
    Workers,        \* ThreadPool::get()->size() of them
    Pipelines,      \* the lists of passes to run
    Modules,        \* initial lists of functions: "defined" or "imported"
    Calls,          \* Calls[f]: the functions f calls directly
    IndirectCallers, Referenced,  \* those that call, are called, indirectly
    Unknown         \* no effects are cached

ASSUME WorkersAssumption == IsFiniteSet(Workers) /\ Workers # {}
ASSUME ModulesAssumption == \A m \in Modules : m \in Seq({"defined", "imported"})

\* A pass that computes effects changes no code.  A function-parallel pass that adds
\* effects (SpillPointers is the one there is) runs on all functions: FilteredPass
\* wraps none.
IsPass(pass) ==
    /\ {pass.parallel, pass.addsEffects, pass.computesEffects, pass.skipped}
          \subseteq BOOLEAN
    /\ pass.computesEffects => ~pass.parallel /\ ~pass.addsEffects
    /\ pass.parallel /\ pass.addsEffects =>
          \A m \in Modules : DOMAIN m \subseteq pass.relevant

PassesOf(pipeline) == {pipeline[k] : k \in DOMAIN pipeline}

ASSUME PipelinesAssumption ==
    \A pipeline \in Pipelines :
        /\ pipeline \in Seq(PassesOf(pipeline))
        /\ \A pass \in PassesOf(pipeline) : IsPass(pass)
        /\ \A S \in SUBSET PassesOf(pipeline) : S # Unknown

VARIABLES
    debug,          \* options.debug, or BINARYEN_PASS_DEBUG is set
    passes,         \* PassRunner::passes
    at,             \* the pass the loop of run() has come to
    stack,          \* the function-parallel passes waiting for a flush
    pc,             \* where the main thread is
    nextFunction,   \* the atomic counter of a flush
    worker,         \* what each closure is doing
    functions,      \* wasm->functions
    log,            \* log[f]: the passes that ran on f
    added,          \* added[f]: the effects passes added to the body of f
    effects,        \* effects[f]: Function::effects
    indirectCallEffects  \* Module::indirectCallEffects

runVars  == <<debug, passes, functions>>
codeVars == <<log, added, effects, indirectCallEffects>>
vars     == <<runVars, at, stack, pc, nextFunction, worker, codeVars>>

Idle == [step |-> "finished", func |-> 1, pass |-> 1]

Init ==
    /\ debug \in BOOLEAN
    /\ passes \in Pipelines
    /\ at = 1 /\ stack = <<>> /\ pc = "run" /\ nextFunction = 0
    /\ worker = [w \in Workers |-> Idle]
    /\ functions \in Modules
    /\ log = [f \in DOMAIN functions |-> <<>>]
    /\ added = [f \in DOMAIN functions |-> {}]
    /\ effects = [f \in DOMAIN functions |-> Unknown]
    /\ indirectCallEffects = Unknown

-----------------------------------------------------------------------------
(* One pass *)

Defined == {f \in DOMAIN functions : functions[f] = "defined"}

\* Those that can be reached from F along the edges: the functions in every set
\* that holds F and that no edge leaves.
Closure(F, edges) ==
    {f \in DOMAIN functions :
        \A S \in SUBSET DOMAIN functions :
            F \subseteq S /\ (\A g \in S : edges[g] \subseteq S) => f \in S}

\* The functions that a direct call, and an indirect one, in the body of f enters.
Direct(f) == Calls[f] \cap DOMAIN functions
Indirect(f) == IF f \in IndirectCallers THEN Referenced \cap DOMAIN functions ELSE {}

Enters == [f \in DOMAIN functions |-> Direct(f) \cup Indirect(f)]

Merge(S) == IF Unknown \in S THEN Unknown ELSE UNION S

\* The effects a call of one of the functions in F may have; nothing is known of
\* an import's.
EffectsOf(F) ==
    Merge({IF f \in Defined THEN added[f] ELSE Unknown : f \in Closure(F, Enters)})

\* Whether runPassOnFunction runs the pass on f: it is not in passesToSkip, and
\* Pass::runsOnFunction, which FilteredPass narrows to the relevant functions.
RunsOn(pass, f) == ~pass.skipped /\ f \in pass.relevant

\* The pass changes the bodies of the functions in F.
Transform(pass, F) ==
    /\ log' = [f \in DOMAIN log |->
                 IF f \in F THEN Append(log[f], pass) ELSE log[f]]
    /\ added' = [f \in DOMAIN added |->
                   IF f \in F /\ pass.addsEffects THEN added[f] \cup {pass}
                                                  ELSE added[f]]

\* GenerateGlobalEffects::run, in short; module GlobalEffects has the details.  A
\* call whose effects are cached has those, the others are looked through.
KnownIndirect == indirectCallEffects # Unknown

LooksThrough(f) == \/ \E g \in Direct(f) : effects[g] = Unknown
                   \/ f \in IndirectCallers /\ ~KnownIndirect

\* The edges of the call graph.
CallGraph ==
    [f \in DOMAIN functions |->
        IF ~LooksThrough(f) THEN {}
        ELSE IF KnownIndirect THEN Direct(f) ELSE Enters[f]]

\* The effects of the body of f, with those of the calls that are known.
BodyEffects(f) ==
    LET known == {effects[g] : g \in Direct(f)} \cup
                 IF f \in IndirectCallers THEN {indirectCallEffects} ELSE {}
    IN  IF f \in Defined THEN added[f] \cup UNION (known \ {Unknown}) ELSE Unknown

Propagated(F) == Merge({BodyEffects(f) : f \in Closure(F, CallGraph)})

ComputeEffects ==
    /\ effects' = [f \in DOMAIN effects |-> Propagated({f})]
    /\ indirectCallEffects' =
          IF ~KnownIndirect /\ Defined \cap IndirectCallers # {}
          THEN Propagated(Referenced \cap DOMAIN functions) ELSE Unknown

\* Mutant: the cached effects survive the pass.
ForgetNothing(pass, f) == UNCHANGED <<effects, indirectCallEffects>>

\* PassRunner::handleAfterEffects of a function-parallel pass.
HandleAfterEffects(pass, f) ==
    /\ effects' = IF pass.addsEffects THEN [effects EXCEPT ![f] = Unknown]
                                      ELSE effects
    /\ UNCHANGED indirectCallEffects

\* PassRunner::handleAfterEffects of any other pass.
HandleAllAfterEffects(pass) ==
    IF pass.addsEffects
    THEN /\ effects' = [f \in DOMAIN effects |-> Unknown]
         /\ indirectCallEffects' = Unknown
    ELSE UNCHANGED <<effects, indirectCallEffects>>

-----------------------------------------------------------------------------
(* The main thread *)

AtParallel == at <= Len(passes) /\ passes[at].parallel

\* Mutant: the passes of the stack are run last to first.
PushFront ==
    /\ pc = "run" /\ ~debug
    /\ AtParallel
    /\ stack' = <<passes[at]>> \o stack
    /\ at' = at + 1
    /\ UNCHANGED <<runVars, pc, nextFunction, worker, codeVars>>

\* A function-parallel pass joins the stack.
Push ==
    /\ pc = "run" /\ ~debug
    /\ AtParallel
    /\ stack' = Append(stack, passes[at])
    /\ at' = at + 1
    /\ UNCHANGED <<runVars, pc, nextFunction, worker, codeVars>>

\* flush(), up to the call of ThreadPool::work.
Flush ==
    /\ pc = "run" /\ ~debug
    /\ ~AtParallel
    /\ stack # <<>>
    /\ nextFunction' = 0
    /\ worker' = [w \in Workers |-> [Idle EXCEPT !.step = "claim"]]
    /\ pc' = "work"
    /\ UNCHANGED <<runVars, at, stack, codeVars>>

\* Mutant: the stack is not cleared.
FlushKeeps ==
    /\ pc = "work"
    /\ \A w \in Workers : worker[w].step = "finished"
    /\ pc' = "run"
    /\ UNCHANGED <<runVars, at, stack, nextFunction, worker, codeVars>>

\* work() returns, stack.clear().
FlushReturns ==
    /\ pc = "work"
    /\ \A w \in Workers : worker[w].step = "finished"
    /\ stack' = <<>>
    /\ pc' = "run"
    /\ UNCHANGED <<runVars, at, nextFunction, worker, codeVars>>

\* runPass of a pass that is not function-parallel.
RunPass ==
    /\ pc = "run"
    /\ at <= Len(passes) /\ ~passes[at].parallel
    /\ stack = <<>>
    /\ at' = at + 1
    /\ LET pass == passes[at]
       IN  IF pass.skipped THEN UNCHANGED codeVars
           ELSE /\ Transform(pass, Defined)
                /\ IF pass.computesEffects THEN ComputeEffects
                                           ELSE HandleAllAfterEffects(pass)
    /\ UNCHANGED <<runVars, stack, pc, nextFunction, worker>>

Finish ==
    /\ pc = "run"
    /\ at > Len(passes) /\ stack = <<>>
    /\ pc' = "done"
    /\ UNCHANGED <<runVars, at, stack, nextFunction, worker, codeVars>>

\* Debug mode: a function-parallel pass visits the defined functions in turn.
DebugParallelPass ==
    /\ pc = "run" /\ debug
    /\ AtParallel
    /\ LET pass == passes[at]
           f    == nextFunction + 1
       IN  IF f > Len(functions)
           THEN at' = at + 1 /\ nextFunction' = 0 /\ UNCHANGED codeVars
           ELSE /\ nextFunction' = f
                /\ UNCHANGED at
                /\ IF f \in Defined /\ RunsOn(pass, f)
                   THEN Transform(pass, {f}) /\ HandleAfterEffects(pass, f)
                   ELSE UNCHANGED codeVars
    /\ UNCHANGED <<runVars, stack, pc, worker>>

-----------------------------------------------------------------------------
(* A worker of flush() *)

\* The closure is through with function f; the last one ends it without
\* another call.
AfterFunction(f) ==
    IF f = Len(functions) THEN Idle ELSE [Idle EXCEPT !.step = "claim"]

\* Mutant: a load and a store, between which another worker may load.
LoadAndStore == nextFunction' \in {nextFunction, nextFunction + 1}

\* nextFunction.fetch_add(1)
FetchAdd == nextFunction' = nextFunction + 1

\* Imports and indices past the end need no work.
Claim(w) ==
    /\ worker[w].step = "claim"
    /\ FetchAdd
    /\ LET f == nextFunction + 1
       IN  worker' = [worker EXCEPT ![w] =
             CASE f > Len(functions) -> Idle
               [] f \in Defined -> [step |-> "pass", func |-> f, pass |-> 1]
               [] f <= Len(functions) /\ f \notin Defined -> AfterFunction(f)]
    /\ UNCHANGED <<runVars, at, stack, pc, codeVars>>

\* Mutant: off by one, the last pass of the stack does not run.
NextButLast(w) ==
    worker' = [worker EXCEPT ![w] =
        IF @.pass + 1 < Len(stack)
        THEN [step |-> "pass", func |-> @.func, pass |-> @.pass + 1]
        ELSE AfterFunction(@.func)]

\* The next pass of the stack, or the end of the function.
NextPass(w) ==
    worker' = [worker EXCEPT ![w] =
        IF @.pass < Len(stack)
        THEN [step |-> "pass", func |-> @.func, pass |-> @.pass + 1]
        ELSE AfterFunction(@.func)]

\* runPassOnFunction, up to the return of the pass.
RunPassOnFunction(w) ==
    /\ worker[w].step = "pass"
    /\ LET pass == stack[worker[w].pass]
           f    == worker[w].func
       IN  IF RunsOn(pass, f)
           THEN /\ Transform(pass, {f})
                /\ worker' = [worker EXCEPT ![w].step = "after"]
           ELSE NextPass(w) /\ UNCHANGED <<log, added>>
    /\ UNCHANGED <<runVars, at, stack, pc, nextFunction, effects,
                   indirectCallEffects>>

AfterPass(w) ==
    /\ worker[w].step = "after"
    /\ HandleAfterEffects(stack[worker[w].pass], worker[w].func)
    /\ NextPass(w)
    /\ UNCHANGED <<runVars, at, stack, pc, nextFunction, log, added>>

-----------------------------------------------------------------------------

MainNext ==
    Push \/ Flush \/ FlushReturns \/ RunPass \/ Finish \/ DebugParallelPass

WorkerNext(w) == Claim(w) \/ RunPassOnFunction(w) \/ AfterPass(w)

Done == pc = "done" /\ UNCHANGED vars

Next == MainNext \/ (\E w \in Workers : WorkerNext(w)) \/ Done

\* The pool calls every closure until it answers Finished.
Fairness == WF_vars(MainNext) /\ \A w \in Workers : WF_vars(WorkerNext(w))

Spec == Init /\ [][Next]_vars /\ Fairness

-----------------------------------------------------------------------------
(* Properties *)

IsFor(f, pass) == ~pass.skipped /\ (pass.parallel => f \in pass.relevant)

\* Of the first k passes of a pipeline those that are for function f.
Selected(f, pipeline) ==
    LET First[k \in 0..Len(pipeline)] ==
            IF k = 0 THEN <<>>
            ELSE IF IsFor(f, pipeline[k]) THEN Append(First[k - 1], pipeline[k])
            ELSE First[k - 1]
    IN  First

\* The passes that are for function f.
For(f) == Selected(f, passes)[Len(passes)]

TypeOK ==
    /\ at \in 1..Len(passes) + 1
    /\ stack = SubSeq(passes, at - Len(stack), at - 1)
    /\ nextFunction \in 0..Len(functions) + Cardinality(Workers)
    /\ \A w \in Workers :
          /\ worker[w].step \in {"claim", "pass", "after", "finished"}
          /\ worker[w].func \in 1..Len(functions) + 1

\* "if you do not add global state that could be raced on, your pass could be
\* function-parallel" (pass.h): no two workers are ever at the same function.
OneWorkerPerFunction ==
    LET Busy == {w \in Workers : worker[w].step \in {"pass", "after"}}
    IN  \A v, w \in Busy : worker[v].func = worker[w].func => v = w

\* No function-parallel pass is under way.
BetweenPasses == pc # "work" /\ (debug => nextFunction = 0)

\* Between passes each cached set of effects of a function covers what the
\* function may do, after passes that add effects too (pass.h:491-496).  An
\* indirect call is left out when a function-parallel pass adds effects: see
\* IndirectEffectsCover, which that violates.
EffectsCover ==
    BetweenPasses =>
        \A f \in Defined :
            \/ effects[f] = Unknown
            \/ EffectsOf({f}) # Unknown /\ EffectsOf({f}) \subseteq effects[f]
            \/ /\ \E k \in DOMAIN passes : passes[k].parallel /\ passes[k].addsEffects
               /\ Closure({f}, Enters) \cap IndirectCallers # {}

\* The cached effects of indirect calls, in contrast: "Indirect call effects are
\* now under-approximating. Clear them to avoid incorrect optimizations"
\* (pass.cpp:1124-1125).
IndirectEffectsCover ==
    BetweenPasses /\ indirectCallEffects # Unknown =>
        LET actual == EffectsOf(Referenced \cap DOMAIN functions)
        IN  actual # Unknown /\ actual \subseteq indirectCallEffects

Order == INSTANCE PassOrder
    WITH order <- [f \in Defined |-> For(f)], log <- [f \in Defined |-> log[f]]

\* Stacks of function-parallel passes and concurrent workers give each function
\* and each module pass exactly what running the passes one by one would.
ImplementsPassOrder == Order!Spec

\* Every defined function has been through the passes that are for it.
AllThrough == \A f \in Defined : log[f] = For(f)

\* run() ends, and then they have.
AllPassesRun == <>(pc = "done" /\ AllThrough)
=============================================================================
