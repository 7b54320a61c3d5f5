--------------------------- MODULE GlobalEffects ---------------------------
(***************************************************************************)
(* The pass generate-global-effects (src/src/passes/GlobalEffects.cpp):    *)
(* the effects of each function, those of what it calls included, computed *)
(* over the call graph one strongly connected component after the other.   *)
(* The components come from the iterator of module SCCs, which runs        *)
(* between the steps of propagateEffects.                                  *)
(***************************************************************************)
EXTENDS SCCs

CONSTANTS
    Modules,        \* the modules it is run on, see IsModule
    Effects,        \* the effects code can have; "trap" and "throws" are two,
                    \* and hasReturnCallThrow, which notes those of return calls
    Known,          \* sets of functions and types whose effects are known before
    Unknown         \* nullopt, nullptr: any effect is possible

ReturnThrow == "hasReturnCallThrow"

ASSUME EffectsAssumption ==
    /\ {"trap", "throws", ReturnThrow} \subseteq Effects
    /\ \A S \in SUBSET Effects : S # Unknown

VARIABLES
    module, funcInfos,
    nodeComponents, componentEffects,
    effects,                \* Function::effects
    indirectCallEffects     \* Module::indirectCallEffects

outputs == <<nodeComponents, componentEffects, effects, indirectCallEffects>>
allVars == <<vars, module, funcInfos, outputs>>

Funcs == DOMAIN module.func

-----------------------------------------------------------------------------
(* Modules *)

\* The effects of the instructions of a function, its calls left aside; the
\* functions it calls; the types it calls indirectly; which of both it calls
\* with return calls (and then not with ordinary ones too); whether it has a
\* call of another kind; the function's type.  An import has a type only, and its
\* actual function may have a subtype of it unless the type is exact.
FunctionRecords(funcs, types) ==
    [imported : BOOLEAN, exact : BOOLEAN, type : types, referenced : BOOLEAN,
     effects : SUBSET (Effects \ {ReturnThrow}),
     calls : SUBSET funcs, indirect : SUBSET types,
     returns : SUBSET (funcs \cup types), otherCalls : BOOLEAN]

\* The supertypes of t, and t.
SuperTypes(m, t) == Reach([u \in DOMAIN m.super |-> {m.super[u]} \ {None}], t)

IsModule(m) ==
    LET funcs == DOMAIN m.func
        types == DOMAIN m.super
    IN  /\ IsFiniteSet(funcs) /\ IsFiniteSet(types)
        /\ funcs \cap types = {} /\ None \notin funcs \cup types
        /\ m.closed \in BOOLEAN
        /\ \A t \in types :
              m.super[t] # None =>
                 m.super[t] \in types /\ t \notin SuperTypes(m, m.super[t])
        /\ \A f \in funcs :
              /\ m.func[f] \in FunctionRecords(funcs, types)
              /\ m.func[f].returns \subseteq m.func[f].calls \cup m.func[f].indirect
              /\ m.func[f].imported => m.func[f].calls = {} /\ m.func[f].indirect = {}

ASSUME ModulesAssumption == \A m \in Modules : IsModule(m)

-----------------------------------------------------------------------------
(* What an execution of the module m can do *)

\* The functions a reference of type t may be to.
Targets(m, t) ==
    {g \in DOMAIN m.func :
        LET func == m.func[g]
        IN  /\ func.referenced
            /\ \/ t \in SuperTypes(m, func.type)
               \/ func.imported /\ ~func.exact /\ func.type \in SuperTypes(m, t)}

Enters(m, f) ==
    IF m.func[f].imported THEN {}
    ELSE m.func[f].calls \cup UNION {Targets(m, t) : t \in m.func[f].indirect}

Calls(m) == [f \in DOMAIN m.func |-> Enters(m, f)]

\* The functions that can be entered once f is.
Entered(m, f) == Reach(Calls(m), f)

\* Calls of an import, of another kind, or indirect ones in an open world.
Opaque(m, f) ==
    LET func == m.func[f]
    IN  func.imported \/ func.otherCalls \/ (~m.closed /\ func.indirect # {})

\* The effects of entering one of the functions of F: those of its instructions,
\* and traps in a call of a type without functions and in endless recursion.
Traps(m, f) ==
    \/ \E t \in m.func[f].indirect : Targets(m, t) = {}
    \/ \E g \in Enters(m, f) : f \in Entered(m, g)

Execution(m, F) ==
    LET entered == UNION {Entered(m, f) : f \in F}
    IN  IF \E g \in entered : Opaque(m, g) THEN Unknown
        ELSE (UNION {m.func[g].effects : g \in entered})
             \cup {e \in {"trap"} : \E g \in entered : Traps(m, g)}

\* The effects of a call through a reference of type t.
IndirectExecution(m, t) ==
    IF Targets(m, t) = {} THEN {"trap"} ELSE Execution(m, Targets(m, t))

\* A return call is made once one of the functions of F is entered.
Returns(m, F) == \E f \in F : \E g \in Entered(m, f) : m.func[g].returns # {}

-----------------------------------------------------------------------------
(* analyzeFuncs *)

\* Mutant: what was assumed of unknown calls is kept.
KeepCalls(all) == all

\* The effects of calls, which may throw if nothing is known of them, are
\* forgotten before the scan.
ForgetCalls(all) == all \ {"throws"}

\* Mutant: a throw is taken for one of a callee.
NoThrows(func, indirect) == {}

\* What the scanner finds once the effects of calls are forgotten: a throw of
\* the function itself, or of an indirect call whose effects are cached.  Not so
\* of an indirect return call, which has hasReturnCallThrow in place of throws.
ScannedThrows(func, indirect) ==
    {"throws"} \cap (func.effects \cup
        UNION {indirect[t] : t \in (func.indirect \ func.returns) \cap DOMAIN indirect})

\* What is cached of a callee, a function or a type.
CachedOf(n, cached, indirect) ==
    IF n \in DOMAIN indirect THEN indirect[n]
    ELSE IF n \in DOMAIN cached THEN cached[n] ELSE Unknown

\* A return call that may throw is noted as such, and is a throw of the function.
ReturnThrows(func, cached, indirect) ==
    {e \in {ReturnThrow} :
        \E n \in func.returns :
            LET effs == CachedOf(n, cached, indirect)
            IN  effs = Unknown \/ "throws" \in effs}

\* EffectAnalyzer::walk of a function, which calls that are not known would add
\* to.
Walk(func, cached, indirect) ==
    LET seen == func.effects
                  \cup (UNION ({cached[g] : g \in func.calls} \ {Unknown}))
                  \cup (UNION {indirect[t] : t \in func.indirect \cap DOMAIN indirect})
                  \cup ReturnThrows(func, cached, indirect)
    IN  seen \cup {e \in {"throws"} : ReturnThrow \in seen}

\* FuncInfo of f, given the effects cached before the pass.  A call of which the
\* effects are cached has those (EffectAnalyzer, effects.h:1385-1394); only with
\* another one in the function are the calls scanned.
AnalyzeFunc(m, f, cached, indirect) ==
    LET func    == m.func[f]
        unknown == func.indirect \ DOMAIN indirect
        scan    == func.otherCalls \/ unknown # {}
                     \/ \E g \in func.calls : cached[g] = Unknown
        all     == Walk(func, cached, indirect)
        lost    == func.imported \/ func.otherCalls \/ (unknown # {} /\ ~m.closed)
    IN  [effects |-> IF lost THEN Unknown
                     ELSE IF scan THEN ForgetCalls(all \cup {"throws"})
                                       \cup ScannedThrows(func, indirect)
                     ELSE all,
         calledFunctions |-> IF scan THEN func.calls ELSE {},
         indirectCalledTypes |-> IF scan /\ m.closed THEN unknown ELSE {}]

-----------------------------------------------------------------------------
(* buildCallGraph *)

\* Mutant: no account of imports whose type is not exact.
NoImportsOf(m, t) == {}

\* The inexact imports that may turn out to have the type t.
ImportsOf(m, t) ==
    {f \in DOMAIN m.func :
        /\ m.func[f].imported /\ ~m.func[f].exact /\ m.func[f].referenced
        /\ m.func[f].type \in SuperTypes(m, t)}

\* The types of functions and those above them.
FunctionTypes(m) == UNION {SuperTypes(m, m.func[f].type) : f \in DOMAIN m.func}

\* Mutant: a called type without functions is not a node.
InhabitedTypes(m, infos) == FunctionTypes(m)

\* The types that are keys of the graph.
TypeNodes(m, infos) ==
    FunctionTypes(m)
    \cup (UNION {infos[f].indirectCalledTypes : f \in DOMAIN m.func})
    \cup {t \in DOMAIN m.super : ImportsOf(m, t) # {}}

CallGraph(m, infos) ==
    LET F       == DOMAIN m.func
        Type(t) == {f \in F : m.func[f].referenced /\ m.func[f].type = t}
                   \cup {u \in FunctionTypes(m) : m.super[u] = t}
                   \cup ImportsOf(m, t)
    IN  [n \in F \cup IF m.closed THEN TypeNodes(m, infos) ELSE {} |->
            IF n \in F THEN infos[n].calledFunctions \cup infos[n].indirectCalledTypes
                       ELSE Type(n)]

-----------------------------------------------------------------------------
(* propagateEffects *)

\* What may have been cached of an execution that enters the functions of F: its
\* effects and, if marks has it, hasReturnCallThrow, which a run that scanned the
\* calls of a function did not clear.
Earlier(m, F, actual, marks) ==
    IF actual = Unknown THEN Unknown
    ELSE actual \cup {e \in marks : Returns(m, F)}

\* propagateEffects begins: the functions are analyzed, with what was cached of
\* them, the cached effects of indirect calls are cleared, and every function is
\* a root, in the order of a hash table.
EffectsInit ==
    \E m \in Modules : \E known \in Known : \E marks \in SUBSET {ReturnThrow} :
    \E order \in Inputs :
        LET types    == {t \in known \cap DOMAIN m.super :
                            m.closed /\ IndirectExecution(m, t) # Unknown}
            cached   == [f \in DOMAIN m.func |->
                            IF f \in known THEN Earlier(m, {f}, Execution(m, {f}), marks)
                            ELSE Unknown]
            indirect == [t \in types |->
                            Earlier(m, Targets(m, t), IndirectExecution(m, t), marks)]
            infos    == [f \in DOMAIN m.func |-> AnalyzeFunc(m, f, cached, indirect)]
        IN  /\ module = m /\ funcInfos = infos
            /\ Range(order) = DOMAIN m.func
            /\ Start(CallGraph(m, infos), order)
            /\ nodeComponents = <<>> /\ componentEffects = <<>>
            /\ effects = cached
            /\ indirectCallEffects = <<>>

\* mergeMaybeEffects, of all of them.
MergeMaybeEffects(S) == IF Unknown \in S THEN Unknown ELSE UNION S

\* Mutant: only a cycle through several functions is one.
RecursionOfMany(cc) == Cardinality(cc) > 1

\* A component may call itself, and so overflow the stack.
Recursion(cc) ==
    \/ Cardinality(cc) > 1
    \/ \E f \in cc \cap Funcs : f \in funcInfos[f].calledFunctions

Uninhabited(cc) == cc \cap Funcs = {} /\ \A n \in cc : children[n] = {}

\* The caller has the component cc, and merges the effects of its callees, of
\* recursion and of its functions.
ComponentEffects(cc, callees) ==
    MergeMaybeEffects(
        {componentEffects[k] : k \in callees}
        \cup {IF Recursion(cc) \/ Uninhabited(cc) THEN {"trap"} ELSE {}}
        \cup {funcInfos[f].effects : f \in cc \cap Funcs})

\* The map f once the keys of S have been given the value v.
Assign(f, S, v) == [x \in DOMAIN f \cup S |-> IF x \in S THEN v ELSE f[x]]

\* The body of the loop over components.
Propagate ==
    /\ currRoot = None /\ Len(componentEffects) < Len(components)
    /\ LET this    == Len(components)
           cc      == components[this]
           of      == Assign(nodeComponents, cc, this)
           callees == {of[m] : m \in UNION {children[n] : n \in cc}} \ {this}
           result  == ComponentEffects(cc, callees)
       IN  /\ nodeComponents' = of
           /\ componentEffects' = Append(componentEffects, result)
           /\ effects' = Assign(effects, cc \cap Funcs, result)
           /\ indirectCallEffects' =
                 IF result = Unknown THEN indirectCallEffects
                 ELSE Assign(indirectCallEffects, cc \ Funcs, result)
    /\ UNCHANGED <<vars, module, funcInfos>>

\* The iterator moves on once the body is through with a component.
Iterate ==
    /\ currRoot # None \/ Len(componentEffects) = Len(components)
    /\ Step
    /\ UNCHANGED <<module, funcInfos, outputs>>

Complete == AtEnd /\ Len(componentEffects) = Len(components)
Stopped  == Complete /\ UNCHANGED allVars

EffectsNext == Iterate \/ Propagate \/ Stopped

EffectsSpec ==
    EffectsInit /\ [][EffectsNext]_allVars /\ WF_allVars(Iterate \/ Propagate)

-----------------------------------------------------------------------------
(* Properties *)

EffectsTypeOK ==
    /\ TypeOK
    /\ DOMAIN nodeComponents =
          UNION {components[k] : k \in DOMAIN componentEffects}
    /\ Range(componentEffects) \cup Range(effects) \cup Range(indirectCallEffects)
          \subseteq {Unknown} \cup SUBSET Effects

Covers(cached, actual) ==
    cached # Unknown => actual # Unknown /\ actual \subseteq cached

\* The one way to lose a throw: it comes from an indirect return call of which the
\* effects were cached, in a function that also has a call of which they were not.
\* throws was cleared for the scan, which does not find it again.
LosesThrow(m, f, info) ==
    /\ info.calledFunctions \cup info.indirectCalledTypes # {}
    /\ \E t \in (m.func[f].returns \cap m.func[f].indirect) \ info.indirectCalledTypes :
          IndirectExecution(m, t) # Unknown /\ "throws" \in IndirectExecution(m, t)

LostThrows(F) ==
    {e \in {"throws"} :
        \E f \in F : \E g \in Entered(module, f) : LosesThrow(module, g, funcInfos[g])}

\* Optimizations take a cached set for all that a call can do: whatever happens
\* in an execution of f is in it, traps of endless recursion included.  Only a
\* throw may be missing, and only if a function is entered that loses one.
EffectsCoverExecutions ==
    Complete =>
        \A f \in Funcs :
            effects[f] # Unknown =>
                Covers(effects[f] \cup LostThrows({f}), Execution(module, {f}))

\* The same of indirect calls, of types nobody implements and of imports that
\* may be downcast too.
IndirectEffectsCoverExecutions ==
    Complete =>
        \A t \in DOMAIN indirectCallEffects :
            indirectCallEffects[t] # Unknown =>
                Covers(indirectCallEffects[t] \cup LostThrows(Targets(module, t)),
                       IndirectExecution(module, t))

\* What may be reported although no execution does it: a trap, and a throw where a
\* return call is made, since hasReturnCallThrow outlives the scan.
Spurious(m, f) == {"trap"} \cup {e \in {"throws", ReturnThrow} : Returns(m, {f})}

\* Nothing else is reported that no execution can do.
NoEffectsInvented ==
    Complete => \A f \in Funcs :
        LET actual == Execution(module, {f})
        IN  IF effects[f] = Unknown THEN actual = Unknown
            ELSE effects[f] \subseteq actual \cup Spurious(module, f)

\* Every function gets its effects: the pass ends after the last component.
PassEnds == <>(Complete /\ Funcs \subseteq DOMAIN nodeComponents)
=============================================================================
