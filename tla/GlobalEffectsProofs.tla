------------------------ MODULE GlobalEffectsProofs ------------------------
(***************************************************************************)
(* What generate-global-effects caches covers every execution, but for the *)
(* throws that LosesThrow names, and all of it but what Spurious names is  *)
(* real, for every module and whatever was known, rightly, before.  The    *)
(* proof has three parts: what an execution can do, in terms of            *)
(* reachability; what analyzeFuncs and buildCallGraph make of a module;    *)
(* and an invariant of propagateEffects that speaks of single edges of the *)
(* graph only.                                                             *)
(***************************************************************************)
EXTENDS GlobalEffects, SCCsProofs

-----------------------------------------------------------------------------
(* The invariant *)

\* What analyzeFuncs made of f.  Effects that are known cover what f does itself
\* and every call that is not left to the graph, except a throw that is lost; and
\* all that is not spurious is an effect of f, unless those cannot be known.
InfoRight(m, f, info) ==
    /\ info.calledFunctions \subseteq m.func[f].calls
    /\ info.indirectCalledTypes \subseteq m.func[f].indirect
    /\ info.indirectCalledTypes # {} => m.closed
    /\ info.effects \in {Unknown} \cup SUBSET Effects
    /\ info.effects = Unknown => Opaque(m, f)
    /\ info.effects # Unknown =>
          /\ ~Opaque(m, f)
          /\ m.func[f].effects \subseteq info.effects
          /\ \A g \in m.func[f].calls :
                g \in info.calledFunctions \/ Covers(info.effects, Execution(m, {g}))
          /\ \A t \in m.func[f].indirect :
                \/ t \in info.indirectCalledTypes
                \/ Covers(info.effects, IndirectExecution(m, t))
                \/ /\ LosesThrow(m, f, info)
                   /\ Covers(info.effects \cup {"throws"}, IndirectExecution(m, t))
          /\ Execution(m, {f}) # Unknown =>
                info.effects \subseteq Execution(m, {f}) \cup Spurious(m, f)

\* What does not change during propagateEffects.
Analyzed ==
    /\ IsModule(module)
    /\ children = CallGraph(module, funcInfos)
    /\ \A f \in Funcs : InfoRight(module, f, funcInfos[f])
    /\ Range(input) = Funcs

\* Every root the iterator has come to was seen or waits to be.
RootsSeen ==
    \A k \in 1..inputIt - 1 :
        \/ input[k] \in Visited
        \/ \E j \in DOMAIN workStack : workStack[j].item = input[k]

Handled == DOMAIN nodeComponents
Value(n) == componentEffects[nodeComponents[n]]

\* The caller is at most one component behind the iterator.
Progress ==
    /\ componentEffects \in Seq({Unknown} \cup SUBSET Effects)
    /\ Len(components) - Len(componentEffects) \in {0, 1}
    /\ currRoot # None => Len(components) = Len(componentEffects) + 1
    /\ \A k \in DOMAIN componentEffects : components[k] \subseteq Handled
    /\ \A n \in Handled :
          /\ nodeComponents[n] \in DOMAIN componentEffects
          /\ n \in components[nodeComponents[n]]

\* f overflows the stack if it calls itself, directly or through others.
Cyclic(f) ==
    \/ f \in funcInfos[f].calledFunctions
    \/ \E n \in Component(f) : n # f

\* What each handled node has is what it must have on account of its children,
\* of itself and of its component.
Flows ==
    \A n \in Handled :
        /\ \A c \in children[n] : c \in Handled /\ Covers(Value(n), Value(c))
        /\ n \in Funcs => Covers(Value(n), funcInfos[n].effects)
        /\ n \in Funcs /\ Cyclic(n) => Covers(Value(n), {"trap"})
        /\ n \notin Funcs /\ Targets(module, n) = {} => Covers(Value(n), {"trap"})

\* Each effect comes from a function that can be reached.
Sourced ==
    \A n \in Handled :
        /\ Value(n) = Unknown =>
              \E f \in Funcs : Connected(n, f) /\ funcInfos[f].effects = Unknown
        /\ Value(n) # Unknown =>
              \A e \in Value(n) \ {"trap"} :
                  \E f \in Funcs : /\ Connected(n, f)
                                   /\ funcInfos[f].effects # Unknown
                                   /\ e \in funcInfos[f].effects

\* What is cached in the module: the results, and before them what was known.
Stored ==
    /\ DOMAIN effects = Funcs
    /\ \A f \in Funcs : IF f \in Handled THEN effects[f] = Value(f)
                        ELSE /\ effects[f] \in {Unknown} \cup SUBSET Effects
                             /\ Covers(effects[f], Execution(module, {f}))
    /\ DOMAIN indirectCallEffects \subseteq Handled \ Funcs
    /\ \A t \in DOMAIN indirectCallEffects : indirectCallEffects[t] = Value(t)

GInv == /\ IInv /\ Analyzed /\ RootsSeen /\ Progress /\ Flows /\ Sourced /\ Stored

-----------------------------------------------------------------------------
(* Reachability in any graph *)

LEMMA GraphSelf ==
  ASSUME NEW graph, NEW n \in DOMAIN graph
  PROVE  n \in Reach(graph, n)
  BY DEF Reach

LEMMA GraphClosed ==
  ASSUME NEW graph, NEW S \in SUBSET DOMAIN graph, \A s \in S : graph[s] \subseteq S,
         NEW n \in S, NEW m \in Reach(graph, n)
  PROVE  m \in S
  BY DEF Reach

LEMMA GraphStep ==
  ASSUME NEW graph, \A s \in DOMAIN graph : graph[s] \subseteq DOMAIN graph,
         NEW n, NEW l \in Reach(graph, n), NEW m \in graph[l]
  PROVE  m \in Reach(graph, n)
  BY DEF Reach

LEMMA GraphTrans ==
  ASSUME NEW graph, NEW l, NEW m \in Reach(graph, l), NEW n \in Reach(graph, m)
  PROVE  n \in Reach(graph, l)
  BY DEF Reach

-----------------------------------------------------------------------------
(* Executions *)

LEMMA ModuleFacts ==
  ASSUME NEW m, IsModule(m)
  PROVE  /\ IsFiniteSet(DOMAIN m.func) /\ IsFiniteSet(DOMAIN m.super)
         /\ DOMAIN m.func \cap DOMAIN m.super = {}
         /\ None \notin DOMAIN m.func /\ None \notin DOMAIN m.super
         /\ m.closed \in BOOLEAN
         /\ \A t \in DOMAIN m.super : m.super[t] # None =>
               m.super[t] \in DOMAIN m.super /\ t \notin SuperTypes(m, m.super[t])
         /\ \A f \in DOMAIN m.func :
               /\ m.func[f].type \in DOMAIN m.super
               /\ m.func[f].effects \subseteq Effects /\ ReturnThrow \notin m.func[f].effects
               /\ m.func[f].returns \subseteq m.func[f].calls \cup m.func[f].indirect
               /\ m.func[f].calls \subseteq DOMAIN m.func
               /\ m.func[f].indirect \subseteq DOMAIN m.super
               /\ m.func[f].imported => m.func[f].calls = {} /\ m.func[f].indirect = {}
  <1>1. \A f \in DOMAIN m.func :
           m.func[f] \in FunctionRecords(DOMAIN m.func, DOMAIN m.super)
    BY DEF IsModule
  <1>2. \A f \in DOMAIN m.func :
           /\ m.func[f].type \in DOMAIN m.super
           /\ m.func[f].effects \subseteq Effects /\ ReturnThrow \notin m.func[f].effects
           /\ m.func[f].calls \subseteq DOMAIN m.func
           /\ m.func[f].indirect \subseteq DOMAIN m.super
    BY <1>1 DEF FunctionRecords
  <1> QED BY <1>2 DEF IsModule

\* Functions enter functions of the module.
LEMMA CallsFacts ==
  ASSUME NEW m, IsModule(m)
  PROVE  /\ DOMAIN Calls(m) = DOMAIN m.func
         /\ \A f \in DOMAIN m.func :
               Calls(m)[f] = Enters(m, f) /\ Enters(m, f) \subseteq DOMAIN m.func
         /\ \A f : Entered(m, f) \subseteq DOMAIN m.func
  <1>1. \A t : Targets(m, t) \subseteq DOMAIN m.func
    BY DEF Targets
  <1>2. \A f \in DOMAIN m.func : Enters(m, f) \subseteq DOMAIN m.func
    BY <1>1, ModuleFacts DEF Enters
  <1>3. DOMAIN Calls(m) = DOMAIN m.func
        /\ \A f \in DOMAIN m.func : Calls(m)[f] = Enters(m, f)
    BY DEF Calls
  <1>4. \A f : Entered(m, f) \subseteq DOMAIN m.func
    BY <1>3 DEF Entered, Reach
  <1> QED BY <1>2, <1>3, <1>4

\* What can be entered, one call after the other.
LEMMA EnteredFacts ==
  ASSUME NEW m, IsModule(m), NEW f \in DOMAIN m.func
  PROVE  /\ f \in Entered(m, f)
         /\ \A g \in Entered(m, f) : Enters(m, g) \subseteq Entered(m, f)
         /\ \A g \in Entered(m, f) : Entered(m, g) \subseteq Entered(m, f)
  <1>1. f \in Entered(m, f)
    BY CallsFacts, GraphSelf DEF Entered
  <1>2. ASSUME NEW g \in Entered(m, f), NEW h \in Enters(m, g)
        PROVE  h \in Entered(m, f)
    <2>1. g \in DOMAIN m.func
      BY CallsFacts
    <2>2. h \in Calls(m)[g]
      BY <2>1, CallsFacts
    <2>3. \A s \in DOMAIN Calls(m) : Calls(m)[s] \subseteq DOMAIN Calls(m)
      BY CallsFacts
    <2> QED BY <2>2, <2>3, GraphStep DEF Entered
  <1>3. ASSUME NEW g \in Entered(m, f), NEW h \in Entered(m, g)
        PROVE  h \in Entered(m, f)
    BY GraphTrans DEF Entered
  <1> QED BY <1>1, <1>2, <1>3

\* A set of functions that is closed under calls has all that can be entered.
LEMMA EnteredClosed ==
  ASSUME NEW m, IsModule(m), NEW S \in SUBSET DOMAIN m.func,
         \A s \in S : Enters(m, s) \subseteq S, NEW f \in S
  PROVE  Entered(m, f) \subseteq S
  <1>1. S \in SUBSET DOMAIN Calls(m) /\ \A s \in S : Calls(m)[s] \subseteq S
    BY CallsFacts
  <1> QED BY <1>1, GraphClosed DEF Entered

\* The effects of an execution, one by one.
LEMMA ExecutionFacts ==
  ASSUME NEW m, IsModule(m), NEW F \in SUBSET DOMAIN m.func
  PROVE  /\ Execution(m, F) = Unknown <=>
               \E f \in F : \E g \in Entered(m, f) : Opaque(m, g)
         /\ Execution(m, F) # Unknown =>
               /\ Execution(m, F) \subseteq Effects
               /\ \A e : e \in Execution(m, F) <=>
                     \E f \in F : \E g \in Entered(m, f) :
                        e \in m.func[g].effects \/ (e = "trap" /\ Traps(m, g))
  <1> DEFINE entered == UNION {Entered(m, f) : f \in F}
             own == UNION {m.func[g].effects : g \in entered}
             traps == {e \in {"trap"} : \E g \in entered : Traps(m, g)}
             all == own \cup traps
  <1>1. entered \subseteq DOMAIN m.func
    BY CallsFacts
  <1>2. all \subseteq Effects
    <2>1. \A g \in entered : m.func[g].effects \subseteq Effects
      BY <1>1, ModuleFacts
    <2> HIDE DEF entered
    <2>2. own \subseteq Effects
      BY <2>1
    <2>3. traps \subseteq Effects
      BY EffectsAssumption
    <2> QED BY <2>2, <2>3
  <1>3. all # Unknown
    BY <1>2, EffectsAssumption
  <1>4. Execution(m, F) = IF \E g \in entered : Opaque(m, g) THEN Unknown ELSE all
    BY DEF Execution
  <1>5. (\E g \in entered : Opaque(m, g)) <=>
           \E f \in F : \E g \in Entered(m, f) : Opaque(m, g)
    OBVIOUS
  <1>6. \A e : e \in all <=>
           \E f \in F : \E g \in Entered(m, f) :
              e \in m.func[g].effects \/ (e = "trap" /\ Traps(m, g))
    <2>1. \A e : e \in all <=>
             \E g \in entered : e \in m.func[g].effects \/ (e = "trap" /\ Traps(m, g))
      <3> HIDE DEF entered
      <3>1. \A e : e \in own <=> \E g \in entered : e \in m.func[g].effects
        OBVIOUS
      <3>2. \A e : e \in traps <=> e = "trap" /\ \E g \in entered : Traps(m, g)
        OBVIOUS
      <3> HIDE DEF own, traps
      <3> QED BY <3>1, <3>2
    <2> HIDE DEF all
    <2> QED BY <2>1
  <1> HIDE DEF entered, own, traps, all
  <1> QED BY <1>2, <1>3, <1>4, <1>5, <1>6

\* A caller has the effects of what it may enter.
LEMMA ExecutionGrows ==
  ASSUME NEW m, IsModule(m), NEW f \in DOMAIN m.func, NEW g \in Entered(m, f)
  PROVE  Covers(Execution(m, {f}), Execution(m, {g}))
  <1>1. g \in DOMAIN m.func
    BY CallsFacts
  <1>2. Entered(m, g) \subseteq Entered(m, f)
    BY EnteredFacts
  <1>3. {f} \in SUBSET DOMAIN m.func /\ {g} \in SUBSET DOMAIN m.func
    BY <1>1
  <1>4. /\ Execution(m, {f}) = Unknown <=> \E h \in Entered(m, f) : Opaque(m, h)
        /\ Execution(m, {f}) # Unknown =>
              \A e : e \in Execution(m, {f}) <=>
                 \E h \in Entered(m, f) :
                    e \in m.func[h].effects \/ (e = "trap" /\ Traps(m, h))
    BY <1>3, ExecutionFacts
  <1>5. /\ Execution(m, {g}) = Unknown <=> \E h \in Entered(m, g) : Opaque(m, h)
        /\ Execution(m, {g}) # Unknown =>
              \A e : e \in Execution(m, {g}) <=>
                 \E h \in Entered(m, g) :
                    e \in m.func[h].effects \/ (e = "trap" /\ Traps(m, h))
    BY <1>3, ExecutionFacts
  <1>6. ASSUME Execution(m, {f}) # Unknown
        PROVE  Execution(m, {g}) # Unknown /\ Execution(m, {g}) \subseteq Execution(m, {f})
    BY <1>2, <1>4, <1>5, <1>6
  <1> QED BY <1>6 DEF Covers

\* Entering one of several functions is entering one of them.
LEMMA ExecutionUnion ==
  ASSUME NEW m, IsModule(m), NEW F \in SUBSET DOMAIN m.func, NEW V
  PROVE  Covers(V, Execution(m, F)) <=>
            V = Unknown \/ \A f \in F : Covers(V, Execution(m, {f}))
  <1>1. \A f \in F :
           /\ Execution(m, {f}) = Unknown <=> \E h \in Entered(m, f) : Opaque(m, h)
           /\ Execution(m, {f}) # Unknown =>
                 \A e : e \in Execution(m, {f}) <=>
                    \E h \in Entered(m, f) :
                       e \in m.func[h].effects \/ (e = "trap" /\ Traps(m, h))
    <2> SUFFICES ASSUME NEW f \in F
                 PROVE  /\ Execution(m, {f}) = Unknown <=>
                              \E h \in Entered(m, f) : Opaque(m, h)
                        /\ Execution(m, {f}) # Unknown =>
                              \A e : e \in Execution(m, {f}) <=>
                                 \E h \in Entered(m, f) :
                                    e \in m.func[h].effects \/ (e = "trap" /\ Traps(m, h))
      OBVIOUS
    <2>1. {f} \in SUBSET DOMAIN m.func
      OBVIOUS
    <2> QED BY <2>1, ExecutionFacts
  <1>2. /\ Execution(m, F) = Unknown <=>
              \E f \in F : \E g \in Entered(m, f) : Opaque(m, g)
        /\ Execution(m, F) # Unknown =>
              \A e : e \in Execution(m, F) <=>
                 \E f \in F : \E g \in Entered(m, f) :
                    e \in m.func[g].effects \/ (e = "trap" /\ Traps(m, g))
    BY ExecutionFacts
  <1>3. Execution(m, F) = Unknown <=> \E f \in F : Execution(m, {f}) = Unknown
    BY <1>1, <1>2
  <1>4. ASSUME Execution(m, F) # Unknown, NEW e
        PROVE  e \in Execution(m, F) <=> \E f \in F : e \in Execution(m, {f})
    <2>1. \A f \in F : e \in Execution(m, {f}) <=>
             \E h \in Entered(m, f) :
                e \in m.func[h].effects \/ (e = "trap" /\ Traps(m, h))
      BY <1>1, <1>3, <1>4
    <2>2. e \in Execution(m, F) <=>
             \E f \in F : \E g \in Entered(m, f) :
                e \in m.func[g].effects \/ (e = "trap" /\ Traps(m, g))
      BY <1>2, <1>4
    <2> QED BY <2>1, <2>2
  <1>5. ASSUME Execution(m, F) # Unknown
        PROVE  Execution(m, F) \subseteq V <=> \A f \in F : Execution(m, {f}) \subseteq V
    BY <1>4, <1>5
  <1> QED BY <1>3, <1>5 DEF Covers

LEMMA ExecutionType ==
  ASSUME NEW m, IsModule(m), NEW F \in SUBSET DOMAIN m.func
  PROVE  Execution(m, F) \in {Unknown} \cup SUBSET Effects
  BY ExecutionFacts

\* The effects of one call are among those of its caller.
LEMMA CallFacts ==
  ASSUME NEW m, IsModule(m), NEW f \in DOMAIN m.func, NEW g \in Enters(m, f)
  PROVE  /\ g \in DOMAIN m.func /\ g \in Entered(m, f)
         /\ Execution(m, {g}) \in {Unknown} \cup SUBSET Effects
         /\ Covers(Execution(m, {f}), Execution(m, {g}))
  <1>1. g \in DOMAIN m.func /\ g \in Entered(m, f)
    BY CallsFacts, EnteredFacts
  <1>2. {g} \in SUBSET DOMAIN m.func
    BY <1>1
  <1> QED BY <1>1, <1>2, ExecutionType, ExecutionGrows

\* What is called through a type is called.
LEMMA IndirectFacts ==
  ASSUME NEW m, IsModule(m), NEW f \in DOMAIN m.func, ~m.func[f].imported,
         NEW t \in m.func[f].indirect
  PROVE  /\ Targets(m, t) \subseteq Enters(m, f)
         /\ IndirectExecution(m, t) \in {Unknown} \cup SUBSET Effects
         /\ IndirectExecution(m, t) = {"trap"} \/
               Covers(Execution(m, {f}), IndirectExecution(m, t))
  <1>1. Targets(m, t) \subseteq Enters(m, f)
    BY DEF Enters
  <1>2. Targets(m, t) \in SUBSET DOMAIN m.func
    BY DEF Targets
  <1>3. Execution(m, Targets(m, t)) \in {Unknown} \cup SUBSET Effects
    BY <1>2, ExecutionType
  <1>4. {"trap"} \in SUBSET Effects
    BY EffectsAssumption
  <1>5. \A g \in Targets(m, t) : Covers(Execution(m, {f}), Execution(m, {g}))
    BY <1>1, CallFacts
  <1>6. Covers(Execution(m, {f}), Execution(m, Targets(m, t)))
    BY <1>2, <1>5, ExecutionUnion
  <1> QED BY <1>1, <1>3, <1>4, <1>6 DEF IndirectExecution

-----------------------------------------------------------------------------
(* analyzeFuncs *)

\* No execution does hasReturnCallThrow: it is a note only.
LEMMA NoteOnly ==
  ASSUME NEW m, IsModule(m), NEW F \in SUBSET DOMAIN m.func, Execution(m, F) # Unknown
  PROVE  ReturnThrow \notin Execution(m, F)
  <1>1. \A f \in F : \A g \in Entered(m, f) : ReturnThrow \notin m.func[g].effects
    BY CallsFacts, ModuleFacts
  <1>2. ReturnThrow # "trap"
    BY DEF ReturnThrow
  <1> QED BY <1>1, <1>2, ExecutionFacts

\* c is cached of an execution that enters the functions of F: all of it, and at
\* most hasReturnCallThrow besides.
CacheRight(m, F, actual, c) ==
    /\ c # Unknown /\ actual # Unknown /\ actual \subseteq c
    /\ \A e \in c : e \in actual \/ (e = ReturnThrow /\ Returns(m, F))

LEMMA EarlierRight ==
  ASSUME NEW m, NEW F, NEW actual \in {Unknown} \cup SUBSET Effects,
         NEW marks \in SUBSET {ReturnThrow}
  PROVE  Earlier(m, F, actual, marks) = Unknown \/
            CacheRight(m, F, actual, Earlier(m, F, actual, marks))
  <1> SUFFICES ASSUME actual # Unknown
               PROVE  CacheRight(m, F, actual, Earlier(m, F, actual, marks))
    BY DEF Earlier
  <1>1. Earlier(m, F, actual, marks) = actual \cup {e \in marks : Returns(m, F)}
    BY DEF Earlier
  <1>2. actual \cup {e \in marks : Returns(m, F)} \in SUBSET Effects
    BY EffectsAssumption
  <1>3. Earlier(m, F, actual, marks) # Unknown
    BY <1>1, <1>2, EffectsAssumption
  <1> QED BY <1>1, <1>3 DEF CacheRight

\* A caller makes the return calls of what it enters.
LEMMA ReturnsFacts ==
  ASSUME NEW m, IsModule(m), NEW f \in DOMAIN m.func
  PROVE  /\ m.func[f].returns # {} => Returns(m, {f})
         /\ \A g \in Enters(m, f) : Returns(m, {g}) => Returns(m, {f})
         /\ \A F \in SUBSET Enters(m, f) : Returns(m, F) => Returns(m, {f})
  <1>1. f \in Entered(m, f)
    BY EnteredFacts
  <1>2. \A g \in Enters(m, f) : Entered(m, g) \subseteq Entered(m, f)
    BY EnteredFacts
  <1> QED BY <1>1, <1>2 DEF Returns

LEMMA AnalyzeRight ==
  ASSUME NEW m, IsModule(m), NEW f \in DOMAIN m.func, NEW cached, NEW indirect,
         \A g \in DOMAIN m.func :
            cached[g] = Unknown \/ CacheRight(m, {g}, Execution(m, {g}), cached[g]),
         \A t \in DOMAIN indirect :
            m.closed /\ CacheRight(m, Targets(m, t), IndirectExecution(m, t), indirect[t])
  PROVE  InfoRight(m, f, AnalyzeFunc(m, f, cached, indirect))
  <1> DEFINE func == m.func[f]
             unknown == func.indirect \ DOMAIN indirect
             scan == func.otherCalls \/ unknown # {}
                        \/ \E g \in func.calls : cached[g] = Unknown
             fromCalls == UNION ({cached[g] : g \in func.calls} \ {Unknown})
             fromTypes == UNION {indirect[t] : t \in func.indirect \cap DOMAIN indirect}
             notes == ReturnThrows(func, cached, indirect)
             seen == func.effects \cup fromCalls \cup fromTypes \cup notes
             all == Walk(func, cached, indirect)
             scanned == ForgetCalls(all \cup {"throws"}) \cup ScannedThrows(func, indirect)
             lost == func.imported \/ func.otherCalls \/ (unknown # {} /\ ~m.closed)
             info == AnalyzeFunc(m, f, cached, indirect)
             known == IF scan THEN scanned ELSE all
             Type(t) == t \in func.indirect /\ t \in DOMAIN indirect
  <1>1. info = [effects |-> IF lost THEN Unknown ELSE known,
                calledFunctions |-> IF scan THEN func.calls ELSE {},
                indirectCalledTypes |-> IF scan /\ m.closed THEN unknown ELSE {}]
    BY DEF AnalyzeFunc
  <1>2. /\ func.effects \subseteq Effects /\ ReturnThrow \notin func.effects
        /\ func.calls \subseteq DOMAIN m.func
        /\ func.imported => func.calls = {} /\ func.indirect = {}
        /\ func.returns \subseteq func.calls \cup func.indirect
    BY ModuleFacts
  <1>3. \A g \in func.calls : g \in DOMAIN m.func
           /\ (~func.imported => g \in Enters(m, f))
    BY <1>2 DEF Enters
  <1>4. \A e : e \in fromCalls <=>
           \E g \in func.calls : cached[g] # Unknown /\ e \in cached[g]
    OBVIOUS
  <1>5. \A e : e \in fromTypes <=> \E t : Type(t) /\ e \in indirect[t]
    OBVIOUS
  <1>6. ASSUME NEW g \in func.calls, cached[g] # Unknown
        PROVE  /\ CacheRight(m, {g}, Execution(m, {g}), cached[g])
               /\ Execution(m, {g}) \subseteq Effects /\ ReturnThrow \notin Execution(m, {g})
    <2>1. g \in DOMAIN m.func /\ g \in Enters(m, f)
      BY <1>2, <1>3
    <2>2. CacheRight(m, {g}, Execution(m, {g}), cached[g])
      BY <1>6, <2>1
    <2>3. Execution(m, {g}) # Unknown /\ Execution(m, {g}) \in {Unknown} \cup SUBSET Effects
      BY <2>1, <2>2, CallFacts DEF CacheRight
    <2>4. {g} \in SUBSET DOMAIN m.func
      BY <2>1
    <2> QED BY <2>2, <2>3, <2>4, NoteOnly
  <1>7. ASSUME NEW t, Type(t)
        PROVE  /\ CacheRight(m, Targets(m, t), IndirectExecution(m, t), indirect[t])
               /\ IndirectExecution(m, t) \subseteq Effects
               /\ ReturnThrow \notin IndirectExecution(m, t)
               /\ Targets(m, t) \in SUBSET Enters(m, f)
    <2>1. ~func.imported
      BY <1>2, <1>7
    <2>2. /\ IndirectExecution(m, t) \in {Unknown} \cup SUBSET Effects
          /\ Targets(m, t) \in SUBSET Enters(m, f)
      BY <1>7, <2>1, IndirectFacts
    <2>3. CacheRight(m, Targets(m, t), IndirectExecution(m, t), indirect[t])
      BY <1>7
    <2>4. Targets(m, t) \in SUBSET DOMAIN m.func
      BY DEF Targets
    <2>5. IndirectExecution(m, t) # Unknown
      BY <2>3 DEF CacheRight
    <2>6. ReturnThrow \notin {"trap"}
      BY DEF ReturnThrow
    <2>7. ReturnThrow \notin IndirectExecution(m, t)
      BY <2>4, <2>5, <2>6, NoteOnly DEF IndirectExecution
    <2> QED BY <2>2, <2>3, <2>5, <2>7
  <1>8. notes \subseteq {ReturnThrow} /\ (notes # {} => func.returns # {})
    BY DEF ReturnThrows
  <1>9. \A e : e \in all <=> e \in seen \/ (e = "throws" /\ ReturnThrow \in seen)
    BY DEF Walk
  <1>10. seen \subseteq Effects
    <2>1. fromCalls \subseteq Effects
      <3> SUFFICES ASSUME NEW e \in fromCalls
                   PROVE  e \in Effects
        OBVIOUS
      <3>1. PICK g \in func.calls : cached[g] # Unknown /\ e \in cached[g]
        BY <1>4
      <3>2. e \in Execution(m, {g}) \/ e = ReturnThrow
        BY <1>6, <3>1 DEF CacheRight
      <3> QED BY <1>6, <3>1, <3>2, EffectsAssumption
    <2>2. fromTypes \subseteq Effects
      BY <1>5, <1>7, EffectsAssumption DEF CacheRight
    <2> HIDE DEF fromCalls, fromTypes, notes
    <2> QED BY <1>2, <1>8, <2>1, <2>2, EffectsAssumption
  <1>11. all \subseteq Effects
    <2> HIDE DEF seen, all
    <2> QED BY <1>9, <1>10, EffectsAssumption
  <1>12. \A e : e \in ScannedThrows(func, indirect) <=> e = "throws" /\
           (e \in func.effects \/ \E t : Type(t) /\ t \notin func.returns /\ e \in indirect[t])
    BY DEF ScannedThrows
  <1>13. \A e : e \in scanned <=> (e \in all /\ e # "throws")
                                  \/ e \in ScannedThrows(func, indirect)
    <2> HIDE DEF all
    <2> QED BY DEF ForgetCalls
  <1>14. /\ known \subseteq all
         /\ func.effects \subseteq known
         /\ ~scan => known = all
         /\ all \subseteq known \cup {"throws"}
         /\ \A t : Type(t) /\ t \notin func.returns => indirect[t] \subseteq known
    <2>1. \A t : Type(t) => indirect[t] \subseteq all
      <3> HIDE DEF all, Type, fromCalls, notes, fromTypes
      <3> QED BY <1>5, <1>9
    <2>2. func.effects \subseteq all
      <3> HIDE DEF all, fromCalls, notes, fromTypes
      <3> QED BY <1>9
    <2> HIDE DEF all, Type, scanned, scan
    <2>3. CASE scan
      <3>1. known = scanned
        BY <2>3
      <3> HIDE DEF known
      <3>2. \A e : e \in known <=> (e \in all /\ e # "throws") \/
               (e = "throws" /\
                   (e \in func.effects \/ \E t : Type(t) /\ t \notin func.returns /\ e \in indirect[t]))
        BY <1>12, <1>13, <3>1
      <3> QED BY <2>1, <2>2, <2>3, <3>2
    <2>4. CASE ~scan
      <3>1. known = all
        BY <2>4
      <3> QED BY <2>1, <2>2, <3>1
    <2> QED BY <2>3, <2>4
  <1>15. known \subseteq Effects /\ known # Unknown
    <2> HIDE DEF known, all
    <2> QED BY <1>11, <1>14, EffectsAssumption
  <1>16. lost => Opaque(m, f)
    BY DEF Opaque
  <1>17. ASSUME ~lost
         PROVE  ~Opaque(m, f)
    <2>1. CASE m.closed
      BY <1>17, <2>1 DEF Opaque
    <2>2. CASE ~m.closed
      <3>1. DOMAIN indirect = {}
        BY <2>2
      <3> QED BY <1>17, <2>2, <3>1 DEF Opaque
    <2> QED BY <2>1, <2>2
  <1>18. ASSUME ~scan, NEW g \in func.calls
         PROVE  Covers(known, Execution(m, {g}))
    <2>1. cached[g] # Unknown
      BY <1>18
    <2>2. cached[g] \subseteq all
      <3>1. cached[g] \subseteq fromCalls
        BY <1>4, <2>1
      <3> HIDE DEF all, fromCalls, fromTypes, notes
      <3> QED BY <1>9, <3>1
    <2> HIDE DEF known, all, scan
    <2> QED BY <1>6, <1>14, <1>18, <2>1, <2>2 DEF Covers, CacheRight
  <1>19. ASSUME NEW t, Type(t)
         PROVE  \/ Covers(known, IndirectExecution(m, t))
                \/ /\ t \in func.returns /\ scan /\ "throws" \in IndirectExecution(m, t)
                   /\ Covers(known \cup {"throws"}, IndirectExecution(m, t))
    <2>1. /\ IndirectExecution(m, t) # Unknown
          /\ IndirectExecution(m, t) \subseteq indirect[t]
      BY <1>7, <1>19 DEF CacheRight
    <2>2. indirect[t] \subseteq all
      <3> HIDE DEF all, Type, fromCalls, notes, fromTypes
      <3> QED BY <1>5, <1>9, <1>19
    <2>3. t \notin func.returns => indirect[t] \subseteq known
      BY <1>14, <1>19
    <2> HIDE DEF known, all, scan, Type
    <2>4. CASE IndirectExecution(m, t) \subseteq known
      BY <2>1, <2>4 DEF Covers
    <2>5. CASE ~(IndirectExecution(m, t) \subseteq known)
      <3>1. t \in func.returns /\ scan
        BY <1>14, <2>1, <2>2, <2>3, <2>5
      <3>2. IndirectExecution(m, t) \subseteq known \cup {"throws"}
        BY <1>14, <2>1, <2>2
      <3>3. "throws" \in IndirectExecution(m, t)
        BY <2>5, <3>2
      <3> QED BY <2>1, <3>1, <3>2, <3>3 DEF Covers
    <2> QED BY <2>4, <2>5
  <1>20. ASSUME Execution(m, {f}) # Unknown, ~lost, NEW e \in seen
         PROVE  e \in Execution(m, {f}) \/ e = "trap" \/ (e = ReturnThrow /\ Returns(m, {f}))
    <2>1. CASE e \in func.effects
      <3>1. f \in Entered(m, f)
        BY EnteredFacts
      <3>2. {f} \in SUBSET DOMAIN m.func
        OBVIOUS
      <3> QED BY <1>20, <2>1, <3>1, <3>2, ExecutionFacts
    <2>2. CASE e \in fromCalls
      <3>1. PICK g \in func.calls : cached[g] # Unknown /\ e \in cached[g]
        BY <1>4, <2>2
      <3>2. g \in Enters(m, f)
        BY <1>3, <1>20
      <3>3. Covers(Execution(m, {f}), Execution(m, {g}))
        BY <3>2, CallFacts
      <3>4. e \in Execution(m, {g}) \/ (e = ReturnThrow /\ Returns(m, {g}))
        BY <1>6, <3>1 DEF CacheRight
      <3>5. Returns(m, {g}) => Returns(m, {f})
        BY <3>2, ReturnsFacts
      <3> QED BY <1>20, <3>3, <3>4, <3>5 DEF Covers
    <2>3. CASE e \in fromTypes
      <3>1. PICK t : Type(t) /\ e \in indirect[t]
        BY <1>5, <2>3
      <3>2. IndirectExecution(m, t) = {"trap"} \/
               Covers(Execution(m, {f}), IndirectExecution(m, t))
        BY <1>20, <3>1, IndirectFacts
      <3>3. e \in IndirectExecution(m, t) \/ (e = ReturnThrow /\ Returns(m, Targets(m, t)))
        BY <1>7, <3>1 DEF CacheRight
      <3>4. Returns(m, Targets(m, t)) => Returns(m, {f})
        BY <1>7, <3>1, ReturnsFacts
      <3> QED BY <1>20, <3>2, <3>3, <3>4 DEF Covers
    <2>4. CASE e \in notes
      BY <1>8, <2>4, ReturnsFacts
    <2> HIDE DEF fromCalls, fromTypes, notes
    <2> QED BY <1>20, <2>1, <2>2, <2>3, <2>4
  <1>21. ASSUME Execution(m, {f}) # Unknown, ~lost, NEW e \in known
         PROVE  e \in Execution(m, {f}) \cup Spurious(m, f)
    <2>1. e \in all
      <3> HIDE DEF known, all
      <3> QED BY <1>14, <1>21
    <2> HIDE DEF seen, all, known, lost
    <2>2. CASE e \in seen
      BY <1>20, <1>21, <2>2 DEF Spurious
    <2>3. CASE e = "throws" /\ ReturnThrow \in seen
      <3>1. ReturnThrow \notin Execution(m, {f})
        BY <1>21, NoteOnly
      <3>2. ReturnThrow # "trap"
        BY DEF ReturnThrow
      <3>3. Returns(m, {f})
        BY <1>20, <1>21, <2>3, <3>1, <3>2
      <3> QED BY <2>3, <3>3 DEF Spurious
    <2> QED BY <1>9, <2>1, <2>2, <2>3
  <1>22. /\ info.effects = IF lost THEN Unknown ELSE known
         /\ info.calledFunctions = IF scan THEN func.calls ELSE {}
         /\ info.indirectCalledTypes = IF scan /\ m.closed THEN unknown ELSE {}
    <2> HIDE DEF info, known, lost, scan, unknown
    <2> QED BY <1>1
  <1>23. unknown # {} => scan
    OBVIOUS
  <1>24. ~lost /\ unknown # {} => m.closed
    OBVIOUS
  <1>25. unknown \subseteq func.indirect
    OBVIOUS
  <1>26. ~lost /\ scan => unknown # {} \/ func.calls # {}
    OBVIOUS
  <1>27. \A t \in func.indirect : t \in unknown <=> ~Type(t)
    OBVIOUS
  <1> HIDE DEF info, known, lost, scan, unknown, all, scanned, fromCalls, fromTypes, notes,
               seen, Type
  <1>28. ASSUME ~lost, NEW t \in func.indirect
         PROVE  \/ t \in info.indirectCalledTypes
                \/ Covers(info.effects, IndirectExecution(m, t))
                \/ /\ LosesThrow(m, f, info)
                   /\ Covers(info.effects \cup {"throws"}, IndirectExecution(m, t))
    <2>1. CASE t \in unknown
      BY <1>22, <1>23, <1>24, <1>28, <2>1
    <2>2. CASE Type(t) /\ ~Covers(known, IndirectExecution(m, t))
      <3>1. /\ t \in func.returns /\ scan /\ "throws" \in IndirectExecution(m, t)
            /\ Covers(known \cup {"throws"}, IndirectExecution(m, t))
        BY <1>19, <2>2
      <3>2. info.calledFunctions \cup info.indirectCalledTypes # {}
        BY <1>22, <1>24, <1>26, <1>28, <3>1
      <3>3. t \notin info.indirectCalledTypes
        BY <1>22, <1>27, <2>2
      <3>4. IndirectExecution(m, t) # Unknown
        BY <1>7, <2>2 DEF CacheRight
      <3>5. LosesThrow(m, f, info)
        BY <3>1, <3>2, <3>3, <3>4 DEF LosesThrow
      <3> QED BY <1>22, <1>28, <3>1, <3>5
    <2> QED BY <1>22, <1>27, <1>28, <2>1, <2>2
  <1>29. InfoRight(m, f, info)
    BY <1>14, <1>15, <1>16, <1>17, <1>18, <1>21, <1>22, <1>23, <1>24, <1>25, <1>28
       DEF InfoRight
  <1> QED BY <1>29 DEF info

-----------------------------------------------------------------------------
(* buildCallGraph *)

\* The supertypes of a type are it and those of the type it declares.
LEMMA SuperTypesFacts ==
  ASSUME NEW m, IsModule(m), NEW t \in DOMAIN m.super
  PROVE  /\ t \in SuperTypes(m, t) /\ SuperTypes(m, t) \subseteq DOMAIN m.super
         /\ \A u \in SuperTypes(m, t) : m.super[u] # None => m.super[u] \in SuperTypes(m, t)
         /\ m.super[t] # None => SuperTypes(m, m.super[t]) \subseteq SuperTypes(m, t)
         /\ \A v \in SuperTypes(m, t) : v # t =>
               m.super[t] # None /\ v \in SuperTypes(m, m.super[t])
         /\ \A S \in SUBSET DOMAIN m.super :
               t \in S /\ (\A u \in S : m.super[u] # None => m.super[u] \in S)
                  => SuperTypes(m, t) \subseteq S
  <1> DEFINE up == [u \in DOMAIN m.super |-> {m.super[u]} \ {None}]
  <1>1. /\ DOMAIN up = DOMAIN m.super
        /\ \A u \in DOMAIN m.super : \A v : v \in up[u] <=> v = m.super[u] /\ v # None
        /\ \A v : SuperTypes(m, v) = Reach(up, v)
    BY DEF SuperTypes
  <1> HIDE DEF up
  <1>2. \A u \in DOMAIN up : up[u] \subseteq DOMAIN up
    BY <1>1, ModuleFacts
  <1>3. t \in SuperTypes(m, t)
    BY <1>1, GraphSelf
  <1>4. \A v : SuperTypes(m, v) \subseteq DOMAIN m.super
    BY <1>1 DEF Reach
  <1>5. ASSUME NEW u \in SuperTypes(m, t), m.super[u] # None
        PROVE  m.super[u] \in SuperTypes(m, t)
    <2>1. m.super[u] \in up[u]
      BY <1>1, <1>4, <1>5
    <2> QED BY <1>1, <1>2, <2>1, GraphStep
  <1>6. ASSUME NEW v, m.super[t] # None, v \in SuperTypes(m, m.super[t])
        PROVE  v \in SuperTypes(m, t)
    <2>1. m.super[t] \in Reach(up, t)
      BY <1>1, <1>3, <1>5, <1>6
    <2> QED BY <1>1, <1>6, <2>1, GraphTrans
  <1>7. ASSUME NEW S \in SUBSET DOMAIN m.super, t \in S,
               \A u \in S : m.super[u] # None => m.super[u] \in S
        PROVE  SuperTypes(m, t) \subseteq S
    <2>1. S \in SUBSET DOMAIN up /\ \A u \in S : up[u] \subseteq S
      BY <1>1, <1>7
    <2> QED BY <1>1, <1>7, <2>1, GraphClosed
  <1>8. ASSUME NEW v \in SuperTypes(m, t), v # t
        PROVE  m.super[t] # None /\ v \in SuperTypes(m, m.super[t])
    <2>1. CASE m.super[t] = None
      <3>1. SuperTypes(m, t) \subseteq {t}
        BY <1>7, <2>1
      <3> QED BY <1>8, <3>1
    <2>2. CASE m.super[t] # None
      <3> DEFINE S == {t} \cup SuperTypes(m, m.super[t])
      <3>1. m.super[t] \in DOMAIN m.super
        BY <2>2, ModuleFacts
      <3>2. m.super[t] \in SuperTypes(m, m.super[t])
        BY <1>1, <3>1, GraphSelf
      <3>3. ASSUME NEW u \in SuperTypes(m, m.super[t]), m.super[u] # None
            PROVE  m.super[u] \in SuperTypes(m, m.super[t])
        <4>1. m.super[u] \in up[u]
          BY <1>1, <1>4, <3>3
        <4> QED BY <1>1, <1>2, <4>1, GraphStep
      <3>4. S \in SUBSET DOMAIN m.super
        BY <1>4
      <3>5. SuperTypes(m, t) \subseteq S
        BY <1>7, <3>2, <3>3, <3>4
      <3> QED BY <1>8, <2>2, <3>5
    <2> QED BY <2>1, <2>2
  <1>9. m.super[t] # None => SuperTypes(m, m.super[t]) \subseteq SuperTypes(m, t)
    BY <1>6
  <1>10. \A v \in SuperTypes(m, t) : v # t =>
            m.super[t] # None /\ v \in SuperTypes(m, m.super[t])
    BY <1>8
  <1>11. \A S \in SUBSET DOMAIN m.super :
            t \in S /\ (\A u \in S : m.super[u] # None => m.super[u] \in S)
               => SuperTypes(m, t) \subseteq S
    BY <1>7
  <1>12. \A u \in SuperTypes(m, t) : m.super[u] # None => m.super[u] \in SuperTypes(m, t)
    BY <1>5
  <1> QED BY <1>3, <1>4, <1>9, <1>10, <1>11, <1>12

\* A reference of a type may be one of a subtype.
LEMMA TargetsGrow ==
  ASSUME NEW m, IsModule(m), NEW u \in DOMAIN m.super, m.super[u] # None
  PROVE  Targets(m, u) \subseteq Targets(m, m.super[u])
  <1> DEFINE t == m.super[u]
  <1>1. t \in DOMAIN m.super
    BY ModuleFacts
  <1>2. ASSUME NEW g \in Targets(m, u)
        PROVE  g \in Targets(m, t)
    <2>1. /\ g \in DOMAIN m.func /\ m.func[g].referenced
          /\ m.func[g].type \in DOMAIN m.super
      BY ModuleFacts DEF Targets
    <2>2. CASE u \in SuperTypes(m, m.func[g].type)
      <3>1. t \in SuperTypes(m, m.func[g].type)
        BY <2>1, <2>2, SuperTypesFacts
      <3> QED BY <2>1, <3>1 DEF Targets
    <2>3. CASE /\ m.func[g].imported /\ ~m.func[g].exact
               /\ m.func[g].type \in SuperTypes(m, u)
      <3>1. m.func[g].type = u \/ m.func[g].type \in SuperTypes(m, t)
        BY <2>3, SuperTypesFacts
      <3>2. CASE m.func[g].type = u
        <4>1. t \in SuperTypes(m, u)
          BY SuperTypesFacts
        <4> QED BY <2>1, <3>2, <4>1 DEF Targets
      <3>3. CASE m.func[g].type \in SuperTypes(m, t)
        BY <2>1, <2>3, <3>3 DEF Targets
      <3> QED BY <3>1, <3>2, <3>3
    <2> QED BY <2>2, <2>3 DEF Targets
  <1> QED BY <1>2

\* The nodes and the edges of the graph.
LEMMA CallGraphFacts ==
  ASSUME NEW m, IsModule(m), NEW infos,
         \A f \in DOMAIN m.func : InfoRight(m, f, infos[f])
  PROVE  LET G == CallGraph(m, infos)
         IN  /\ DOMAIN m.func \subseteq DOMAIN G
             /\ DOMAIN G \subseteq DOMAIN m.func \cup DOMAIN m.super
             /\ IsFiniteSet(DOMAIN G) /\ None \notin DOMAIN G
             /\ m.closed => /\ FunctionTypes(m) \subseteq DOMAIN G
                            /\ \A t \in DOMAIN m.super : ImportsOf(m, t) # {} => t \in DOMAIN G
             /\ \A f \in DOMAIN m.func :
                   G[f] = infos[f].calledFunctions \cup infos[f].indirectCalledTypes
             /\ \A t \in DOMAIN G \ DOMAIN m.func :
                   /\ m.closed /\ t \in DOMAIN m.super
                   /\ \A n : n \in G[t] <=>
                         \/ n \in DOMAIN m.func /\ m.func[n].referenced /\ m.func[n].type = t
                         \/ n \in FunctionTypes(m) /\ m.super[n] = t
                         \/ n \in ImportsOf(m, t)
             /\ \A n \in DOMAIN G : G[n] \subseteq DOMAIN G /\ IsFiniteSet(G[n])
  <1> DEFINE F == DOMAIN m.func
             G == CallGraph(m, infos)
             inferred == UNION {infos[f].indirectCalledTypes : f \in F}
             types == IF m.closed THEN TypeNodes(m, infos) ELSE {}
             Type(t) == {f \in F : m.func[f].referenced /\ m.func[f].type = t}
                           \cup {u \in FunctionTypes(m) : m.super[u] = t}
                           \cup ImportsOf(m, t)
             Node(n) == IF n \in F
                        THEN infos[n].calledFunctions \cup infos[n].indirectCalledTypes
                        ELSE Type(n)
  <1>1. G = [n \in F \cup types |-> Node(n)]
    BY DEF CallGraph
  <1>2. /\ IsFiniteSet(F) /\ IsFiniteSet(DOMAIN m.super) /\ F \cap DOMAIN m.super = {}
        /\ None \notin F /\ None \notin DOMAIN m.super
        /\ \A f \in F : /\ m.func[f].type \in DOMAIN m.super
                        /\ m.func[f].calls \subseteq F
                        /\ m.func[f].indirect \subseteq DOMAIN m.super
    BY ModuleFacts
  <1>3. \A f \in F : /\ infos[f].calledFunctions \subseteq m.func[f].calls
                     /\ infos[f].indirectCalledTypes \subseteq m.func[f].indirect
                     /\ infos[f].indirectCalledTypes # {} => m.closed
    BY DEF InfoRight
  <1>4. /\ FunctionTypes(m) \subseteq DOMAIN m.super
        /\ \A f \in F : SuperTypes(m, m.func[f].type) \subseteq FunctionTypes(m)
    BY <1>2, SuperTypesFacts DEF FunctionTypes
  <1>5. /\ inferred \subseteq DOMAIN m.super
        /\ \A f \in F : infos[f].indirectCalledTypes \subseteq inferred
    BY <1>2, <1>3
  <1>6. TypeNodes(m, infos) = FunctionTypes(m) \cup inferred
                                 \cup {t \in DOMAIN m.super : ImportsOf(m, t) # {}}
    BY DEF TypeNodes
  <1> HIDE DEF inferred
  <1>7. TypeNodes(m, infos) \subseteq DOMAIN m.super
    BY <1>4, <1>5, <1>6
  <1>8. \A t : ImportsOf(m, t) \subseteq F
    BY DEF ImportsOf
  <1>9. ASSUME NEW f \in F
        PROVE  Node(f) \subseteq F \cup types
    BY <1>2, <1>3, <1>5, <1>6
  <1>10. ASSUME NEW t \in types \ F
         PROVE  /\ m.closed /\ t \in DOMAIN m.super
                /\ Type(t) \subseteq F \cup types
    BY <1>6, <1>7, <1>8
  <1>11. types \subseteq DOMAIN m.super
    BY <1>7
  <1>12. DOMAIN G = F \cup types
    BY <1>1
  <1>13. /\ \A f \in F : G[f] = infos[f].calledFunctions \cup infos[f].indirectCalledTypes
         /\ \A t \in types \ F : \A n : n \in G[t] <=>
               \/ n \in F /\ m.func[n].referenced /\ m.func[n].type = t
               \/ n \in FunctionTypes(m) /\ m.super[n] = t
               \/ n \in ImportsOf(m, t)
    BY <1>1
  <1>14. \A n \in DOMAIN G : G[n] \subseteq DOMAIN G
    BY <1>1, <1>9, <1>10, <1>12
  <1>15. IsFiniteSet(F \cup DOMAIN m.super)
    BY <1>2, FS_Union
  <1>16. IsFiniteSet(DOMAIN G)
    BY <1>11, <1>12, <1>15, FS_Subset
  <1>17. \A n \in DOMAIN G : IsFiniteSet(G[n])
    BY <1>14, <1>16, FS_Subset
  <1>18. m.closed => /\ FunctionTypes(m) \subseteq DOMAIN G
                     /\ \A t \in DOMAIN m.super : ImportsOf(m, t) # {} => t \in DOMAIN G
    BY <1>6, <1>12
  <1> HIDE DEF G, types, Type, Node
  <1>19. None \notin DOMAIN G /\ DOMAIN G \subseteq F \cup DOMAIN m.super
    BY <1>2, <1>11, <1>12
  <1> QED BY <1>10, <1>12, <1>13, <1>14, <1>16, <1>17, <1>18, <1>19 DEF G

-----------------------------------------------------------------------------
(* The graph and executions *)

LEMMA GraphFacts ==
  ASSUME Analyzed
  PROVE  /\ Funcs \subseteq Nodes /\ IsFiniteSet(Nodes)
         /\ Funcs = DOMAIN module.func
         /\ module.closed => /\ FunctionTypes(module) \subseteq Nodes
                             /\ \A t \in DOMAIN module.super :
                                   ImportsOf(module, t) # {} => t \in Nodes
         /\ \A f \in Funcs : children[f] = funcInfos[f].calledFunctions
                                             \cup funcInfos[f].indirectCalledTypes
         /\ \A t \in Nodes \ Funcs :
               /\ module.closed /\ t \in DOMAIN module.super
               /\ \A n : n \in children[t] <=>
                     \/ n \in Funcs /\ module.func[n].referenced /\ module.func[n].type = t
                     \/ n \in FunctionTypes(module) /\ module.super[n] = t
                     \/ n \in ImportsOf(module, t)
         /\ \A n \in Nodes : children[n] \subseteq Nodes
         /\ \A f \in Funcs : \A t \in funcInfos[f].indirectCalledTypes : t \in Nodes \ Funcs
         /\ \A u \in FunctionTypes(module) : u \in DOMAIN module.super /\ u \notin Funcs
  <1>1. /\ IsModule(module) /\ children = CallGraph(module, funcInfos)
        /\ \A f \in Funcs : InfoRight(module, f, funcInfos[f])
        /\ Funcs = DOMAIN module.func
    BY DEF Analyzed, Funcs
  <1> DEFINE G == CallGraph(module, funcInfos)
  <1>2. /\ DOMAIN module.func \subseteq DOMAIN G
        /\ IsFiniteSet(DOMAIN G)
        /\ module.closed => /\ FunctionTypes(module) \subseteq DOMAIN G
                            /\ \A t \in DOMAIN module.super :
                                  ImportsOf(module, t) # {} => t \in DOMAIN G
        /\ \A f \in DOMAIN module.func :
              G[f] = funcInfos[f].calledFunctions \cup funcInfos[f].indirectCalledTypes
        /\ \A t \in DOMAIN G \ DOMAIN module.func :
              /\ module.closed /\ t \in DOMAIN module.super
              /\ \A n : n \in G[t] <=>
                    \/ n \in DOMAIN module.func /\ module.func[n].referenced
                          /\ module.func[n].type = t
                    \/ n \in FunctionTypes(module) /\ module.super[n] = t
                    \/ n \in ImportsOf(module, t)
        /\ \A n \in DOMAIN G : G[n] \subseteq DOMAIN G
    BY <1>1, CallGraphFacts
  <1>3. \A f \in Funcs : \A t \in funcInfos[f].indirectCalledTypes : t \in Nodes \ Funcs
    <2> SUFFICES ASSUME NEW f \in Funcs, NEW t \in funcInfos[f].indirectCalledTypes
                 PROVE  t \in Nodes \ Funcs
      OBVIOUS
    <2>1. t \in DOMAIN module.super
      BY <1>1, ModuleFacts DEF InfoRight
    <2>2. t \notin Funcs
      BY <1>1, <2>1, ModuleFacts
    <2>3. t \in G[f]
      BY <1>1, <1>2
    <2> QED BY <1>1, <1>2, <2>2, <2>3 DEF Nodes
  <1>4. \A u \in FunctionTypes(module) : u \in DOMAIN module.super /\ u \notin Funcs
    <2> SUFFICES ASSUME NEW f \in DOMAIN module.func,
                        NEW u \in SuperTypes(module, module.func[f].type)
                 PROVE  u \in DOMAIN module.super /\ u \notin Funcs
      BY DEF FunctionTypes
    <2>1. u \in DOMAIN module.super
      BY <1>1, ModuleFacts, SuperTypesFacts
    <2> QED BY <1>1, <2>1, ModuleFacts
  <1> HIDE DEF G
  <1>5. DOMAIN G = Nodes /\ G = children
    BY <1>1 DEF G, Nodes
  <1> QED BY <1>1, <1>2, <1>3, <1>4, <1>5

\* The graph leads from a type to every function a reference of it may be to.
LEMMA TargetsReached ==
  ASSUME Analyzed, Types, NEW t \in Nodes \ Funcs, NEW g \in Targets(module, t)
  PROVE  g \in Funcs /\ Connected(t, g)
  <1>1. /\ g \in Funcs /\ module.func[g].referenced
        /\ module.func[g].type \in DOMAIN module.super
    BY ModuleFacts DEF Targets, Analyzed, Funcs
  <1>2. /\ module.closed /\ t \in DOMAIN module.super
        /\ \A n : n \in children[t] <=>
              \/ n \in Funcs /\ module.func[n].referenced /\ module.func[n].type = t
              \/ n \in FunctionTypes(module) /\ module.super[n] = t
              \/ n \in ImportsOf(module, t)
    BY GraphFacts
  <1>3. CASE /\ module.func[g].imported /\ ~module.func[g].exact
             /\ module.func[g].type \in SuperTypes(module, t)
    <2>1. g \in ImportsOf(module, t)
      BY <1>1, <1>3 DEF ImportsOf, Funcs
    <2> QED BY <1>1, <1>2, <2>1, ReachEdge
  <1>4. CASE t \in SuperTypes(module, module.func[g].type)
    <2> DEFINE type == module.func[g].type
               S == {u \in SuperTypes(module, type) : Connected(u, g)}
    <2>1. IsModule(module) /\ FunctionTypes(module) \subseteq Nodes
      BY <1>2, GraphFacts DEF Analyzed
    <2>2. SuperTypes(module, type) \subseteq FunctionTypes(module)
      BY <1>1 DEF FunctionTypes, Funcs
    <2>3. /\ \A u \in SuperTypes(module, type) : u \in Nodes \ Funcs
          /\ type \in SuperTypes(module, type)
          /\ SuperTypes(module, type) \subseteq DOMAIN module.super
      BY <1>1, <2>1, <2>2, SuperTypesFacts, GraphFacts
    <2>4. type \in S
      <3>1. g \in children[type]
        BY <1>1, <2>3, GraphFacts
      <3> QED BY <2>3, <3>1, ReachEdge
    <2>5. ASSUME NEW u \in S, module.super[u] # None
          PROVE  module.super[u] \in S
      <3> DEFINE v == module.super[u]
      <3>1. v \in SuperTypes(module, type)
        BY <1>1, <2>1, <2>5, SuperTypesFacts
      <3>2. u \in children[v]
        BY <2>2, <2>3, <3>1, GraphFacts
      <3>3. Connected(v, u)
        BY <2>3, <3>1, <3>2, ReachEdge
      <3> QED BY <3>1, <3>3, ReachTrans
    <2>6. SuperTypes(module, type) \subseteq S
      <3>1. S \in SUBSET DOMAIN module.super /\ type \in DOMAIN module.super
        BY <1>1, <2>3
      <3>2. \A u \in S : module.super[u] # None => module.super[u] \in S
        BY <2>5
      <3> HIDE DEF S, type
      <3> QED BY <2>1, <2>4, <3>1, <3>2, SuperTypesFacts
    <2> QED BY <1>1, <1>4, <2>6
  <1> QED BY <1>3, <1>4 DEF Targets

\* Below a type without functions there are only such types.
LEMMA DeadTypes ==
  ASSUME Analyzed, NEW t \in Nodes \ Funcs, Targets(module, t) = {},
         NEW u \in children[t]
  PROVE  u \in Nodes \ Funcs /\ u # t /\ Targets(module, u) = {}
  <1>1. /\ module.closed /\ t \in DOMAIN module.super
        /\ \/ u \in Funcs /\ module.func[u].referenced /\ module.func[u].type = t
           \/ u \in FunctionTypes(module) /\ module.super[u] = t
           \/ u \in ImportsOf(module, t)
        /\ u \in Nodes
    BY GraphFacts
  <1>2. IsModule(module)
    BY DEF Analyzed
  <1>3. CASE u \in Funcs /\ module.func[u].referenced /\ module.func[u].type = t
    <2>1. t \in SuperTypes(module, module.func[u].type)
      BY <1>1, <1>2, <1>3, SuperTypesFacts
    <2> QED BY <1>3, <2>1 DEF Targets, Funcs
  <1>4. CASE u \in ImportsOf(module, t)
    BY <1>4 DEF ImportsOf, Targets
  <1>5. CASE u \in FunctionTypes(module) /\ module.super[u] = t
    <2>1. u \in DOMAIN module.super /\ u \notin Funcs
      BY <1>5, GraphFacts
    <2>2. t # None
      BY <1>1, <1>2, ModuleFacts
    <2>3. u # t
      BY <1>1, <1>2, <1>5, <2>1, <2>2, ModuleFacts, SuperTypesFacts
    <2>4. Targets(module, u) \subseteq Targets(module, t)
      BY <1>2, <1>5, <2>1, <2>2, TargetsGrow
    <2> QED BY <1>1, <2>1, <2>3, <2>4
  <1> QED BY <1>1, <1>3, <1>4, <1>5

\* The graph leads only to functions that can be entered.
LEMMA ConnectedEntered ==
  ASSUME Analyzed, Types, NEW f \in Funcs, NEW g \in Funcs, Connected(f, g)
  PROVE  g \in Entered(module, f)
  <1> DEFINE E == Entered(module, f)
             S == (Funcs \cap E) \cup {t \in Nodes \ Funcs : Targets(module, t) \subseteq E}
  <1>1. IsModule(module) /\ Funcs = DOMAIN module.func
    BY DEF Analyzed, Funcs
  <1>2. f \in E /\ \A x \in E : Enters(module, x) \subseteq E
    BY <1>1, EnteredFacts
  <1>3. ASSUME NEW x \in Funcs \cap E
        PROVE  children[x] \subseteq S
    <2>1. children[x] = funcInfos[x].calledFunctions \cup funcInfos[x].indirectCalledTypes
      BY GraphFacts
    <2>2. /\ funcInfos[x].calledFunctions \subseteq module.func[x].calls
          /\ funcInfos[x].indirectCalledTypes \subseteq module.func[x].indirect
      BY DEF Analyzed, InfoRight
    <2>3. /\ module.func[x].calls \subseteq Funcs
          /\ module.func[x].imported =>
                module.func[x].calls = {} /\ module.func[x].indirect = {}
      BY <1>1, ModuleFacts
    <2>4. ASSUME NEW y \in funcInfos[x].calledFunctions
          PROVE  y \in S
      <3>1. y \in Enters(module, x)
        BY <2>2, <2>3 DEF Enters
      <3> QED BY <1>2, <2>2, <2>3, <3>1
    <2>5. ASSUME NEW t \in funcInfos[x].indirectCalledTypes
          PROVE  t \in S
      <3>1. Targets(module, t) \subseteq Enters(module, x)
        BY <2>2, <2>3 DEF Enters
      <3>2. t \in Nodes \ Funcs
        BY GraphFacts
      <3> QED BY <1>2, <3>1, <3>2
    <2> HIDE DEF S
    <2> QED BY <2>1, <2>4, <2>5
  <1>4. ASSUME NEW t \in Nodes \ Funcs, Targets(module, t) \subseteq E, NEW u \in children[t]
        PROVE  u \in S
    <2>1. /\ t \in DOMAIN module.super /\ u \in Nodes
          /\ \/ u \in Funcs /\ module.func[u].referenced /\ module.func[u].type = t
             \/ u \in FunctionTypes(module) /\ module.super[u] = t
             \/ u \in ImportsOf(module, t)
      BY GraphFacts
    <2>2. CASE u \in Funcs /\ module.func[u].referenced /\ module.func[u].type = t
      <3>1. u \in Targets(module, t)
        BY <1>1, <2>1, <2>2, SuperTypesFacts DEF Targets
      <3> QED BY <1>4, <2>2, <3>1
    <2>3. CASE u \in ImportsOf(module, t)
      <3>1. u \in Targets(module, t) /\ u \in Funcs
        BY <2>3 DEF ImportsOf, Targets, Funcs
      <3> QED BY <1>4, <3>1
    <2>4. CASE u \in FunctionTypes(module) /\ module.super[u] = t
      <3>1. u \in DOMAIN module.super /\ u \notin Funcs
        BY <2>4, GraphFacts
      <3>2. Targets(module, u) \subseteq Targets(module, t)
        BY <1>1, <2>1, <2>4, <3>1, TargetsGrow, ModuleFacts
      <3> QED BY <1>4, <2>1, <3>1, <3>2
    <2> QED BY <2>1, <2>2, <2>3, <2>4
  <1>5. \A s \in S : children[s] \subseteq S
    BY <1>3, <1>4
  <1>6. S \in SUBSET Nodes /\ f \in S
    BY <1>2, GraphFacts
  <1> HIDE DEF S
  <1>7. g \in S
    BY <1>5, <1>6, ReachClosed
  <1> QED BY <1>7 DEF S

-----------------------------------------------------------------------------
(* What has been computed covers the executions *)

LEMMA CoversTrans ==
  ASSUME NEW a, NEW b, NEW c, Covers(a, b), Covers(b, c)
  PROVE  Covers(a, c)
  BY DEF Covers

\* Covered(V, x): everything that x can do is in V.
Covered(V, x) == Covers(V, Execution(module, {x}))

\* A throw that x, or a function entered from it, loses is in V.
Spared(V, x) ==
    \A g \in Entered(module, x) : LosesThrow(module, g, funcInfos[g]) => "throws" \in V

LEMMA SparedOn ==
  ASSUME Analyzed, NEW V, NEW x \in Funcs, Spared(V, x), NEW g \in Entered(module, x)
  PROVE  Spared(V, g)
  <1>1. Entered(module, g) \subseteq Entered(module, x)
    BY EnteredFacts DEF Analyzed, Funcs
  <1> QED BY <1>1 DEF Spared

\* An indirect call that is not left to the graph is covered.
LEMMA TypeAccounted ==
  ASSUME Analyzed, NEW g \in Funcs, NEW V, V # Unknown,
         Covers(V, funcInfos[g].effects), Spared(V, g),
         NEW t \in module.func[g].indirect, t \notin funcInfos[g].indirectCalledTypes
  PROVE  Covers(V, IndirectExecution(module, t))
  <1>1. InfoRight(module, g, funcInfos[g])
    BY DEF Analyzed
  <1>2. funcInfos[g].effects # Unknown /\ funcInfos[g].effects \subseteq V
    BY DEF Covers
  <1>3. LosesThrow(module, g, funcInfos[g]) => "throws" \in V
    BY EnteredFacts DEF Analyzed, Funcs, Spared
  <1>4. \/ Covers(funcInfos[g].effects, IndirectExecution(module, t))
        \/ /\ LosesThrow(module, g, funcInfos[g])
           /\ Covers(funcInfos[g].effects \cup {"throws"}, IndirectExecution(module, t))
    BY <1>1, <1>2 DEF InfoRight
  <1>5. funcInfos[g].effects \cup {"throws"} # Unknown
    <2>1. funcInfos[g].effects \cup {"throws"} \in SUBSET Effects
      BY <1>1, <1>2, EffectsAssumption DEF InfoRight
    <2> QED BY <2>1, EffectsAssumption
  <1> QED BY <1>2, <1>3, <1>4, <1>5 DEF Covers

\* A call of a function whose effects are in V is one that V covers, or one that
\* the graph has: directly or through a type.
LEMMA CallsAccounted ==
  ASSUME Analyzed, Types, NEW g \in Funcs, NEW V, V # Unknown,
         Covers(V, funcInfos[g].effects), Spared(V, g), NEW h \in Enters(module, g)
  PROVE  /\ h \in Funcs
         /\ \/ Covered(V, h)
            \/ h \in funcInfos[g].calledFunctions
            \/ \E t \in funcInfos[g].indirectCalledTypes : Connected(t, h)
  <1>1. /\ IsModule(module) /\ g \in DOMAIN module.func
        /\ InfoRight(module, g, funcInfos[g]) /\ h \in Funcs
    BY CallsFacts DEF Analyzed, Funcs
  <1>2. funcInfos[g].effects # Unknown /\ funcInfos[g].effects \subseteq V
    BY DEF Covers
  <1>3. CASE h \in module.func[g].calls
    <2>1. h \in funcInfos[g].calledFunctions
             \/ Covers(funcInfos[g].effects, Execution(module, {h}))
      BY <1>1, <1>2, <1>3 DEF InfoRight
    <2> QED BY <1>1, <2>1, CoversTrans DEF Covered
  <1>4. ASSUME NEW t \in module.func[g].indirect, h \in Targets(module, t)
        PROVE  \/ Covered(V, h)
               \/ \E u \in funcInfos[g].indirectCalledTypes : Connected(u, h)
    <2>1. CASE t \in funcInfos[g].indirectCalledTypes
      <3>1. t \in Nodes \ Funcs
        BY <2>1, GraphFacts
      <3> QED BY <1>4, <2>1, <3>1, TargetsReached
    <2>2. CASE t \notin funcInfos[g].indirectCalledTypes
      <3>1. Covers(V, IndirectExecution(module, t))
        BY <2>2, TypeAccounted
      <3>2. IndirectExecution(module, t) = Execution(module, Targets(module, t))
        BY <1>4 DEF IndirectExecution
      <3>3. Targets(module, t) \in SUBSET DOMAIN module.func
        BY DEF Targets
      <3> QED BY <1>1, <1>4, <3>1, <3>2, <3>3, ExecutionUnion DEF Covered
    <2> QED BY <2>1, <2>2
  <1>5. h \in module.func[g].calls \/ \E t \in module.func[g].indirect : h \in Targets(module, t)
    BY DEF Enters
  <1> QED BY <1>1, <1>3, <1>4, <1>5

\* From the functions in a part W of the graph that no edge leaves, every call
\* leads into W again or to a function that is covered as a whole.
LEMMA StaysCovered ==
  ASSUME Analyzed, Types, Flows, NEW V, V # Unknown,
         NEW W \in SUBSET (Nodes \cap Handled),
         \A n \in W : children[n] \subseteq W /\ Covers(V, Value(n)),
         NEW f \in Funcs, Spared(V, f), f \in W \/ Covered(V, f)
  PROVE  \A g \in Entered(module, f) : g \in Funcs /\ (g \in W \/ Covered(V, g))
  <1> DEFINE S == {g \in Funcs : Spared(V, g) /\ (g \in W \/ Covered(V, g))}
  <1>1. IsModule(module) /\ Funcs = DOMAIN module.func
    BY DEF Analyzed, Funcs
  <1>2. ASSUME NEW g \in S, NEW h \in Enters(module, g)
        PROVE  h \in S
    <2>1. h \in Funcs /\ Spared(V, h)
      BY <1>1, CallFacts, SparedOn
    <2>2. CASE Covered(V, g)
      <3>1. Covers(Execution(module, {g}), Execution(module, {h}))
        BY <1>1, CallFacts
      <3> QED BY <2>1, <2>2, <3>1, CoversTrans DEF Covered
    <2>3. CASE g \in W
      <3>1. Covers(V, Value(g)) /\ Covers(Value(g), funcInfos[g].effects)
        BY <2>3 DEF Flows
      <3>2. Covers(V, funcInfos[g].effects)
        BY <3>1, CoversTrans
      <3>3. CASE Covered(V, h)
        BY <2>1, <3>3
      <3>4. children[g] = funcInfos[g].calledFunctions \cup funcInfos[g].indirectCalledTypes
        BY GraphFacts
      <3>5. CASE h \in funcInfos[g].calledFunctions
        BY <2>1, <2>3, <3>4, <3>5
      <3>6. CASE \E t \in funcInfos[g].indirectCalledTypes : Connected(t, h)
        <4>1. PICK t \in funcInfos[g].indirectCalledTypes : Connected(t, h)
          BY <3>6
        <4>2. t \in W
          BY <2>3, <3>4
        <4>3. h \in W
          BY <4>1, <4>2, ReachClosed
        <4> QED BY <2>1, <4>3
      <3> QED BY <3>2, <3>3, <3>5, <3>6, CallsAccounted
    <2> QED BY <2>2, <2>3
  <1>3. S \in SUBSET DOMAIN module.func /\ f \in S
    BY <1>1
  <1> HIDE DEF S
  <1>4. Entered(module, f) \subseteq S
    BY <1>1, <1>2, <1>3, EnteredClosed
  <1> QED BY <1>4 DEF S

\* A function of the graph that can enter itself is on a cycle of the graph, or
\* what it can do is covered as a whole.
LEMMA EndlessCovered ==
  ASSUME Analyzed, Types, Flows, Handled \subseteq Nodes, NEW V, V # Unknown,
         NEW g \in Funcs \cap Handled, Spared(V, g), Covers(V, Value(g)),
         NEW h \in Enters(module, g), g \in Entered(module, h)
  PROVE  Cyclic(g) \/ Covered(V, g) \/ Covered(V, h)
  <1> SUFFICES ASSUME ~Covered(V, g), ~Covered(V, h)
               PROVE  Cyclic(g)
    OBVIOUS
  <1>1. Covers(Value(g), funcInfos[g].effects)
    BY DEF Flows
  <1>2. Covers(V, funcInfos[g].effects) /\ funcInfos[g].effects # Unknown
    BY <1>1, CoversTrans DEF Covers
  <1>3. h \in Funcs /\ Spared(V, h)
    BY CallFacts, SparedOn DEF Analyzed, Funcs
  <1>4. /\ h \in Funcs
        /\ \/ h \in funcInfos[g].calledFunctions
           \/ \E t \in funcInfos[g].indirectCalledTypes : Connected(t, h)
    BY <1>2, CallsAccounted
  <1>5. /\ children[g] = funcInfos[g].calledFunctions \cup funcInfos[g].indirectCalledTypes
        /\ \A t \in funcInfos[g].indirectCalledTypes : t \in Nodes \ Funcs
        /\ g \in Nodes /\ h \in Nodes
    BY <1>4, GraphFacts
  <1>6. \A c \in children[g] : Connected(g, c)
    BY <1>5, ReachEdge
  <1>7. Connected(g, h)
    BY <1>4, <1>5, <1>6, ReachTrans
  <1> DEFINE W == {n \in Nodes \cap Handled : Connected(h, n) /\ Covers(V, Value(n))}
  <1>8. ASSUME NEW n \in W, NEW c \in children[n]
        PROVE  c \in W
    <2>1. c \in Handled /\ Covers(Value(n), Value(c))
      BY DEF Flows
    <2>2. Connected(n, c)
      BY ReachEdge
    <2> QED BY <2>1, <2>2, ReachTrans, CoversTrans
  <1>9. h \in W
    <2> DEFINE U == {n \in Nodes \cap Handled : Covers(V, Value(n))}
    <2>1. g \in U
      BY <1>5
    <2>2. ASSUME NEW n \in U, NEW c \in children[n]
          PROVE  c \in U
      <3>1. c \in Handled /\ Covers(Value(n), Value(c))
        BY DEF Flows
      <3> QED BY <3>1, CoversTrans
    <2>3. h \in U
      BY <1>7, <2>1, <2>2, ReachClosed
    <2> QED BY <1>5, <2>3, ReachSelf
  <1>10. g \in W
    <2> HIDE DEF W
    <2>1. W \in SUBSET (Nodes \cap Handled)
      BY DEF W
    <2>2. \A n \in W : children[n] \subseteq W /\ Covers(V, Value(n))
      BY <1>8 DEF W
    <2>3. \A x \in Entered(module, h) : x \in Funcs /\ (x \in W \/ Covered(V, x))
      BY <1>3, <1>9, <2>1, <2>2, StaysCovered
    <2> QED BY <2>3
  <1>11. Connected(h, g)
    BY <1>10
  <1>12. CASE h # g
    <2>1. h \in Component(g)
      BY <1>5, <1>7, <1>11 DEF Component
    <2> QED BY <1>12, <2>1 DEF Cyclic
  <1>13. CASE h = g
    <2>1. CASE g \in funcInfos[g].calledFunctions
      BY <2>1 DEF Cyclic
    <2>2. CASE \E t \in funcInfos[g].indirectCalledTypes : Connected(t, g)
      <3>1. PICK t \in funcInfos[g].indirectCalledTypes : Connected(t, g)
        BY <2>2
      <3>2. t \in Component(g) /\ t # g
        BY <1>5, <1>6, <3>1 DEF Component
      <3> QED BY <3>2 DEF Cyclic
    <2> QED BY <1>4, <1>13, <2>1, <2>2
  <1> QED BY <1>12, <1>13

\* The main lemma: what a handled function has covers its executions.
LEMMA HandledCovered ==
  ASSUME Analyzed, Types, Flows, Handled \subseteq Nodes, NEW V, V # Unknown,
         NEW f \in Funcs \cap Handled, Spared(V, f), Covers(V, Value(f))
  PROVE  Covered(V, f)
  <1> DEFINE W == {n \in Nodes \cap Handled : Covers(V, Value(n))}
  <1>1. IsModule(module) /\ Funcs = DOMAIN module.func
    BY DEF Analyzed, Funcs
  <1>2. ASSUME NEW n \in W, NEW c \in children[n]
        PROVE  c \in W
    <2>1. c \in Handled /\ Covers(Value(n), Value(c))
      BY DEF Flows
    <2> QED BY <2>1, CoversTrans
  <1>3. \A g \in Entered(module, f) : g \in Funcs /\ (g \in W \/ Covered(V, g))
    <2> HIDE DEF W
    <2>1. W \in SUBSET (Nodes \cap Handled) /\ f \in W
      BY DEF W
    <2>2. \A n \in W : children[n] \subseteq W /\ Covers(V, Value(n))
      BY <1>2 DEF W
    <2> QED BY <2>1, <2>2, StaysCovered
  <1>4. ASSUME NEW g \in Funcs, Covered(V, g)
        PROVE  /\ ~Opaque(module, g) /\ module.func[g].effects \subseteq V
               /\ Traps(module, g) => "trap" \in V
    <2>1. Execution(module, {g}) # Unknown /\ Execution(module, {g}) \subseteq V
      BY <1>4 DEF Covered, Covers
    <2>2. g \in Entered(module, g) /\ {g} \in SUBSET DOMAIN module.func
      BY <1>1, EnteredFacts
    <2>3. /\ Execution(module, {g}) = Unknown <=>
                \E x \in {g} : \E y \in Entered(module, x) : Opaque(module, y)
          /\ \A e : e \in Execution(module, {g}) <=>
                \E x \in {g} : \E y \in Entered(module, x) :
                   e \in module.func[y].effects \/ (e = "trap" /\ Traps(module, y))
      BY <1>1, <2>1, <2>2, ExecutionFacts
    <2> QED BY <2>1, <2>2, <2>3
  <1>5. ASSUME NEW g \in Funcs \cap W, Spared(V, g)
        PROVE  /\ ~Opaque(module, g) /\ module.func[g].effects \subseteq V
               /\ Traps(module, g) => "trap" \in V
    <2>1. Covers(Value(g), funcInfos[g].effects) /\ InfoRight(module, g, funcInfos[g])
      BY DEF Flows, Analyzed
    <2>2. Covers(V, funcInfos[g].effects) /\ funcInfos[g].effects # Unknown
      BY <2>1, CoversTrans DEF Covers
    <2>3. ~Opaque(module, g) /\ module.func[g].effects \subseteq V
      BY <2>1, <2>2 DEF InfoRight, Covers
    <2>4. ASSUME NEW t \in module.func[g].indirect, Targets(module, t) = {}
          PROVE  "trap" \in V
      <3>1. CASE t \in funcInfos[g].indirectCalledTypes
        <4>1. t \in children[g] /\ t \in Nodes \ Funcs
          BY <3>1, GraphFacts
        <4>2. t \in W
          BY <1>2, <4>1
        <4>3. Covers(Value(t), {"trap"})
          BY <2>4, <4>1, <4>2 DEF Flows
        <4> QED BY <4>2, <4>3 DEF Covers
      <3>2. CASE t \notin funcInfos[g].indirectCalledTypes
        <4>1. Covers(V, IndirectExecution(module, t))
          BY <1>5, <2>2, <3>2, TypeAccounted
        <4>2. IndirectExecution(module, t) = {"trap"}
          BY <2>4 DEF IndirectExecution
        <4> QED BY <4>1, <4>2 DEF Covers
      <3> QED BY <3>1, <3>2
    <2>5. ASSUME NEW h \in Enters(module, g), g \in Entered(module, h)
          PROVE  "trap" \in V
      <3>1. Traps(module, g) /\ h \in Funcs
        BY <1>1, <2>5, CallsFacts DEF Traps
      <3>2. CASE Covered(V, g)
        BY <1>4, <3>1, <3>2
      <3>3. CASE Covered(V, h)
        <4>1. Execution(module, {h}) # Unknown /\ Execution(module, {h}) \subseteq V
          BY <3>3 DEF Covered, Covers
        <4>2. {h} \in SUBSET DOMAIN module.func
          BY <1>1, <3>1
        <4>3. "trap" \in Execution(module, {h})
          BY <1>1, <2>5, <3>1, <4>1, <4>2, ExecutionFacts
        <4> QED BY <4>1, <4>3
      <3>4. CASE Cyclic(g)
        <4>1. Covers(Value(g), {"trap"})
          BY <3>4 DEF Flows
        <4> QED BY <4>1 DEF Covers
      <3> QED BY <1>5, <2>5, <3>2, <3>3, <3>4, EndlessCovered
    <2> QED BY <2>3, <2>4, <2>5 DEF Traps
  <1>6. \A g \in Entered(module, f) :
           /\ ~Opaque(module, g) /\ module.func[g].effects \subseteq V
           /\ Traps(module, g) => "trap" \in V
    <2> HIDE DEF W
    <2> QED BY <1>3, <1>4, <1>5, SparedOn
  <1>7. {f} \in SUBSET DOMAIN module.func
    BY <1>1
  <1>8. Execution(module, {f}) # Unknown
    BY <1>1, <1>6, <1>7, ExecutionFacts
  <1>9. \A e \in Execution(module, {f}) : e \in V
    <2> SUFFICES ASSUME NEW e \in Execution(module, {f})
                 PROVE  e \in V
      OBVIOUS
    <2>1. PICK g \in Entered(module, f) :
             e \in module.func[g].effects \/ (e = "trap" /\ Traps(module, g))
      BY <1>1, <1>7, <1>8, ExecutionFacts
    <2> QED BY <1>6, <2>1
  <1> QED BY <1>8, <1>9 DEF Covered, Covers

-----------------------------------------------------------------------------
(* One component *)

This == Len(components)
CC == components[This]
Of == Assign(nodeComponents, CC, This)
Callees == {Of[c] : c \in UNION {children[n] : n \in CC}} \ {This}
Result == ComponentEffects(CC, Callees)

LEMMA MergeFacts ==
  ASSUME NEW S \in SUBSET ({Unknown} \cup SUBSET Effects)
  PROVE  LET R == MergeMaybeEffects(S)
         IN  /\ R \in {Unknown} \cup SUBSET Effects
             /\ \A x \in S : Covers(R, x)
             /\ R = Unknown => Unknown \in S
             /\ R # Unknown => \A e \in R : \E x \in S : x # Unknown /\ e \in x
  <1>1. CASE Unknown \in S
    <2>1. MergeMaybeEffects(S) = Unknown
      BY <1>1 DEF MergeMaybeEffects
    <2> QED BY <1>1, <2>1 DEF Covers
  <1>2. CASE Unknown \notin S
    <2>1. MergeMaybeEffects(S) = UNION S
      BY <1>2 DEF MergeMaybeEffects
    <2>2. UNION S \subseteq Effects
      BY <1>2
    <2>3. UNION S # Unknown
      BY <2>2, EffectsAssumption
    <2>4. \A x \in S : x \subseteq UNION S
      OBVIOUS
    <2> QED BY <1>2, <2>1, <2>2, <2>3, <2>4 DEF Covers
  <1> QED BY <1>1, <1>2

\* The component that propagateEffects has before it: all of its own, and its
\* edges lead to itself or to components it is through with.
LEMMA NewComponent ==
  ASSUME IInv, Analyzed, Progress, currRoot = None,
         Len(componentEffects) < Len(components)
  PROVE  /\ This = Len(componentEffects) + 1 /\ Len(componentEffects) \in Nat
         /\ DOMAIN componentEffects = 1..Len(componentEffects)
         /\ CC \subseteq Nodes /\ IsFiniteSet(CC) /\ CC \cap Handled = {}
         /\ CC # {} /\ \A n \in CC : CC = Component(n)
         /\ \A n \in CC : \A c \in children[n] : c \in CC \/ c \in Handled
  <1>1. /\ components \in Seq(SUBSET Nodes) /\ Len(components) \in Nat
        /\ DOMAIN components = 1..Len(components)
    BY LenProperties DEF IInv, Types
  <1>2. /\ Len(componentEffects) \in Nat
        /\ DOMAIN componentEffects = 1..Len(componentEffects)
    BY LenProperties DEF Progress
  <1>3. Len(components) - Len(componentEffects) \in {0, 1}
    BY DEF Progress
  <1>4. This = Len(componentEffects) + 1 /\ This \in DOMAIN components
    <2>1. \A a, b \in Nat : a - b \in {0, 1} /\ b < a => a = b + 1 /\ a \in 1..a
      OBVIOUS
    <2> QED BY <1>1, <1>2, <1>3, <2>1, Zenon DEF This
  <1>5. CC \subseteq Nodes
    BY <1>1, <1>4, ElementOfSeq DEF CC
  <1>6. IsFiniteSet(CC)
    BY <1>5, GraphFacts, FS_Subset
  <1>7. \A k \in DOMAIN componentEffects : k \in DOMAIN components /\ k # This
    BY <1>1, <1>2, <1>4 DEF This
  <1>8. ASSUME NEW n \in CC, n \in Handled
        PROVE  FALSE
    <2>1. nodeComponents[n] \in DOMAIN componentEffects /\ n \in components[nodeComponents[n]]
      BY <1>8 DEF Progress
    <2>2. components[nodeComponents[n]] \cap components[This] = {}
      BY <1>4, <1>7, <2>1 DEF IInv, Parts
    <2> QED BY <2>1, <2>2 DEF CC
  <1>9. Delivered = DOMAIN components
    BY DEF Delivered
  <1>10. CC # {} /\ \A n \in CC : CC = Component(n)
    BY <1>4, <1>9 DEF IInv, Parts, CC
  <1>11. ASSUME NEW n \in CC, NEW c \in children[n]
         PROVE  c \in CC \/ c \in Handled
    <2>1. PICK j \in 1..This : c \in components[j]
      BY <1>4, <1>9 DEF IInv, Parts, CalleesFirst, CC
    <2>2. CASE j = This
      BY <2>1, <2>2 DEF CC
    <2>3. CASE j # This
      <3>1. j \in DOMAIN componentEffects
        BY <1>2, <1>4, <2>3
      <3> QED BY <2>1, <3>1 DEF Progress
    <2> QED BY <2>2, <2>3
  <1> QED BY <1>2, <1>4, <1>5, <1>6, <1>8, <1>10, <1>11

\* What the component gets: all that its children, its functions and its shape
\* call for, and nothing else.
LEMMA ResultFacts ==
  ASSUME IInv, Analyzed, Progress, currRoot = None,
         Len(componentEffects) < Len(components)
  PROVE  /\ Result \in {Unknown} \cup SUBSET Effects
         /\ \A n \in CC : \A c \in children[n] : c \notin CC => Covers(Result, Value(c))
         /\ \A f \in CC \cap Funcs : Covers(Result, funcInfos[f].effects)
         /\ Recursion(CC) \/ Uninhabited(CC) => Covers(Result, {"trap"})
         /\ Result = Unknown =>
               \/ \E n \in CC : \E c \in children[n] : c \notin CC /\ Value(c) = Unknown
               \/ \E f \in CC \cap Funcs : funcInfos[f].effects = Unknown
         /\ Result # Unknown =>
               \A e \in Result \ {"trap"} :
                  \/ \E n \in CC : \E c \in children[n] :
                        c \notin CC /\ Value(c) # Unknown /\ e \in Value(c)
                  \/ \E f \in CC \cap Funcs :
                        funcInfos[f].effects # Unknown /\ e \in funcInfos[f].effects
  <1> DEFINE outer == {Value(c) : c \in UNION {children[n] : n \in CC} \ CC}
             called == {componentEffects[k] : k \in Callees}
             shape == IF Recursion(CC) \/ Uninhabited(CC) THEN {"trap"} ELSE {}
             own == {funcInfos[f].effects : f \in CC \cap Funcs}
             S == called \cup {shape} \cup own
  <1>1. /\ This = Len(componentEffects) + 1 /\ Len(componentEffects) \in Nat
        /\ DOMAIN componentEffects = 1..Len(componentEffects)
        /\ CC \cap Handled = {}
        /\ \A n \in CC : \A c \in children[n] : c \in CC \/ c \in Handled
    BY NewComponent
  <1>2. \A n \in CC : Of[n] = This
    BY DEF Of, Assign
  <1>3. \A n \in Handled : Of[n] = nodeComponents[n] /\ Of[n] \in DOMAIN componentEffects
                            /\ Of[n] # This
    BY <1>1 DEF Of, Assign, Progress, Handled
  <1>4. \A x : x \in called <=>
           \E n \in CC : \E c \in children[n] : c \notin CC /\ x = Value(c)
    <2>1. \A k : k \in Callees <=>
             \E n \in CC : \E c \in children[n] : k = Of[c] /\ k # This
      BY DEF Callees
    <2>2. \A k : k \in Callees <=>
             \E n \in CC : \E c \in children[n] : c \notin CC /\ k = nodeComponents[c]
      BY <1>1, <1>2, <1>3, <2>1
    <2> QED BY <2>2 DEF Value
  <1>5. \A x \in called : x \in {Unknown} \cup SUBSET Effects
    <2> SUFFICES ASSUME NEW n \in CC, NEW c \in children[n], c \notin CC
                 PROVE  Value(c) \in {Unknown} \cup SUBSET Effects
      BY <1>4
    <2>1. nodeComponents[c] \in 1..Len(componentEffects)
      BY <1>1 DEF Progress
    <2> QED BY <2>1, ElementOfSeq DEF Progress, Value
  <1>6. \A x \in own : x \in {Unknown} \cup SUBSET Effects
    BY DEF Analyzed, InfoRight
  <1>7. shape \in SUBSET Effects /\ shape # Unknown /\ shape \subseteq {"trap"}
    BY EffectsAssumption
  <1>8. Result = MergeMaybeEffects(S)
    BY DEF Result, ComponentEffects
  <1>9. \A x : x \in own <=> \E f \in CC \cap Funcs : x = funcInfos[f].effects
    OBVIOUS
  <1>10. Recursion(CC) \/ Uninhabited(CC) => shape = {"trap"}
    OBVIOUS
  <1> HIDE DEF called, own, shape
  <1>11. S \in SUBSET ({Unknown} \cup SUBSET Effects)
    BY <1>5, <1>6, <1>7
  <1>12. /\ Result \in {Unknown} \cup SUBSET Effects
         /\ \A x \in S : Covers(Result, x)
         /\ Result = Unknown => Unknown \in S
         /\ Result # Unknown => \A e \in Result : \E x \in S : x # Unknown /\ e \in x
    BY <1>8, <1>11, MergeFacts
  <1>13. ASSUME Result = Unknown
         PROVE  \/ \E n \in CC : \E c \in children[n] : c \notin CC /\ Value(c) = Unknown
                \/ \E f \in CC \cap Funcs : funcInfos[f].effects = Unknown
    BY <1>4, <1>7, <1>9, <1>12, <1>13
  <1>14. ASSUME Result # Unknown, NEW e \in Result \ {"trap"}
         PROVE  \/ \E n \in CC : \E c \in children[n] :
                      c \notin CC /\ Value(c) # Unknown /\ e \in Value(c)
                \/ \E f \in CC \cap Funcs :
                      funcInfos[f].effects # Unknown /\ e \in funcInfos[f].effects
    <2>1. PICK x \in S : x # Unknown /\ e \in x
      BY <1>12, <1>14
    <2>2. x \in called \/ x \in own
      BY <1>7, <2>1
    <2> QED BY <1>4, <1>9, <2>1, <2>2
  <1>15. \A n \in CC : \A c \in children[n] : c \notin CC => Covers(Result, Value(c))
    BY <1>4, <1>12
  <1>16. \A f \in CC \cap Funcs : Covers(Result, funcInfos[f].effects)
    BY <1>9, <1>12
  <1>17. Recursion(CC) \/ Uninhabited(CC) => Covers(Result, {"trap"})
    BY <1>10, <1>12
  <1> QED BY <1>12, <1>13, <1>14, <1>15, <1>16, <1>17

\* Its members get their values, and no others change.
LEMMA PropagateFacts ==
  ASSUME IInv, Analyzed, Progress, Stored, Propagate
  PROVE  /\ Handled' = Handled \cup CC
         /\ componentEffects' = Append(componentEffects, Result)
         /\ componentEffects' \in Seq({Unknown} \cup SUBSET Effects)
         /\ Len(componentEffects') = This
         /\ DOMAIN componentEffects' = DOMAIN componentEffects \cup {This}
         /\ \A n \in CC : nodeComponents'[n] = This /\ Value(n)' = Result
         /\ \A n \in Handled : /\ nodeComponents'[n] = nodeComponents[n]
                               /\ Value(n)' = Value(n)
         /\ DOMAIN effects' = Funcs
         /\ \A f \in Funcs : effects'[f] = IF f \in CC THEN Result ELSE effects[f]
         /\ DOMAIN indirectCallEffects' \subseteq
               DOMAIN indirectCallEffects \cup (CC \ Funcs)
         /\ \A t \in DOMAIN indirectCallEffects' :
               indirectCallEffects'[t] = IF t \in CC THEN Result ELSE indirectCallEffects[t]
  <1>1. /\ This = Len(componentEffects) + 1 /\ Len(componentEffects) \in Nat
        /\ DOMAIN componentEffects = 1..Len(componentEffects)
        /\ CC \cap Handled = {}
        /\ Result \in {Unknown} \cup SUBSET Effects
    BY NewComponent, ResultFacts DEF Propagate
  <1>2. /\ nodeComponents' = Of
        /\ componentEffects' = Append(componentEffects, Result)
        /\ effects' = Assign(effects, CC \cap Funcs, Result)
        /\ indirectCallEffects' =
              IF Result = Unknown THEN indirectCallEffects
              ELSE Assign(indirectCallEffects, CC \ Funcs, Result)
    BY Zenon DEF Propagate, Result, Callees, Of, CC, This
  <1>3. /\ Handled' = Handled \cup CC
        /\ \A n \in CC : nodeComponents'[n] = This
        /\ \A n \in Handled : nodeComponents'[n] = nodeComponents[n]
    BY <1>1, <1>2 DEF Of, Assign, Handled
  <1>4. componentEffects \in Seq({Unknown} \cup SUBSET Effects)
    BY DEF Progress
  <1>5. /\ componentEffects' \in Seq({Unknown} \cup SUBSET Effects)
        /\ Len(componentEffects') = This
        /\ DOMAIN componentEffects' = 1..This
        /\ componentEffects'[This] = Result
        /\ \A k \in 1..Len(componentEffects) : componentEffects'[k] = componentEffects[k]
    BY <1>1, <1>2, <1>4, AppendProperties, LenProperties
  <1>6. DOMAIN componentEffects' = DOMAIN componentEffects \cup {This}
    BY <1>1, <1>5
  <1>7. \A n \in CC : Value(n)' = Result
    BY <1>3, <1>5 DEF Value
  <1>8. \A n \in Handled : Value(n)' = Value(n)
    <2> SUFFICES ASSUME NEW n \in Handled
                 PROVE  componentEffects'[nodeComponents'[n]] = componentEffects[nodeComponents[n]]
      BY DEF Value
    <2>1. nodeComponents[n] \in 1..Len(componentEffects)
      BY <1>1 DEF Progress
    <2> QED BY <1>3, <1>5, <2>1
  <1>9. /\ DOMAIN effects' = Funcs
        /\ \A f \in Funcs : effects'[f] = IF f \in CC THEN Result ELSE effects[f]
    <2>1. DOMAIN effects = Funcs
      BY DEF Stored
    <2> QED BY <1>2, <2>1 DEF Assign
  <1>10. /\ DOMAIN indirectCallEffects' \subseteq
               DOMAIN indirectCallEffects \cup (CC \ Funcs)
         /\ \A t \in DOMAIN indirectCallEffects' :
               indirectCallEffects'[t] = IF t \in CC THEN Result ELSE indirectCallEffects[t]
    <2>1. DOMAIN indirectCallEffects \subseteq Handled \ Funcs
      BY DEF Stored
    <2>2. CASE Result = Unknown
      <3>1. indirectCallEffects' = indirectCallEffects
        BY <1>2, <2>2
      <3> QED BY <1>1, <2>1, <3>1
    <2>3. CASE Result # Unknown
      <3>1. indirectCallEffects' = Assign(indirectCallEffects, CC \ Funcs, Result)
        BY <1>2, <2>3
      <3> QED BY <1>1, <2>1, <3>1 DEF Assign
    <2> QED BY <2>2, <2>3
  <1> QED BY <1>2, <1>3, <1>5, <1>6, <1>7, <1>8, <1>9, <1>10

LEMMA HandledNodes ==
  ASSUME Types, Progress
  PROVE  Handled \subseteq Nodes
  <1> SUFFICES ASSUME NEW n \in Handled
               PROVE  n \in Nodes
    OBVIOUS
  <1>1. components \in Seq(SUBSET Nodes) /\ componentEffects \in Seq({Unknown} \cup SUBSET Effects)
    BY DEF Types, Progress
  <1>2. /\ Len(components) \in Nat /\ Len(componentEffects) \in Nat
        /\ DOMAIN componentEffects = 1..Len(componentEffects)
    BY <1>1, LenProperties
  <1>3. Len(components) - Len(componentEffects) \in {0, 1}
    BY DEF Progress
  <1>4. nodeComponents[n] \in 1..Len(componentEffects) /\ n \in components[nodeComponents[n]]
    BY <1>2 DEF Progress
  <1>5. \A a, b \in Nat : a - b \in {0, 1} => \A k \in 1..b : k \in 1..a
    OBVIOUS
  <1>6. nodeComponents[n] \in 1..Len(components)
    BY <1>2, <1>3, <1>4, <1>5, Zenon
  <1> QED BY <1>1, <1>4, <1>6, ElementOfSeq

LEMMA AnalyzedKept ==
  ASSUME Analyzed, module' = module, funcInfos' = funcInfos, children' = children,
         input' = input
  PROVE  Analyzed' /\ Funcs' = Funcs
  BY DEF Analyzed, Funcs, CallGraph

LEMMA TwoMembers ==
  ASSUME NEW S, IsFiniteSet(S), NEW a \in S, NEW b \in S, a # b
  PROVE  Cardinality(S) > 1
  <1>1. IsFiniteSet(S \ {a}) /\ Cardinality(S \ {a}) = Cardinality(S) - 1
    BY FS_RemoveElement
  <1>2. Cardinality(S \ {a}) # 0
    BY <1>1, FS_EmptySet
  <1> QED BY <1>1, <1>2, FS_CardinalityType

LEMMA PropagateInv ==
  ASSUME GInv, Propagate
  PROVE  GInv'
  <1>1. /\ UNCHANGED vars /\ module' = module /\ funcInfos' = funcInfos
        /\ currRoot = None /\ Len(componentEffects) < Len(components)
    BY DEF Propagate
  <1>2. /\ children' = children /\ input' = input /\ inputIt' = inputIt
        /\ workStack' = workStack /\ elementInfo' = elementInfo
        /\ currRoot' = currRoot /\ components' = components
    BY <1>1 DEF vars, searchVars
  <1>3. IInv'
    BY <1>1, StutterStep DEF GInv
  <1>4. Analyzed' /\ Funcs' = Funcs
    BY <1>1, <1>2, AnalyzedKept DEF GInv
  <1>5. RootsSeen'
    BY <1>2 DEF GInv, RootsSeen, Visited
  <1>6. /\ This = Len(componentEffects) + 1 /\ Len(componentEffects) \in Nat
        /\ CC \subseteq Nodes /\ IsFiniteSet(CC) /\ CC \cap Handled = {}
        /\ \A n \in CC : CC = Component(n)
        /\ \A n \in CC : \A c \in children[n] : c \in CC \/ c \in Handled
    BY <1>1, NewComponent DEF GInv
  <1>7. /\ Handled' = Handled \cup CC
        /\ componentEffects' \in Seq({Unknown} \cup SUBSET Effects)
        /\ Len(componentEffects') = This
        /\ DOMAIN componentEffects' = DOMAIN componentEffects \cup {This}
        /\ \A n \in CC : nodeComponents'[n] = This /\ Value(n)' = Result
        /\ \A n \in Handled : /\ nodeComponents'[n] = nodeComponents[n]
                              /\ Value(n)' = Value(n)
        /\ DOMAIN effects' = Funcs
        /\ \A f \in Funcs : effects'[f] = IF f \in CC THEN Result ELSE effects[f]
        /\ DOMAIN indirectCallEffects' \subseteq
              DOMAIN indirectCallEffects \cup (CC \ Funcs)
        /\ \A t \in DOMAIN indirectCallEffects' :
              indirectCallEffects'[t] = IF t \in CC THEN Result ELSE indirectCallEffects[t]
    BY PropagateFacts DEF GInv
  <1>8. /\ \A n \in CC : \A c \in children[n] : c \notin CC => Covers(Result, Value(c))
        /\ \A f \in CC \cap Funcs : Covers(Result, funcInfos[f].effects)
        /\ Recursion(CC) \/ Uninhabited(CC) => Covers(Result, {"trap"})
        /\ Result = Unknown =>
               \/ \E n \in CC : \E c \in children[n] : c \notin CC /\ Value(c) = Unknown
               \/ \E f \in CC \cap Funcs : funcInfos[f].effects = Unknown
        /\ Result # Unknown =>
               \A e \in Result \ {"trap"} :
                  \/ \E n \in CC : \E c \in children[n] :
                        c \notin CC /\ Value(c) # Unknown /\ e \in Value(c)
                  \/ \E f \in CC \cap Funcs :
                        funcInfos[f].effects # Unknown /\ e \in funcInfos[f].effects
    BY <1>1, ResultFacts DEF GInv
  <1>9. /\ \A n, m : Connected(n, m)' <=> Connected(n, m)
        /\ \A n : Component(n)' = Component(n)
        /\ Nodes' = Nodes
    BY <1>2, SameGraph
  <1>10. Handled \subseteq Nodes
    BY HandledNodes DEF GInv, IInv
  <1>11. Progress'
    <2>1. /\ components' = components /\ currRoot' = None
          /\ Len(components') - Len(componentEffects') \in {0, 1}
      <3>1. Len(components') = Len(componentEffects')
        BY <1>2, <1>7 DEF This
      <3>2. Len(componentEffects') \in Nat
        BY <1>6, <1>7
      <3>3. \A a, b \in Nat : a = b => a - b \in {0, 1}
        OBVIOUS
      <3> QED BY <1>1, <1>2, <3>1, <3>2, <3>3, Zenon
    <2>2. \A k \in DOMAIN componentEffects' : components'[k] \subseteq Handled'
      BY <1>2, <1>7 DEF GInv, Progress, CC
    <2>3. \A n \in Handled' : /\ nodeComponents'[n] \in DOMAIN componentEffects'
                              /\ n \in components'[nodeComponents'[n]]
      BY <1>2, <1>7 DEF GInv, Progress, CC
    <2> QED BY <1>7, <2>1, <2>2, <2>3 DEF Progress
  <1>12. Flows'
    <2>1. \A f : Cyclic(f)' <=> Cyclic(f)
      BY <1>1, <1>9 DEF Cyclic
    <2>2. ASSUME NEW n \in CC
          PROVE  \A c \in children[n] : c \in Handled' /\ Covers(Result, Value(c)')
      BY <1>6, <1>7, <1>8 DEF Covers
    <2>3. ASSUME NEW n \in CC, n \in Funcs
          PROVE  Covers(Result, funcInfos[n].effects)
      BY <1>8, <2>3
    <2>4. ASSUME NEW n \in CC, n \in Funcs, Cyclic(n)
          PROVE  Covers(Result, {"trap"})
      <3>1. CASE n \in funcInfos[n].calledFunctions
        BY <1>8, <2>4, <3>1 DEF Recursion
      <3>2. CASE \E m \in Component(n) : m # n
        <4>1. PICK m \in CC : m # n
          BY <1>6, <3>2
        <4>2. Cardinality(CC) > 1
          BY <1>6, <4>1, TwoMembers
        <4> QED BY <1>8, <4>2 DEF Recursion
      <3> QED BY <2>4, <3>1, <3>2 DEF Cyclic
    <2>5. ASSUME NEW n \in CC, n \notin Funcs, Targets(module, n) = {}
          PROVE  Covers(Result, {"trap"})
      <3>1. n \in Nodes \ Funcs
        BY <1>6, <2>5
      <3>2. ASSUME NEW u \in CC, u # n
            PROVE  Covers(Result, {"trap"})
        <4>1. Cardinality(CC) > 1
          BY <1>6, <3>2, TwoMembers
        <4> QED BY <1>8, <4>1 DEF Recursion
      <3>3. CASE CC = {n}
        <4>1. CASE children[n] = {}
          <5>1. Uninhabited(CC)
            BY <2>5, <3>3, <4>1 DEF Uninhabited
          <5> QED BY <1>8, <5>1
        <4>2. CASE children[n] # {}
          <5>1. PICK u \in children[n] : TRUE
            BY <4>2
          <5>2. u \in Nodes \ Funcs /\ u # n /\ Targets(module, u) = {}
            BY <2>5, <3>1, DeadTypes DEF GInv
          <5>3. u \in Handled /\ Covers(Result, Value(u))
            BY <1>6, <1>8, <3>3, <5>2
          <5>4. Covers(Value(u), {"trap"})
            BY <5>2, <5>3 DEF GInv, Flows
          <5> QED BY <5>3, <5>4, CoversTrans
        <4> QED BY <4>1, <4>2
      <3> QED BY <3>2, <3>3
    <2>6. ASSUME NEW n \in Handled
          PROVE  /\ \A c \in children[n] : c \in Handled' /\ Covers(Value(n)', Value(c)')
                 /\ n \in Funcs => Covers(Value(n)', funcInfos[n].effects)
                 /\ n \in Funcs /\ Cyclic(n) => Covers(Value(n)', {"trap"})
                 /\ n \notin Funcs /\ Targets(module, n) = {} => Covers(Value(n)', {"trap"})
      BY <1>7 DEF GInv, Flows
    <2>7. ASSUME NEW n \in Handled'
          PROVE  /\ \A c \in children[n] : c \in Handled' /\ Covers(Value(n)', Value(c)')
                 /\ n \in Funcs => Covers(Value(n)', funcInfos[n].effects)
                 /\ n \in Funcs /\ Cyclic(n) => Covers(Value(n)', {"trap"})
                 /\ n \notin Funcs /\ Targets(module, n) = {} => Covers(Value(n)', {"trap"})
      <3>1. CASE n \in CC
        <4>1. Value(n)' = Result
          BY <1>7, <3>1
        <4> QED BY <2>2, <2>3, <2>4, <2>5, <3>1, <4>1
      <3>2. CASE n \in Handled
        BY <2>6, <3>2
      <3> QED BY <1>7, <3>1, <3>2
    <2> QED BY <1>1, <1>2, <1>4, <2>1, <2>7 DEF Flows, Covers, Targets
  <1>13. Sourced'
    <2>1. ASSUME NEW n \in CC, NEW m \in CC
          PROVE  Connected(n, m)
      BY <1>6 DEF Component
    <2>2. ASSUME NEW n \in CC, NEW m \in CC, NEW c \in children[m], NEW f, Connected(c, f)
          PROVE  Connected(n, f)
      <3>1. Connected(n, m)
        BY <2>1
      <3>2. Connected(m, c)
        BY <1>6, ReachEdge DEF GInv, IInv
      <3> QED BY <2>2, <3>1, <3>2, ReachTrans
    <2>3. ASSUME NEW n \in CC, Result = Unknown
          PROVE  \E f \in Funcs : Connected(n, f) /\ funcInfos[f].effects = Unknown
      <3>1. CASE \E f \in CC \cap Funcs : funcInfos[f].effects = Unknown
        BY <2>1, <3>1
      <3>2. CASE \E m \in CC : \E c \in children[m] : c \notin CC /\ Value(c) = Unknown
        <4>0. PICK m \in CC : \E c \in children[m] : c \notin CC /\ Value(c) = Unknown
          BY <3>2
        <4>1. PICK c \in children[m] : c \notin CC /\ Value(c) = Unknown
          BY <4>0
        <4>2. PICK f \in Funcs : Connected(c, f) /\ funcInfos[f].effects = Unknown
          BY <1>6, <4>1 DEF GInv, Sourced
        <4> QED BY <2>2, <4>2
      <3> QED BY <1>8, <2>3, <3>1, <3>2
    <2>4. ASSUME NEW n \in CC, Result # Unknown, NEW e \in Result \ {"trap"}
          PROVE  \E f \in Funcs : /\ Connected(n, f)
                                  /\ funcInfos[f].effects # Unknown
                                  /\ e \in funcInfos[f].effects
      <3>1. CASE \E f \in CC \cap Funcs :
                    funcInfos[f].effects # Unknown /\ e \in funcInfos[f].effects
        BY <2>1, <3>1
      <3>2. CASE \E m \in CC : \E c \in children[m] :
                    c \notin CC /\ Value(c) # Unknown /\ e \in Value(c)
        <4>0. PICK m \in CC : \E c \in children[m] :
                 c \notin CC /\ Value(c) # Unknown /\ e \in Value(c)
          BY <3>2
        <4>1. PICK c \in children[m] : c \notin CC /\ Value(c) # Unknown /\ e \in Value(c)
          BY <4>0
        <4>2. PICK f \in Funcs : /\ Connected(c, f)
                                 /\ funcInfos[f].effects # Unknown
                                 /\ e \in funcInfos[f].effects
          BY <1>6, <2>4, <4>1 DEF GInv, Sourced
        <4> QED BY <2>2, <4>2
      <3> QED BY <1>8, <2>4, <3>1, <3>2
    <2>5. ASSUME NEW n \in Handled'
          PROVE  /\ Value(n)' = Unknown =>
                       \E f \in Funcs : Connected(n, f) /\ funcInfos[f].effects = Unknown
                 /\ Value(n)' # Unknown =>
                       \A e \in Value(n)' \ {"trap"} :
                           \E f \in Funcs : /\ Connected(n, f)
                                            /\ funcInfos[f].effects # Unknown
                                            /\ e \in funcInfos[f].effects
      <3>1. CASE n \in CC
        <4>1. Value(n)' = Result
          BY <1>7, <3>1
        <4> QED BY <2>3, <2>4, <3>1, <4>1
      <3>2. CASE n \in Handled
        <4>1. Value(n)' = Value(n)
          BY <1>7, <3>2
        <4> QED BY <3>2, <4>1 DEF GInv, Sourced
      <3> QED BY <1>7, <3>1, <3>2
    <2> QED BY <1>1, <1>4, <1>9, <2>5 DEF Sourced
  <1>14. Stored'
    <2>1. ASSUME NEW f \in Funcs
          PROVE  IF f \in Handled' THEN effects'[f] = Value(f)'
                 ELSE /\ effects'[f] \in {Unknown} \cup SUBSET Effects
                      /\ Covers(effects'[f], Execution(module, {f}))
      <3>1. CASE f \in CC
        BY <1>7, <3>1
      <3>2. CASE f \notin CC
        BY <1>7, <3>2 DEF GInv, Stored
      <3> QED BY <3>1, <3>2
    <2>2. DOMAIN indirectCallEffects' \subseteq Handled' \ Funcs
      BY <1>7 DEF GInv, Stored
    <2>3. ASSUME NEW t \in DOMAIN indirectCallEffects'
          PROVE  indirectCallEffects'[t] = Value(t)'
      <3>1. CASE t \in CC
        BY <1>7, <3>1
      <3>2. CASE t \notin CC
        <4>1. t \in DOMAIN indirectCallEffects /\ t \in Handled
          BY <1>7, <3>2 DEF GInv, Stored
        <4> QED BY <1>7, <3>2, <4>1 DEF GInv, Stored
      <3> QED BY <3>1, <3>2
    <2> QED BY <1>1, <1>4, <1>7, <2>1, <2>2, <2>3 DEF Stored, Covers
  <1> QED BY <1>3, <1>4, <1>5, <1>11, <1>12, <1>13, <1>14 DEF GInv

-----------------------------------------------------------------------------
(* The steps of the iterator *)

\* Only the last component, and only while it is on its way out, changes.
LEMMA StepComponents ==
  ASSUME IInv, Step
  PROVE  /\ children' = children /\ input' = input
         /\ \/ components' = components /\ currRoot = None /\ currRoot' = None
            \/ /\ currRoot = None /\ Len(components') = Len(components) + 1
               /\ \A k \in 1..Len(components) : components'[k] = components[k]
            \/ /\ currRoot # None /\ Len(components') = Len(components)
               /\ \A k \in 1..Len(components) - 1 : components'[k] = components[k]
  <1>1. components \in Seq(SUBSET Nodes) /\ Len(components) \in Nat
    BY LenProperties DEF IInv, Types
  <1>2. CASE StepToNextInput \/ Visit \/ Revisit
    BY <1>2 DEF StepToNextInput, Visit, Revisit, Searching
  <1>3. CASE FinishItem
    <2>1. CASE IsRoot(Work.item)
      <3>1. components' = Append(components, {}) /\ {} \in SUBSET Nodes
        BY <1>3, <2>1 DEF FinishItem
      <3>2. /\ Len(components') = Len(components) + 1
            /\ \A k \in 1..Len(components) : components'[k] = components[k]
        BY <1>1, <3>1, AppendProperties
      <3> QED BY <1>3, <3>2 DEF FinishItem, Searching
    <2>2. CASE ~IsRoot(Work.item)
      BY <1>3, <2>2 DEF FinishItem, Searching
    <2> QED BY <2>1, <2>2
  <1>4. CASE StepToNextElem
    <2>1. /\ components' = [components EXCEPT ![Len(components)] =
                                components[Len(components)] \cup {Last(stack)}]
          /\ currRoot # None /\ children' = children /\ input' = input
      BY <1>4 DEF StepToNextElem
    <2>2. Len(components') = Len(components)
      BY <1>1, <2>1
    <2>3. \A k \in 1..Len(components) - 1 : components'[k] = components[k]
      BY <1>1, <2>1
    <2> QED BY <2>1, <2>2, <2>3
  <1> QED BY <1>2, <1>3, <1>4 DEF Step

\* A root leaves the work stack only once it was seen.
LEMMA StepRoots ==
  ASSUME IInv, RootsSeen, Step
  PROVE  RootsSeen'
  <1> USE DEF IInv
  <1>1. inputIt \in Nat \ {0}
    BY DEF Types
  <1>2. CASE StepToNextInput
    <2>1. /\ workStack = <<>> /\ workStack' = <<Item(input[inputIt], None)>>
          /\ inputIt' = inputIt + 1 /\ input' = input /\ elementInfo' = elementInfo
      BY <1>2 DEF StepToNextInput
    <2>2. DOMAIN workStack = {} /\ 1 \in DOMAIN workStack'
          /\ workStack'[1].item = input[inputIt]
      BY <2>1, EmptySeq, LenProperties DEF Item
    <2>3. \A k \in 1..inputIt' - 1 : k \in 1..inputIt - 1 \/ k = inputIt
      BY <1>1, <2>1
    <2> QED BY <2>1, <2>2, <2>3 DEF RootsSeen, Visited
  <1>3. ASSUME workStack # <<>>, inputIt' = inputIt, input' = input,
               Visited \subseteq Visited', Work.item \in Visited',
               \A k \in DOMAIN workStack \ {Len(workStack)} :
                  k \in DOMAIN workStack' /\ workStack'[k] = workStack[k]
        PROVE  RootsSeen'
    <2> SUFFICES ASSUME NEW k \in 1..inputIt - 1
                 PROVE  \/ input[k] \in Visited'
                        \/ \E j \in DOMAIN workStack' : workStack'[j].item = input[k]
      BY <1>3 DEF RootsSeen
    <2>1. Work = workStack[Len(workStack)]
      BY <1>3, WorkFacts
    <2>2. CASE input[k] \in Visited
      BY <1>3, <2>2
    <2>3. CASE \E j \in DOMAIN workStack : workStack[j].item = input[k]
      BY <1>3, <2>1, <2>3
    <2> QED BY <2>2, <2>3 DEF RootsSeen
  <1>4. CASE Visit
    <2>1. PICK n : n = Work.item
      OBVIOUS
    <2>2. /\ Searching /\ ~Work.processedChildren
          /\ Visited' = Visited \cup {n} /\ inputIt' = inputIt /\ input' = input
      BY <1>4, <2>1 DEF Visit, Visited
    <2>3. /\ Len(workStack) \in Nat \ {0} /\ DOMAIN workStack = 1..Len(workStack)
          /\ n \in Nodes
      BY <2>1, <2>2, WorkFacts DEF Searching
    <2>4. PICK order \in SetToSeqs(children[n]) :
             workStack' = Append(Front(workStack), [Work EXCEPT !.processedChildren = TRUE])
                             \o [k \in DOMAIN order |-> Item(order[k], n)]
      BY <1>4, <2>1 DEF Visit
    <2>5. /\ order \in Seq(children[n]) /\ DOMAIN order = 1..Len(order)
          /\ Len(order) \in Nat
      BY <2>3, OrderFact DEF Types
    <2>6. Pushed(n, Work.parent, order, workStack')
      BY <2>1, <2>2, <2>4, <2>5, PushedFact
    <2>7. /\ DOMAIN workStack' = 1..Len(workStack) + Len(order)
          /\ \A k \in 1..Len(workStack) - 1 : workStack'[k] = workStack[k]
      BY <2>6 DEF Pushed
    <2>8. \A k \in DOMAIN workStack \ {Len(workStack)} :
             k \in DOMAIN workStack' /\ workStack'[k] = workStack[k]
      BY <2>3, <2>5, <2>7
    <2> QED BY <1>3, <2>1, <2>2, <2>8 DEF Searching
  <1>5. CASE Revisit \/ FinishItem
    <2>1. /\ Searching /\ workStack' = Front(workStack)
          /\ inputIt' = inputIt /\ input' = input
      BY <1>5 DEF Revisit, FinishItem
    <2>2. \A p, k : LowerParent(p, k) => DOMAIN elementInfo' = DOMAIN elementInfo
      BY DEF LowerParent
    <2>3. Visited' = Visited
      BY <1>5, <2>2 DEF Revisit, FinishItem, Visited
    <2>4. Work.item \in Visited
      <3>1. CASE Revisit
        BY <3>1 DEF Revisit
      <3>2. CASE FinishItem
        <4>1. /\ Len(workStack) \in DOMAIN workStack
              /\ Work = workStack[Len(workStack)] /\ Work.processedChildren
          BY <2>1, <3>2, WorkFacts DEF FinishItem, Searching
        <4>2. Work.item \in Gray
          BY <4>1 DEF Gray, Path, Opened
        <4> QED BY <4>2 DEF WorkStackInv, Numbers
      <3> QED BY <1>5, <3>1, <3>2
    <2>5. \A k \in DOMAIN workStack \ {Len(workStack)} :
             k \in DOMAIN workStack' /\ workStack'[k] = workStack[k]
      BY <2>1, WorkPopped DEF Searching
    <2> QED BY <1>3, <2>1, <2>3, <2>4, <2>5 DEF Searching
  <1>6. CASE StepToNextElem
    <2>1. /\ workStack' = workStack /\ inputIt' = inputIt /\ input' = input
          /\ elementInfo' = [elementInfo EXCEPT ![Last(stack)].onStack = FALSE]
      BY <1>6 DEF StepToNextElem, TakeOffStack
    <2>2. Visited' = Visited
      BY <2>1 DEF Visited
    <2> QED BY <2>1, <2>2 DEF RootsSeen
  <1> QED BY <1>2, <1>4, <1>5, <1>6 DEF Step

\* A step of the iterator changes nothing that propagateEffects has seen.
LEMMA IterateInv ==
  ASSUME GInv, Iterate
  PROVE  GInv'
  <1>1. /\ Step /\ module' = module /\ funcInfos' = funcInfos
        /\ nodeComponents' = nodeComponents /\ componentEffects' = componentEffects
        /\ effects' = effects /\ indirectCallEffects' = indirectCallEffects
        /\ currRoot # None \/ Len(componentEffects) = Len(components)
    BY DEF Iterate, outputs
  <1>2. IInv'
    BY <1>1, NextInv DEF GInv, Next
  <1>3. /\ children' = children /\ input' = input
        /\ \/ components' = components /\ currRoot = None /\ currRoot' = None
           \/ /\ currRoot = None /\ Len(components') = Len(components) + 1
              /\ \A k \in 1..Len(components) : components'[k] = components[k]
           \/ /\ currRoot # None /\ Len(components') = Len(components)
              /\ \A k \in 1..Len(components) - 1 : components'[k] = components[k]
    BY <1>1, StepComponents DEF GInv
  <1>4. Analyzed' /\ Funcs' = Funcs
    BY <1>1, <1>3, AnalyzedKept DEF GInv
  <1>5. RootsSeen'
    BY <1>1, StepRoots DEF GInv
  <1>6. /\ \A n, m : Connected(n, m)' <=> Connected(n, m)
        /\ \A n : Component(n)' = Component(n)
    BY <1>3, SameGraph
  <1>7. /\ Handled' = Handled
        /\ \A n : Value(n)' = Value(n)
    BY <1>1 DEF Handled, Value
  <1>8. Progress'
    <2> DEFINE l == Len(components)
               c == Len(componentEffects)
    <2>1. /\ l \in Nat /\ c \in Nat /\ DOMAIN componentEffects = 1..c
          /\ componentEffects \in Seq({Unknown} \cup SUBSET Effects)
      BY LenProperties DEF GInv, IInv, Types, Progress
    <2>2. l - c \in {0, 1} /\ (currRoot # None => l = c + 1)
      BY DEF GInv, Progress
    <2>3. /\ Len(components') - c \in {0, 1}
          /\ currRoot' # None => Len(components') = c + 1
          /\ \A k \in 1..c : components'[k] = components[k]
      <3>1. CASE components' = components /\ currRoot = None /\ currRoot' = None
        BY <2>2, <3>1
      <3>2. CASE /\ currRoot = None /\ Len(components') = l + 1
                 /\ \A k \in 1..l : components'[k] = components[k]
        <4>1. c = l
          BY <1>1, <3>2
        <4> HIDE DEF l, c
        <4>2. \A b, d \in Nat : d = b + 1 => d - b \in {0, 1}
          OBVIOUS
        <4>3. l + 1 \in Nat
          BY <2>1
        <4>4. Len(components') - c \in {0, 1}
          BY <2>1, <3>2, <4>1, <4>2, <4>3, Zenon
        <4> QED BY <3>2, <4>1, <4>4, Zenon
      <3>3. CASE /\ currRoot # None /\ Len(components') = l
                 /\ \A k \in 1..l - 1 : components'[k] = components[k]
        <4>1. l = c + 1
          BY <2>2, <3>3
        <4> HIDE DEF l, c
        <4>2. l - 1 = c
          BY <2>1, <4>1
        <4> QED BY <2>2, <3>3, <4>1, <4>2, Zenon
      <3> QED BY <1>3, <3>1, <3>2, <3>3
    <2>4. \A k \in DOMAIN componentEffects : components'[k] \subseteq Handled
      BY <2>1, <2>3 DEF GInv, Progress
    <2>5. \A n \in Handled : /\ nodeComponents[n] \in DOMAIN componentEffects
                             /\ n \in components'[nodeComponents[n]]
      BY <2>1, <2>3 DEF GInv, Progress
    <2> QED BY <1>1, <1>7, <2>1, <2>3, <2>4, <2>5 DEF Progress
  <1>9. Flows'
    <2>1. \A f : Cyclic(f)' <=> Cyclic(f)
      BY <1>1, <1>6 DEF Cyclic
    <2> QED BY <1>1, <1>3, <1>4, <1>7, <2>1 DEF GInv, Flows, Covers, Targets
  <1>10. Sourced'
    BY <1>1, <1>4, <1>6, <1>7 DEF GInv, Sourced
  <1>11. Stored'
    BY <1>1, <1>4, <1>7 DEF GInv, Stored, Covers
  <1> QED BY <1>2, <1>4, <1>5, <1>8, <1>9, <1>10, <1>11 DEF GInv

LEMMA EffectsInitInv ==
  ASSUME EffectsInit
  PROVE  GInv
  <1> DEFINE Types0(m, known) == {t \in known \cap DOMAIN m.super :
                                    m.closed /\ IndirectExecution(m, t) # Unknown}
             Cached(m, known, marks) ==
                [f \in DOMAIN m.func |->
                    IF f \in known THEN Earlier(m, {f}, Execution(m, {f}), marks) ELSE Unknown]
             Indirect(m, known, marks) ==
                [t \in Types0(m, known) |->
                    Earlier(m, Targets(m, t), IndirectExecution(m, t), marks)]
             Infos(m, known, marks) ==
                [f \in DOMAIN m.func |->
                    AnalyzeFunc(m, f, Cached(m, known, marks), Indirect(m, known, marks))]
  <1>1. PICK m \in Modules, known \in Known, marks \in SUBSET {ReturnThrow}, order \in Inputs :
           /\ module = m /\ funcInfos = Infos(m, known, marks)
           /\ Range(order) = DOMAIN m.func
           /\ Start(CallGraph(m, Infos(m, known, marks)), order)
           /\ nodeComponents = <<>> /\ componentEffects = <<>>
           /\ effects = Cached(m, known, marks) /\ indirectCallEffects = <<>>
    BY DEF EffectsInit
  <1> DEFINE cached == Cached(m, known, marks)
             indirect == Indirect(m, known, marks)
             infos == Infos(m, known, marks)
  <1>2. IsModule(m)
    BY ModulesAssumption
  <1>3. \A f \in DOMAIN m.func :
           cached[f] = Unknown \/ CacheRight(m, {f}, Execution(m, {f}), cached[f])
    <2> SUFFICES ASSUME NEW f \in DOMAIN m.func
                 PROVE  cached[f] = Unknown \/ CacheRight(m, {f}, Execution(m, {f}), cached[f])
      OBVIOUS
    <2>1. {f} \in SUBSET DOMAIN m.func
      OBVIOUS
    <2>2. Execution(m, {f}) \in {Unknown} \cup SUBSET Effects
      BY <1>2, <2>1, ExecutionType
    <2>3. cached[f] = Unknown \/ cached[f] = Earlier(m, {f}, Execution(m, {f}), marks)
      OBVIOUS
    <2> HIDE DEF cached
    <2> QED BY <2>2, <2>3, EarlierRight
  <1>4. \A t \in DOMAIN indirect :
           m.closed /\ CacheRight(m, Targets(m, t), IndirectExecution(m, t), indirect[t])
    <2> SUFFICES ASSUME NEW t \in DOMAIN indirect
                 PROVE  m.closed /\ CacheRight(m, Targets(m, t), IndirectExecution(m, t), indirect[t])
      OBVIOUS
    <2>1. /\ m.closed /\ IndirectExecution(m, t) # Unknown
          /\ indirect[t] = Earlier(m, Targets(m, t), IndirectExecution(m, t), marks)
      OBVIOUS
    <2> HIDE DEF indirect
    <2>2. Targets(m, t) \in SUBSET DOMAIN m.func
      BY DEF Targets
    <2>3. IndirectExecution(m, t) \in SUBSET Effects
      BY <1>2, <2>1, <2>2, ExecutionType, EffectsAssumption DEF IndirectExecution
    <2>4. Earlier(m, Targets(m, t), IndirectExecution(m, t), marks) # Unknown
      <3>1. IndirectExecution(m, t) \cup {e \in marks : Returns(m, Targets(m, t))} \in SUBSET Effects
        BY <2>3, EffectsAssumption
      <3> QED BY <2>1, <3>1, EffectsAssumption DEF Earlier
    <2> QED BY <2>1, <2>3, <2>4, EarlierRight
  <1>5. \A f \in DOMAIN m.func : infos[f] = AnalyzeFunc(m, f, cached, indirect)
    <2> HIDE DEF cached, indirect, Cached, Indirect
    <2> QED BY DEF cached, indirect
  <1>6. DOMAIN cached = DOMAIN m.func
    OBVIOUS
  <1>7. /\ module = m /\ funcInfos = infos /\ Range(order) = DOMAIN m.func
        /\ Start(CallGraph(m, infos), order)
        /\ nodeComponents = <<>> /\ componentEffects = <<>>
        /\ effects = cached /\ indirectCallEffects = <<>>
    BY <1>1
  <1> HIDE DEF cached, indirect, infos, Cached, Indirect, Infos, Types0
  <1>8. \A f \in DOMAIN m.func : InfoRight(m, f, infos[f])
    BY <1>2, <1>3, <1>4, <1>5, AnalyzeRight
  <1> DEFINE G == CallGraph(m, infos)
  <1>9. /\ DOMAIN m.func \subseteq DOMAIN G /\ None \notin DOMAIN G
        /\ \A n \in DOMAIN G : G[n] \subseteq DOMAIN G /\ IsFiniteSet(G[n])
    BY <1>2, <1>8, CallGraphFacts
  <1>10. order \in Seq(DOMAIN G)
    <2>1. order \in Seq(Range(order))
      BY InputsAssumption
    <2> HIDE DEF G
    <2> QED BY <1>7, <1>9, <2>1
  <1>11. /\ Start(G, order) /\ children = G /\ input = order /\ inputIt = 1
         /\ currRoot = None /\ components = <<>>
    BY <1>7 DEF Start
  <1>12. IInv
    <2> HIDE DEF G
    <2> QED BY <1>9, <1>10, <1>11, StartInv
  <1>13. Analyzed
    BY <1>2, <1>7, <1>8, <1>11 DEF Analyzed, Funcs
  <1>14. /\ Handled = {} /\ DOMAIN indirectCallEffects = {} /\ DOMAIN componentEffects = {}
         /\ Len(componentEffects) = 0 /\ Len(components) = 0
         /\ componentEffects \in Seq({Unknown} \cup SUBSET Effects)
    BY <1>7, <1>11, EmptySeq, LenProperties DEF Handled
  <1>15. RootsSeen
    BY <1>11 DEF RootsSeen
  <1>16. Progress
    BY <1>11, <1>14 DEF Progress
  <1>17. Flows /\ Sourced
    BY <1>14 DEF Flows, Sourced
  <1>18. Stored
    <2>1. ASSUME NEW f \in Funcs
          PROVE  /\ effects[f] \in {Unknown} \cup SUBSET Effects
                 /\ Covers(effects[f], Execution(module, {f}))
      <3>1. {f} \in SUBSET DOMAIN m.func
        BY <1>7 DEF Funcs
      <3>2. Execution(m, {f}) \in {Unknown} \cup SUBSET Effects
        BY <1>2, <3>1, ExecutionType
      <3>3. effects[f] = Unknown \/ CacheRight(m, {f}, Execution(m, {f}), effects[f])
        BY <1>3, <1>7 DEF Funcs
      <3>4. effects[f] \in {Unknown} \cup SUBSET Effects
        BY <3>2, <3>3, EffectsAssumption DEF CacheRight
      <3>5. module = m
        BY <1>7
      <3> QED BY <3>3, <3>4, <3>5 DEF Covers, CacheRight
    <2> QED BY <1>6, <1>7, <1>14, <2>1 DEF Stored, Funcs
  <1> QED BY <1>12, <1>13, <1>15, <1>16, <1>17, <1>18 DEF GInv

\* The inductive invariant: what each handled node has on account of its edges.
THEOREM EffectsInvariance == EffectsSpec => []GInv
  <1>1. EffectsInit => GInv
    BY EffectsInitInv
  <1>2. GInv /\ [EffectsNext]_allVars => GInv'
    <2> SUFFICES ASSUME GInv, [EffectsNext]_allVars
                 PROVE  GInv'
      OBVIOUS
    <2>1. CASE Iterate
      BY <2>1, IterateInv
    <2>2. CASE Propagate
      BY <2>2, PropagateInv
    <2>3. CASE UNCHANGED allVars
      <3>1. /\ UNCHANGED vars /\ module' = module /\ funcInfos' = funcInfos
            /\ nodeComponents' = nodeComponents /\ componentEffects' = componentEffects
            /\ effects' = effects /\ indirectCallEffects' = indirectCallEffects
        BY <2>3 DEF allVars, outputs
      <3>2. /\ children' = children /\ input' = input /\ inputIt' = inputIt
            /\ workStack' = workStack /\ elementInfo' = elementInfo
            /\ currRoot' = currRoot /\ components' = components
        BY <3>1 DEF vars, searchVars
      <3>3. IInv'
        BY <3>1, StutterStep DEF GInv
      <3>4. /\ Analyzed' /\ Funcs' = Funcs
        BY <3>1, <3>2, AnalyzedKept DEF GInv
      <3>5. /\ \A n, m : Connected(n, m)' <=> Connected(n, m)
            /\ \A n : Component(n)' = Component(n)
        BY <3>2, SameGraph
      <3>6. Handled' = Handled /\ \A n : Value(n)' = Value(n)
        BY <3>1 DEF Handled, Value
      <3>7. RootsSeen' /\ Progress'
        BY <3>1, <3>2, <3>6 DEF GInv, RootsSeen, Visited, Progress
      <3>8. \A f : Cyclic(f)' <=> Cyclic(f)
        BY <3>1, <3>5 DEF Cyclic
      <3>9. Flows'
        BY <3>1, <3>2, <3>4, <3>6, <3>8 DEF GInv, Flows, Covers, Targets
      <3>10. Sourced' /\ Stored'
        BY <3>1, <3>4, <3>5, <3>6 DEF GInv, Sourced, Stored, Covers
      <3> QED BY <3>3, <3>4, <3>7, <3>9, <3>10 DEF GInv
    <2> QED BY <2>1, <2>2, <2>3 DEF EffectsNext, Stopped
  <1> QED BY <1>1, <1>2, PTL DEF EffectsSpec

-----------------------------------------------------------------------------
(* What follows *)

\* In a complete state every function has been handled: the roots were all seen,
\* the stack is empty, and what left it is in a component.
LEMMA AllHandled ==
  ASSUME GInv, Complete
  PROVE  Funcs \subseteq Handled
  <1> USE DEF GInv, IInv
  <1>1. /\ currRoot = None /\ workStack = <<>> /\ inputIt > Len(input)
        /\ Len(componentEffects) = Len(components)
    BY DEF Complete, AtEnd
  <1>2. DOMAIN workStack = {} /\ Gray = {}
    BY <1>1, EmptySeq, LenProperties DEF Gray, Path, Opened
  <1>3. OnStack = {}
    BY <1>2 DEF Belongs
  <1>4. DOMAIN components = DOMAIN componentEffects
    BY <1>1, LenProperties DEF Types, Progress
  <1>5. ASSUME NEW f \in Funcs
        PROVE  f \in Handled
    <2>1. PICK k \in DOMAIN input : input[k] = f
      BY DEF Analyzed, Range
    <2>2. k \in 1..Len(input) /\ Len(input) \in Nat /\ inputIt \in Nat
      BY LenProperties DEF Types
    <2>3. k \in 1..inputIt - 1
      BY <1>1, <2>2
    <2>4. f \in Visited
      BY <1>2, <2>1, <2>3 DEF RootsSeen
    <2>5. PICK j \in DOMAIN components : f \in components[j]
      BY <1>3, <2>4 DEF Parts, Types
    <2> QED BY <1>4, <2>5 DEF Progress
  <1> QED BY <1>5

\* What is lost is all that V lacks.
LEMMA LostSpared ==
  ASSUME Analyzed, NEW F \in SUBSET Funcs, NEW V \in SUBSET Effects,
         NEW f \in F
  PROVE  /\ Spared(V \cup LostThrows(F), f)
         /\ V \cup LostThrows(F) \in SUBSET Effects
         /\ V \cup LostThrows(F) # Unknown
         /\ Covers(V \cup LostThrows(F), V)
  <1>1. Spared(V \cup LostThrows(F), f)
    BY DEF Spared, LostThrows
  <1>2. V \cup LostThrows(F) \in SUBSET Effects
    BY EffectsAssumption DEF LostThrows
  <1>3. V # Unknown /\ V \cup LostThrows(F) # Unknown
    BY <1>2, EffectsAssumption
  <1> QED BY <1>1, <1>2, <1>3 DEF Covers

\* The values of the handled nodes.
LEMMA ValueType ==
  ASSUME Progress, NEW n \in Handled
  PROVE  Value(n) \in {Unknown} \cup SUBSET Effects
  <1>1. nodeComponents[n] \in 1..Len(componentEffects)
    BY LenProperties DEF Progress
  <1> QED BY <1>1, ElementOfSeq DEF Progress, Value

\* Once the effects of a function are stored they cover its executions, but for
\* throws that are lost; before that what was cached of it does.
LEMMA FunctionsCovered ==
  ASSUME GInv, NEW f \in Funcs, effects[f] # Unknown
  PROVE  Covers(effects[f] \cup LostThrows({f}), Execution(module, {f}))
  <1>1. {f} \in SUBSET Funcs /\ f \in {f}
    OBVIOUS
  <1>2. CASE f \in Handled
    <2>1. effects[f] = Value(f) /\ Value(f) \in SUBSET Effects
      BY <1>2, ValueType DEF GInv, Stored
    <2> DEFINE V == Value(f) \cup LostThrows({f})
    <2>2. Spared(V, f) /\ V # Unknown /\ Covers(V, Value(f))
      BY <1>1, <2>1, LostSpared DEF GInv
    <2> HIDE DEF V
    <2>3. Covered(V, f)
      BY <1>2, <2>2, HandledCovered, HandledNodes DEF GInv, IInv
    <2> QED BY <2>1, <2>3 DEF Covered, V
  <1>3. CASE f \notin Handled
    <2>1. /\ effects[f] \in SUBSET Effects
          /\ Covers(effects[f], Execution(module, {f}))
      BY <1>3 DEF GInv, Stored
    <2>2. Covers(effects[f] \cup LostThrows({f}), effects[f])
      BY <1>1, <2>1, LostSpared DEF GInv
    <2> QED BY <2>1, <2>2, CoversTrans
  <1> QED BY <1>2, <1>3

LEMMA IndirectCovered ==
  ASSUME GInv, NEW t \in DOMAIN indirectCallEffects, indirectCallEffects[t] # Unknown
  PROVE  Covers(indirectCallEffects[t] \cup LostThrows(Targets(module, t)),
                IndirectExecution(module, t))
  <1>1. /\ t \in Handled \ Funcs /\ indirectCallEffects[t] = Value(t)
        /\ Handled \subseteq Nodes
    BY HandledNodes DEF GInv, IInv, Stored
  <1>2. Value(t) \in SUBSET Effects
    BY <1>1, ValueType DEF GInv
  <1> DEFINE V == Value(t) \cup LostThrows(Targets(module, t))
  <1>3. CASE Targets(module, t) = {}
    <2>1. Covers(Value(t), {"trap"})
      BY <1>1, <1>3 DEF GInv, Flows
    <2>2. Covers(V, {"trap"})
      BY <1>2, <2>1, EffectsAssumption DEF Covers
    <2> HIDE DEF V
    <2>3. Covers(V, IndirectExecution(module, t))
      BY <1>3, <2>2 DEF IndirectExecution
    <2> QED BY <1>1, <2>3 DEF V
  <1>4. CASE Targets(module, t) # {}
    <2>1. Targets(module, t) \in SUBSET Funcs
      BY DEF Targets, Funcs
    <2>2. \A g \in Targets(module, t) :
             Spared(V, g) /\ V # Unknown /\ Covers(V, Value(t))
      BY <1>2, <2>1, LostSpared DEF GInv
    <2> HIDE DEF V
    <2>3. ASSUME NEW g \in Targets(module, t)
          PROVE  Covers(V, Execution(module, {g}))
      <3> DEFINE W == {n \in Nodes \cap Handled : Covers(V, Value(n))}
      <3>1. g \in Funcs /\ Connected(t, g)
        BY <1>1, TargetsReached DEF GInv, IInv
      <3>2. t \in W
        BY <1>1, <2>2
      <3>3. ASSUME NEW n \in W, NEW c \in children[n]
            PROVE  c \in W
        <4>1. c \in Handled /\ Covers(Value(n), Value(c))
          BY DEF GInv, Flows
        <4> QED BY <1>1, <4>1, CoversTrans
      <3>4. g \in W
        BY <3>1, <3>2, <3>3, ReachClosed
      <3>5. Covered(V, g)
        BY <1>1, <2>2, <3>1, <3>4, HandledCovered DEF GInv, IInv
      <3> QED BY <3>5 DEF Covered
    <2>4. Targets(module, t) \in SUBSET DOMAIN module.func
      BY <2>1 DEF Funcs
    <2>5. Covers(V, Execution(module, Targets(module, t)))
      BY <2>3, <2>4, ExecutionUnion DEF GInv, Analyzed
    <2>6. Covers(V, IndirectExecution(module, t))
      BY <1>4, <2>5 DEF IndirectExecution
    <2> QED BY <1>1, <2>6 DEF V
  <1> QED BY <1>3, <1>4

\* The results have their types, and a component has a number exactly when its
\* effects have been computed.
THEOREM EffectsTypeCorrect == EffectsSpec => []EffectsTypeOK
  <1>1. GInv => EffectsTypeOK
    <2> SUFFICES ASSUME GInv
                 PROVE  EffectsTypeOK
      OBVIOUS
    <2>1. TypeOK
      BY InvTypes DEF GInv
    <2>2. DOMAIN nodeComponents = UNION {components[k] : k \in DOMAIN componentEffects}
      BY DEF GInv, Progress, Handled
    <2>3. \A k \in DOMAIN componentEffects :
             componentEffects[k] \in {Unknown} \cup SUBSET Effects
      BY ElementOfSeq, LenProperties DEF GInv, Progress
    <2>4. \A n \in Handled : Value(n) \in {Unknown} \cup SUBSET Effects
      BY <2>3 DEF GInv, Progress, Value
    <2>5. \A f \in DOMAIN effects : effects[f] \in {Unknown} \cup SUBSET Effects
      BY <2>4 DEF GInv, Stored
    <2>6. \A t \in DOMAIN indirectCallEffects :
             indirectCallEffects[t] \in {Unknown} \cup SUBSET Effects
      BY <2>4 DEF GInv, Stored
    <2>7. Range(componentEffects) \cup Range(effects) \cup Range(indirectCallEffects)
             \subseteq {Unknown} \cup SUBSET Effects
      BY <2>3, <2>5, <2>6 DEF Range
    <2> QED BY <2>1, <2>2, <2>7 DEF EffectsTypeOK
  <1> QED BY <1>1, EffectsInvariance, PTL

\* Whatever an execution of a function can do is in the effects cached for it:
\* those of all it may call, traps of endless recursion and of calls of a type
\* without functions included.  Only a throw can be missing, and only if a function
\* is entered that has a cached indirect return call beside a call of which nothing
\* was cached (GlobalEffects.cpp:75).
THEOREM ExecutionsCovered == EffectsSpec => []EffectsCoverExecutions
  <1>1. GInv => EffectsCoverExecutions
    BY FunctionsCovered DEF EffectsCoverExecutions
  <1> QED BY <1>1, EffectsInvariance, PTL

\* The same of the effects cached for the indirect calls of a type, with the same
\* exception for throws.
THEOREM IndirectExecutionsCovered == EffectsSpec => []IndirectEffectsCoverExecutions
  <1>1. GInv => IndirectEffectsCoverExecutions
    BY IndirectCovered DEF IndirectEffectsCoverExecutions
  <1> QED BY <1>1, EffectsInvariance, PTL

\* What is spurious in a callee is so in its caller.
LEMMA SpuriousOn ==
  ASSUME Analyzed, NEW f \in Funcs, NEW g \in Entered(module, f)
  PROVE  Spurious(module, g) \subseteq Spurious(module, f)
  <1>1. Entered(module, g) \subseteq Entered(module, f)
    BY EnteredFacts DEF Analyzed, Funcs
  <1>2. Returns(module, {g}) => Returns(module, {f})
    BY <1>1 DEF Returns
  <1> QED BY <1>2 DEF Spurious

\* The pass is as precise as what it knows of a call allows: all but traps and,
\* where a return call is made, throws is an effect of some execution, and nothing
\* is given up that could be known.
THEOREM NothingInvented == EffectsSpec => []NoEffectsInvented
  <1>1. GInv => NoEffectsInvented
    <2> SUFFICES ASSUME GInv, Complete, NEW f \in Funcs
                 PROVE  IF effects[f] = Unknown THEN Execution(module, {f}) = Unknown
                        ELSE effects[f] \subseteq Execution(module, {f}) \cup Spurious(module, f)
      BY DEF NoEffectsInvented
    <2>1. f \in Handled /\ effects[f] = Value(f)
      BY AllHandled DEF GInv, Stored
    <2>2. /\ IsModule(module) /\ Funcs = DOMAIN module.func
          /\ \A g \in Funcs : InfoRight(module, g, funcInfos[g])
          /\ {f} \in SUBSET DOMAIN module.func
      BY DEF GInv, Analyzed, Funcs
    <2>3. CASE Value(f) = Unknown
      <3>1. PICK g \in Funcs : Connected(f, g) /\ funcInfos[g].effects = Unknown
        BY <2>1, <2>3 DEF GInv, Sourced
      <3>2. g \in Entered(module, f)
        BY <3>1, ConnectedEntered DEF GInv, IInv
      <3>3. Opaque(module, g)
        BY <2>2, <3>1 DEF InfoRight
      <3>4. Execution(module, {f}) = Unknown
        BY <2>2, <3>2, <3>3, ExecutionFacts
      <3> QED BY <2>1, <2>3, <3>4
    <2>4. CASE Value(f) # Unknown
      <3>1. Execution(module, {f}) # Unknown
        <4>1. Covers(effects[f] \cup LostThrows({f}), Execution(module, {f}))
          BY <2>1, <2>4, FunctionsCovered
        <4>2. effects[f] \cup LostThrows({f}) # Unknown
          <5>1. Value(f) \in SUBSET Effects
            BY <2>1, <2>4, ValueType DEF GInv
          <5> QED BY <2>1, <5>1, LostSpared DEF GInv
        <4> QED BY <4>1, <4>2 DEF Covers
      <3>2. ASSUME NEW e \in Value(f), e # "trap"
            PROVE  e \in Execution(module, {f}) \cup Spurious(module, f)
        <4>1. PICK g \in Funcs : /\ Connected(f, g)
                                 /\ funcInfos[g].effects # Unknown
                                 /\ e \in funcInfos[g].effects
          BY <2>1, <2>4, <3>2 DEF GInv, Sourced
        <4>2. g \in Entered(module, f)
          BY <4>1, ConnectedEntered DEF GInv, IInv
        <4>3. Covers(Execution(module, {f}), Execution(module, {g}))
          BY <2>2, <4>2, ExecutionGrows
        <4>4. e \in Execution(module, {g}) \/ e \in Spurious(module, g)
          BY <2>2, <3>1, <4>1, <4>3 DEF InfoRight, Covers
        <4>5. CASE e \in Execution(module, {g})
          BY <3>1, <4>3, <4>5 DEF Covers
        <4>6. CASE e \in Spurious(module, g)
          BY <4>2, <4>6, SpuriousOn DEF GInv
        <4> QED BY <4>4, <4>5, <4>6
      <3>3. "trap" \in Spurious(module, f)
        BY DEF Spurious
      <3> QED BY <2>1, <2>4, <3>2, <3>3
    <2> QED BY <2>3, <2>4
  <1> QED BY <1>1, EffectsInvariance, PTL

-----------------------------------------------------------------------------
(* The end of the pass                                                     *)

\* What PassEnds says of the state in which the pass ends: no function is left
\* without a component, and so without its effects.
THEOREM EndsWithEveryFunction ==
    EffectsSpec => [](Complete => Funcs \subseteq DOMAIN nodeComponents)
  <1>1. GInv => (Complete => Funcs \subseteq DOMAIN nodeComponents)
    BY AllHandled DEF GInv, Progress, Handled
  <1> QED BY <1>1, EffectsInvariance, PTL

\* The iterator gets further, or one more of its components is through.
Onward ==
    \/ Further /\ UNCHANGED componentEffects
    \/ /\ UNCHANGED vars
       /\ Len(componentEffects) < Len(componentEffects')
       /\ Len(componentEffects') <= Len(components)

LEMMA EffectsOnward ==
  ASSUME GInv, Asked, [EffectsNext]_allVars
  PROVE  Asked' /\ (Onward \/ UNCHANGED allVars)
  <1>1. CASE Iterate
    <2>1. Step /\ UNCHANGED componentEffects
      BY <1>1 DEF Iterate, outputs
    <2>2. Asked' /\ Further
      BY <2>1, StepAsked DEF GInv
    <2> QED BY <2>1, <2>2 DEF Onward
  <1>2. CASE Propagate
    <2>1. UNCHANGED vars
      BY <1>2 DEF Propagate
    <2>2. Asked'
      BY <2>1, AskedStutters
    <2>3. componentEffects \in Seq({Unknown} \cup SUBSET Effects)
      BY DEF GInv, Progress
    <2>4. PICK result : componentEffects' = Append(componentEffects, result)
      BY <1>2 DEF Propagate
    <2>5. Len(componentEffects') = Len(componentEffects) + 1
      BY <2>3, <2>4
    <2>6. Len(componentEffects) \in Nat /\ Len(components) \in Nat
      BY <2>3, LenProperties DEF GInv, IInv, Types
    <2>7. Len(componentEffects) < Len(components)
      BY <1>2 DEF Propagate
    <2> QED BY <2>1, <2>2, <2>5, <2>6, <2>7 DEF Onward
  <1>3. CASE UNCHANGED allVars
    <2>1. UNCHANGED vars
      BY <1>3 DEF allVars
    <2> QED BY <1>3, <2>1, AskedStutters
  <1> QED BY <1>1, <1>2, <1>3 DEF EffectsNext, Stopped

\* The rest of PassEnds but for fairness: every step gets the iterator further on
\* the call graph, which is finite, or stores the effects of one more component.
THEOREM PassGoesOn == EffectsSpec => [][Onward]_allVars
  <1>1. EffectsInit => Asked
    BY StartAsked, InputsAssumption DEF EffectsInit
  <1>2. GInv /\ Asked /\ [EffectsNext]_allVars => Asked' /\ [Onward]_allVars
    BY EffectsOnward
  <1> QED BY <1>1, <1>2, EffectsInvariance, PTL DEF EffectsSpec
=============================================================================
