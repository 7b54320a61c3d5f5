---------------------------- MODULE OnceReduction ----------------------------
(***************************************************************************)
(* The pass that removes calls of functions known to have run              *)
(* (src/src/passes/OnceReduction.cpp).  A once function starts with        *)
(*     if (once) return; once = 1;                                         *)
(* for a global that nobody else reads and nobody sets to zero.  Functions *)
(* are scanned, then optimized, in parallel and in any order; the          *)
(* optimization is repeated while more globals are found to be set by      *)
(* calls, and in the end the once functions themselves are simplified.     *)
(*                                                                         *)
(* A body is a sequence of items: calls of functions without parameters    *)
(* and results, tail calls, constant sets, reads and other effects, and    *)
(* ifs whose arms hold no further ifs.                                     *)
(***************************************************************************)
EXTENDS Integers, SequencesExt

CONSTANTS
    Modules,    \* the modules the pass may be given: order (of functions),
                \* body, init (of globals), private (integer globals neither
                \* imported nor exported), idempotent and exported functions,
                \* fake (the names of their fake globals)
    NoGlobal,
    Host        \* the condition of an if the host decides

VARIABLES
    module,             \* the module before the pass
    body,               \* body[f]: as the pass leaves it
    phase,              \* scan, optimize, bodies, done
    todo,               \* the functions still to do in this phase
    onceGlobals,        \* globals that may be "once"
    onceFuncGlobals,    \* the once global of each function, or NoGlobal
    sets,               \* onceGlobalsSetInFuncs
    newSets,            \* newOnceGlobalsSetInFuncs
    last,               \* lastOnceGlobalsSet
    removedExitLogic

vars == <<module, body, phase, todo, onceGlobals, onceFuncGlobals, sets,
          newSets, last, removedExitLogic>>

Functions == DOMAIN body

Nop == [op |-> "nop"]
Return == [op |-> "return"]

\* An item, or the items of its arms along with it.
WithArms(item) == IF item.op = "if" THEN <<item>> \o item.arms[1] \o item.arms[2]
                  ELSE <<item>>

Items(items) == FlattenSeq([i \in DOMAIN items |-> WithArms(items[i])])

IsCall(item) == item.op \in {"call", "return_call"}
Reads(item, g) == \/ item.op = "get" /\ item.global = g
                  \/ item.op = "if" /\ item.cond = g

\* A body is a sequence of items, and calls name functions of the module.
IsBody(b, functions) ==
    /\ b \in Seq(Range(b))
    /\ \A x \in Range(b) : /\ "op" \in DOMAIN x
                           /\ IsCall(x) => x.func \in functions

ASSUME ModulesAssumption ==
    \A m \in Modules :
        /\ IsFiniteSet(DOMAIN m.body) /\ IsFiniteSet(m.private)
        /\ m.order \in SetToSeqs(DOMAIN m.body)
        /\ m.idempotent \subseteq DOMAIN m.body /\ DOMAIN m.fake = m.idempotent
        /\ \A f \in DOMAIN m.body : IsBody(m.body[f], DOMAIN m.body)

\* Names::getValidGlobalName finds a name no global of the module has.  It does
\* not look at the fake names given out before, so two functions may share one:
\* beside a global f, the functions f and f_1 both get f_1.
ASSUME NamesAssumption ==
    \A m \in Modules :
        /\ Range(m.fake) \cap DOMAIN m.init = {} /\ NoGlobal \notin DOMAIN m.init
        /\ \A f \in DOMAIN m.body : \A x \in Range(m.body[f]) :
              x.op = "if" => {"cond", "arms"} \subseteq DOMAIN x

Start(m) ==
    /\ module = m
    /\ body = m.body
    /\ phase = "scan"
    /\ todo = DOMAIN m.body
    /\ onceGlobals = m.private
    /\ onceFuncGlobals = [f \in DOMAIN m.body |-> NoGlobal]
    /\ sets = [f \in DOMAIN m.body |-> {}]
    /\ newSets = [f \in DOMAIN m.body |-> {}]
    /\ last = 0
    /\ removedExitLogic = {}

Init == \E m \in Modules : Start(m)

\* getOnceGlobal: the global that guards these items, or NoGlobal.
OnceGlobal(items) ==
    IF /\ Len(items) >= 2
       /\ items[1].op = "if"
       /\ items[1].cond # Host
       /\ items[1].arms = <<<<Return>>, <<>>>>
       /\ items[2].op = "set"
       /\ items[2].global = items[1].cond
    THEN items[1].cond
    ELSE NoGlobal

\* Globals these items use in a way that rules them out.
Disqualified(items) ==
    {g \in DOMAIN module.init :
        \/ \E i \in DOMAIN Items(items) :
              LET x == Items(items)[i] IN x.op = "set" /\ x.global = g /\ x.value <= 0
        \/ Len(SelectSeq(Items(items), LAMBDA x : Reads(x, g)))
               > IF OnceGlobal(items) = g THEN 1 ELSE 0}

\* Scanner::visitFunction, which only ever turns entries of onceGlobals off.
Scan(f) ==
    /\ phase = "scan"
    /\ f \in todo
    /\ todo' = todo \ {f}
    /\ onceFuncGlobals' = [onceFuncGlobals EXCEPT ![f] = OnceGlobal(body[f])]
    /\ onceGlobals' = onceGlobals \ Disqualified(body[f])
    /\ UNCHANGED <<module, body, phase, sets, newSets, last, removedExitLogic>>

\* A function marked idempotent gets a fake global.
Marked(f) ==
    IF onceFuncGlobals[f] \in onceGlobals THEN onceFuncGlobals[f]
    ELSE IF f \in module.idempotent THEN module.fake[f] ELSE NoGlobal

\* Mutant: the count starts with the globals the once functions start with.
CountOfSets == Cardinality({f \in Functions : Marked(f) # NoGlobal})

InitialCount == 0

\* What the scans found is combined and the first iteration set up.
Combine ==
    /\ phase = "scan"
    /\ todo = {}
    /\ onceFuncGlobals' = [f \in Functions |-> Marked(f)]
    /\ onceGlobals' = onceGlobals \cup ({Marked(f) : f \in Functions} \ {NoGlobal})
    /\ sets' = [f \in Functions |-> {Marked(f)} \ {NoGlobal}]
    /\ IF \A f \in Functions : Marked(f) = NoGlobal
       THEN phase' = "done" /\ UNCHANGED todo
       ELSE phase' = "optimize" /\ todo' = Functions
    /\ last' = InitialCount
    /\ UNCHANGED <<module, body, newSets, removedExitLogic>>

\* The once globals known to be written by an item.
Writes(item) ==
    IF item.op = "set" THEN {item.global} \cap onceGlobals
    ELSE IF ~IsCall(item) THEN {}
    ELSE IF onceFuncGlobals[item.func] # NoGlobal THEN {onceFuncGlobals[item.func]}
    ELSE sets[item.func]

IsOnce(item) ==
    \/ item.op = "set" /\ item.global \in onceGlobals
    \/ IsCall(item) /\ onceFuncGlobals[item.func] # NoGlobal

(***************************************************************************)
(* The optimizer walks the items in order and collects what has been       *)
(* written on the way; a once item that writes it again becomes a nop.     *)
(* live says whether the next item can be reached.                         *)
(***************************************************************************)
Visit(acc, x) ==
    IF ~acc.live THEN [acc EXCEPT !.out = Append(@, x)]
    ELSE [out |-> Append(acc.out, IF IsOnce(x) /\ Writes(x) \subseteq acc.written
                                  THEN Nop ELSE x),
          written |-> acc.written \cup Writes(x),
          live |-> x.op \notin {"return", "return_call"}]

Straight(items, written) ==
    FoldLeft(Visit, [out |-> <<>>, written |-> written, live |-> TRUE], items)

\* Mutant: what either arm wrote is taken as written.
AfterEitherArm(written, arm1, arm2) == arm1.written \cup arm2.written

\* What is known after an if is what its immediate dominator wrote.
AfterIf(written, arm1, arm2) ==
    IF arm1.live = arm2.live THEN written
    ELSE IF arm1.live THEN arm1.written ELSE arm2.written

\* An if is walked arm by arm, each from what is known before it.
WalkItem(acc, x) ==
    IF x.op # "if" \/ ~acc.live THEN Visit(acc, x)
    ELSE LET s1 == Straight(x.arms[1], acc.written)
             s2 == Straight(x.arms[2], acc.written)
         IN  [out |-> Append(acc.out, [x EXCEPT !.arms = <<s1.out, s2.out>>]),
              written |-> AfterIf(acc.written, s1, s2),
              live |-> s1.live \/ s2.live]

Walk(items) ==
    FoldLeft(WalkItem, [out |-> <<>>, written |-> {}, live |-> TRUE], items)

\* The first basic block ends with the first if: without exception handling, with
\* which calls end blocks too.
Entry(items) ==
    LET ifs == {i \in DOMAIN items : items[i].op = "if"}
    IN  IF ifs = {} THEN items ELSE SubSeq(items, 1, Min(ifs) - 1)

\* Optimizer::doWalkFunction, which reads sets and writes newSets[f] only.
Optimize(f) ==
    /\ phase = "optimize"
    /\ f \in todo
    /\ todo' = todo \ {f}
    /\ body' = [body EXCEPT ![f] = Walk(@).out]
    /\ newSets' = [newSets EXCEPT ![f] = Straight(Entry(body[f]), {}).written]
    /\ UNCHANGED <<module, phase, onceGlobals, onceFuncGlobals, sets, last,
                   removedExitLogic>>

Count(s) == FoldFunction(LAMBDA x, n : Cardinality(x) + n, 0, s)

\* Mutant: it goes on until fewer globals are found.
NotFewer(count) == count >= last

More(count) == count > last

\* The sets are swapped; more of them means another iteration.
EndIteration ==
    /\ phase = "optimize"
    /\ todo = {}
    /\ sets' = newSets
    /\ newSets' = [f \in Functions |-> {}]
    /\ IF More(Count(newSets))
       THEN last' = Count(newSets) /\ UNCHANGED phase
       ELSE phase' = "bodies" /\ UNCHANGED last
    /\ todo' = Functions
    /\ UNCHANGED <<module, body, onceGlobals, onceFuncGlobals, removedExitLogic>>

\* Mutant: the exit logic goes whatever the called function lost.
CallsOnce(f) ==
    /\ Len(body[f]) = 3
    /\ IsCall(body[f][3])
    /\ onceFuncGlobals[body[f][3].func] # NoGlobal

\* Only a call of a once function that has its own exit logic follows.
CallsGuarded(f) ==
    /\ Len(body[f]) = 3
    /\ IsCall(body[f][3])
    /\ onceFuncGlobals[body[f][3].func] # NoGlobal
    /\ body[f][3].func \notin removedExitLogic

NextInOrder == module.order[Len(module.order) - Cardinality(todo) + 1]

\* optimizeOnceBodies, one function after the other.
OptimizeBody ==
    LET f == NextInOrder
        guarded == onceFuncGlobals[f] \in DOMAIN module.init
    IN  /\ phase = "bodies"
        /\ todo # {}
        /\ todo' = todo \ {f}
        /\ IF guarded /\ Len(body[f]) = 2
           THEN body' = [body EXCEPT ![f] = <<Nop>>] /\ UNCHANGED removedExitLogic
           ELSE IF guarded /\ CallsGuarded(f)
           THEN /\ body' = [body EXCEPT ![f][1] = Nop, ![f][2] = Nop]
                /\ removedExitLogic' = removedExitLogic \cup {f}
           ELSE UNCHANGED <<body, removedExitLogic>>
        /\ UNCHANGED <<module, phase, onceGlobals, onceFuncGlobals, sets,
                       newSets, last>>

Finish ==
    /\ phase = "bodies"
    /\ todo = {}
    /\ phase' = "done"
    /\ UNCHANGED <<module, body, todo, onceGlobals, onceFuncGlobals, sets,
                   newSets, last, removedExitLogic>>

Next ==
    \/ \E f \in todo : Scan(f) \/ Optimize(f)
    \/ Combine \/ EndIteration \/ OptimizeBody \/ Finish
    \/ phase = "done" /\ UNCHANGED vars

Spec == Init /\ [][Next]_vars /\ WF_vars(Next)
-----------------------------------------------------------------------------
(* The assertions of the pass: iterations never find fewer globals         *)
(* (OnceReduction.cpp:488), though calls become nops meanwhile; and the    *)
(* global of a once function is a once global (:314).                      *)
AssertionsHold ==
    /\ phase = "optimize" /\ todo = {} => Count(newSets) >= last
    /\ phase \in {"optimize", "bodies"} =>
          \A f \in Functions : onceFuncGlobals[f] \in onceGlobals \cup {NoGlobal}

(* The loop, which has no limit of its own, comes to an end.               *)
Terminates == <>(phase = "done")
=============================================================================
