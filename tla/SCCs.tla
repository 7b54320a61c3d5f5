-------------------------------- MODULE SCCs --------------------------------
(***************************************************************************)
(* The iterator over strongly connected components of                      *)
(* src/src/support/strongly_connected_components.h: Tarjan's algorithm     *)
(* with an explicit work stack, driven by a caller that asks for the next  *)
(* component or for the next element of the current one.                   *)
(*                                                                         *)
(* A step is one round of a loop of stepToNextGroup, or one call of        *)
(* stepToNextElem.                                                         *)
(***************************************************************************)
EXTENDS Integers, Sequences, FiniteSets, SequencesExt

CONSTANTS
    Graph,          \* the graphs Init starts from
    Inputs,         \* the sequences of elements to look at
    None            \* std::nullopt

ASSUME GraphAssumption ==
    \A graph \in Graph :
        /\ None \notin DOMAIN graph
        /\ \A n \in DOMAIN graph :
              graph[n] \subseteq DOMAIN graph /\ IsFiniteSet(graph[n])
ASSUME InputsAssumption ==
    \A elements \in Inputs : elements \in Seq(Range(elements))

VARIABLES
    children,       \* the graph: children[n] is what pushChildren(n) pushes
    input, inputIt, \* the elements, and the index of the next one
    workStack, stack, elementInfo, currRoot,
    components      \* what the caller has been given, the last one growing

searchVars == <<input, inputIt, workStack, stack, elementInfo, currRoot>>
vars == <<children, searchVars, components>>

Item(n, parent) == [item |-> n, parent |-> parent, processedChildren |-> FALSE]

Start(graph, elements) ==
    /\ children = graph
    /\ input = elements /\ inputIt = 1
    /\ workStack = <<>> /\ stack = <<>> /\ elementInfo = <<>>
    /\ currRoot = None
    /\ components = <<>>

Init ==
    \E graph \in Graph : \E elements \in Inputs :
        Range(elements) \subseteq DOMAIN graph /\ Start(graph, elements)

-----------------------------------------------------------------------------
(* stepToNextGroup *)

Visited == DOMAIN elementInfo
Searching == currRoot = None /\ workStack # <<>>
Work == Last(workStack)

\* The smaller of the parent's lowlink and of k.
LowerParent(parent, k) ==
    elementInfo' =
        IF parent = None \/ elementInfo[parent].lowlink <= k THEN elementInfo
        ELSE [elementInfo EXCEPT ![parent].lowlink = k]

StepToNextInput ==
    /\ currRoot = None
    /\ workStack = <<>> /\ inputIt <= Len(input)
    /\ workStack' = <<Item(input[inputIt], None)>>
    /\ inputIt' = inputIt + 1
    /\ UNCHANGED <<children, input, stack, elementInfo, currRoot, components>>

\* An item not seen before: it gets the next index, its children, in whatever
\* order pushChildren visits them, go onto the work stack.
Visit ==
    /\ Searching
    /\ ~Work.processedChildren /\ Work.item \notin Visited
    /\ LET n     == Work.item
           index == Cardinality(Visited)
       IN  /\ elementInfo' = [m \in Visited \cup {n} |->
                IF m = n THEN [index |-> index, lowlink |-> index, onStack |-> TRUE]
                         ELSE elementInfo[m]]
           /\ stack' = Append(stack, n)
           /\ \E order \in SetToSeqs(children[n]) :
                 workStack' =
                    Append(Front(workStack), [Work EXCEPT !.processedChildren = TRUE])
                       \o [k \in DOMAIN order |-> Item(order[k], n)]
    /\ UNCHANGED <<children, input, inputIt, currRoot, components>>

\* Mutant: a finished component pulls the lowlink down as well.
RevisitAny ==
    /\ Searching
    /\ ~Work.processedChildren /\ Work.item \in Visited
    /\ LowerParent(Work.parent, elementInfo[Work.item].index)
    /\ workStack' = Front(workStack)
    /\ UNCHANGED <<children, input, inputIt, stack, currRoot, components>>

\* Mutant: the item stays on the work stack.
RevisitForever ==
    /\ Searching
    /\ ~Work.processedChildren /\ Work.item \in Visited
    /\ IF elementInfo[Work.item].onStack
       THEN LowerParent(Work.parent, elementInfo[Work.item].index)
       ELSE UNCHANGED elementInfo
    /\ UNCHANGED <<children, input, inputIt, workStack, stack, currRoot, components>>

\* An item seen before counts only while it is on the stack.
Revisit ==
    /\ Searching
    /\ ~Work.processedChildren /\ Work.item \in Visited
    /\ IF elementInfo[Work.item].onStack
       THEN LowerParent(Work.parent, elementInfo[Work.item].index)
       ELSE UNCHANGED elementInfo
    /\ workStack' = Front(workStack)
    /\ UNCHANGED <<children, input, inputIt, stack, currRoot, components>>

\* Mutant: an item that was merged into another one is a root.
IsAnyRoot(n) == elementInfo[n].lowlink <= elementInfo[n].index

IsRoot(n) == elementInfo[n].lowlink = elementInfo[n].index

\* The children of the item are done: its lowlink is final.
FinishItem ==
    /\ Searching
    /\ Work.processedChildren
    /\ LowerParent(Work.parent, elementInfo[Work.item].lowlink)
    /\ workStack' = Front(workStack)
    /\ IF IsRoot(Work.item)
       THEN currRoot' = Work.item /\ components' = Append(components, {})
       ELSE UNCHANGED <<currRoot, components>>
    /\ UNCHANGED <<children, input, inputIt, stack>>

-----------------------------------------------------------------------------
(* stepToNextElem, which operator++ of the outer iterator calls for the rest of a
   component the caller did not look at *)

\* Mutant: the element remains marked.
LeaveOnStack(n) == UNCHANGED elementInfo

TakeOffStack(n) == elementInfo' = [elementInfo EXCEPT ![n].onStack = FALSE]

StepToNextElem ==
    /\ currRoot # None
    /\ LET n == Last(stack)
       IN  /\ currRoot' = IF n = currRoot THEN None ELSE currRoot
           /\ TakeOffStack(n)
           /\ components' = [components EXCEPT ![Len(components)] = @ \cup {n}]
    /\ stack' = Front(stack)
    /\ UNCHANGED <<children, input, inputIt, workStack>>

-----------------------------------------------------------------------------

Step == StepToNextInput \/ Visit \/ Revisit \/ FinishItem \/ StepToNextElem

AtEnd == currRoot = None /\ workStack = <<>> /\ inputIt > Len(input)
Finished == AtEnd /\ UNCHANGED vars

Next == Step \/ Finished

\* The caller iterates to the end.
Spec == Init /\ [][Next]_vars /\ WF_vars(Step)

-----------------------------------------------------------------------------
(* Properties *)

Nodes == DOMAIN children

\* What can be reached from n: the nodes in every set that n is in and no edge
\* of the graph leaves.
Reach(graph, n) ==
    {m \in DOMAIN graph :
        \A S \in SUBSET DOMAIN graph :
            n \in S /\ (\A s \in S : graph[s] \subseteq S) => m \in S}

Connected(n, m) == m \in Reach(children, n)

Delivered == IF currRoot = None THEN DOMAIN components ELSE 1..Len(components) - 1

TypeOK ==
    /\ Visited \subseteq Nodes
    /\ {elementInfo[n].index : n \in Visited} = 0..Cardinality(Visited) - 1
    /\ \A n \in Visited : elementInfo[n].lowlink <= elementInfo[n].index
    /\ \A n \in Visited : elementInfo[n].onStack <=> n \in Range(stack)
    /\ currRoot \in Nodes \cup {None}
    /\ \A work \in Range(workStack) : work.item \in Nodes

\* The assertions: an item on the stack is revisited on behalf of a parent, and
\* an element is taken only from a component (lines 107 and 148).  The stack is
\* not empty as long as its component is not complete.
AssertionsHold ==
    /\ Searching /\ ~Work.processedChildren /\ Work.item \in Visited =>
          (elementInfo[Work.item].onStack => Work.parent # None)
    /\ currRoot # None => currRoot \in Range(stack)

\* Elements stay on the stack iff they reach an earlier element of the stack
\* (lines 55-56 and 132-134): each one reaches all that come later.
StackInOrder ==
    \A j, k \in DOMAIN stack :
        j < k => /\ elementInfo[stack[j]].index < elementInfo[stack[k]].index
                 /\ Connected(stack[j], stack[k])

Component(n) == {m \in Nodes : Connected(n, m) /\ Connected(m, n)}

\* The components delivered are those of the graph, each once.
DeliversComponents ==
    \A k \in Delivered :
        /\ components[k] # {}
        /\ \A n \in components[k] : components[k] = Component(n)
        /\ \A j \in Delivered \ {k} : components[j] \cap components[k] = {}

\* A component comes after all that it has edges to: GlobalEffects looks up the
\* components of callees with at() (GlobalEffects.cpp:329).
CalleesFirst ==
    \A k \in Delivered : \A n \in components[k] : \A m \in children[n] :
        \E j \in 1..k : m \in components[j]

\* What can be reached from the input, and nothing else.
AllDelivered ==
    UNION Range(components) = UNION {Reach(children, n) : n \in Range(input)}

\* The iteration ends, with everything that can be reached from the input.
DeliversAll == <>(AtEnd /\ AllDelivered)
=============================================================================
