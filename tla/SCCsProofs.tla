----------------------------- MODULE SCCsProofs -----------------------------
(***************************************************************************)
(* Safety of SCCs, the iterative form of Tarjan's algorithm, for every     *)
(* set of graphs and every input.  The graphs may be infinite as long as   *)
(* every node has finitely many children.                                  *)
(***************************************************************************)
EXTENDS SCCs, SequenceTheorems, FiniteSetTheorems, TLAPS

WorkItem == [item : Nodes, parent : Nodes \cup {None}, processedChildren : BOOLEAN]
Info == [index : Nat, lowlink : Nat, onStack : BOOLEAN]

Index(n) == elementInfo[n].index
Low(n) == elementInfo[n].lowlink
OnStack == Range(stack)

\* The work items of elements whose children have been pushed; the elements;
\* and those of them together with the root of the component on its way out.
Opened == {k \in DOMAIN workStack : workStack[k].processedChildren}
Path == {workStack[k].item : k \in Opened}
Gray == Path \cup ({currRoot} \ {None})

Types ==
    /\ None \notin Nodes
    /\ \A n \in Nodes : children[n] \subseteq Nodes /\ IsFiniteSet(children[n])
    /\ input \in Seq(Nodes) /\ inputIt \in Nat \ {0}
    /\ workStack \in Seq(WorkItem)
    /\ stack \in Seq(Nodes)
    /\ Visited \subseteq Nodes /\ IsFiniteSet(Visited)
    /\ elementInfo \in [Visited -> Info]
    /\ currRoot \in Nodes \cup {None}
    /\ components \in Seq(SUBSET Nodes)

\* The numbers, and the order of the stack.
Numbers ==
    /\ {Index(n) : n \in Visited} = 0..Cardinality(Visited) - 1
    /\ OnStack \subseteq Visited
    /\ \A n \in Visited : elementInfo[n].onStack <=> n \in OnStack
    /\ \A n \in Visited : Low(n) <= Index(n)
    /\ \A j, k \in DOMAIN stack : j < k => Index(stack[j]) < Index(stack[k])

\* The work stack: the opened items are the way down to the current element,
\* and the items on top of the last one are its children.
WorkStackInv ==
    /\ Gray \subseteq OnStack
    /\ \A j, k \in Opened :
          j < k => Index(workStack[j].item) < Index(workStack[k].item)
    /\ \A k \in Opened : currRoot # None => Index(workStack[k].item) < Index(currRoot)
    /\ \A k \in DOMAIN workStack :
          IF workStack[k].parent = None THEN k = 1
          ELSE /\ workStack[k].item \in children[workStack[k].parent]
               /\ \E q \in Opened :
                     /\ q < k /\ workStack[q].item = workStack[k].parent
                     /\ \A r \in Opened : r < k => r <= q

\* The child m of n is still to be looked at, or being searched.
Pending(n, m) ==
    \E k \in DOMAIN workStack : workStack[k].item = m /\ workStack[k].parent = n

\* A lowlink is the index of an element of the stack that can be reached, and
\* no larger than the index of any child on the stack that was looked at.
Lowlinks ==
    /\ \A n \in OnStack : \E m \in OnStack : Index(m) = Low(n) /\ Connected(n, m)
    /\ \A n \in OnStack : \A m \in children[n] :
          \/ Pending(n, m)
          \/ m \in Visited /\ (m \in OnStack => Low(n) <= Index(m))

\* Elements of the stack reach all that come later.
Ordered == \A n, m \in OnStack : Index(n) < Index(m) => Connected(n, m)

\* An element that is done stays on the stack because it reaches the element of
\* the path that precedes it, and its lowlink has been passed on to that one.
LeadsTo(n, g) ==
    /\ Index(g) < Index(n)
    /\ Connected(n, g)
    /\ Low(g) <= Low(n)
    /\ \A h \in Gray : Index(h) < Index(n) => Index(h) <= Index(g)

Belongs == \A n \in OnStack : n \in Gray \/ \E g \in Gray : LeadsTo(n, g)

\* What has left the stack is what was delivered.
Parts ==
    /\ \A n \in Nodes : n \in Visited \ OnStack <=>
          \E k \in DOMAIN components : n \in components[k]
    /\ \A j, k \in DOMAIN components : j # k => components[j] \cap components[k] = {}
    /\ \A k \in Delivered :
          /\ components[k] # {}
          /\ \A n \in components[k] : components[k] = Component(n)
    /\ CalleesFirst

\* What is being delivered: the rest of the component is the top of the stack.
Emitting ==
    currRoot # None =>
        /\ components # <<>>
        /\ \A n \in Nodes :
              n \in Component(currRoot) <=>
                 \/ n \in components[Len(components)]
                 \/ n \in OnStack /\ Index(currRoot) <= Index(n)
        /\ \A n \in Component(currRoot) : \A m \in children[n] :
              m \in Component(currRoot) \/ \E k \in Delivered : m \in components[k]

IInv == /\ Types /\ Numbers /\ WorkStackInv /\ Lowlinks /\ Ordered /\ Belongs
        /\ Parts /\ Emitting

-----------------------------------------------------------------------------
(* Reachability *)

LEMMA ReachSelf ==
  ASSUME NEW n \in Nodes
  PROVE  Connected(n, n)
  BY DEF Connected, Reach, Nodes

\* A set that no edge leaves holds whatever its members reach.
LEMMA ReachClosed ==
  ASSUME NEW S \in SUBSET Nodes, \A s \in S : children[s] \subseteq S,
         NEW n \in S, NEW m, Connected(n, m)
  PROVE  m \in S
  BY DEF Connected, Reach, Nodes

LEMMA ReachNode ==
  ASSUME NEW n, NEW m, Connected(n, m)
  PROVE  m \in Nodes
  BY DEF Connected, Reach, Nodes

LEMMA ReachEdge ==
  ASSUME Types, NEW n \in Nodes, NEW m \in children[n]
  PROVE  Connected(n, m)
  BY DEF Types, Connected, Reach, Nodes

LEMMA ReachTrans ==
  ASSUME NEW l, NEW m, NEW n, Connected(l, m), Connected(m, n)
  PROVE  Connected(l, n)
  BY DEF Connected, Reach

LEMMA ComponentSelf ==
  ASSUME NEW n \in Nodes
  PROVE  n \in Component(n)
  BY ReachSelf DEF Component

\* The members of a component have the same component.
LEMMA ComponentSame ==
  ASSUME NEW n \in Nodes, NEW m \in Component(n)
  PROVE  Component(m) = Component(n)
  <1>1. m \in Nodes /\ Connected(n, m) /\ Connected(m, n)
    BY DEF Component
  <1>2. ASSUME NEW x \in Nodes
        PROVE  /\ Connected(n, x) <=> Connected(m, x)
               /\ Connected(x, n) <=> Connected(x, m)
    BY <1>1, ReachTrans
  <1> QED BY <1>2 DEF Component

\* The graph does not change, nor does what can be reached in it.
LEMMA SameGraph ==
  ASSUME children' = children
  PROVE  /\ Nodes' = Nodes
         /\ \A n, m : Connected(n, m)' <=> Connected(n, m)
         /\ \A n : Component(n)' = Component(n)
  <1>1. Nodes' = Nodes
    BY DEF Nodes
  <1>2. \A n, m : Connected(n, m)' <=> Connected(n, m)
    BY DEF Connected, Reach
  <1>3. \A n : Component(n)' = Component(n)
    BY <1>1, <1>2 DEF Component
  <1> QED BY <1>1, <1>2, <1>3

-----------------------------------------------------------------------------
(* Sequences *)

\* A sequence without its last element.
LEMMA FrontFact ==
  ASSUME NEW S, NEW s \in Seq(S), s # <<>>
  PROVE  /\ Len(s) \in Nat \ {0} /\ Last(s) = s[Len(s)] /\ Last(s) \in S
         /\ Front(s) \in Seq(S) /\ Len(Front(s)) = Len(s) - 1
         /\ DOMAIN s = 1..Len(s) /\ DOMAIN Front(s) = 1..Len(s) - 1
         /\ \A k \in 1..Len(s) - 1 : Front(s)[k] = s[k]
  <1>1. Len(s) \in Nat \ {0} /\ DOMAIN s = 1..Len(s)
    BY EmptySeq, LenProperties
  <1>2. Last(s) = s[Len(s)] /\ Last(s) \in S
    BY <1>1, ElementOfSeq DEF Last
  <1>3. \A k \in 1..Len(s) - 1 : s[k] \in S
    BY <1>1, ElementOfSeq
  <1>4. /\ Front(s) \in Seq(S) /\ Len(Front(s)) = Len(s) - 1
        /\ \A k \in 1..Len(s) - 1 : Front(s)[k] = s[k]
    BY <1>1, <1>3, SubSeqProperties DEF Front
  <1> QED BY <1>1, <1>2, <1>4, LenProperties

\* An order of a finite set has each of its members.
LEMMA OrderFact ==
  ASSUME NEW S, IsFiniteSet(S), NEW order \in SetToSeqs(S)
  PROVE  /\ order \in Seq(S) /\ DOMAIN order = 1..Len(order) /\ Len(order) \in Nat
         /\ \A x \in S : \E k \in DOMAIN order : order[k] = x
  <1> DEFINE c == Cardinality(S)
  <1>1. c \in Nat
    BY FS_CardinalityType
  <1>2. order \in [1..c -> S] /\ \A j, k \in 1..c : j # k => order[j] # order[k]
    BY DEF SetToSeqs
  <1>3. order \in Injection(1..c, S)
    BY <1>2 DEF Injection, IsInjective
  <1>4. Cardinality(1..c) = c
    BY <1>1, FS_Interval
  <1>5. order \in Surjection(1..c, S)
    BY <1>3, <1>4, FS_Injection
  <1>6. \A x \in S : \E k \in DOMAIN order : order[k] = x
    BY <1>2, <1>5 DEF Surjection
  <1>7. order \in Seq(S) /\ Len(order) = c
    BY <1>1, <1>2
  <1> QED BY <1>1, <1>2, <1>6, <1>7

-----------------------------------------------------------------------------
(* The stack *)

LEMMA StackFacts ==
  ASSUME Types, Numbers
  PROVE  /\ Cardinality(Visited) \in Nat
         /\ \A n \in Visited : Index(n) \in Nat /\ Low(n) \in Nat
                               /\ Index(n) < Cardinality(Visited)
         /\ OnStack = {stack[k] : k \in DOMAIN stack}
         /\ DOMAIN stack = 1..Len(stack) /\ Len(stack) \in Nat
         /\ \A n, m \in OnStack : Index(n) = Index(m) => n = m
  <1>1. Cardinality(Visited) \in Nat
    BY FS_CardinalityType DEF Types
  <1>2. ASSUME NEW n \in Visited
        PROVE  Index(n) \in Nat /\ Low(n) \in Nat /\ Index(n) < Cardinality(Visited)
    <2>1. elementInfo[n] \in Info
      BY DEF Types
    <2>2. Index(n) \in 0..Cardinality(Visited) - 1
      BY DEF Numbers
    <2> QED BY <1>1, <2>1, <2>2 DEF Info, Index, Low
  <1>3. OnStack = {stack[k] : k \in DOMAIN stack}
    BY DEF OnStack, Range
  <1>4. DOMAIN stack = 1..Len(stack) /\ Len(stack) \in Nat
    BY LenProperties DEF Types
  <1>5. ASSUME NEW j \in DOMAIN stack, NEW k \in DOMAIN stack,
               Index(stack[j]) = Index(stack[k])
        PROVE  stack[j] = stack[k]
    <2>1. j = k \/ j < k \/ k < j
      BY <1>4
    <2>2. Index(stack[j]) \in Nat /\ Index(stack[k]) \in Nat
      BY <1>2, <1>3 DEF Numbers
    <2> QED BY <1>5, <2>1, <2>2 DEF Numbers
  <1>6. \A n, m \in OnStack : Index(n) = Index(m) => n = m
    BY <1>3, <1>5
  <1> QED BY <1>1, <1>2, <1>3, <1>4, <1>6

\* The last element has the largest index.
LEMMA StackTop ==
  ASSUME Types, Numbers, stack # <<>>
  PROVE  /\ Last(stack) \in OnStack
         /\ \A n \in OnStack : Index(n) <= Index(Last(stack))
         /\ \A n \in OnStack : n # Last(stack) => Index(n) < Index(Last(stack))
  <1>1. /\ Len(stack) \in Nat \ {0} /\ Last(stack) = stack[Len(stack)]
        /\ DOMAIN stack = 1..Len(stack)
    BY FrontFact DEF Types
  <1>2. /\ OnStack = {stack[k] : k \in DOMAIN stack}
        /\ \A n \in OnStack : Index(n) \in Nat
    BY StackFacts DEF Numbers
  <1>3. ASSUME NEW k \in DOMAIN stack
        PROVE  k = Len(stack) \/ Index(stack[k]) < Index(stack[Len(stack)])
    BY <1>1 DEF Numbers
  <1> QED BY <1>1, <1>2, <1>3

\* The elements of the stack are there once, so taking the last one off removes it.
LEMMA StackPopped ==
  ASSUME Types, Numbers, stack # <<>>, stack' = Front(stack)
  PROVE  /\ OnStack' = OnStack \ {Last(stack)}
         /\ stack' \in Seq(Nodes)
         /\ DOMAIN stack' \subseteq DOMAIN stack
         /\ \A k \in DOMAIN stack' : stack'[k] = stack[k]
  <1>1. /\ Len(stack) \in Nat \ {0} /\ Last(stack) = stack[Len(stack)]
        /\ DOMAIN stack = 1..Len(stack)
        /\ stack' \in Seq(Nodes) /\ DOMAIN stack' = 1..Len(stack) - 1
        /\ \A k \in 1..Len(stack) - 1 : stack'[k] = stack[k]
    BY FrontFact DEF Types
  <1>2. OnStack' = {stack'[k] : k \in DOMAIN stack'}
    BY DEF OnStack, Range
  <1>3. OnStack = {stack[k] : k \in DOMAIN stack}
    BY DEF OnStack, Range
  <1>4. \A k \in 1..Len(stack) - 1 : Index(stack[k]) < Index(stack[Len(stack)])
    BY <1>1 DEF Numbers
  <1>5. \A n \in OnStack : Index(n) \in Nat
    BY StackFacts DEF Numbers
  <1>6. \A k \in 1..Len(stack) - 1 : stack[k] # stack[Len(stack)]
    BY <1>1, <1>3, <1>4, <1>5
  <1>7. ASSUME NEW k \in DOMAIN stack, k # Len(stack)
        PROVE  k \in 1..Len(stack) - 1
    BY <1>1, <1>7
  <1>8. ASSUME NEW k \in 1..Len(stack) - 1
        PROVE  k \in DOMAIN stack
    BY <1>1
  <1> QED BY <1>1, <1>2, <1>3, <1>6, <1>7, <1>8

-----------------------------------------------------------------------------
(* The work stack *)

LEMMA WorkFacts ==
  ASSUME Types, workStack # <<>>
  PROVE  /\ Len(workStack) \in Nat \ {0} /\ DOMAIN workStack = 1..Len(workStack)
         /\ Len(workStack) \in DOMAIN workStack
         /\ Work = workStack[Len(workStack)] /\ Work \in WorkItem
         /\ Work.item \in Nodes /\ Work.parent \in Nodes \cup {None}
         /\ Work.processedChildren \in BOOLEAN
  <1>1. /\ Len(workStack) \in Nat \ {0} /\ DOMAIN workStack = 1..Len(workStack)
        /\ Work = workStack[Len(workStack)] /\ Work \in WorkItem
    BY FrontFact DEF Types, Work
  <1> QED BY <1>1 DEF WorkItem

\* Taking the last item off the work stack.
LEMMA WorkPopped ==
  ASSUME Types, workStack # <<>>, workStack' = Front(workStack)
  PROVE  /\ workStack' \in Seq(WorkItem)
         /\ DOMAIN workStack' = DOMAIN workStack \ {Len(workStack)}
         /\ \A k \in DOMAIN workStack' : workStack'[k] = workStack[k]
         /\ Opened' = Opened \ {Len(workStack)}
  <1>1. /\ Len(workStack) \in Nat \ {0} /\ DOMAIN workStack = 1..Len(workStack)
        /\ workStack' \in Seq(WorkItem)
        /\ DOMAIN workStack' = 1..Len(workStack) - 1
        /\ \A k \in 1..Len(workStack) - 1 : workStack'[k] = workStack[k]
    BY FrontFact DEF Types
  <1>2. DOMAIN workStack' = DOMAIN workStack \ {Len(workStack)}
    BY <1>1
  <1>3. Opened' = {k \in DOMAIN workStack' : workStack'[k].processedChildren}
    BY DEF Opened
  <1> QED BY <1>1, <1>2, <1>3 DEF Opened

\* The parent of the current item is the last element of the path below it.
LEMMA ParentFacts ==
  ASSUME Types, Numbers, WorkStackInv, Searching, Work.parent # None
  PROVE  /\ Work.parent \in Gray /\ Work.parent \in OnStack /\ Work.parent \in Visited
         /\ Work.item \in children[Work.parent]
         /\ \A r \in Opened : r # Len(workStack) =>
               Index(workStack[r].item) <= Index(Work.parent)
         /\ \E q \in Opened : q # Len(workStack) /\ workStack[q].item = Work.parent
         /\ Work.processedChildren => Index(Work.parent) < Index(Work.item)
  <1> DEFINE n == Len(workStack)
  <1>1. /\ n \in DOMAIN workStack /\ Work = workStack[n]
        /\ DOMAIN workStack = 1..n /\ n \in Nat
    BY WorkFacts DEF Searching
  <1>2. PICK q \in Opened : /\ q < n /\ workStack[q].item = Work.parent
                            /\ \A r \in Opened : r < n => r <= q
    BY <1>1 DEF WorkStackInv
  <1>3. Work.item \in children[Work.parent]
    BY <1>1 DEF WorkStackInv
  <1>4. Work.parent \in Gray
    BY <1>2 DEF Gray, Path
  <1>5. Work.parent \in OnStack /\ Work.parent \in Visited
    BY <1>4 DEF WorkStackInv, Numbers
  <1>6. Index(Work.parent) \in Nat
    BY <1>5, StackFacts
  <1>7. ASSUME NEW r \in Opened, r # n
        PROVE  Index(workStack[r].item) <= Index(Work.parent)
    <2>1. r \in 1..n /\ q \in 1..n
      BY <1>1 DEF Opened
    <2>2. r < n
      <3> HIDE DEF n
      <3> QED BY <1>1, <1>7, <2>1
    <2>3. r = q \/ r < q
      BY <1>2, <2>1, <2>2
    <2>4. workStack[r].item \in OnStack
      BY DEF WorkStackInv, Gray, Path
    <2>5. Index(workStack[r].item) \in Nat
      BY <2>4, StackFacts DEF Numbers
    <2> QED BY <1>2, <1>6, <2>3, <2>5 DEF WorkStackInv
  <1>8. ASSUME Work.processedChildren
        PROVE  Index(Work.parent) < Index(Work.item)
    <2>1. n \in Opened
      BY <1>1, <1>8 DEF Opened
    <2> QED BY <1>1, <1>2, <2>1 DEF WorkStackInv
  <1>9. q # n
    BY <1>1, <1>2 DEF Opened
  <1> QED BY <1>2, <1>3, <1>4, <1>5, <1>7, <1>8, <1>9

\* Lowering the parent's lowlink changes nothing else.
LEMMA Lowered ==
  ASSUME Types, Numbers, NEW p \in Visited \cup {None}, NEW k \in Nat, LowerParent(p, k)
  PROVE  /\ Visited' = Visited
         /\ elementInfo' \in [Visited -> Info]
         /\ \A n \in Visited :
               /\ Index(n)' = Index(n)
               /\ elementInfo'[n].onStack = elementInfo[n].onStack
               /\ Low(n)' <= Low(n)
               /\ Low(n)' # Low(n) => n = p /\ Low(n)' = k
         /\ p # None => Low(p)' <= k
  <1>1. CASE p = None \/ Low(p) <= k
    <2>1. elementInfo' = elementInfo
      BY <1>1 DEF LowerParent, Low
    <2>2. \A n \in Visited : Low(n) \in Nat
      BY StackFacts
    <2> QED BY <1>1, <2>1, <2>2 DEF Types, Visited, Index, Low
  <1>2. CASE p # None /\ ~(Low(p) <= k)
    <2>1. /\ p \in Visited
          /\ elementInfo' = [elementInfo EXCEPT ![p].lowlink = k]
      BY <1>2 DEF LowerParent, Low
    <2>2. \A n \in Visited : elementInfo[n] \in Info /\ Low(n) \in Nat
      BY StackFacts DEF Types
    <2>3. /\ DOMAIN elementInfo' = Visited
          /\ \A n \in Visited : n # p => elementInfo'[n] = elementInfo[n]
          /\ elementInfo'[p] = [elementInfo[p] EXCEPT !.lowlink = k]
      BY <2>1 DEF Visited
    <2>4. /\ elementInfo'[p] \in Info /\ elementInfo'[p].lowlink = k
          /\ elementInfo'[p].index = elementInfo[p].index
          /\ elementInfo'[p].onStack = elementInfo[p].onStack
      BY <2>1, <2>2, <2>3 DEF Info
    <2>5. elementInfo' \in [Visited -> Info]
      BY <2>1, <2>2, <2>3, <2>4 DEF Types
    <2>6. Low(p)' <= Low(p)
      BY <1>2, <2>1, <2>2, <2>4 DEF Low
    <2> QED BY <2>1, <2>2, <2>3, <2>4, <2>5, <2>6 DEF Visited, Index, Low
  <1> QED BY <1>1, <1>2

-----------------------------------------------------------------------------
(* The path *)

\* Every element of the stack reaches the last element of the path.
LEMMA StackReaches ==
  ASSUME Types, Numbers, WorkStackInv, Ordered, Belongs,
         NEW p \in Gray, \A g \in Gray : Index(g) <= Index(p)
  PROVE  \A x \in OnStack : Connected(x, p)
  <1>1. ASSUME NEW g \in Gray
        PROVE  Connected(g, p)
    <2>1. g \in OnStack /\ p \in OnStack
      BY DEF WorkStackInv
    <2>2. g \in Nodes /\ Index(g) \in Nat /\ Index(p) \in Nat
      BY <2>1, StackFacts DEF Numbers, Types
    <2>3. g = p \/ Index(g) < Index(p)
      BY <2>1, <2>2, StackFacts
    <2> QED BY <2>1, <2>2, <2>3, ReachSelf DEF Ordered
  <1>2. ASSUME NEW x \in OnStack, NEW g \in Gray, LeadsTo(x, g)
        PROVE  Connected(x, p)
    BY <1>1, <1>2, ReachTrans DEF LeadsTo
  <1> QED BY <1>1, <1>2 DEF Belongs

\* A current item without a parent is the first of its search.
LEMMA FirstItem ==
  ASSUME Types, WorkStackInv, Belongs, Searching, Work.parent = None
  PROVE  /\ \A k \in Opened : k = Len(workStack)
         /\ ~Work.processedChildren => Gray = {} /\ OnStack = {}
  <1> DEFINE n == Len(workStack)
  <1>1. /\ n \in DOMAIN workStack /\ Work = workStack[n]
        /\ DOMAIN workStack = 1..n
    BY WorkFacts DEF Searching
  <1>2. n = 1
    BY <1>1 DEF WorkStackInv
  <1>3. \A k \in Opened : k = n
    BY <1>1, <1>2 DEF Opened
  <1>4. ASSUME ~Work.processedChildren
        PROVE  Gray = {} /\ OnStack = {}
    <2>1. Opened = {}
      BY <1>1, <1>3, <1>4 DEF Opened
    <2>2. Gray = {}
      BY <2>1 DEF Gray, Path, Searching
    <2> QED BY <2>2 DEF Belongs
  <1> QED BY <1>3, <1>4

\* Nothing leaves the stack and nothing is delivered.
LEMMA PartsKept ==
  ASSUME Types, Parts, children' = children, components' = components,
         currRoot' = currRoot, (Visited \ OnStack)' = Visited \ OnStack
  PROVE  Parts'
  <1>1. /\ Nodes' = Nodes /\ Delivered' = Delivered
        /\ \A n : Component(n)' = Component(n)
    BY SameGraph DEF Delivered
  <1>2. \A n : n \in (Visited \ OnStack)' <=> n \in Visited \ OnStack
    OBVIOUS
  <1>3. (\A n \in Nodes : n \in Visited \ OnStack <=>
             \E k \in DOMAIN components : n \in components[k])'
    BY <1>1, <1>2 DEF Parts
  <1>4. (\A j, k \in DOMAIN components : j # k => components[j] \cap components[k] = {})'
    BY DEF Parts
  <1>5. (\A k \in Delivered :
            /\ components[k] # {}
            /\ \A n \in components[k] : components[k] = Component(n))'
    BY <1>1 DEF Parts
  <1>6. CalleesFirst'
    BY <1>1 DEF Parts, CalleesFirst
  <1> QED BY <1>3, <1>4, <1>5, <1>6 DEF Parts

LEMMA NumbersKept ==
  ASSUME Numbers, elementInfo' = elementInfo, stack' = stack
  PROVE  Numbers'
  BY DEF Numbers, Visited, OnStack, Index, Low

-----------------------------------------------------------------------------
(* The next input *)

LEMMA StepToNextInputStep ==
  ASSUME IInv, StepToNextInput
  PROVE  IInv'
  <1> USE DEF IInv
  <1> DEFINE n == input[inputIt]
  <1>1. /\ currRoot = None /\ currRoot' = None
        /\ workStack = <<>> /\ workStack' = <<Item(n, None)>>
        /\ inputIt <= Len(input) /\ inputIt' = inputIt + 1
        /\ children' = children /\ input' = input /\ stack' = stack
        /\ elementInfo' = elementInfo /\ components' = components
    BY DEF StepToNextInput
  <1>2. n \in Nodes
    <2>1. inputIt \in 1..Len(input)
      BY <1>1, LenProperties DEF Types
    <2> QED BY <2>1, ElementOfSeq DEF Types
  <1>3. Item(n, None) \in WorkItem /\ ~Item(n, None).processedChildren
        /\ Item(n, None).parent = None
    BY <1>2 DEF Item, WorkItem
  <1>4. /\ workStack' \in Seq(WorkItem) /\ DOMAIN workStack' = {1}
        /\ workStack'[1] = Item(n, None)
    <2> DEFINE i == Item(n, None)
    <2>1. i \in WorkItem
      BY <1>3
    <2> HIDE DEF i
    <2> QED BY <1>1, <2>1 DEF i
  <1>5. Opened = {} /\ Opened' = {}
    <2>1. Opened = {}
      BY <1>1 DEF Opened
    <2>2. Opened' = {k \in DOMAIN workStack' : workStack'[k].processedChildren}
      BY DEF Opened
    <2> QED BY <1>3, <1>4, <2>1, <2>2
  <1>6. Gray = {} /\ Gray' = {}
    BY <1>1, <1>5 DEF Gray, Path
  <1>7. OnStack = {} /\ OnStack' = {}
    BY <1>1, <1>6 DEF Belongs, OnStack
  <1>8. Nodes' = Nodes /\ Visited' = Visited
    BY <1>1, SameGraph DEF Visited
  <1>9. Types'
    <2>1. inputIt' \in Nat \ {0}
      BY <1>1 DEF Types
    <2> QED BY <1>1, <1>4, <1>8, <2>1 DEF Types, WorkItem, Info
  <1>10. Numbers'
    BY <1>1, NumbersKept
  <1>11. WorkStackInv'
    BY <1>1, <1>3, <1>4, <1>5, <1>6 DEF WorkStackInv
  <1>12. Lowlinks' /\ Ordered' /\ Belongs'
    BY <1>7 DEF Lowlinks, Ordered, Belongs
  <1>13. Parts'
    BY <1>1, <1>7, <1>8, PartsKept
  <1>14. Emitting'
    BY <1>1 DEF Emitting
  <1> QED BY <1>9, <1>10, <1>11, <1>12, <1>13, <1>14

-----------------------------------------------------------------------------
(* Visit *)

\* The work stack after a visit: the item is marked, its children lie on top.
Pushed(n, p, order, ws) ==
    LET L == Len(workStack)
    IN  /\ ws \in Seq(WorkItem)
        /\ DOMAIN ws = 1..L + Len(order)
        /\ \A k \in 1..L - 1 : ws[k] = workStack[k]
        /\ ws[L].item = n /\ ws[L].parent = p /\ ws[L].processedChildren
        /\ \A k \in 1..Len(order) : ws[L + k] = Item(order[k], n)

LEMMA PushedFact ==
  ASSUME Types, Searching, NEW n, n = Work.item, NEW order \in Seq(children[n]),
         DOMAIN order = 1..Len(order), Len(order) \in Nat,
         NEW ws,
         ws = Append(Front(workStack), [Work EXCEPT !.processedChildren = TRUE])
                 \o [k \in DOMAIN order |-> Item(order[k], n)]
  PROVE  Pushed(n, Work.parent, order, ws)
  <1> DEFINE L == Len(workStack)
             w == [Work EXCEPT !.processedChildren = TRUE]
             bottom == Append(Front(workStack), w)
             top == [k \in DOMAIN order |-> Item(order[k], n)]
  <1>1. /\ L \in Nat \ {0} /\ Work \in WorkItem
        /\ Front(workStack) \in Seq(WorkItem) /\ Len(Front(workStack)) = L - 1
        /\ \A k \in 1..L - 1 : Front(workStack)[k] = workStack[k]
    BY FrontFact DEF Types, Searching, Work
  <1>2. w \in WorkItem /\ w.item = n /\ w.parent = Work.parent /\ w.processedChildren
    BY <1>1 DEF WorkItem
  <1>3. n \in Nodes /\ children[n] \subseteq Nodes
    BY <1>1 DEF WorkItem, Types
  <1>4. \A k \in DOMAIN order : Item(order[k], n) \in WorkItem
    <2>1. \A k \in DOMAIN order : order[k] \in Nodes
      BY <1>3, ElementOfSeq
    <2> QED BY <1>3, <2>1 DEF Item, WorkItem
  <1>5. top \in Seq(WorkItem) /\ Len(top) = Len(order)
        /\ \A k \in 1..Len(order) : top[k] = Item(order[k], n)
    BY <1>4
  <1> HIDE DEF w
  <1>6. /\ bottom \in Seq(WorkItem) /\ Len(bottom) = L
        /\ \A k \in 1..L - 1 : bottom[k] = workStack[k]
        /\ bottom[L] = w
    <2>1. /\ bottom \in Seq(WorkItem) /\ Len(bottom) = Len(Front(workStack)) + 1
          /\ \A k \in 1..Len(Front(workStack)) : bottom[k] = Front(workStack)[k]
          /\ bottom[Len(Front(workStack)) + 1] = w
      BY <1>1, <1>2, AppendProperties
    <2> QED BY <1>1, <2>1
  <1> HIDE DEF bottom, top
  <1>7. ws = bottom \o top
    BY DEF bottom, top, w
  <1>8. /\ ws \in Seq(WorkItem) /\ Len(ws) = L + Len(order)
        /\ \A k \in 1..L + Len(order) :
              ws[k] = IF k <= L THEN bottom[k] ELSE top[k - L]
    <2>1. bottom \in Seq(WorkItem) /\ top \in Seq(WorkItem)
      BY <1>5, <1>6
    <2>2. Len(bottom) = L /\ Len(top) = Len(order)
      BY <1>5, <1>6
    <2>3. ws \in Seq(WorkItem) /\ Len(ws) = Len(bottom) + Len(top)
      BY <1>7, <2>1, ConcatProperties
    <2>4. ASSUME NEW k \in 1..L + Len(order)
          PROVE  ws[k] = IF k <= L THEN bottom[k] ELSE top[k - L]
      <3>1. k \in 1..Len(bottom) + Len(top)
        BY <2>2
      <3>2. (bottom \o top)[k] =
                IF k <= Len(bottom) THEN bottom[k] ELSE top[k - Len(bottom)]
        BY <2>1, <3>1, ConcatProperties, Zenon
      <3> QED BY <1>7, <2>2, <3>2, Zenon
    <2> QED BY <2>2, <2>3, <2>4, Zenon
  <1>9. \A k \in 1..L - 1 : ws[k] = workStack[k]
    BY <1>1, <1>6, <1>8
  <1>10. ws[L] = w
    BY <1>1, <1>6, <1>8
  <1>11. ASSUME NEW k \in 1..Len(order)
         PROVE  ws[L + k] = Item(order[k], n)
    <2>1. L + k \in 1..L + Len(order) /\ ~(L + k <= L) /\ (L + k) - L = k
      BY <1>1
    <2> QED BY <1>5, <1>8, <2>1
  <1>12. DOMAIN ws = 1..L + Len(order)
    BY <1>8, LenProperties
  <1> QED BY <1>2, <1>8, <1>9, <1>10, <1>11, <1>12 DEF Pushed

\* What a visit does to the path and to what is pending.
LEMMA PushedPath ==
  ASSUME Types, Searching, ~Work.processedChildren, currRoot' = currRoot,
         NEW n, n = Work.item, NEW order, Len(order) \in Nat, DOMAIN order = 1..Len(order),
         \A m \in children[n] : \E k \in DOMAIN order : order[k] = m,
         Pushed(n, Work.parent, order, workStack')
  PROVE  /\ Opened' = Opened \cup {Len(workStack)} /\ Len(workStack) \notin Opened
         /\ \A k \in Opened : k < Len(workStack) /\ workStack'[k] = workStack[k]
         /\ Gray' = Gray \cup {n}
         /\ \A x, m : Pending(x, m) => Pending(x, m)'
         /\ \A m \in children[n] : Pending(n, m)'
  <1> DEFINE L == Len(workStack)
  <1>1. /\ L \in Nat \ {0} /\ DOMAIN workStack = 1..L /\ L \in DOMAIN workStack
        /\ Work = workStack[L]
    BY WorkFacts DEF Searching
  <1>2. L \notin Opened
    BY <1>1 DEF Opened
  <1> HIDE DEF L
  <1>3. /\ workStack' \in Seq(WorkItem)
        /\ DOMAIN workStack' = 1..L + Len(order)
        /\ \A k \in 1..L - 1 : workStack'[k] = workStack[k]
        /\ workStack'[L].item = n /\ workStack'[L].parent = Work.parent
        /\ workStack'[L].processedChildren
        /\ \A k \in 1..Len(order) : workStack'[L + k] = Item(order[k], n)
    BY DEF Pushed, L
  <1>4. ASSUME NEW k \in Opened
        PROVE  k < L /\ k \in 1..L - 1 /\ workStack'[k] = workStack[k]
    <2>1. k \in 1..L /\ k # L
      BY <1>1, <1>2 DEF Opened
    <2>2. k < L /\ k \in 1..L - 1
      BY <1>1, <2>1
    <2> QED BY <1>3, <2>2
  <1>5. Opened' = {k \in DOMAIN workStack' : workStack'[k].processedChildren}
    BY DEF Opened
  <1>6. ASSUME NEW k \in Opened'
        PROVE  k \in Opened \/ k = L
    <2>1. k \in 1..L + Len(order) /\ workStack'[k].processedChildren
      BY <1>3, <1>5
    <2>2. CASE k \in 1..L - 1
      <3>1. workStack'[k] = workStack[k] /\ k \in DOMAIN workStack
        BY <1>1, <1>3, <2>2
      <3> QED BY <2>1, <3>1 DEF Opened
    <2>3. CASE k \in L + 1..L + Len(order)
      <3>1. k - L \in 1..Len(order) /\ L + (k - L) = k
        BY <1>1, <2>3
      <3>2. workStack'[k] = Item(order[k - L], n)
        BY <1>3, <3>1
      <3> QED BY <2>1, <3>2 DEF Item
    <2> QED BY <1>1, <2>1, <2>2, <2>3
  <1>7. Opened' = Opened \cup {L}
    <2>1. L \in Opened'
      BY <1>1, <1>3, <1>5
    <2>2. \A k \in Opened : k \in Opened'
      <3>1. \A k \in Opened : k \in 1..L + Len(order)
        BY <1>1, <1>4
      <3> QED BY <1>3, <1>4, <1>5, <3>1 DEF Opened
    <2> QED BY <1>6, <2>1, <2>2
  <1>8. Path' = Path \cup {n}
    <2>1. Path' = {workStack'[k].item : k \in Opened'}
      BY DEF Path
    <2> QED BY <1>3, <1>4, <1>7, <2>1 DEF Path
  <1>9. Gray' = Gray \cup {n}
    BY <1>8 DEF Gray
  <1>10. ASSUME NEW x, NEW m, Pending(x, m)
         PROVE  Pending(x, m)'
    <2>1. PICK k \in DOMAIN workStack : workStack[k].item = m /\ workStack[k].parent = x
      BY <1>10 DEF Pending
    <2>2. k \in 1..L
      BY <1>1
    <2>3. k \in DOMAIN workStack'
      BY <1>1, <1>3, <2>2
    <2>4. workStack'[k].item = m /\ workStack'[k].parent = x
      <3>1. CASE k = L
        BY <1>1, <1>3, <2>1, <3>1
      <3>2. CASE k # L
        <4>1. k \in 1..L - 1
          BY <1>1, <2>2, <3>2
        <4> QED BY <1>3, <2>1, <4>1
      <3> QED BY <3>1, <3>2
    <2> QED BY <2>3, <2>4 DEF Pending
  <1>11. ASSUME NEW m \in children[n]
         PROVE  Pending(n, m)'
    <2>1. PICK k \in DOMAIN order : order[k] = m
      OBVIOUS
    <2>2. L + k \in DOMAIN workStack'
      BY <1>1, <1>3, <2>1
    <2>3. workStack'[L + k] = Item(m, n)
      BY <1>3, <2>1
    <2> QED BY <2>2, <2>3 DEF Pending, Item
  <1> QED BY <1>2, <1>4, <1>7, <1>9, <1>10, <1>11 DEF L

\* The element gets the next index and goes on top of the stack.
LEMMA VisitNumbers ==
  ASSUME Types, Numbers, NEW n \in Nodes, n \notin Visited,
         stack' = Append(stack, n),
         elementInfo' = [m \in Visited \cup {n} |->
            IF m = n
            THEN [index |-> Cardinality(Visited), lowlink |-> Cardinality(Visited),
                  onStack |-> TRUE]
            ELSE elementInfo[m]]
  PROVE  /\ Numbers'
         /\ Visited' = Visited \cup {n} /\ IsFiniteSet(Visited')
         /\ elementInfo' \in [Visited' -> Info]
         /\ stack' \in Seq(Nodes)
         /\ OnStack' = OnStack \cup {n} /\ n \notin OnStack
         /\ \A m \in Visited : Index(m)' = Index(m) /\ Low(m)' = Low(m)
         /\ Index(n)' = Cardinality(Visited) /\ Low(n)' = Cardinality(Visited)
  <1> DEFINE c == Cardinality(Visited)
  <1>1. /\ c \in Nat
        /\ \A m \in Visited : Index(m) \in Nat /\ Low(m) \in Nat /\ Index(m) < c
        /\ OnStack = {stack[k] : k \in DOMAIN stack}
        /\ DOMAIN stack = 1..Len(stack) /\ Len(stack) \in Nat
    BY StackFacts
  <1>2. Visited' = Visited \cup {n}
    BY DEF Visited
  <1>3. IsFiniteSet(Visited') /\ Cardinality(Visited') = c + 1
    BY <1>2, FS_AddElement DEF Types
  <1>4. \A m \in Visited : elementInfo'[m] = elementInfo[m]
    OBVIOUS
  <1>5. /\ elementInfo'[n].index = c /\ elementInfo'[n].lowlink = c
        /\ elementInfo'[n].onStack /\ elementInfo'[n] \in Info
    BY <1>1 DEF Info
  <1>6. elementInfo' \in [Visited' -> Info]
    BY <1>2, <1>5 DEF Types
  <1>7. \A m \in Visited : Index(m)' = Index(m) /\ Low(m)' = Low(m)
    BY <1>4 DEF Index, Low
  <1>8. Index(n)' = c /\ Low(n)' = c
    BY <1>5 DEF Index, Low
  <1> HIDE DEF c
  <1>9. /\ stack' \in Seq(Nodes) /\ Len(stack') = Len(stack) + 1
        /\ \A k \in 1..Len(stack) : stack'[k] = stack[k]
        /\ stack'[Len(stack) + 1] = n
    BY AppendProperties DEF Types
  <1>10. DOMAIN stack' = 1..Len(stack) + 1
    BY <1>9, LenProperties
  <1>11. OnStack' = {stack'[k] : k \in DOMAIN stack'}
    BY DEF OnStack, Range
  <1>12. OnStack' = OnStack \cup {n}
    <2>1. \A k \in 1..Len(stack) + 1 : k \in 1..Len(stack) \/ k = Len(stack) + 1
      BY <1>1
    <2>2. /\ \A k \in 1..Len(stack) : k \in 1..Len(stack) + 1
          /\ Len(stack) + 1 \in 1..Len(stack) + 1
      BY <1>1
    <2> QED BY <1>1, <1>9, <1>10, <1>11, <2>1, <2>2
  <1>13. n \notin OnStack
    BY DEF Numbers
  <1>14. {Index(m) : m \in Visited}' = 0..Cardinality(Visited)' - 1
    <2>1. {Index(m) : m \in Visited}' = {Index(m) : m \in Visited} \cup {c}
      <3>1. {Index(m) : m \in Visited}' = {elementInfo'[m].index : m \in Visited'}
        BY DEF Index
      <3>2. {Index(m) : m \in Visited} = {elementInfo[m].index : m \in Visited}
        BY DEF Index
      <3> QED BY <1>2, <1>4, <1>5, <3>1, <3>2
    <2>2. {Index(m) : m \in Visited} = 0..c - 1
      BY DEF Numbers, c
    <2>3. Cardinality(Visited)' - 1 = c
      BY <1>1, <1>3
    <2>4. (0..c - 1) \cup {c} = 0..c
      BY <1>1
    <2> QED BY <2>1, <2>2, <2>3, <2>4
  <1>15. (\A m \in Visited : elementInfo[m].onStack <=> m \in OnStack)'
    BY <1>2, <1>4, <1>5, <1>12 DEF Numbers
  <1>16. (\A m \in Visited : Low(m) <= Index(m))'
    BY <1>1, <1>2, <1>7, <1>8 DEF Numbers
  <1>17. (\A j, k \in DOMAIN stack : j < k => Index(stack[j]) < Index(stack[k]))'
    <2> SUFFICES ASSUME NEW j \in DOMAIN stack', NEW k \in DOMAIN stack', j < k
                 PROVE  elementInfo'[stack'[j]].index < elementInfo'[stack'[k]].index
      BY DEF Index
    <2>1. j \in 1..Len(stack) /\ stack'[j] = stack[j] /\ stack[j] \in Visited
      <3>1. j \in 1..Len(stack)
        BY <1>1, <1>10
      <3> QED BY <1>1, <1>9, <3>1 DEF Numbers
    <2>2. elementInfo'[stack'[j]].index = Index(stack[j])
      BY <1>4, <2>1 DEF Index
    <2>3. CASE k \in 1..Len(stack)
      <3>1. stack'[k] = stack[k] /\ stack[k] \in Visited
        BY <1>1, <1>9, <2>3 DEF Numbers
      <3>2. elementInfo'[stack'[k]].index = Index(stack[k])
        BY <1>4, <3>1 DEF Index
      <3> QED BY <1>1, <2>1, <2>2, <2>3, <3>2 DEF Numbers
    <2>4. CASE k = Len(stack) + 1
      BY <1>1, <1>5, <1>9, <2>1, <2>2, <2>4
    <2> QED BY <1>1, <1>10, <2>3, <2>4
  <1>18. OnStack' \subseteq Visited'
    BY <1>2, <1>12 DEF Numbers
  <1>19. Numbers'
    BY <1>14, <1>15, <1>16, <1>17, <1>18 DEF Numbers
  <1> QED BY <1>2, <1>3, <1>6, <1>7, <1>8, <1>9, <1>12, <1>13, <1>19 DEF c

LEMMA VisitStep ==
  ASSUME IInv, Visit
  PROVE  IInv'
  <1> USE DEF IInv
  <1> DEFINE L == Len(workStack)
  <1>1. PICK n : n = Work.item
    OBVIOUS
  <1>2. PICK p : p = Work.parent
    OBVIOUS
  <1>3. /\ Searching /\ currRoot = None /\ currRoot' = None
        /\ ~Work.processedChildren /\ n \notin Visited
        /\ children' = children /\ input' = input /\ inputIt' = inputIt
        /\ components' = components
    BY <1>1 DEF Visit, Searching
  <1>4. /\ L \in Nat \ {0} /\ DOMAIN workStack = 1..L /\ L \in DOMAIN workStack
        /\ workStack[L] = Work /\ n \in Nodes /\ p \in Nodes \cup {None}
    BY <1>1, <1>2, <1>3, WorkFacts DEF Searching
  <1>5. /\ IsFiniteSet(children[n]) /\ children[n] \subseteq Nodes /\ None \notin Nodes
        /\ n # None
    BY <1>4 DEF Types
  <1>6. PICK order \in SetToSeqs(children[n]) :
           workStack' = Append(Front(workStack), [Work EXCEPT !.processedChildren = TRUE])
                           \o [k \in DOMAIN order |-> Item(order[k], n)]
    BY <1>1 DEF Visit
  <1>7. /\ order \in Seq(children[n]) /\ DOMAIN order = 1..Len(order)
        /\ Len(order) \in Nat /\ \A m \in children[n] : \E k \in DOMAIN order : order[k] = m
    BY <1>5, OrderFact
  <1>8. Pushed(n, p, order, workStack')
    BY <1>1, <1>2, <1>3, <1>6, <1>7, PushedFact
  <1>9. /\ Opened' = Opened \cup {L} /\ L \notin Opened
        /\ \A k \in Opened : k < L /\ workStack'[k] = workStack[k]
        /\ Gray' = Gray \cup {n}
        /\ \A x, m : Pending(x, m) => Pending(x, m)'
        /\ \A m \in children[n] : Pending(n, m)'
    BY <1>1, <1>2, <1>3, <1>7, <1>8, PushedPath
  <1>10. /\ stack' = Append(stack, n)
         /\ elementInfo' = [m \in Visited \cup {n} |->
               IF m = n
               THEN [index |-> Cardinality(Visited), lowlink |-> Cardinality(Visited),
                     onStack |-> TRUE]
               ELSE elementInfo[m]]
    BY <1>1 DEF Visit
  <1>11. /\ Numbers'
         /\ Visited' = Visited \cup {n} /\ IsFiniteSet(Visited')
         /\ elementInfo' \in [Visited' -> Info]
         /\ stack' \in Seq(Nodes)
         /\ OnStack' = OnStack \cup {n} /\ n \notin OnStack
         /\ \A m \in Visited : Index(m)' = Index(m) /\ Low(m)' = Low(m)
         /\ Index(n)' = Cardinality(Visited) /\ Low(n)' = Cardinality(Visited)
    BY <1>3, <1>4, <1>10, VisitNumbers
  <1>12. /\ Cardinality(Visited) \in Nat
         /\ \A m \in Visited : Index(m) \in Nat /\ Low(m) \in Nat
                               /\ Index(m) < Cardinality(Visited)
         /\ OnStack \subseteq Visited /\ Gray \subseteq OnStack
    BY StackFacts DEF Numbers, WorkStackInv
  <1>13. /\ Nodes' = Nodes /\ \A x, m : Connected(x, m)' <=> Connected(x, m)
    BY <1>3, SameGraph
  <1> HIDE DEF L, IInv
  <1>14. Types'
    <2>1. workStack' \in Seq(WorkItem)
      BY <1>8 DEF Pushed
    <2>2. WorkItem' = WorkItem
      BY <1>13 DEF WorkItem
    <2>3. Visited' \subseteq Nodes
      BY <1>4, <1>11 DEF IInv, Types
    <2> QED BY <1>3, <1>11, <1>13, <2>1, <2>2, <2>3 DEF IInv, Types, Info
  <1>15. WorkStackInv'
    <2> USE DEF IInv
    <2>1. /\ \A k \in 1..L - 1 : workStack'[k] = workStack[k]
          /\ workStack'[L].item = n /\ workStack'[L].parent = p
          /\ DOMAIN workStack' = 1..L + Len(order)
          /\ \A k \in 1..Len(order) : workStack'[L + k] = Item(order[k], n)
      BY <1>8 DEF Pushed, L
    <2>2. (Gray \subseteq OnStack)'
      BY <1>9, <1>11, <1>12
    <2>3. ASSUME NEW j \in Opened', NEW k \in Opened', j < k
          PROVE  Index(workStack[j].item)' < Index(workStack[k].item)'
      <3>1. j \in Opened
        BY <1>4, <1>9, <2>3 DEF Opened
      <3>2. workStack[j].item \in Gray /\ workStack'[j] = workStack[j]
        BY <1>9, <3>1 DEF Gray, Path
      <3>3. PICK a : a = workStack[j].item
        OBVIOUS
      <3>4. Index(a)' = Index(a) /\ Index(a) \in Nat /\ Index(a) < Cardinality(Visited)
        BY <1>11, <1>12, <3>2, <3>3
      <3>5. Index(workStack[j].item)' = Index(a)
        BY <3>2, <3>3, <3>4 DEF Index
      <3>6. CASE k = L
        <4>1. Index(workStack[k].item)' = Cardinality(Visited)
          BY <1>11, <2>1, <3>6 DEF Index
        <4> QED BY <3>4, <3>5, <4>1
      <3>7. CASE k \in Opened
        <4>1. workStack[k].item \in Gray /\ workStack'[k] = workStack[k]
          BY <1>9, <3>7 DEF Gray, Path
        <4>2. PICK b : b = workStack[k].item
          OBVIOUS
        <4>3. Index(b)' = Index(b)
          BY <1>11, <1>12, <4>1, <4>2
        <4>4. Index(workStack[k].item)' = Index(b)
          BY <4>1, <4>2, <4>3 DEF Index
        <4> QED BY <2>3, <3>1, <3>3, <3>5, <3>7, <4>2, <4>4 DEF WorkStackInv
      <3> QED BY <1>9, <3>6, <3>7
    <2>4. ASSUME NEW k \in DOMAIN workStack'
          PROVE  IF workStack'[k].parent = None THEN k = 1
                 ELSE /\ workStack'[k].item \in children'[workStack'[k].parent]
                      /\ \E q \in Opened' :
                            /\ q < k /\ workStack'[q].item = workStack'[k].parent
                            /\ \A r \in Opened' : r < k => r <= q
      <3>1. CASE k \in 1..L
        <4>1. workStack'[k].item = workStack[k].item /\ workStack'[k].parent = workStack[k].parent
          <5>1. CASE k = L
            BY <1>1, <1>2, <1>4, <2>1, <5>1
          <5>2. CASE k # L
            <6>1. k \in 1..L - 1
              BY <1>4, <3>1, <5>2
            <6> QED BY <2>1, <6>1
          <5> QED BY <5>1, <5>2
        <4>2. k \in DOMAIN workStack
          BY <1>4, <3>1
        <4>3. CASE workStack[k].parent = None
          BY <4>1, <4>2, <4>3 DEF WorkStackInv
        <4>4. CASE workStack[k].parent # None
          <5>1. workStack[k].item \in children[workStack[k].parent]
            BY <4>2, <4>4 DEF WorkStackInv
          <5>2. PICK q \in Opened : /\ q < k /\ workStack[q].item = workStack[k].parent
                                    /\ \A r \in Opened : r < k => r <= q
            BY <4>2, <4>4 DEF WorkStackInv
          <5>3. q \in Opened' /\ workStack'[q].item = workStack'[k].parent
            BY <1>9, <4>1, <5>2
          <5>4. \A r \in Opened' : r < k => r <= q
            <6>1. ~(L < k)
              BY <1>4, <3>1
            <6> QED BY <1>9, <5>2, <6>1
          <5> QED BY <1>3, <4>1, <4>4, <5>1, <5>2, <5>3, <5>4
        <4> QED BY <4>3, <4>4
      <3>2. CASE k \in L + 1..L + Len(order)
        <4>1. k - L \in 1..Len(order) /\ L + (k - L) = k /\ L < k
          BY <1>4, <1>7, <3>2
        <4>2. workStack'[k] = Item(order[k - L], n)
          BY <2>1, <4>1
        <4>3. workStack'[k].parent = n /\ workStack'[k].item \in children[n]
          <5>1. order[k - L] \in children[n]
            BY <1>7, <4>1, ElementOfSeq
          <5> QED BY <4>2, <5>1 DEF Item
        <4>4. \A r \in Opened' : r <= L
          BY <1>4, <1>9 DEF Opened
        <4>5. L \in Opened' /\ workStack'[L].item = n
          BY <1>9, <2>1
        <4> QED BY <1>3, <1>5, <4>1, <4>3, <4>4, <4>5
      <3> QED BY <1>4, <1>7, <2>1, <3>1, <3>2
    <2> QED BY <1>3, <2>2, <2>3, <2>4 DEF WorkStackInv
  <1>16. Lowlinks'
    <2> USE DEF IInv
    <2>1. ASSUME NEW x \in OnStack'
          PROVE  \E m \in OnStack' : Index(m)' = Low(x)' /\ Connected(x, m)'
      <3>1. CASE x \in OnStack
        <4>1. PICK m \in OnStack : Index(m) = Low(x) /\ Connected(x, m)
          BY <3>1 DEF Lowlinks
        <4>2. Index(m)' = Low(x)' /\ m \in OnStack' /\ Connected(x, m)'
          BY <1>11, <1>12, <1>13, <3>1, <4>1
        <4> QED BY <4>2
      <3>2. CASE x = n
        BY <1>4, <1>11, <1>13, <3>2, ReachSelf
      <3> QED BY <1>11, <3>1, <3>2
    <2>2. ASSUME NEW x \in OnStack', NEW m \in children'[x]
          PROVE  \/ Pending(x, m)'
                 \/ m \in Visited' /\ (m \in OnStack' => Low(x)' <= Index(m)')
      <3>1. CASE x \in OnStack
        <4>1. \/ Pending(x, m)
              \/ m \in Visited /\ (m \in OnStack => Low(x) <= Index(m))
          BY <1>3, <3>1 DEF Lowlinks
        <4>2. CASE Pending(x, m)
          BY <1>9, <4>2
        <4>3. CASE m \in Visited /\ (m \in OnStack => Low(x) <= Index(m))
          <5>1. m \in Visited' /\ m # n
            BY <1>3, <1>11, <4>3
          <5>2. ASSUME m \in OnStack'
                PROVE  Low(x)' <= Index(m)'
            <6>1. m \in OnStack
              BY <1>11, <5>1, <5>2
            <6>2. Low(x)' = Low(x) /\ Index(m)' = Index(m)
              BY <1>11, <1>12, <3>1, <6>1
            <6> QED BY <4>3, <6>1, <6>2
          <5> QED BY <5>1, <5>2
        <4> QED BY <4>1, <4>2, <4>3
      <3>2. CASE x = n
        BY <1>3, <1>9, <3>2
      <3> QED BY <1>11, <3>1, <3>2
    <2> QED BY <2>1, <2>2 DEF Lowlinks
  <1>17. \A x \in OnStack : Connected(x, n)
    <2> USE DEF IInv
    <2>1. CASE p = None
      BY <1>2, <1>3, <2>1, FirstItem
    <2>2. CASE p # None
      <3>1. /\ p \in Gray /\ n \in children[p]
            /\ \A r \in Opened : r # L => Index(workStack[r].item) <= Index(p)
        BY <1>1, <1>2, <1>3, <2>2, ParentFacts DEF L
      <3>2. \A g \in Gray : Index(g) <= Index(p)
        <4>1. \A g \in Gray : \E r \in Opened : workStack[r].item = g
          BY <1>3 DEF Gray, Path
        <4> QED BY <1>9, <3>1, <4>1
      <3>3. \A x \in OnStack : Connected(x, p)
        BY <3>1, <3>2, StackReaches
      <3>4. p \in Nodes
        BY <1>4, <2>2
      <3>5. Connected(p, n)
        BY <3>1, <3>4, ReachEdge
      <3> QED BY <3>3, <3>5, ReachTrans
    <2> QED BY <2>1, <2>2
  <1>18. Ordered'
    <2> USE DEF IInv
    <2> SUFFICES ASSUME NEW x \in OnStack', NEW m \in OnStack', Index(x)' < Index(m)'
                 PROVE  Connected(x, m)'
      BY DEF Ordered
    <2>1. x \in OnStack
      <3>1. CASE x = n
        <4>1. CASE m = n
          BY <1>11, <1>12, <3>1, <4>1
        <4>2. CASE m \in OnStack
          BY <1>11, <1>12, <3>1, <4>2
        <4> QED BY <1>11, <4>1, <4>2
      <3> QED BY <1>11, <3>1
    <2>2. CASE m = n
      BY <1>13, <1>17, <2>1, <2>2
    <2>3. CASE m \in OnStack
      <3>1. Index(x) < Index(m)
        BY <1>11, <1>12, <2>1, <2>3
      <3> QED BY <1>13, <2>1, <2>3, <3>1 DEF Ordered
    <2> QED BY <1>11, <2>2, <2>3
  <1>19. Belongs'
    <2> USE DEF IInv
    <2> SUFFICES ASSUME NEW x \in OnStack', x \notin Gray'
                 PROVE  \E g \in Gray' : LeadsTo(x, g)'
      BY DEF Belongs
    <2>1. x \in OnStack /\ x \notin Gray
      BY <1>9, <1>11
    <2>2. PICK g \in Gray : LeadsTo(x, g)
      BY <2>1 DEF Belongs
    <2>3. /\ Index(g)' = Index(g) /\ Index(x)' = Index(x)
          /\ Low(g)' = Low(g) /\ Low(x)' = Low(x) /\ Index(x) < Cardinality(Visited)
          /\ Index(x) \in Nat
      BY <1>11, <1>12, <2>1
    <2>4. ASSUME NEW h \in Gray', Index(h)' < Index(x)'
          PROVE  Index(h)' <= Index(g)'
      <3>1. h # n
        BY <1>11, <1>12, <2>3, <2>4
      <3>2. h \in Gray
        BY <1>9, <3>1
      <3>3. Index(h)' = Index(h)
        BY <1>11, <1>12, <3>2
      <3> QED BY <2>2, <2>3, <2>4, <3>2, <3>3 DEF LeadsTo
    <2>5. LeadsTo(x, g)'
      BY <1>13, <2>2, <2>3, <2>4 DEF LeadsTo
    <2> QED BY <1>9, <2>5
  <1>20. Parts'
    <2>1. (Visited \ OnStack)' = Visited \ OnStack
      BY <1>3, <1>11
    <2> QED BY <1>3, <2>1, PartsKept DEF IInv
  <1>21. Emitting'
    BY <1>3 DEF Emitting
  <1> QED BY <1>11, <1>14, <1>15, <1>16, <1>18, <1>19, <1>20, <1>21 DEF IInv

-----------------------------------------------------------------------------
(* Revisit and FinishItem *)

\* The current item m is taken off the work stack; if it is on the stack, its
\* parent's lowlink goes down to the index of an element that m reaches.
LEMMA ItemDone ==
  ASSUME IInv, Searching, NEW m, m = Work.item, m \in Visited,
         NEW p, p = Work.parent, NEW v \in Nat, v <= Index(m),
         \/ /\ LowerParent(p, v)
            /\ \E w \in OnStack : Index(w) = v /\ Connected(m, w)
         \/ elementInfo' = elementInfo /\ m \notin OnStack,
         workStack' = Front(workStack),
         UNCHANGED <<children, input, inputIt, stack>>
  PROVE  /\ Numbers' /\ Lowlinks' /\ Ordered'
         /\ Visited' = Visited /\ OnStack' = OnStack /\ Nodes' = Nodes
         /\ elementInfo' \in [Visited -> Info]
         /\ workStack' \in Seq(WorkItem)
         /\ Opened' = Opened \ {Len(workStack)}
         /\ \A k \in DOMAIN workStack' : workStack'[k] = workStack[k]
         /\ (\A j, k \in Opened :
                j < k => Index(workStack[j].item) < Index(workStack[k].item))'
         /\ (\A k \in DOMAIN workStack :
                IF workStack[k].parent = None THEN k = 1
                ELSE /\ workStack[k].item \in children[workStack[k].parent]
                     /\ \E q \in Opened :
                           /\ q < k /\ workStack[q].item = workStack[k].parent
                           /\ \A r \in Opened : r < k => r <= q)'
         /\ \A n \in Visited :
               /\ Index(n)' = Index(n) /\ Low(n)' <= Low(n)
               /\ Low(n)' # Low(n) => n = p /\ Low(n)' = v
         /\ p # None /\ m \in OnStack => Low(p)' <= v
  <1> USE DEF IInv
  <1>1. PICK L : L = Len(workStack)
    OBVIOUS
  <1>2. /\ L \in Nat \ {0} /\ DOMAIN workStack = 1..L /\ workStack[L] = Work
        /\ m \in Nodes
    BY <1>1, WorkFacts DEF Searching
  <1>3. /\ workStack' \in Seq(WorkItem)
        /\ DOMAIN workStack' = DOMAIN workStack \ {L}
        /\ \A k \in DOMAIN workStack' : workStack'[k] = workStack[k]
        /\ Opened' = Opened \ {L}
    BY <1>1, WorkPopped DEF Searching
  <1>4. Nodes' = Nodes /\ \A x, y : Connected(x, y)' <=> Connected(x, y)
    BY SameGraph
  <1>5. OnStack' = OnStack
    BY DEF OnStack
  <1>6. /\ OnStack \subseteq Visited
        /\ \A n \in Visited : Index(n) \in Nat /\ Low(n) \in Nat /\ Low(n) <= Index(n)
    BY StackFacts DEF Numbers
  <1>7. p # None => p \in Visited /\ p \in Nodes /\ m \in children[p]
    BY ParentFacts DEF Types
  <1>8. /\ Visited' = Visited
        /\ elementInfo' \in [Visited -> Info]
        /\ \A n \in Visited :
              /\ Index(n)' = Index(n)
              /\ elementInfo'[n].onStack = elementInfo[n].onStack
              /\ Low(n)' <= Low(n)
              /\ Low(n)' # Low(n) => n = p /\ Low(n)' = v
        /\ p # None /\ m \in OnStack => Low(p)' <= v
    <2>1. CASE LowerParent(p, v)
      <3>1. p \in Visited \cup {None}
        BY <1>7
      <3> QED BY <2>1, <3>1, Lowered
    <2>2. CASE elementInfo' = elementInfo /\ m \notin OnStack
      BY <1>6, <2>2 DEF Types, Visited, Index, Low
    <2> QED BY <2>1, <2>2
  <1>9. \A n \in Visited : Low(n)' # Low(n) =>
           m \in children[p] /\ p \in Nodes /\ \E w \in OnStack : Index(w) = v /\ Connected(m, w)
    <2> SUFFICES ASSUME NEW n \in Visited, Low(n)' # Low(n)
                 PROVE  /\ m \in children[p] /\ p \in Nodes
                        /\ \E w \in OnStack : Index(w) = v /\ Connected(m, w)
      OBVIOUS
    <2>1. elementInfo' # elementInfo
      BY DEF Low
    <2>2. n = p
      BY <1>8
    <2>3. p # None
      BY <2>2 DEF Types
    <2> QED BY <1>7, <2>1, <2>3
  <1> HIDE DEF IInv
  <1>10. Numbers'
    <2> USE DEF IInv
    <2>1. {Index(n) : n \in Visited}' = {Index(n) : n \in Visited}
      <3>1. {Index(n) : n \in Visited}' = {elementInfo'[n].index : n \in Visited'}
        BY DEF Index
      <3>2. {Index(n) : n \in Visited} = {elementInfo[n].index : n \in Visited}
        BY DEF Index
      <3>3. \A n \in Visited : elementInfo'[n].index = elementInfo[n].index
        BY <1>8 DEF Index
      <3> QED BY <1>8, <3>1, <3>2, <3>3
    <2>2. (\A n \in Visited : elementInfo[n].onStack <=> n \in OnStack)'
      BY <1>5, <1>8 DEF Numbers
    <2>3. (\A n \in Visited : Low(n) <= Index(n))'
      <3> SUFFICES ASSUME NEW n \in Visited'
                   PROVE  Low(n)' <= Index(n)'
        OBVIOUS
      <3>1. n \in Visited
        BY <1>8
      <3>2. Low(n)' \in Nat
        <4>1. elementInfo'[n] \in Info
          BY <1>8, <3>1
        <4> QED BY <4>1 DEF Info, Low
      <3> QED BY <1>6, <1>8, <3>1, <3>2
    <2>4. (\A j, k \in DOMAIN stack : j < k => Index(stack[j]) < Index(stack[k]))'
      <3> SUFFICES ASSUME NEW j \in DOMAIN stack, NEW k \in DOMAIN stack, j < k
                   PROVE  elementInfo'[stack[j]].index < elementInfo'[stack[k]].index
        BY DEF Index
      <3>1. stack[j] \in Visited /\ stack[k] \in Visited
        BY <1>6 DEF OnStack, Range
      <3>2. /\ elementInfo'[stack[j]].index = Index(stack[j])
            /\ elementInfo'[stack[k]].index = Index(stack[k])
        BY <1>8, <3>1 DEF Index
      <3> QED BY <3>2 DEF Numbers
    <2> QED BY <1>5, <1>6, <1>8, <2>1, <2>2, <2>3, <2>4 DEF Numbers
  <1>11. Lowlinks'
    <2> USE DEF IInv
    <2>1. ASSUME NEW x \in OnStack'
          PROVE  \E w \in OnStack' : Index(w)' = Low(x)' /\ Connected(x, w)'
      <3>0. x \in OnStack /\ x \in Visited
        BY <1>5, <1>6
      <3>1. CASE Low(x)' = Low(x)
        <4>1. PICK w \in OnStack : Index(w) = Low(x) /\ Connected(x, w)
          BY <3>0 DEF Lowlinks
        <4> QED BY <1>4, <1>5, <1>6, <1>8, <3>1, <4>1
      <3>2. CASE Low(x)' # Low(x)
        <4>1. x = p /\ Low(x)' = v
          BY <1>8, <3>0, <3>2
        <4>2. PICK w \in OnStack : Index(w) = v /\ Connected(m, w)
          BY <1>9, <3>0, <3>2
        <4>3. Connected(p, m)
          BY <1>9, <3>0, <3>2, ReachEdge
        <4>4. Connected(p, w)
          BY <4>2, <4>3, ReachTrans
        <4> QED BY <1>4, <1>5, <1>6, <1>8, <4>1, <4>2, <4>4
      <3> QED BY <3>1, <3>2
    <2>2. ASSUME NEW x \in OnStack', NEW y \in children'[x]
          PROVE  \/ Pending(x, y)'
                 \/ y \in Visited' /\ (y \in OnStack' => Low(x)' <= Index(y)')
      <3>0. x \in OnStack /\ x \in Visited /\ Low(x)' \in Nat
        <4>1. x \in OnStack /\ x \in Visited
          BY <1>5, <1>6
        <4>2. elementInfo'[x] \in Info
          BY <1>8, <4>1
        <4> QED BY <4>1, <4>2 DEF Info, Low
      <3>1. \/ Pending(x, y)
            \/ y \in Visited /\ (y \in OnStack => Low(x) <= Index(y))
        BY <3>0 DEF Lowlinks
      <3>2. CASE Pending(x, y)
        <4>1. PICK k \in DOMAIN workStack : workStack[k].item = y /\ workStack[k].parent = x
          BY <3>2 DEF Pending
        <4>2. CASE k # L
          <5>1. k \in DOMAIN workStack' /\ workStack'[k] = workStack[k]
            BY <1>3, <4>2
          <5> QED BY <4>1, <5>1 DEF Pending
        <4>3. CASE k = L
          <5>1. x = p /\ y = m
            BY <1>2, <4>1, <4>3
          <5>2. p # None
            BY <3>0, <5>1 DEF Types
          <5>3. y \in OnStack' => Low(x)' <= Index(y)'
            BY <1>5, <1>6, <1>8, <3>0, <5>1, <5>2
          <5> QED BY <1>8, <5>1, <5>3
        <4> QED BY <4>2, <4>3
      <3>3. CASE y \in Visited /\ (y \in OnStack => Low(x) <= Index(y))
        <4>1. y \in Visited' /\ Index(y)' = Index(y) /\ Index(y) \in Nat
          BY <1>6, <1>8, <3>3
        <4>2. Low(x)' <= Low(x) /\ Low(x) \in Nat
          BY <1>6, <1>8, <3>0
        <4> QED BY <1>5, <3>0, <3>3, <4>1, <4>2
      <3> QED BY <3>1, <3>2, <3>3
    <2> QED BY <2>1, <2>2 DEF Lowlinks
  <1>12. Ordered'
    <2> SUFFICES ASSUME NEW x \in OnStack', NEW y \in OnStack', Index(x)' < Index(y)'
                 PROVE  Connected(x, y)'
      BY DEF Ordered
    <2> QED BY <1>4, <1>5, <1>6, <1>8 DEF IInv, Ordered
  <1>13. (\A j, k \in Opened :
             j < k => Index(workStack[j].item) < Index(workStack[k].item))'
    <2> SUFFICES ASSUME NEW j \in Opened', NEW k \in Opened', j < k
                 PROVE  Index(workStack[j].item)' < Index(workStack[k].item)'
      OBVIOUS
    <2>1. j \in Opened /\ k \in Opened
      BY <1>3
    <2>2. workStack'[j] = workStack[j] /\ workStack'[k] = workStack[k]
      BY <1>3, <2>1 DEF Opened
    <2>3. workStack[j].item \in Visited /\ workStack[k].item \in Visited
      BY <1>6, <2>1 DEF IInv, WorkStackInv, Gray, Path
    <2>4. \A n \in Visited : elementInfo'[n].index = elementInfo[n].index
      BY <1>8 DEF Index
    <2>5. /\ Index(workStack[j].item)' = Index(workStack[j].item)
          /\ Index(workStack[k].item)' = Index(workStack[k].item)
      BY <2>2, <2>3, <2>4 DEF Index
    <2> QED BY <2>1, <2>5 DEF IInv, WorkStackInv
  <1>14. (\A k \in DOMAIN workStack :
             IF workStack[k].parent = None THEN k = 1
             ELSE /\ workStack[k].item \in children[workStack[k].parent]
                  /\ \E q \in Opened :
                        /\ q < k /\ workStack[q].item = workStack[k].parent
                        /\ \A r \in Opened : r < k => r <= q)'
    <2> SUFFICES ASSUME NEW k \in DOMAIN workStack'
                 PROVE  IF workStack'[k].parent = None THEN k = 1
                        ELSE /\ workStack'[k].item \in children'[workStack'[k].parent]
                             /\ \E q \in Opened' :
                                   /\ q < k /\ workStack'[q].item = workStack'[k].parent
                                   /\ \A r \in Opened' : r < k => r <= q
      OBVIOUS
    <2>1. k \in DOMAIN workStack /\ workStack'[k] = workStack[k] /\ k \in 1..L /\ k # L
      BY <1>2, <1>3
    <2>2. CASE workStack[k].parent = None
      BY <2>1, <2>2 DEF IInv, WorkStackInv
    <2>3. CASE workStack[k].parent # None
      <3>1. workStack[k].item \in children[workStack[k].parent]
        BY <2>1, <2>3 DEF IInv, WorkStackInv
      <3>2. PICK q \in Opened : /\ q < k /\ workStack[q].item = workStack[k].parent
                                /\ \A r \in Opened : r < k => r <= q
        BY <2>1, <2>3 DEF IInv, WorkStackInv
      <3>3. q # L /\ q \in 1..L
        BY <1>2, <2>1, <3>2 DEF Opened
      <3>4. q \in Opened' /\ workStack'[q] = workStack[q]
        BY <1>3, <3>3 DEF Opened
      <3> QED BY <1>3, <2>1, <2>3, <3>1, <3>2, <3>4
    <2> QED BY <2>2, <2>3
  <1> QED BY <1>1, <1>3, <1>4, <1>5, <1>8, <1>10, <1>11, <1>12, <1>13, <1>14

\* Lowlinks go down only on the path: the other elements belong to it as before.
LEMMA BelongsKept ==
  ASSUME IInv, children' = children, Gray' = Gray, OnStack' = OnStack,
         NEW p, p # None => p \in Gray,
         \A n \in Visited : /\ Index(n)' = Index(n) /\ Low(n)' <= Low(n)
                            /\ Low(n)' # Low(n) => n = p,
         Visited' = Visited, elementInfo' \in [Visited -> Info]
  PROVE  Belongs'
  <1> USE DEF IInv
  <1>1. \A x, y : Connected(x, y)' <=> Connected(x, y)
    BY SameGraph
  <1>2. /\ OnStack \subseteq Visited /\ Gray \subseteq OnStack
        /\ \A n \in Visited : Index(n) \in Nat /\ Low(n) \in Nat
    BY StackFacts DEF Numbers, WorkStackInv
  <1>3. \A n \in Visited : Low(n)' \in Nat
    BY DEF Info, Low
  <1> SUFFICES ASSUME NEW x \in OnStack', x \notin Gray'
               PROVE  \E g \in Gray' : LeadsTo(x, g)'
    BY DEF Belongs
  <1>4. x \in OnStack /\ x \in Visited /\ x \notin Gray
    BY <1>2
  <1>5. PICK g \in Gray : LeadsTo(x, g)
    BY <1>4 DEF Belongs
  <1>6. Low(x)' = Low(x)
    BY <1>4 DEF Types
  <1>7. /\ Index(g)' = Index(g) /\ Index(x)' = Index(x) /\ Low(g)' <= Low(x)'
        /\ \A h \in Gray : Index(h)' = Index(h)
    BY <1>2, <1>3, <1>4, <1>5, <1>6 DEF LeadsTo
  <1>8. LeadsTo(x, g)'
    BY <1>1, <1>5, <1>7 DEF LeadsTo
  <1> QED BY <1>8

LEMMA RevisitStep ==
  ASSUME IInv, Revisit
  PROVE  IInv'
  <1> USE DEF IInv
  <1>1. PICK m : m = Work.item
    OBVIOUS
  <1>2. PICK p : p = Work.parent
    OBVIOUS
  <1>3. PICK L : L = Len(workStack)
    OBVIOUS
  <1>4. /\ Searching /\ currRoot = None /\ currRoot' = None
        /\ ~Work.processedChildren /\ m \in Visited
        /\ workStack' = Front(workStack)
        /\ children' = children /\ input' = input /\ inputIt' = inputIt
        /\ stack' = stack /\ components' = components
    BY <1>1 DEF Revisit, Searching
  <1>5. Index(m) \in Nat /\ m \in Nodes
    BY <1>4, StackFacts DEF Types
  <1>6. \/ /\ LowerParent(p, Index(m))
           /\ \E w \in OnStack : Index(w) = Index(m) /\ Connected(m, w)
        \/ elementInfo' = elementInfo /\ m \notin OnStack
    <2>1. CASE elementInfo[m].onStack
      <3>1. m \in OnStack
        BY <1>4, <2>1 DEF Numbers
      <3>2. LowerParent(p, Index(m))
        BY <1>1, <1>2, <2>1 DEF Revisit, Index
      <3> QED BY <1>5, <3>1, <3>2, ReachSelf
    <2>2. CASE ~elementInfo[m].onStack
      BY <1>1, <1>4, <2>2 DEF Revisit, Numbers
    <2> QED BY <2>1, <2>2
  <1> HIDE DEF IInv
  <1>7. /\ Numbers' /\ Lowlinks' /\ Ordered'
        /\ Visited' = Visited /\ OnStack' = OnStack /\ Nodes' = Nodes
        /\ elementInfo' \in [Visited -> Info]
        /\ workStack' \in Seq(WorkItem)
        /\ Opened' = Opened \ {L}
        /\ \A k \in DOMAIN workStack' : workStack'[k] = workStack[k]
        /\ (\A j, k \in Opened :
               j < k => Index(workStack[j].item) < Index(workStack[k].item))'
        /\ (\A k \in DOMAIN workStack :
               IF workStack[k].parent = None THEN k = 1
               ELSE /\ workStack[k].item \in children[workStack[k].parent]
                    /\ \E q \in Opened :
                          /\ q < k /\ workStack[q].item = workStack[k].parent
                          /\ \A r \in Opened : r < k => r <= q)'
        /\ \A n \in Visited :
              /\ Index(n)' = Index(n) /\ Low(n)' <= Low(n)
              /\ Low(n)' # Low(n) => n = p /\ Low(n)' = Index(m)
    <2>1. Index(m) <= Index(m)
      BY <1>5
    <2> QED BY <1>1, <1>2, <1>3, <1>4, <1>5, <1>6, <2>1, ItemDone
  <1>8. Opened' = Opened
    BY <1>3, <1>4, <1>7, WorkFacts DEF IInv, Searching, Opened
  <1>9. Gray' = Gray
    <2>1. Path' = {workStack'[k].item : k \in Opened'}
      BY DEF Path
    <2>2. \A k \in Opened : workStack'[k] = workStack[k]
      BY <1>7, <1>8 DEF Opened
    <2>3. Path' = Path
      BY <1>8, <2>1, <2>2 DEF Path
    <2> QED BY <1>4, <2>3 DEF Gray
  <1>10. Types'
    <2>1. WorkItem' = WorkItem
      BY <1>7 DEF WorkItem
    <2> QED BY <1>4, <1>7, <2>1 DEF IInv, Types, Info
  <1>11. WorkStackInv'
    <2>1. (Gray \subseteq OnStack)'
      BY <1>7, <1>9 DEF IInv, WorkStackInv
    <2> QED BY <1>4, <1>7, <2>1 DEF WorkStackInv
  <1>12. Belongs'
    <2>1. p # None => p \in Gray
      BY <1>2, <1>4, ParentFacts DEF IInv
    <2> QED BY <1>4, <1>7, <1>9, <2>1, BelongsKept
  <1>13. Parts'
    BY <1>4, <1>7, PartsKept DEF IInv
  <1>14. Emitting'
    BY <1>4 DEF Emitting
  <1> QED BY <1>7, <1>10, <1>11, <1>12, <1>13, <1>14 DEF IInv

\* An item whose children are done is the last element of the path.
LEMMA LastOfPath ==
  ASSUME Types, Numbers, WorkStackInv, Searching, Work.processedChildren,
         NEW n, n = Work.item
  PROVE  /\ n \in Gray /\ n \in OnStack /\ n \in Visited /\ n \in Nodes
         /\ Len(workStack) \in Opened
         /\ \A k \in Opened : k # Len(workStack) => Index(workStack[k].item) < Index(n)
         /\ \A g \in Gray : g # n => Index(g) < Index(n)
         /\ \A g \in Gray : Index(g) <= Index(n)
  <1> DEFINE L == Len(workStack)
  <1>1. /\ L \in Nat /\ DOMAIN workStack = 1..L /\ L \in DOMAIN workStack
        /\ Work = workStack[L]
    BY WorkFacts DEF Searching
  <1>2. L \in Opened
    BY <1>1 DEF Opened
  <1>3. n \in Gray
    BY <1>1, <1>2 DEF Gray, Path
  <1>4. n \in OnStack /\ n \in Visited /\ n \in Nodes
    BY <1>3 DEF WorkStackInv, Numbers, Types
  <1>5. \A g \in Gray : Index(g) \in Nat
    BY StackFacts DEF WorkStackInv, Numbers
  <1> HIDE DEF L
  <1>6. ASSUME NEW k \in Opened, k # L
        PROVE  Index(workStack[k].item) < Index(n)
    <2>1. k < L
      BY <1>1, <1>6 DEF Opened
    <2> QED BY <1>1, <1>2, <2>1 DEF WorkStackInv
  <1>7. ASSUME NEW g \in Gray, g # n
        PROVE  Index(g) < Index(n)
    <2>1. PICK k \in Opened : workStack[k].item = g
      BY DEF Gray, Path, Searching
    <2>2. k # L
      BY <1>1, <1>7, <2>1
    <2> QED BY <1>6, <2>1, <2>2
  <1>8. \A g \in Gray : Index(g) <= Index(n)
    BY <1>3, <1>5, <1>7
  <1> QED BY <1>2, <1>3, <1>4, <1>6, <1>7, <1>8 DEF L

\* The component of a root is the stack from the root on, and the other elements
\* that it has edges to were delivered.
LEMMA RootComponent ==
  ASSUME IInv, Searching, Work.processedChildren,
         NEW n, n = Work.item, Low(n) = Index(n)
  PROVE  /\ \A x \in Nodes : x \in Component(n) <=> x \in OnStack /\ Index(n) <= Index(x)
         /\ \A x \in Component(n) : \A m \in children[x] :
               m \in Component(n) \/ \E k \in Delivered : m \in components[k]
  <1> USE DEF IInv
  <1> DEFINE L == Len(workStack)
             S == {x \in OnStack : Index(n) <= Index(x)}
             D == {x \in Nodes : \E k \in DOMAIN components : x \in components[k]}
  <1>1. /\ n \in Gray /\ n \in OnStack /\ n \in Visited /\ n \in Nodes
        /\ L \in Opened
        /\ \A k \in Opened : k # L => Index(workStack[k].item) < Index(n)
        /\ \A g \in Gray : g # n => Index(g) < Index(n)
        /\ \A g \in Gray : Index(g) <= Index(n)
    BY LastOfPath
  <1>2. /\ L \in Nat /\ DOMAIN workStack = 1..L
    BY WorkFacts DEF Searching
  <1>3. /\ OnStack \subseteq Visited /\ Visited \subseteq Nodes
        /\ \A x \in Visited : Index(x) \in Nat /\ Low(x) \in Nat
        /\ \A x, y \in OnStack : Index(x) = Index(y) => x = y
    BY StackFacts DEF Numbers, Types
  <1>4. \A x \in OnStack : Connected(x, n)
    BY <1>1, StackReaches
  <1>5. ASSUME NEW x \in S
        PROVE  x \in Component(n)
    <2>1. Connected(n, x)
      <3>1. x = n \/ Index(n) < Index(x)
        BY <1>1, <1>3
      <3> QED BY <1>1, <3>1, ReachSelf DEF Ordered
    <2> QED BY <1>3, <1>4, <2>1 DEF Component
  <1>6. \A x \in Nodes : x \in D <=> x \in Visited /\ x \notin OnStack
    BY DEF Parts
  <1>7. \A x \in D : children[x] \subseteq D
    <2> SUFFICES ASSUME NEW x \in D, NEW m \in children[x]
                 PROVE  m \in D
      OBVIOUS
    <2>1. PICK k \in DOMAIN components : x \in components[k]
      OBVIOUS
    <2>2. k \in Delivered
      BY DEF Delivered, Searching
    <2>3. PICK j \in 1..k : m \in components[j]
      BY <2>1, <2>2 DEF Parts, CalleesFirst
    <2>4. j \in DOMAIN components
      <3>1. DOMAIN components = 1..Len(components) /\ Len(components) \in Nat
        BY LenProperties DEF Types
      <3> QED BY <3>1
    <2>5. m \in Nodes
      BY DEF Types
    <2> QED BY <2>3, <2>4, <2>5
  <1>8. ASSUME NEW x \in S, NEW m \in children[x]
        PROVE  m \in S \cup D
    <2>1. ~Pending(x, m)
      <3> SUFFICES ASSUME NEW k \in DOMAIN workStack, workStack[k].parent = x
                   PROVE  FALSE
        BY DEF Pending
      <3>1. x # None
        BY <1>3 DEF Types
      <3>2. PICK q \in Opened : q < k /\ workStack[q].item = x
        BY <3>1 DEF WorkStackInv
      <3>3. q # L
        <4>1. k \in 1..L /\ q \in 1..L
          BY <1>2 DEF Opened
        <4> HIDE DEF L
        <4> QED BY <1>2, <3>2, <4>1
      <3>4. Index(x) < Index(n)
        BY <1>1, <3>2, <3>3
      <3> QED BY <1>1, <1>3, <3>4
    <2>2. m \in Visited /\ (m \in OnStack => Low(x) <= Index(m))
      BY <2>1 DEF Lowlinks
    <2>3. CASE m \notin OnStack
      BY <1>3, <1>6, <2>2, <2>3
    <2>4. CASE m \in OnStack
      <3>1. Index(n) <= Low(x)
        <4>1. CASE x = n
          BY <1>1, <1>3, <4>1
        <4>2. CASE x # n
          <5>1. Index(n) < Index(x)
            BY <1>1, <1>3, <4>2
          <5>2. x \notin Gray
            BY <1>1, <1>3, <5>1
          <5>3. PICK g \in Gray : LeadsTo(x, g)
            BY <5>2 DEF Belongs
          <5>4. Index(n) <= Index(g) /\ Low(g) <= Low(x)
            BY <1>1, <5>1, <5>3 DEF LeadsTo
          <5>5. g \in OnStack
            BY DEF WorkStackInv
          <5>6. g = n
            BY <1>1, <1>3, <5>4, <5>5
          <5> QED BY <5>4, <5>6
        <4> QED BY <4>1, <4>2
      <3>2. Index(n) <= Index(m)
        BY <1>1, <1>3, <2>2, <2>4, <3>1
      <3> QED BY <2>4, <3>2
    <2> QED BY <2>3, <2>4
  <1>9. ASSUME NEW x \in Component(n)
        PROVE  x \in S
    <2>1. Connected(n, x) /\ Connected(x, n)
      BY DEF Component
    <2>2. S \cup D \in SUBSET Nodes
      BY <1>3
    <2>3. \A s \in S \cup D : children[s] \subseteq S \cup D
      BY <1>7, <1>8
    <2>4. n \in S
      BY <1>1, <1>3
    <2> HIDE DEF S, D
    <2>5. x \in S \cup D
      BY <2>1, <2>2, <2>3, <2>4, ReachClosed
    <2>6. ASSUME x \in D
          PROVE  FALSE
      <3>1. D \in SUBSET Nodes
        BY DEF D
      <3>2. n \in D
        BY <1>7, <2>1, <2>6, <3>1, ReachClosed
      <3> QED BY <1>1, <1>6, <3>2
    <2> QED BY <2>5, <2>6
  <1>10. ASSUME NEW x \in Component(n), NEW m \in children[x]
         PROVE  m \in Component(n) \/ \E k \in Delivered : m \in components[k]
    <2>1. m \in S \cup D
      BY <1>8, <1>9
    <2>2. Delivered = DOMAIN components
      BY DEF Delivered, Searching
    <2> QED BY <1>5, <2>1, <2>2
  <1> QED BY <1>5, <1>9, <1>10

\* A finished element that is not a root leads to its parent, and so does what
\* led to it.
LEMMA Merged ==
  ASSUME IInv, Searching, Work.processedChildren, NEW n, n = Work.item,
         NEW p, p = Work.parent, Low(n) # Index(n)
  PROVE  /\ p # None /\ Connected(n, p)
         /\ \A x \in OnStack : x \notin Gray =>
               \/ \E g \in Gray \ {n} : LeadsTo(x, g)
               \/ Index(n) < Index(x) /\ Connected(x, n) /\ Low(n) <= Low(x)
  <1> USE DEF IInv
  <1>1. /\ n \in Gray /\ n \in OnStack /\ n \in Visited
        /\ \A g \in Gray : g # n => Index(g) < Index(n)
    BY LastOfPath
  <1>2. /\ OnStack \subseteq Visited /\ Visited \subseteq Nodes /\ Gray \subseteq OnStack
        /\ \A x \in Visited : Index(x) \in Nat /\ Low(x) \in Nat
        /\ \A x, y \in OnStack : Index(x) = Index(y) => x = y
    BY StackFacts DEF Numbers, Types, WorkStackInv
  <1>3. Low(n) < Index(n)
    BY <1>1, <1>2 DEF Numbers
  <1>4. PICK y \in OnStack : Index(y) = Low(n) /\ Connected(n, y)
    BY <1>1 DEF Lowlinks
  <1>5. PICK g \in Gray : Index(g) <= Index(y) /\ Connected(y, g)
    <2>1. CASE y \in Gray
      <3>1. Index(y) <= Index(y) /\ Connected(y, y)
        BY <1>2, ReachSelf
      <3> QED BY <2>1, <3>1
    <2>2. CASE y \notin Gray
      <3>1. PICK h \in Gray : LeadsTo(y, h)
        BY <2>2 DEF Belongs
      <3>2. Index(h) <= Index(y) /\ Connected(y, h)
        BY <1>2, <3>1 DEF LeadsTo
      <3> QED BY <3>2
    <2> QED BY <2>1, <2>2
  <1>6. g # n /\ Connected(n, g)
    <2>1. Index(g) < Index(n)
      BY <1>1, <1>2, <1>3, <1>4, <1>5
    <2> QED BY <1>1, <1>2, <1>4, <1>5, <2>1, ReachTrans
  <1>7. PICK r \in Opened : workStack[r].item = g
    BY DEF Gray, Path, Searching
  <1>8. r # Len(workStack)
    BY <1>6, <1>7, WorkFacts DEF Searching
  <1>9. p # None
    BY <1>8, FirstItem
  <1>10. p \in OnStack /\ Index(g) <= Index(p)
    BY <1>7, <1>8, <1>9, ParentFacts
  <1>11. Connected(g, p)
    <2>1. g = p \/ Index(g) < Index(p)
      BY <1>2, <1>10
    <2>2. Connected(g, g)
      BY <1>2, ReachSelf
    <2> QED BY <1>2, <1>10, <2>1, <2>2 DEF Ordered
  <1>12. Connected(n, p)
    BY <1>6, <1>11, ReachTrans
  <1>13. ASSUME NEW x \in OnStack, x \notin Gray
         PROVE  \/ \E h \in Gray \ {n} : LeadsTo(x, h)
                \/ Index(n) < Index(x) /\ Connected(x, n) /\ Low(n) <= Low(x)
    <2>1. PICK h \in Gray : LeadsTo(x, h)
      BY <1>13 DEF Belongs
    <2>2. CASE h = n
      BY <2>1, <2>2 DEF LeadsTo
    <2>3. CASE h # n
      BY <2>1, <2>3
    <2> QED BY <2>2, <2>3
  <1> QED BY <1>9, <1>12, <1>13

\* What both kinds of elements have in common.
LEMMA FinishFacts ==
  ASSUME IInv, FinishItem, NEW n, n = Work.item, NEW p, p = Work.parent
  PROVE  /\ Searching /\ currRoot = None /\ Work.processedChildren
         /\ Numbers' /\ Lowlinks' /\ Ordered'
         /\ children' = children /\ input' = input /\ inputIt' = inputIt
         /\ Visited' = Visited /\ OnStack' = OnStack /\ Nodes' = Nodes
         /\ stack' = stack /\ elementInfo' \in [Visited -> Info]
         /\ workStack' \in Seq(WorkItem)
         /\ Opened' = Opened \ {Len(workStack)}
         /\ \A k \in DOMAIN workStack' : workStack'[k] = workStack[k]
         /\ Path' = Gray \ {n}
         /\ (\A j, k \in Opened :
                j < k => Index(workStack[j].item) < Index(workStack[k].item))'
         /\ (\A k \in DOMAIN workStack :
                IF workStack[k].parent = None THEN k = 1
                ELSE /\ workStack[k].item \in children[workStack[k].parent]
                     /\ \E q \in Opened :
                           /\ q < k /\ workStack[q].item = workStack[k].parent
                           /\ \A r \in Opened : r < k => r <= q)'
         /\ \A x \in Visited :
               /\ Index(x)' = Index(x) /\ Low(x)' <= Low(x)
               /\ Low(x)' # Low(x) => x = p /\ Low(x)' = Low(n)
         /\ p # None => Low(p)' <= Low(n)
  <1> USE DEF IInv
  <1>1. PICK L : L = Len(workStack)
    OBVIOUS
  <1>2. /\ Searching /\ currRoot = None /\ Work.processedChildren
        /\ workStack' = Front(workStack)
        /\ children' = children /\ input' = input /\ inputIt' = inputIt
        /\ stack' = stack
    BY DEF FinishItem, Searching
  <1>3. /\ n \in Gray /\ n \in OnStack /\ n \in Visited /\ n \in Nodes /\ L \in Opened
        /\ \A k \in Opened : k # L => Index(workStack[k].item) < Index(n)
    BY <1>1, <1>2, LastOfPath
  <1>4. Low(n) \in Nat /\ Index(n) \in Nat /\ Low(n) <= Index(n)
    BY <1>3, StackFacts DEF Numbers
  <1>5. LowerParent(p, Low(n))
    BY DEF FinishItem, Low
  <1>6. \E w \in OnStack : Index(w) = Low(n) /\ Connected(n, w)
    BY <1>3 DEF Lowlinks
  <1> HIDE DEF IInv
  <1>7. /\ Numbers' /\ Lowlinks' /\ Ordered'
        /\ Visited' = Visited /\ OnStack' = OnStack /\ Nodes' = Nodes
        /\ elementInfo' \in [Visited -> Info]
        /\ workStack' \in Seq(WorkItem)
        /\ Opened' = Opened \ {L}
        /\ \A k \in DOMAIN workStack' : workStack'[k] = workStack[k]
        /\ (\A j, k \in Opened :
               j < k => Index(workStack[j].item) < Index(workStack[k].item))'
        /\ (\A k \in DOMAIN workStack :
               IF workStack[k].parent = None THEN k = 1
               ELSE /\ workStack[k].item \in children[workStack[k].parent]
                    /\ \E q \in Opened :
                          /\ q < k /\ workStack[q].item = workStack[k].parent
                          /\ \A r \in Opened : r < k => r <= q)'
        /\ \A x \in Visited :
              /\ Index(x)' = Index(x) /\ Low(x)' <= Low(x)
              /\ Low(x)' # Low(x) => x = p /\ Low(x)' = Low(n)
        /\ p # None => Low(p)' <= Low(n)
    BY <1>1, <1>2, <1>3, <1>4, <1>5, <1>6, ItemDone
  <1>8. Path' = Gray \ {n}
    <2>1. Path' = {workStack'[k].item : k \in Opened'}
      BY DEF Path
    <2>2. \A k \in Opened : k # L => workStack'[k] = workStack[k] /\ workStack[k].item # n
      <3>1. \A k \in Opened : k # L => k \in Opened' /\ k \in DOMAIN workStack'
        BY <1>7 DEF Opened
      <3> QED BY <1>3, <1>4, <1>7, <3>1
    <2>3. workStack[L].item = n
      BY <1>1, <1>2, WorkFacts DEF IInv, Searching
    <2> QED BY <1>2, <1>7, <2>1, <2>2, <2>3 DEF Gray, Path
  <1> QED BY <1>1, <1>2, <1>7, <1>8

LEMMA FinishMergedStep ==
  ASSUME IInv, FinishItem, ~IsRoot(Work.item)
  PROVE  IInv'
  <1> USE DEF IInv
  <1>1. PICK n : n = Work.item
    OBVIOUS
  <1>2. PICK p : p = Work.parent
    OBVIOUS
  <1>3. /\ Searching /\ currRoot = None /\ Work.processedChildren
        /\ Numbers' /\ Lowlinks' /\ Ordered'
        /\ children' = children /\ input' = input /\ inputIt' = inputIt
        /\ Visited' = Visited /\ OnStack' = OnStack /\ Nodes' = Nodes
        /\ stack' = stack /\ elementInfo' \in [Visited -> Info]
        /\ workStack' \in Seq(WorkItem)
        /\ Path' = Gray \ {n}
        /\ (\A j, k \in Opened :
               j < k => Index(workStack[j].item) < Index(workStack[k].item))'
        /\ (\A k \in DOMAIN workStack :
               IF workStack[k].parent = None THEN k = 1
               ELSE /\ workStack[k].item \in children[workStack[k].parent]
                    /\ \E q \in Opened :
                          /\ q < k /\ workStack[q].item = workStack[k].parent
                          /\ \A r \in Opened : r < k => r <= q)'
        /\ \A x \in Visited :
              /\ Index(x)' = Index(x) /\ Low(x)' <= Low(x)
              /\ Low(x)' # Low(x) => x = p /\ Low(x)' = Low(n)
        /\ p # None => Low(p)' <= Low(n)
    BY <1>1, <1>2, FinishFacts
  <1>4. currRoot' = None /\ components' = components
    BY <1>3 DEF FinishItem
  <1>5. Low(n) # Index(n)
    BY <1>1 DEF IsRoot, Low, Index
  <1>6. /\ p # None /\ Connected(n, p)
        /\ \A x \in OnStack : x \notin Gray =>
              \/ \E g \in Gray \ {n} : LeadsTo(x, g)
              \/ Index(n) < Index(x) /\ Connected(x, n) /\ Low(n) <= Low(x)
    BY <1>1, <1>2, <1>3, <1>5, Merged
  <1>7. /\ n \in Gray /\ n \in OnStack /\ n \in Visited
        /\ \A g \in Gray : Index(g) <= Index(n)
    BY <1>1, <1>3, LastOfPath
  <1>8. /\ p \in Gray /\ p \in OnStack /\ p \in Visited /\ Index(p) < Index(n)
        /\ \A r \in Opened : r # Len(workStack) => Index(workStack[r].item) <= Index(p)
    BY <1>1, <1>2, <1>3, <1>6, ParentFacts
  <1>9. /\ OnStack \subseteq Visited /\ Gray \subseteq OnStack
        /\ \A x \in Visited : Index(x) \in Nat /\ Low(x) \in Nat
    BY StackFacts DEF Numbers, WorkStackInv
  <1>10. \A x, y : Connected(x, y)' <=> Connected(x, y)
    BY <1>3, SameGraph
  <1>11. Gray' = Gray \ {n}
    BY <1>3, <1>4 DEF Gray
  <1>12. p \in Gray'
    BY <1>7, <1>8, <1>9, <1>11
  <1>13. \A h \in Gray' : Index(h) <= Index(p)
    <2> SUFFICES ASSUME NEW h \in Gray, h # n
                 PROVE  Index(h) <= Index(p)
      BY <1>11
    <2>1. PICK k \in Opened : workStack[k].item = h
      BY <1>3 DEF Gray, Path
    <2>2. k # Len(workStack)
      BY <1>1, <1>3, <2>1, WorkFacts DEF Searching
    <2> QED BY <1>8, <2>1, <2>2
  <1> HIDE DEF IInv
  <1>14. Types'
    <2>1. WorkItem' = WorkItem
      BY <1>3 DEF WorkItem
    <2> QED BY <1>3, <1>4, <2>1 DEF IInv, Types, Info
  <1>15. WorkStackInv'
    <2>1. (Gray \subseteq OnStack)'
      BY <1>3, <1>9, <1>11
    <2> QED BY <1>3, <1>4, <2>1 DEF WorkStackInv
  <1>16. ASSUME NEW x \in OnStack, Index(p) < Index(x), Connected(x, p), Low(n) <= Low(x),
                x # p
         PROVE  LeadsTo(x, p)'
    <2>1. Low(x)' = Low(x) /\ x \in Visited
      BY <1>3, <1>9, <1>16
    <2>2. Low(p)' \in Nat
      <3>1. elementInfo'[p] \in Info
        BY <1>3, <1>8
      <3> QED BY <3>1 DEF Info, Low
    <2>3. Low(p)' <= Low(x)'
      BY <1>3, <1>6, <1>7, <1>9, <1>16, <2>1, <2>2
    <2>4. Index(p)' = Index(p) /\ Index(x)' = Index(x)
      BY <1>3, <1>8, <2>1
    <2>5. \A h \in Gray' : Index(h)' <= Index(p)'
      BY <1>3, <1>8, <1>9, <1>11, <1>13
    <2> QED BY <1>10, <1>16, <2>3, <2>4, <2>5 DEF LeadsTo
  <1>17. Belongs'
    <2> SUFFICES ASSUME NEW x \in OnStack', x \notin Gray'
                 PROVE  \E g \in Gray' : LeadsTo(x, g)'
      BY DEF Belongs
    <2>1. x \in OnStack /\ x \in Visited /\ x # p
      BY <1>3, <1>9, <1>12
    <2>2. CASE x = n
      <3>1. LeadsTo(x, p)'
        BY <1>6, <1>7, <1>8, <1>9, <1>16, <2>1, <2>2
      <3> QED BY <1>12, <3>1
    <2>3. CASE x # n
      <3>1. x \notin Gray
        BY <1>11, <2>3
      <3>2. CASE \E g \in Gray \ {n} : LeadsTo(x, g)
        <4>1. PICK g \in Gray \ {n} : LeadsTo(x, g)
          BY <3>2
        <4>2. Low(x)' = Low(x) /\ Index(x)' = Index(x) /\ Index(g)' = Index(g)
          BY <1>3, <1>9, <2>1, <4>1
        <4>3. Low(g)' <= Low(x)'
          <5>1. elementInfo'[g] \in Info
            BY <1>3, <1>9, <4>1
          <5>2. Low(g)' \in Nat
            BY <5>1 DEF Info, Low
          <5> QED BY <1>3, <1>9, <2>1, <4>1, <4>2, <5>2 DEF LeadsTo
        <4>4. \A h \in Gray' : Index(h)' = Index(h) /\ h \in Gray
          BY <1>3, <1>9, <1>11
        <4>5. LeadsTo(x, g)'
          BY <1>10, <4>1, <4>2, <4>3, <4>4 DEF LeadsTo
        <4> QED BY <1>11, <4>1, <4>5
      <3>3. CASE Index(n) < Index(x) /\ Connected(x, n) /\ Low(n) <= Low(x)
        <4>1. Connected(x, p)
          BY <1>6, <3>3, ReachTrans
        <4>2. Index(p) < Index(x)
          BY <1>7, <1>8, <1>9, <2>1, <3>3
        <4>3. LeadsTo(x, p)'
          BY <1>16, <2>1, <3>3, <4>1, <4>2
        <4> QED BY <1>12, <4>3
      <3> QED BY <1>6, <2>1, <3>1, <3>2, <3>3
    <2> QED BY <2>2, <2>3
  <1>18. Parts'
    BY <1>3, <1>4, PartsKept DEF IInv
  <1>19. Emitting'
    BY <1>4 DEF Emitting
  <1> QED BY <1>3, <1>14, <1>15, <1>17, <1>18, <1>19 DEF IInv

\* A root starts a component, which is still empty.
LEMMA ComponentStarted ==
  ASSUME Types, Parts, currRoot = None, NEW n \in Nodes, currRoot' = n,
         components' = Append(components, {}),
         children' = children, Visited' = Visited, OnStack' = OnStack
  PROVE  /\ Parts' /\ components' \in Seq(SUBSET Nodes) /\ components' # <<>>
         /\ components'[Len(components')] = {}
         /\ \A k \in Delivered : k \in Delivered' /\ components'[k] = components[k]
  <1> DEFINE K == Len(components)
  <1>1. K \in Nat /\ DOMAIN components = 1..K
    BY LenProperties DEF Types
  <1>2. /\ components' \in Seq(SUBSET Nodes) /\ Len(components') = K + 1
        /\ \A k \in 1..K : components'[k] = components[k]
        /\ components'[K + 1] = {}
    <2>1. {} \in SUBSET Nodes
      OBVIOUS
    <2> QED BY <2>1, AppendProperties DEF Types
  <1> HIDE DEF K
  <1>3. DOMAIN components' = 1..K + 1
    BY <1>2, LenProperties
  <1>4. currRoot' # None
    BY DEF Types
  <1>5. Delivered = 1..K /\ Delivered' = 1..K
    BY <1>1, <1>2, <1>4 DEF Delivered
  <1>6. Nodes' = Nodes /\ \A x : Component(x)' = Component(x)
    BY SameGraph
  <1>7. \A k \in 1..K + 1 : k \in 1..K \/ k = K + 1
    BY <1>1
  <1>8. \A k \in 1..K : k \in 1..K + 1
    BY <1>1
  <1>9. (\A x \in Nodes : x \in Visited \ OnStack <=>
            \E k \in DOMAIN components : x \in components[k])'
    BY <1>1, <1>2, <1>3, <1>6, <1>7, <1>8 DEF Parts
  <1>10. (\A j, k \in DOMAIN components : j # k => components[j] \cap components[k] = {})'
    BY <1>1, <1>2, <1>3, <1>7 DEF Parts
  <1>11. (\A k \in Delivered :
             /\ components[k] # {}
             /\ \A x \in components[k] : components[k] = Component(x))'
    BY <1>2, <1>5, <1>6 DEF Parts
  <1>12. CalleesFirst'
    <2> SUFFICES ASSUME NEW k \in 1..K, NEW x \in components[k], NEW m \in children[x]
                 PROVE  \E j \in 1..k : m \in components'[j]
      BY <1>2, <1>5 DEF CalleesFirst
    <2>1. PICK j \in 1..k : m \in components[j]
      BY <1>5 DEF Parts, CalleesFirst
    <2>2. j \in 1..K
      BY <1>1, <2>1
    <2> QED BY <1>2, <2>1, <2>2
  <1>13. components' # <<>>
    BY <1>1, <1>2, LenProperties
  <1> QED BY <1>2, <1>5, <1>9, <1>10, <1>11, <1>12, <1>13 DEF Parts

LEMMA FinishRootStep ==
  ASSUME IInv, FinishItem, IsRoot(Work.item)
  PROVE  IInv'
  <1> USE DEF IInv
  <1>1. PICK n : n = Work.item
    OBVIOUS
  <1>2. PICK p : p = Work.parent
    OBVIOUS
  <1>3. /\ Searching /\ currRoot = None /\ Work.processedChildren
        /\ Numbers' /\ Lowlinks' /\ Ordered'
        /\ children' = children /\ input' = input /\ inputIt' = inputIt
        /\ Visited' = Visited /\ OnStack' = OnStack /\ Nodes' = Nodes
        /\ stack' = stack /\ elementInfo' \in [Visited -> Info]
        /\ workStack' \in Seq(WorkItem)
        /\ Opened' = Opened \ {Len(workStack)}
        /\ \A k \in DOMAIN workStack' : workStack'[k] = workStack[k]
        /\ Path' = Gray \ {n}
        /\ (\A j, k \in Opened :
               j < k => Index(workStack[j].item) < Index(workStack[k].item))'
        /\ (\A k \in DOMAIN workStack :
               IF workStack[k].parent = None THEN k = 1
               ELSE /\ workStack[k].item \in children[workStack[k].parent]
                    /\ \E q \in Opened :
                          /\ q < k /\ workStack[q].item = workStack[k].parent
                          /\ \A r \in Opened : r < k => r <= q)'
        /\ \A x \in Visited :
              /\ Index(x)' = Index(x) /\ Low(x)' <= Low(x)
              /\ Low(x)' # Low(x) => x = p /\ Low(x)' = Low(n)
    BY <1>1, <1>2, FinishFacts
  <1>4. currRoot' = n /\ components' = Append(components, {})
    BY <1>1 DEF FinishItem
  <1>5. Low(n) = Index(n)
    BY <1>1 DEF IsRoot, Low, Index
  <1>6. /\ n \in Gray /\ n \in OnStack /\ n \in Visited /\ n \in Nodes
        /\ \A k \in Opened : k # Len(workStack) => Index(workStack[k].item) < Index(n)
    BY <1>1, <1>3, LastOfPath
  <1>7. /\ OnStack \subseteq Visited /\ Gray \subseteq OnStack
    BY DEF Numbers, WorkStackInv
  <1>8. n # None
    BY <1>6 DEF Types
  <1>9. Gray' = Gray
    BY <1>3, <1>4, <1>6, <1>8 DEF Gray
  <1>10. /\ \A x \in Nodes : x \in Component(n) <=> x \in OnStack /\ Index(n) <= Index(x)
         /\ \A x \in Component(n) : \A m \in children[x] :
               m \in Component(n) \/ \E k \in Delivered : m \in components[k]
    BY <1>1, <1>3, <1>5, RootComponent
  <1>11. /\ Parts' /\ components' \in Seq(SUBSET Nodes) /\ components' # <<>>
         /\ components'[Len(components')] = {}
         /\ \A k \in Delivered : k \in Delivered' /\ components'[k] = components[k]
    BY <1>3, <1>4, <1>6, ComponentStarted
  <1> HIDE DEF IInv
  <1>12. Types'
    <2>1. WorkItem' = WorkItem
      BY <1>3 DEF WorkItem
    <2> QED BY <1>3, <1>4, <1>6, <1>11, <2>1 DEF IInv, Types, Info
  <1>13. WorkStackInv'
    <2>1. (Gray \subseteq OnStack)'
      BY <1>3, <1>7, <1>9
    <2>2. (\A k \in Opened : currRoot # None => Index(workStack[k].item) < Index(currRoot))'
      <3> SUFFICES ASSUME NEW k \in Opened'
                   PROVE  elementInfo'[workStack'[k].item].index < elementInfo'[n].index
        BY <1>4 DEF Index
      <3>1. k \in Opened /\ k # Len(workStack) /\ workStack'[k] = workStack[k]
        BY <1>3 DEF Opened
      <3>2. workStack[k].item \in Visited
        BY <1>3, <1>7, <3>1 DEF Gray, Path
      <3>3. /\ elementInfo'[workStack[k].item].index = Index(workStack[k].item)
            /\ elementInfo'[n].index = Index(n)
        BY <1>3, <1>6, <3>2 DEF Index
      <3> QED BY <1>6, <3>1, <3>3
    <2> QED BY <1>3, <2>1, <2>2 DEF WorkStackInv
  <1>14. Belongs'
    <2>1. p # None => p \in Gray
      BY <1>2, <1>3, ParentFacts DEF IInv
    <2> QED BY <1>3, <1>9, <2>1, BelongsKept
  <1>15. Emitting'
    <2>1. Component(currRoot)' = Component(n)
      <3>1. \A x, y : Connected(x, y)' <=> Connected(x, y)
        BY <1>3, SameGraph
      <3> QED BY <1>3, <1>4, <3>1 DEF Component
    <2>2. (\A x \in Nodes :
              x \in Component(currRoot) <=>
                 \/ x \in components[Len(components)]
                 \/ x \in OnStack /\ Index(currRoot) <= Index(x))'
      <3> SUFFICES ASSUME NEW x \in Nodes
                   PROVE  x \in Component(n) <=>
                             x \in OnStack /\ elementInfo'[n].index <= elementInfo'[x].index
        BY <1>3, <1>4, <1>11, <2>1 DEF Index
      <3>1. x \in OnStack => /\ elementInfo'[n].index = Index(n)
                             /\ elementInfo'[x].index = Index(x)
        BY <1>3, <1>6, <1>7 DEF Index
      <3> QED BY <1>10, <3>1
    <2>3. (\A x \in Component(currRoot) : \A m \in children[x] :
              m \in Component(currRoot) \/ \E k \in Delivered : m \in components[k])'
      BY <1>3, <1>10, <1>11, <2>1
    <2> QED BY <1>11, <2>2, <2>3 DEF Emitting
  <1> QED BY <1>3, <1>11, <1>12, <1>13, <1>14, <1>15 DEF IInv

LEMMA FinishItemStep ==
  ASSUME IInv, FinishItem
  PROVE  IInv'
  BY FinishMergedStep, FinishRootStep

-----------------------------------------------------------------------------
(* StepToNextElem *)

\* The last element goes from the stack to the last component.
LEMMA ElemTaken ==
  ASSUME IInv, StepToNextElem, NEW e, e = Last(stack)
  PROVE  /\ currRoot \in Gray /\ stack # <<>> /\ components # <<>>
         /\ e \in OnStack /\ e \in Visited /\ Index(currRoot) <= Index(e)
         /\ \A n \in OnStack : n # e => Index(n) < Index(e)
         /\ currRoot' = IF e = currRoot THEN None ELSE currRoot
         /\ OnStack' = OnStack \ {e} /\ stack' \in Seq(Nodes)
         /\ DOMAIN stack' \subseteq DOMAIN stack
         /\ \A k \in DOMAIN stack' : stack'[k] = stack[k]
         /\ Visited' = Visited /\ elementInfo' \in [Visited -> Info]
         /\ \A n \in Visited : Index(n)' = Index(n) /\ Low(n)' = Low(n)
         /\ \A n \in Visited :
               elementInfo'[n].onStack = IF n = e THEN FALSE ELSE elementInfo[n].onStack
         /\ Gray' = Gray \ {e} /\ Opened' = Opened
         /\ \A n \in Gray : n = e => currRoot = e
         /\ components' = [components EXCEPT ![Len(components)] = @ \cup {e}]
         /\ UNCHANGED <<children, input, inputIt, workStack>>
  <1> USE DEF IInv
  <1>1. /\ currRoot # None
        /\ currRoot' = IF e = currRoot THEN None ELSE currRoot
        /\ elementInfo' = [elementInfo EXCEPT ![e].onStack = FALSE]
        /\ components' = [components EXCEPT ![Len(components)] = @ \cup {e}]
        /\ stack' = Front(stack)
        /\ UNCHANGED <<children, input, inputIt, workStack>>
    BY DEF StepToNextElem, TakeOffStack
  <1>2. currRoot \in Gray /\ currRoot \in OnStack
    BY <1>1 DEF Gray, WorkStackInv
  <1>3. stack # <<>>
    BY <1>2 DEF OnStack, Range
  <1>4. /\ e \in OnStack
        /\ \A n \in OnStack : Index(n) <= Index(e)
        /\ \A n \in OnStack : n # e => Index(n) < Index(e)
    BY <1>3, StackTop
  <1>5. e \in Visited /\ \A n \in Visited : Index(n) \in Nat
    BY <1>4, StackFacts DEF Numbers
  <1>6. /\ OnStack' = OnStack \ {e} /\ stack' \in Seq(Nodes)
        /\ DOMAIN stack' \subseteq DOMAIN stack
        /\ \A k \in DOMAIN stack' : stack'[k] = stack[k]
    BY <1>1, <1>3, StackPopped
  <1>7. Visited' = Visited
    BY <1>1 DEF Visited
  <1>8. /\ \A n \in Visited : n # e => elementInfo'[n] = elementInfo[n]
        /\ elementInfo'[e] = [elementInfo[e] EXCEPT !.onStack = FALSE]
    BY <1>1, <1>5 DEF Types
  <1>9. \A n \in Visited : elementInfo[n] \in Info
    BY DEF Types
  <1>10. /\ elementInfo'[e] \in Info /\ elementInfo'[e].index = elementInfo[e].index
         /\ elementInfo'[e].lowlink = elementInfo[e].lowlink
         /\ elementInfo'[e].onStack = FALSE
    BY <1>5, <1>8, <1>9 DEF Info
  <1>11. elementInfo' \in [Visited -> Info]
    BY <1>1, <1>7, <1>8, <1>9, <1>10 DEF Types
  <1>12. \A n \in Visited : Index(n)' = Index(n) /\ Low(n)' = Low(n)
    BY <1>8, <1>10 DEF Index, Low
  <1>13. Opened' = Opened /\ Path' = Path
    BY <1>1 DEF Opened, Path
  <1>14. \A n \in Path : Index(n) < Index(currRoot)
    BY <1>1 DEF Path, WorkStackInv
  <1>15. \A n \in Gray : n = e => currRoot = e
    <2> SUFFICES ASSUME e \in Path
                 PROVE  currRoot = e
      BY DEF Gray
    <2>1. Index(e) < Index(currRoot) /\ Index(currRoot) <= Index(e)
      BY <1>2, <1>4, <1>14
    <2> QED BY <1>2, <1>4, <1>5, <2>1 DEF Numbers
  <1>16. Gray' = Gray \ {e}
    <2>1. CASE e = currRoot
      <3>1. Gray' = Path
        BY <1>1, <1>13, <2>1 DEF Gray
      <3>2. e \notin Path
        BY <1>5, <1>14, <2>1
      <3> QED BY <1>1, <2>1, <3>1, <3>2 DEF Gray
    <2>2. CASE e # currRoot
      <3>1. Gray' = Gray
        BY <1>1, <1>13, <2>2 DEF Gray
      <3> QED BY <1>15, <2>2, <3>1
    <2> QED BY <2>1, <2>2
  <1>17. components # <<>>
    BY <1>1 DEF Emitting
  <1>18. \A n \in Visited :
            elementInfo'[n].onStack = IF n = e THEN FALSE ELSE elementInfo[n].onStack
    BY <1>8, <1>10
  <1> QED BY <1>1, <1>2, <1>3, <1>4, <1>5, <1>6, <1>7, <1>11, <1>12, <1>13, <1>15,
             <1>16, <1>17, <1>18

\* The last component grows; with its root it is complete.
LEMMA ElemDelivered ==
  ASSUME IInv, currRoot # None, NEW e, NEW K, K = Len(components),
         components # <<>>, e \in OnStack, e \in Nodes,
         Index(currRoot) <= Index(e),
         \A n \in OnStack : n # e => Index(n) < Index(e),
         Index(currRoot) \in Nat, \A n \in OnStack : Index(n) \in Nat,
         currRoot \in OnStack,
         currRoot' = IF e = currRoot THEN None ELSE currRoot,
         OnStack' = OnStack \ {e}, Visited' = Visited, children' = children,
         \A n \in Visited : Index(n)' = Index(n),
         components' = [components EXCEPT ![Len(components)] = @ \cup {e}]
  PROVE  Parts' /\ Emitting' /\ components' \in Seq(SUBSET Nodes)
  <1> USE DEF IInv
  <1>1. /\ K \in Nat \ {0} /\ DOMAIN components = 1..K
        /\ \A k \in 1..K : components[k] \in SUBSET Nodes
    <2>1. K \in Nat \ {0}
      BY FrontFact DEF Types
    <2>2. DOMAIN components = 1..K
      BY LenProperties DEF Types
    <2> QED BY <2>1, <2>2, ElementOfSeq DEF Types
  <1>2. /\ components' \in Seq(SUBSET Nodes) /\ Len(components') = K
        /\ \A k \in 1..K : k # K => components'[k] = components[k]
        /\ components'[K] = components[K] \cup {e}
    <2>1. K \in 1..K /\ components[K] \cup {e} \in SUBSET Nodes
      BY <1>1
    <2>2. components' = [components EXCEPT ![K] = components[K] \cup {e}]
      OBVIOUS
    <2> QED BY <1>1, <2>1, <2>2, ExceptSeq DEF Types
  <1>3. DOMAIN components' = 1..K
    BY <1>2, LenProperties
  <1>4. Nodes' = Nodes /\ \A x : Component(x)' = Component(x)
    BY SameGraph
  <1>5. Delivered = 1..K - 1
    BY DEF Delivered
  <1>6. /\ e = currRoot => Delivered' = 1..K
        /\ e # currRoot => Delivered' = 1..K - 1
    BY <1>2, <1>3 DEF Delivered
  <1>7. /\ \A x \in Nodes :
              x \in Component(currRoot) <=>
                 x \in components[K] \/ (x \in OnStack /\ Index(currRoot) <= Index(x))
        /\ \A x \in Component(currRoot) : \A m \in children[x] :
              m \in Component(currRoot) \/ \E k \in 1..K - 1 : m \in components[k]
    BY <1>5 DEF Emitting
  <1>8. e \notin UNION {components[k] : k \in 1..K}
    BY <1>1 DEF Parts
  <1>9. ASSUME e = currRoot
        PROVE  components'[K] = Component(e)
    <2>1. \A x \in OnStack : Index(e) <= Index(x) <=> x = e
      BY <1>9
    <2>2. ASSUME NEW x \in Nodes
          PROVE  x \in Component(e) <=> x \in components'[K]
      BY <1>2, <1>7, <1>9, <2>1
    <2>3. Component(e) \subseteq Nodes /\ components'[K] \subseteq Nodes
      BY <1>1, <1>2 DEF Component
    <2> QED BY <2>2, <2>3
  <1>10. \A k \in 1..K - 1 : k \in 1..K /\ k # K /\ components'[k] = components[k]
    BY <1>1, <1>2
  <1> HIDE DEF IInv
  <1>11. Parts'
    <2>1. (\A n \in Nodes : n \in Visited \ OnStack <=>
              \E k \in DOMAIN components : n \in components[k])'
      <3> SUFFICES ASSUME NEW n \in Nodes
                   PROVE  n \in Visited \ (OnStack \ {e}) <=>
                             \E k \in 1..K : n \in components'[k]
        BY <1>3, <1>4
      <3>1. n \in Visited \ OnStack <=> \E k \in 1..K : n \in components[k]
        BY <1>1 DEF IInv, Parts
      <3>2. e \in Visited
        BY DEF IInv, Numbers
      <3>3. (\E k \in 1..K : n \in components'[k]) <=>
               n = e \/ \E k \in 1..K : n \in components[k]
        BY <1>1, <1>2
      <3> QED BY <3>1, <3>2, <3>3
    <2>2. (\A j, k \in DOMAIN components : j # k => components[j] \cap components[k] = {})'
      <3> SUFFICES ASSUME NEW j \in 1..K, NEW k \in 1..K, j # k
                   PROVE  components'[j] \cap components'[k] = {}
        BY <1>3
      <3>1. components[j] \cap components[k] = {}
        BY <1>1 DEF IInv, Parts
      <3>2. e \notin components[j] /\ e \notin components[k]
        BY <1>8
      <3> QED BY <1>2, <3>1, <3>2
    <2>3. ASSUME NEW k \in 1..K - 1
          PROVE  components'[k] # {} /\ \A n \in components'[k] : components'[k] = Component(n)
      BY <1>5, <1>10 DEF IInv, Parts
    <2>4. ASSUME e = currRoot
          PROVE  components'[K] # {} /\ \A n \in components'[K] : components'[K] = Component(n)
      <3>1. components'[K] = Component(e)
        BY <1>9, <2>4
      <3>2. \A n \in Component(e) : Component(n) = Component(e)
        BY ComponentSame
      <3>3. e \in components'[K]
        BY <1>2
      <3> QED BY <3>1, <3>2, <3>3
    <2>5. \A k \in Delivered' :
             components'[k] # {} /\ \A n \in components'[k] : components'[k] = Component(n)
      <3>1. \A k \in 1..K : k \in 1..K - 1 \/ k = K
        BY <1>1
      <3> QED BY <1>6, <2>3, <2>4, <3>1
    <2>6. (\A k \in Delivered :
              /\ components[k] # {}
              /\ \A n \in components[k] : components[k] = Component(n))'
      BY <1>4, <2>5
    <2>7. CalleesFirst'
      <3>1. ASSUME NEW k \in 1..K - 1, NEW n \in components'[k], NEW m \in children[n]
            PROVE  \E j \in 1..k : m \in components'[j]
        <4>1. PICK j \in 1..k : m \in components[j]
          BY <1>5, <1>10 DEF IInv, Parts, CalleesFirst
        <4>2. j \in 1..K - 1
          BY <1>1, <4>1
        <4> QED BY <1>10, <4>1, <4>2
      <3>2. ASSUME e = currRoot, NEW n \in components'[K], NEW m \in children[n]
            PROVE  \E j \in 1..K : m \in components'[j]
        <4>1. m \in Component(e) \/ \E k \in 1..K - 1 : m \in components[k]
          BY <1>7, <1>9, <3>2
        <4>2. K \in 1..K
          BY <1>1
        <4> QED BY <1>9, <1>10, <3>2, <4>1, <4>2
      <3>3. \A k \in 1..K : k \in 1..K - 1 \/ k = K
        BY <1>1
      <3>4. \A k \in Delivered' : \A n \in components'[k] : \A m \in children[n] :
               \E j \in 1..k : m \in components'[j]
        <4>1. CASE e = currRoot
          BY <1>6, <3>1, <3>2, <3>3, <4>1
        <4>2. CASE e # currRoot
          BY <1>6, <3>1, <4>2
        <4> QED BY <4>1, <4>2
      <3> QED BY <3>4 DEF CalleesFirst
    <2> QED BY <2>1, <2>2, <2>6, <2>7 DEF Parts
  <1>12. Emitting'
    <2>1. CASE e = currRoot
      BY <2>1 DEF Emitting
    <2>2. CASE e # currRoot
      <3>1. currRoot' = currRoot
        BY <2>2
      <3>2. Component(currRoot)' = Component(currRoot)
        <4>1. \A x, y : Connected(x, y)' <=> Connected(x, y)
          BY SameGraph
        <4> QED BY <1>4, <3>1, <4>1 DEF Component
      <3>3. components' # <<>>
        BY <1>1, <1>3
      <3>4. (\A x \in Nodes :
                x \in Component(currRoot) <=>
                   \/ x \in components[Len(components)]
                   \/ x \in OnStack /\ Index(currRoot) <= Index(x))'
        <4> SUFFICES ASSUME NEW x \in Nodes
                     PROVE  x \in Component(currRoot) <=>
                               \/ x \in components[K] \cup {e}
                               \/ /\ x \in OnStack \ {e}
                                  /\ elementInfo'[currRoot].index <= elementInfo'[x].index
          BY <1>2, <1>4, <3>1, <3>2 DEF Index
        <4>1. x \in OnStack => /\ elementInfo'[currRoot].index = Index(currRoot)
                               /\ elementInfo'[x].index = Index(x)
          BY DEF IInv, Numbers, Index
        <4> QED BY <1>7, <4>1
      <3>5. (\A x \in Component(currRoot) : \A m \in children[x] :
                m \in Component(currRoot) \/ \E k \in Delivered : m \in components[k])'
        BY <1>6, <1>7, <1>10, <2>2, <3>2
      <3> QED BY <3>3, <3>4, <3>5 DEF Emitting
    <2> QED BY <2>1, <2>2
  <1> QED BY <1>2, <1>11, <1>12

LEMMA StepToNextElemStep ==
  ASSUME IInv, StepToNextElem
  PROVE  IInv'
  <1>1. PICK e : e = Last(stack)
    OBVIOUS
  <1>2. /\ currRoot \in Gray /\ stack # <<>> /\ components # <<>>
        /\ e \in OnStack /\ e \in Visited /\ Index(currRoot) <= Index(e)
        /\ \A n \in OnStack : n # e => Index(n) < Index(e)
        /\ currRoot' = IF e = currRoot THEN None ELSE currRoot
        /\ OnStack' = OnStack \ {e} /\ stack' \in Seq(Nodes)
        /\ DOMAIN stack' \subseteq DOMAIN stack
        /\ \A k \in DOMAIN stack' : stack'[k] = stack[k]
        /\ Visited' = Visited /\ elementInfo' \in [Visited -> Info]
        /\ \A n \in Visited : Index(n)' = Index(n) /\ Low(n)' = Low(n)
        /\ \A n \in Visited :
              elementInfo'[n].onStack = IF n = e THEN FALSE ELSE elementInfo[n].onStack
        /\ Gray' = Gray \ {e} /\ Opened' = Opened
        /\ \A n \in Gray : n = e => currRoot = e
        /\ components' = [components EXCEPT ![Len(components)] = @ \cup {e}]
        /\ UNCHANGED <<children, input, inputIt, workStack>>
    BY <1>1, ElemTaken
  <1>3. currRoot # None
    BY DEF StepToNextElem
  <1>4. /\ OnStack \subseteq Visited /\ Gray \subseteq OnStack /\ Visited \subseteq Nodes
        /\ \A n \in Visited : Index(n) \in Nat /\ Low(n) \in Nat /\ Low(n) <= Index(n)
    BY StackFacts DEF IInv, Types, Numbers, WorkStackInv
  <1>5. /\ Nodes' = Nodes /\ \A x, y : Connected(x, y)' <=> Connected(x, y)
    BY <1>2, SameGraph
  <1>6. Parts' /\ Emitting' /\ components' \in Seq(SUBSET Nodes)
    <2>1. Index(currRoot) \in Nat /\ currRoot \in OnStack
      BY <1>2, <1>4
    <2>2. e \in Nodes /\ \A n \in OnStack : Index(n) \in Nat
      BY <1>2, <1>4
    <2>3. PICK K : K = Len(components)
      OBVIOUS
    <2> QED BY <1>2, <1>3, <2>1, <2>2, <2>3, ElemDelivered
  <1>7. Types'
    <2>1. WorkItem' = WorkItem
      BY <1>5 DEF WorkItem
    <2>2. currRoot' \in Nodes \cup {None}
      BY <1>2 DEF IInv, Types
    <2> QED BY <1>2, <1>5, <1>6, <2>1, <2>2 DEF IInv, Types, Info
  <1>8. Numbers'
    <2>1. {Index(n) : n \in Visited}' = {Index(n) : n \in Visited}
      <3>1. {Index(n) : n \in Visited}' = {elementInfo'[n].index : n \in Visited'}
        BY DEF Index
      <3>2. {Index(n) : n \in Visited} = {elementInfo[n].index : n \in Visited}
        BY DEF Index
      <3>3. \A n \in Visited : elementInfo'[n].index = elementInfo[n].index
        BY <1>2 DEF Index
      <3> QED BY <1>2, <3>1, <3>2, <3>3
    <2>2. (\A n \in Visited : elementInfo[n].onStack <=> n \in OnStack)'
      BY <1>2 DEF IInv, Numbers
    <2>3. (\A n \in Visited : Low(n) <= Index(n))'
      BY <1>2, <1>4
    <2>4. (\A j, k \in DOMAIN stack : j < k => Index(stack[j]) < Index(stack[k]))'
      <3> SUFFICES ASSUME NEW j \in DOMAIN stack', NEW k \in DOMAIN stack', j < k
                   PROVE  elementInfo'[stack'[j]].index < elementInfo'[stack'[k]].index
        BY DEF Index
      <3>1. /\ j \in DOMAIN stack /\ k \in DOMAIN stack
            /\ stack'[j] = stack[j] /\ stack'[k] = stack[k]
        BY <1>2
      <3>2. stack[j] \in Visited /\ stack[k] \in Visited
        BY <1>4, <3>1 DEF OnStack, Range
      <3>3. /\ elementInfo'[stack[j]].index = Index(stack[j])
            /\ elementInfo'[stack[k]].index = Index(stack[k])
        BY <1>2, <3>2 DEF Index
      <3> QED BY <3>1, <3>3 DEF IInv, Numbers
    <2>5. OnStack' \subseteq Visited'
      BY <1>2, <1>4
    <2>6. Cardinality(Visited)' = Cardinality(Visited)
      BY <1>2
    <2> QED BY <2>1, <2>2, <2>3, <2>4, <2>5, <2>6 DEF IInv, Numbers
  <1>9. WorkStackInv'
    <2>1. (Gray \subseteq OnStack)'
      BY <1>2, <1>4
    <2>2. \A k \in Opened : workStack[k].item \in Visited
      BY <1>4 DEF Gray, Path
    <2>3. \A n \in Visited : elementInfo'[n].index = elementInfo[n].index
      BY <1>2 DEF Index
    <2>4. (\A j, k \in Opened :
              j < k => Index(workStack[j].item) < Index(workStack[k].item))'
      BY <1>2, <2>2, <2>3 DEF IInv, WorkStackInv, Index
    <2>5. (\A k \in Opened : currRoot # None => Index(workStack[k].item) < Index(currRoot))'
      <3>1. currRoot \in Visited
        BY <1>2, <1>4
      <3> QED BY <1>2, <2>2, <2>3, <3>1 DEF IInv, WorkStackInv, Index
    <2>6. (\A k \in DOMAIN workStack :
              IF workStack[k].parent = None THEN k = 1
              ELSE /\ workStack[k].item \in children[workStack[k].parent]
                   /\ \E q \in Opened :
                         /\ q < k /\ workStack[q].item = workStack[k].parent
                         /\ \A r \in Opened : r < k => r <= q)'
      BY <1>2 DEF IInv, WorkStackInv
    <2> QED BY <2>1, <2>4, <2>5, <2>6 DEF WorkStackInv
  <1>10. Lowlinks'
    <2>1. ASSUME NEW x \in OnStack'
          PROVE  \E m \in OnStack' : Index(m)' = Low(x)' /\ Connected(x, m)'
      <3>1. x \in OnStack /\ x # e
        BY <1>2
      <3>2. PICK m \in OnStack : Index(m) = Low(x) /\ Connected(x, m)
        BY <3>1 DEF IInv, Lowlinks
      <3>3. m # e
        BY <1>2, <1>4, <3>1, <3>2
      <3> QED BY <1>2, <1>4, <1>5, <3>1, <3>2, <3>3
    <2>2. ASSUME NEW x \in OnStack', NEW m \in children'[x]
          PROVE  \/ Pending(x, m)'
                 \/ m \in Visited' /\ (m \in OnStack' => Low(x)' <= Index(m)')
      <3>1. x \in OnStack /\ x \in Visited /\ m \in children[x]
        BY <1>2, <1>4
      <3>2. Pending(x, m)' <=> Pending(x, m)
        BY <1>2 DEF Pending
      <3>3. \/ Pending(x, m)
            \/ m \in Visited /\ (m \in OnStack => Low(x) <= Index(m))
        BY <3>1 DEF IInv, Lowlinks
      <3> QED BY <1>2, <3>1, <3>2, <3>3
    <2> QED BY <2>1, <2>2 DEF Lowlinks
  <1>11. Ordered'
    BY <1>2, <1>4, <1>5 DEF IInv, Ordered
  <1>12. Belongs'
    <2> SUFFICES ASSUME NEW x \in OnStack', x \notin Gray'
                 PROVE  \E g \in Gray' : LeadsTo(x, g)'
      BY DEF Belongs
    <2>1. x \in OnStack /\ x \in Visited /\ x # e /\ x \notin Gray
      BY <1>2, <1>4
    <2>2. PICK g \in Gray : LeadsTo(x, g)
      BY <2>1 DEF IInv, Belongs
    <2>3. g # e /\ g \in Visited
      BY <1>2, <1>4, <2>1, <2>2 DEF LeadsTo
    <2>4. \A h \in Gray' : h \in Gray /\ Index(h)' = Index(h)
      BY <1>2, <1>4
    <2>5. /\ Index(x)' = Index(x) /\ Low(x)' = Low(x)
          /\ Index(g)' = Index(g) /\ Low(g)' = Low(g)
      BY <1>2, <2>1, <2>3
    <2>6. LeadsTo(x, g)'
      BY <1>5, <2>2, <2>4, <2>5 DEF LeadsTo
    <2> QED BY <1>2, <2>3, <2>6
  <1> QED BY <1>6, <1>7, <1>8, <1>9, <1>10, <1>11, <1>12 DEF IInv

-----------------------------------------------------------------------------
(* The invariant *)

LEMMA StartInv ==
  ASSUME NEW graph, None \notin DOMAIN graph,
         \A n \in DOMAIN graph : graph[n] \subseteq DOMAIN graph /\ IsFiniteSet(graph[n]),
         NEW elements \in Seq(DOMAIN graph), Start(graph, elements)
  PROVE  IInv
  <1>1. /\ children = graph /\ input = elements /\ inputIt = 1
        /\ workStack = <<>> /\ stack = <<>> /\ elementInfo = <<>>
        /\ currRoot = None /\ components = <<>>
    BY DEF Start
  <1>2. /\ DOMAIN stack = {} /\ DOMAIN workStack = {} /\ DOMAIN components = {}
        /\ Visited = {}
    BY <1>1, EmptySeq, LenProperties DEF Visited
  <1>3. OnStack = {} /\ Opened = {} /\ Gray = {} /\ Delivered = {}
    BY <1>1, <1>2 DEF OnStack, Range, Opened, Gray, Path, Delivered
  <1>4. Types
    <2>1. /\ None \notin Nodes
          /\ \A n \in Nodes : children[n] \subseteq Nodes /\ IsFiniteSet(children[n])
      BY <1>1 DEF Nodes
    <2>2. input \in Seq(Nodes)
      BY <1>1 DEF Nodes
    <2>3. IsFiniteSet(Visited)
      BY <1>2, FS_EmptySet
    <2>4. elementInfo \in [Visited -> Info]
      BY <1>1, <1>2
    <2> QED BY <1>1, <1>2, <2>1, <2>2, <2>3, <2>4 DEF Types
  <1>5. Numbers
    <2>1. Cardinality(Visited) = 0
      BY <1>2, FS_EmptySet
    <2>2. {Index(n) : n \in Visited} = 0..Cardinality(Visited) - 1
      BY <1>2, <2>1
    <2> QED BY <1>2, <1>3, <2>2 DEF Numbers
  <1>6. WorkStackInv
    BY <1>2, <1>3 DEF WorkStackInv
  <1>7. Lowlinks /\ Ordered /\ Belongs
    BY <1>3 DEF Lowlinks, Ordered, Belongs
  <1>8. Parts
    BY <1>2, <1>3 DEF Parts, CalleesFirst
  <1>9. Emitting
    BY <1>1 DEF Emitting
  <1> QED BY <1>4, <1>5, <1>6, <1>7, <1>8, <1>9 DEF IInv

LEMMA InitInv ==
  ASSUME Init
  PROVE  IInv
  <1>1. PICK graph \in Graph, elements \in Inputs :
           Range(elements) \subseteq DOMAIN graph /\ Start(graph, elements)
    BY DEF Init
  <1>2. elements \in Seq(Range(elements))
    BY InputsAssumption
  <1>3. elements \in Seq(DOMAIN graph)
    BY <1>1, <1>2
  <1> QED BY <1>1, <1>3, StartInv, GraphAssumption

LEMMA StutterStep ==
  ASSUME IInv, UNCHANGED vars
  PROVE  IInv'
  <1>1. /\ children' = children /\ input' = input /\ inputIt' = inputIt
        /\ workStack' = workStack /\ stack' = stack /\ elementInfo' = elementInfo
        /\ currRoot' = currRoot /\ components' = components
    BY DEF vars, searchVars
  <1>2. /\ Nodes' = Nodes /\ \A x, y : Connected(x, y)' <=> Connected(x, y)
        /\ \A x : Component(x)' = Component(x)
    BY <1>1, SameGraph
  <1>3. /\ Visited' = Visited /\ OnStack' = OnStack /\ Opened' = Opened /\ Path' = Path
        /\ Delivered' = Delivered
    BY <1>1 DEF Visited, OnStack, Opened, Path, Delivered
  <1>4. Gray' = Gray
    BY <1>1, <1>3 DEF Gray
  <1>5. Types'
    BY <1>1, <1>2, <1>3 DEF IInv, Types, WorkItem, Info
  <1>6. Numbers'
    BY <1>1, NumbersKept DEF IInv
  <1>7. WorkStackInv'
    BY <1>1, <1>3, <1>4 DEF IInv, WorkStackInv, Index
  <1>8. Lowlinks'
    BY <1>1, <1>2, <1>3 DEF IInv, Lowlinks, Index, Low, Pending
  <1>9. Ordered'
    BY <1>1, <1>2, <1>3 DEF IInv, Ordered, Index
  <1>10. Belongs'
    BY <1>1, <1>2, <1>3, <1>4 DEF IInv, Belongs, LeadsTo, Index, Low
  <1>11. Parts'
    BY <1>1, <1>3, PartsKept DEF IInv
  <1>12. Emitting'
    <2>1. Component(currRoot)' = Component(currRoot)
      BY <1>1, <1>2 DEF Component
    <2> QED BY <1>1, <1>2, <1>3, <2>1 DEF IInv, Emitting, Index
  <1> QED BY <1>5, <1>6, <1>7, <1>8, <1>9, <1>10, <1>11, <1>12 DEF IInv

\* No step breaks the invariant.
LEMMA NextInv ==
  ASSUME IInv, [Next]_vars
  PROVE  IInv'
  <1>1. CASE StepToNextInput
    BY <1>1, StepToNextInputStep
  <1>2. CASE Visit
    BY <1>2, VisitStep
  <1>3. CASE Revisit
    BY <1>3, RevisitStep
  <1>4. CASE FinishItem
    BY <1>4, FinishItemStep
  <1>5. CASE StepToNextElem
    BY <1>5, StepToNextElemStep
  <1>6. CASE Finished
    BY <1>6, StutterStep DEF Finished
  <1>7. CASE UNCHANGED vars
    BY <1>7, StutterStep
  <1> QED BY <1>1, <1>2, <1>3, <1>4, <1>5, <1>6, <1>7 DEF Next, Step

\* The inductive invariant: the path, what belongs to it, and what left it.
THEOREM Invariance == Spec => []IInv
  <1>1. Init => IInv
    BY InitInv
  <1>2. IInv /\ [Next]_vars => IInv'
    BY NextInv
  <1> QED BY <1>1, <1>2, PTL DEF Spec

-----------------------------------------------------------------------------
(* What follows *)

LEMMA InvTypes ==
  ASSUME IInv
  PROVE  TypeOK
  <1>1. {elementInfo[n].index : n \in Visited} = 0..Cardinality(Visited) - 1
    BY DEF IInv, Numbers, Index
  <1>2. ASSUME NEW work \in Range(workStack)
        PROVE  work.item \in Nodes
    <2>1. PICK k \in DOMAIN workStack : workStack[k] = work
      BY DEF Range
    <2>2. work \in WorkItem
      BY <2>1, ElementOfSeq, LenProperties DEF IInv, Types
    <2> QED BY <2>2 DEF WorkItem
  <1>3. /\ \A n \in Visited : elementInfo[n].lowlink <= elementInfo[n].index
        /\ \A n \in Visited : elementInfo[n].onStack <=> n \in Range(stack)
    BY DEF IInv, Numbers, Index, Low, OnStack
  <1> QED BY <1>1, <1>2, <1>3 DEF IInv, Types, TypeOK

\* The numbering and the flags: the indices of the visited elements are 0, 1, ...,
\* and an element is marked as on the stack exactly while it is there.
THEOREM TypeCorrect == Spec => []TypeOK
  <1>1. IInv => TypeOK
    BY InvTypes
  <1> QED BY <1>1, Invariance, PTL

\* The assertions of stepToNextGroup hold and stepToNextElem never pops an empty
\* stack: an element on the stack is revisited only on behalf of a parent, and the
\* root stays below the rest of its component.
THEOREM AssertionsNeverFire == Spec => []AssertionsHold
  <1>1. IInv => AssertionsHold
    <2> SUFFICES ASSUME IInv
                 PROVE  AssertionsHold
      OBVIOUS
    <2>1. ASSUME Searching, ~Work.processedChildren, Work.item \in Visited,
                 elementInfo[Work.item].onStack
          PROVE  Work.parent # None
      <3>1. Work.item \in OnStack
        BY <2>1 DEF IInv, Numbers
      <3> QED BY <2>1, <3>1, FirstItem DEF IInv
    <2>2. currRoot # None => currRoot \in OnStack
      BY DEF IInv, WorkStackInv, Gray
    <2> QED BY <2>1, <2>2 DEF AssertionsHold, OnStack
  <1> QED BY <1>1, Invariance, PTL

\* The stack is ordered by index and each of its elements reaches all later ones.
THEOREM StackOrdered == Spec => []StackInOrder
  <1>1. IInv => StackInOrder
    <2> SUFFICES ASSUME IInv, NEW j \in DOMAIN stack, NEW k \in DOMAIN stack, j < k
                 PROVE  /\ elementInfo[stack[j]].index < elementInfo[stack[k]].index
                        /\ Connected(stack[j], stack[k])
      BY DEF StackInOrder
    <2>1. Index(stack[j]) < Index(stack[k])
      BY DEF IInv, Numbers
    <2>2. stack[j] \in OnStack /\ stack[k] \in OnStack
      BY DEF OnStack, Range
    <2> QED BY <2>1, <2>2 DEF IInv, Ordered, Index
  <1> QED BY <1>1, Invariance, PTL

\* Every group the iterator delivers is a strongly connected component of the
\* graph, and none is delivered twice.
THEOREM ComponentsDelivered == Spec => []DeliversComponents
  <1>1. IInv => DeliversComponents
    <2> SUFFICES ASSUME IInv
                 PROVE  DeliversComponents
      OBVIOUS
    <2>1. Delivered \subseteq DOMAIN components
      <3>1. DOMAIN components = 1..Len(components) /\ Len(components) \in Nat
        BY LenProperties DEF IInv, Types
      <3> QED BY <3>1 DEF Delivered
    <2> QED BY <2>1 DEF IInv, Parts, DeliversComponents
  <1> QED BY <1>1, Invariance, PTL

\* A group comes after all that its members have edges to, so that a client may
\* look up the results of the children's groups.
THEOREM CalleesComeFirst == Spec => []CalleesFirst
  <1>1. IInv => CalleesFirst
    BY DEF IInv, Parts
  <1> QED BY <1>1, Invariance, PTL

-----------------------------------------------------------------------------
(* The end of the iteration                                                *)

Waiting == {workStack[k].item : k \in DOMAIN workStack}

\* The elements asked for so far are visited or wait on the work stack, and
\* only what can be reached from the input gets there.
Asked ==
    /\ inputIt \in 1..Len(input) + 1
    /\ \A j \in 1..inputIt - 1 : input[j] \in Visited \cup Waiting
    /\ \A n \in Visited \cup Waiting : \E j \in DOMAIN input : Connected(input[j], n)

\* Every step gets the iteration further: it visits another element, goes on
\* to the next one of the input, or has less on one of its stacks.
Further ==
    \/ Visited \subseteq Visited' /\ Visited' # Visited
    \/ Visited' = Visited /\ inputIt < inputIt'
    \/ Visited' = Visited /\ inputIt' = inputIt /\ Len(workStack') < Len(workStack)
    \/ /\ Visited' = Visited /\ inputIt' = inputIt /\ workStack' = workStack
       /\ Len(stack') < Len(stack)

\* What a step does to the elements that are visited or wait.
LEMMA WaitingPopped ==
  ASSUME Types, Searching, workStack' = Front(workStack), Work.item \in Visited
  PROVE  /\ Waiting \subseteq Waiting' \cup Visited
         /\ Waiting' \subseteq Waiting
         /\ Len(workStack') < Len(workStack)
  <1>1. /\ DOMAIN workStack' = DOMAIN workStack \ {Len(workStack)}
        /\ \A k \in DOMAIN workStack' : workStack'[k] = workStack[k]
    BY WorkPopped DEF Searching
  <1>2. workStack[Len(workStack)] = Work
    BY WorkFacts DEF Searching
  <1>3. Waiting' = {workStack'[k].item : k \in DOMAIN workStack'}
    BY DEF Waiting
  <1>4. Waiting = {workStack[k].item : k \in DOMAIN workStack}
    BY DEF Waiting
  <1>5. Len(workStack') < Len(workStack)
    <2>1. workStack \in Seq(WorkItem) /\ workStack # <<>>
      BY DEF Types, Searching
    <2>2. Len(Front(workStack)) = Len(workStack) - 1 /\ Len(workStack) \in Nat
      BY <2>1, FrontFact
    <2> QED BY <2>2
  <1>6. ASSUME NEW k \in DOMAIN workStack
        PROVE  workStack[k].item \in Waiting' \cup Visited
    <2>1. CASE k = Len(workStack)
      BY <1>2, <2>1
    <2>2. CASE k # Len(workStack)
      BY <1>1, <1>3, <2>2
    <2> QED BY <2>1, <2>2
  <1> QED BY <1>1, <1>3, <1>4, <1>5, <1>6

LEMMA WaitingPushed ==
  ASSUME IInv, Visit, NEW n, n = Work.item
  PROVE  /\ Visited' = Visited \cup {n} /\ n \notin Visited /\ n \in Nodes
         /\ n \in Waiting
         /\ Waiting \subseteq Waiting' \cup {n}
         /\ Waiting' \subseteq Waiting \cup {n} \cup children[n]
  <1> USE DEF IInv
  <1>1. PICK L : L = Len(workStack)
    OBVIOUS
  <1>2. /\ Searching /\ ~Work.processedChildren /\ n \notin Visited
        /\ workStack # <<>>
    BY DEF Visit, Searching
  <1>3. /\ L \in Nat \ {0} /\ DOMAIN workStack = 1..L
        /\ workStack[L] = Work /\ n \in Nodes /\ Work.parent \in Nodes \cup {None}
    BY <1>1, <1>2, WorkFacts
  <1>4. IsFiniteSet(children[n]) /\ children[n] \subseteq Nodes
    BY <1>3 DEF Types
  <1>5. PICK order \in SetToSeqs(children[n]) :
           workStack' = Append(Front(workStack), [Work EXCEPT !.processedChildren = TRUE])
                           \o [k \in DOMAIN order |-> Item(order[k], n)]
    BY DEF Visit
  <1>6. /\ order \in Seq(children[n]) /\ DOMAIN order = 1..Len(order)
        /\ Len(order) \in Nat
    BY <1>4, <1>5, OrderFact
  <1>7. Pushed(n, Work.parent, order, workStack')
    BY <1>2, <1>5, <1>6, PushedFact
  <1>8. /\ DOMAIN workStack' = 1..L + Len(order)
        /\ \A k \in 1..L - 1 : workStack'[k] = workStack[k]
        /\ workStack'[L].item = n
        /\ \A k \in 1..Len(order) : workStack'[L + k] = Item(order[k], n)
    BY <1>1, <1>7 DEF Pushed
  <1>9. Waiting' = {workStack'[k].item : k \in DOMAIN workStack'}
    BY DEF Waiting
  <1>10. Waiting = {workStack[k].item : k \in DOMAIN workStack}
    BY DEF Waiting
  <1>11. n \in Waiting
    BY <1>3, <1>10
  <1>12. ASSUME NEW k \in 1..L
         PROVE  workStack[k].item \in Waiting' \cup {n}
    <2>1. CASE k = L
      BY <1>3, <2>1
    <2>2. CASE k # L
      <3>1. k \in 1..L - 1 /\ k \in 1..L + Len(order)
        BY <1>3, <1>6, <2>2
      <3> QED BY <1>8, <1>9, <3>1
    <2> QED BY <2>1, <2>2
  <1>13. ASSUME NEW k \in 1..L + Len(order)
         PROVE  workStack'[k].item \in Waiting \cup {n} \cup children[n]
    <2>1. CASE k \in 1..L - 1
      <3>1. k \in 1..L
        BY <1>3, <2>1
      <3> QED BY <1>3, <1>8, <1>10, <2>1, <3>1
    <2>2. CASE k = L
      BY <1>8, <2>2
    <2>3. CASE k \notin 1..L - 1 /\ k # L
      <3>1. k - L \in 1..Len(order) /\ L + (k - L) = k
        BY <1>3, <1>6, <2>3
      <3>2. workStack'[k] = Item(order[k - L], n)
        BY <1>8, <3>1
      <3>3. order[k - L] \in children[n]
        BY <1>6, <3>1, ElementOfSeq
      <3> QED BY <3>2, <3>3 DEF Item
    <2> QED BY <2>1, <2>2, <2>3
  <1>14. Visited' = Visited \cup {n}
    BY DEF Visit, Visited
  <1>15. Waiting \subseteq Waiting' \cup {n}
    BY <1>3, <1>10, <1>12
  <1>16. Waiting' \subseteq Waiting \cup {n} \cup children[n]
    BY <1>8, <1>9, <1>13
  <1> QED BY <1>2, <1>3, <1>11, <1>14, <1>15, <1>16

\* A step in which the elements reached stay reached.
LEMMA AskedKept ==
  ASSUME Types, Asked, children' = children, input' = input, inputIt' = inputIt,
         Visited \cup Waiting \subseteq Visited' \cup Waiting',
         \A n \in Visited' \cup Waiting' :
            n \in Visited \cup Waiting
            \/ \E p \in Visited \cup Waiting : Connected(p, n)
  PROVE  Asked'
  <1>1. \A n, m : Connected(n, m)' <=> Connected(n, m)
    BY SameGraph
  <1>2. ASSUME NEW n \in Visited' \cup Waiting'
        PROVE  \E j \in DOMAIN input : Connected(input[j], n)
    BY ReachTrans DEF Asked
  <1> QED BY <1>1, <1>2 DEF Asked

LEMMA StartAsked ==
  ASSUME NEW graph, NEW elements, elements \in Seq(Range(elements)),
         Start(graph, elements)
  PROVE  Asked
  <1>1. inputIt = 1 /\ workStack = <<>> /\ elementInfo = <<>> /\ input = elements
    BY DEF Start
  <1>2. Visited = {} /\ Waiting = {}
    BY <1>1, EmptySeq, LenProperties DEF Visited, Waiting
  <1>3. Len(input) \in Nat
    BY <1>1, LenProperties
  <1> QED BY <1>1, <1>2, <1>3 DEF Asked

LEMMA StepAsked ==
  ASSUME IInv, Asked, Step
  PROVE  Asked' /\ Further
  <1> USE DEF IInv
  <1>0. inputIt \in Nat /\ Len(input) \in Nat /\ DOMAIN input = 1..Len(input)
    BY LenProperties DEF Types
  <1>1. CASE StepToNextInput
    <2>1. PICK n : n = input[inputIt]
      OBVIOUS
    <2>2. /\ inputIt \in DOMAIN input /\ n \in Nodes
          /\ workStack = <<>> /\ workStack' = <<Item(n, None)>>
          /\ inputIt' = inputIt + 1 /\ children' = children /\ input' = input
          /\ Visited' = Visited
      <3>1. inputIt \in 1..Len(input)
        BY <1>0, <1>1 DEF StepToNextInput, Types
      <3>2. n \in Nodes
        BY <2>1, <3>1, ElementOfSeq DEF Types
      <3> QED BY <1>0, <1>1, <2>1, <3>1, <3>2 DEF StepToNextInput, Visited
    <2>3. Waiting = {} /\ Waiting' = {n}
      <3>1. Waiting = {}
        BY <2>2 DEF Waiting
      <3>2. DOMAIN workStack' = {1} /\ workStack'[1] = Item(n, None)
        BY <2>2
      <3>3. Waiting' = {workStack'[k].item : k \in DOMAIN workStack'}
        BY DEF Waiting
      <3> QED BY <3>1, <3>2, <3>3 DEF Item
    <2>4. \A x, y : Connected(x, y)' <=> Connected(x, y)
      BY <2>2, SameGraph
    <2>5. inputIt' \in 1..Len(input) + 1
      BY <1>0, <2>2
    <2>6. ASSUME NEW j \in 1..inputIt' - 1
          PROVE  input[j] \in Visited' \cup Waiting'
      <3>1. j \in 1..inputIt - 1 \/ j = inputIt
        BY <1>0, <2>2
      <3> QED BY <2>1, <2>2, <2>3, <3>1 DEF Asked
    <2>7. \A x \in Visited' \cup Waiting' : \E j \in DOMAIN input : Connected(input[j], x)
      BY <2>1, <2>2, <2>3, ReachSelf DEF Asked
    <2>8. Further
      BY <1>0, <2>2 DEF Further
    <2> QED BY <2>2, <2>4, <2>5, <2>6, <2>7, <2>8 DEF Asked
  <1>2. CASE Visit
    <2>1. PICK n : n = Work.item
      OBVIOUS
    <2>2. /\ Visited' = Visited \cup {n} /\ n \notin Visited /\ n \in Nodes
          /\ n \in Waiting
          /\ Waiting \subseteq Waiting' \cup {n}
          /\ Waiting' \subseteq Waiting \cup {n} \cup children[n]
      BY <1>2, <2>1, WaitingPushed
    <2>3. \A m \in children[n] : Connected(n, m)
      BY <2>2, ReachEdge
    <2>4. children' = children /\ input' = input /\ inputIt' = inputIt
      BY <1>2 DEF Visit
    <2>5. Asked'
      BY <2>2, <2>3, <2>4, AskedKept
    <2>6. Further
      BY <2>2 DEF Further
    <2> QED BY <2>5, <2>6
  <1>3. CASE Revisit
    <2>1. /\ Searching /\ Work.item \in Visited /\ workStack' = Front(workStack)
          /\ children' = children /\ input' = input /\ inputIt' = inputIt
      BY <1>3 DEF Revisit
    <2>2. Visited' = Visited
      BY <1>3 DEF Revisit, LowerParent, Visited
    <2>3. /\ Waiting \subseteq Waiting' \cup Visited /\ Waiting' \subseteq Waiting
          /\ Len(workStack') < Len(workStack)
      BY <2>1, WaitingPopped
    <2>4. Asked'
      BY <2>1, <2>2, <2>3, AskedKept
    <2> QED BY <2>1, <2>2, <2>3, <2>4 DEF Further
  <1>4. CASE FinishItem
    <2>1. /\ Searching /\ Work.processedChildren /\ workStack' = Front(workStack)
          /\ children' = children /\ input' = input /\ inputIt' = inputIt
      BY <1>4 DEF FinishItem
    <2>2. Visited' = Visited
      BY <1>4 DEF FinishItem, LowerParent, Visited
    <2>3. Work.item \in Visited
      <3>1. Len(workStack) \in Opened /\ workStack[Len(workStack)] = Work
        BY <2>1, WorkFacts DEF Searching, Opened
      <3>2. Work.item \in Gray
        BY <3>1 DEF Gray, Path
      <3> QED BY <3>2 DEF WorkStackInv, Numbers
    <2>4. /\ Waiting \subseteq Waiting' \cup Visited /\ Waiting' \subseteq Waiting
          /\ Len(workStack') < Len(workStack)
      BY <2>1, <2>3, WaitingPopped
    <2>5. Asked'
      BY <2>1, <2>2, <2>4, AskedKept
    <2> QED BY <2>1, <2>2, <2>4, <2>5 DEF Further
  <1>5. CASE StepToNextElem
    <2>1. /\ children' = children /\ input' = input /\ inputIt' = inputIt
          /\ workStack' = workStack /\ stack' = Front(stack)
      BY <1>5 DEF StepToNextElem
    <2>2. stack # <<>> /\ Visited' = Visited
      BY <1>5, ElemTaken
    <2>3. Waiting' = Waiting
      BY <2>1 DEF Waiting
    <2>4. Len(stack') < Len(stack)
      <3>1. stack \in Seq(Nodes)
        BY DEF Types
      <3>2. Len(Front(stack)) = Len(stack) - 1 /\ Len(stack) \in Nat
        BY <2>2, <3>1, FrontFact
      <3> QED BY <2>1, <3>2
    <2>5. Asked'
      BY <2>1, <2>2, <2>3, AskedKept
    <2> QED BY <2>1, <2>2, <2>4, <2>5 DEF Further
  <1> QED BY <1>1, <1>2, <1>3, <1>4, <1>5 DEF Step

LEMMA AskedStutters ==
  ASSUME Asked, UNCHANGED vars
  PROVE  Asked'
  <1>1. /\ children' = children /\ input' = input /\ inputIt' = inputIt
        /\ workStack' = workStack /\ elementInfo' = elementInfo
    BY DEF vars, searchVars
  <1>2. \A n, m : Connected(n, m)' <=> Connected(n, m)
    BY <1>1, SameGraph
  <1>3. Visited' = Visited /\ Waiting' = Waiting
    BY <1>1 DEF Visited, Waiting
  <1> QED BY <1>1, <1>2, <1>3 DEF Asked

LEMMA NextAsked ==
  ASSUME IInv, Asked, [Next]_vars
  PROVE  Asked' /\ (Further \/ UNCHANGED vars)
  <1>1. CASE Step
    BY <1>1, StepAsked
  <1>2. CASE UNCHANGED vars
    BY <1>2, AskedStutters
  <1> QED BY <1>1, <1>2 DEF Next, Finished

\* Everything that was asked for and reached, and nothing else.
THEOREM AskedHolds == Spec => []Asked
  <1>1. Init => Asked
    BY StartAsked, InputsAssumption DEF Init
  <1>2. IInv /\ Asked /\ [Next]_vars => Asked'
    BY NextAsked
  <1> QED BY <1>1, <1>2, Invariance, PTL DEF Spec

\* At the end nothing is left on the stack: what was visited was delivered.
LEMMA EndDelivers ==
  ASSUME IInv, Asked, AtEnd
  PROVE  AllDelivered
  <1> USE DEF IInv
  <1>1. currRoot = None /\ workStack = <<>> /\ inputIt > Len(input)
    BY DEF AtEnd
  <1>2. Waiting = {} /\ Opened = {}
    BY <1>1 DEF Waiting, Opened
  <1>3. Gray = {} /\ OnStack = {}
    <2>1. Gray = {}
      BY <1>1, <1>2 DEF Gray, Path
    <2> QED BY <2>1 DEF Belongs
  <1>4. Visited = UNION Range(components)
    <2>1. \A n \in Nodes : n \in Visited <=> \E k \in DOMAIN components : n \in components[k]
      BY <1>3 DEF Parts
    <2>2. \A k \in DOMAIN components : components[k] \subseteq Nodes
      BY ElementOfSeq, LenProperties DEF Types
    <2>3. Visited \subseteq Nodes
      BY DEF Types
    <2> QED BY <2>1, <2>2, <2>3 DEF Range
  <1>5. DOMAIN components = 1..Len(components) /\ Len(components) \in Nat
    BY LenProperties DEF Types
  <1>6. ASSUME NEW n \in Visited
        PROVE  children[n] \subseteq Visited
    <2>1. PICK k \in DOMAIN components : n \in components[k]
      BY <1>3 DEF Parts, Types
    <2>2. k \in Delivered
      BY <1>1, <2>1 DEF Delivered
    <2>3. \A m \in children[n] : \E j \in 1..k : m \in components[j]
      BY <2>1, <2>2 DEF Parts, CalleesFirst
    <2>4. \A j \in 1..k : j \in DOMAIN components
      BY <1>5, <2>1
    <2>5. \A m \in children[n] : m \in Nodes
      BY DEF Types
    <2> QED BY <2>3, <2>4, <2>5 DEF Parts
  <1>7. DOMAIN input = 1..Len(input) /\ Len(input) \in Nat
    BY LenProperties DEF Types
  <1>8. \A j \in DOMAIN input : input[j] \in Visited
    <2>1. \A j \in DOMAIN input : j \in 1..inputIt - 1
      BY <1>1, <1>7 DEF Types
    <2> QED BY <1>2, <2>1 DEF Asked
  <1>9. ASSUME NEW j \in DOMAIN input, NEW m, Connected(input[j], m)
        PROVE  m \in Visited
    <2>1. Visited \in SUBSET Nodes
      BY DEF Types
    <2> QED BY <1>6, <1>8, <1>9, <2>1, ReachClosed
  <1>10. \A m \in Visited : \E j \in DOMAIN input : Connected(input[j], m)
    BY DEF Asked
  <1>11. ASSUME NEW m
         PROVE  m \in Visited <=> m \in UNION {Reach(children, n) : n \in Range(input)}
    <2>1. m \in Visited <=> \E j \in DOMAIN input : Connected(input[j], m)
      BY <1>9, <1>10
    <2> QED BY <2>1 DEF Connected, Range
  <1> QED BY <1>4, <1>11 DEF AllDelivered

\* What DeliversAll says of the state in which the iteration ends: it never ends
\* before everything that can be reached from the input has been delivered.
THEOREM EndsWithAll == Spec => [](AtEnd => AllDelivered)
  <1>1. IInv /\ Asked => (AtEnd => AllDelivered)
    BY EndDelivers
  <1> QED BY <1>1, Invariance, AskedHolds, PTL

\* The rest of DeliversAll but for fairness: every step gets the iteration
\* further, so that on a finite graph it can only make so many.
THEOREM IterationGoesOn == Spec => [][Further]_vars
  <1>1. IInv /\ Asked /\ [Next]_vars => [Further]_vars
    BY NextAsked
  <1> QED BY <1>1, Invariance, AskedHolds, PTL DEF Spec
=============================================================================
