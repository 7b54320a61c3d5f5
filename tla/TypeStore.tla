------------------------------ MODULE TypeStore ------------------------------
(***************************************************************************)
(* The store of recursion groups (src/src/wasm/wasm-type.cpp) and the      *)
(* threads that build types in it.  A TypeBuilder holds temporary groups   *)
(* that refer to each other by address.  build() takes them one at a time: *)
(* references to groups found to be duplicates are renamed, the group is   *)
(* validated and looked up in the store under the store's mutex, and it is *)
(* either published or freed in favour of the canonical one.  Freed        *)
(* addresses are used again.                                               *)
(*                                                                         *)
(* A type is what the store compares: its content (kind, fields, finality, *)
(* sharing, ...) and the heap types it refers to (children, supertype,     *)
(* descriptor), each by group and index.                                   *)
(***************************************************************************)
EXTENDS Naturals, Sequences, FiniteSets, Callers

CONSTANTS
    Addresses,  \* where the allocator may put a group
    Programs,   \* what callers put in a TypeBuilder: a sequence of groups,
                \* whose references name groups by position
    Leaves,     \* contents of types made without a TypeBuilder
    Shape,      \* Shape[c]: what is left of a content c in a written binary
    Placements(_, _)    \* where the allocator may put n groups, given the
                        \* addresses that are free

ASSUME PlacementsAssumption ==
    \A free \in SUBSET Addresses, n \in {1} \cup {Len(p) : p \in Programs} :
        \A e \in Placements(free, n) :
            /\ e \in [1..n -> free]
            /\ \A i, j \in 1..n : i # j => e[i] # e[j]

VARIABLES
    heap,               \* heap[a]: the group at a, or Free
    canonicalGroups,    \* RecGroupStore::canonicalGroups
    mutex,              \* the thread that holds RecGroupStore::mutex
    builder             \* builder[t]: the call thread t is in

vars == <<heap, canonicalGroups, mutex, builder>>

Free == [temp |-> FALSE, types |-> <<>>]

Allocated == {a \in Addresses : heap[a] # Free}

(* pc: idle, prepare, insert, publish, unique, done.  program: the input.   *)
(* entries: addresses of the groups; group: the one being built.            *)
(* canonicalized: the canonical group of a duplicate.  results: the groups  *)
(* built so far.  failed: an error ends the call.                           *)
Begun(pc, p, e) ==
    [pc |-> pc, program |-> p, entries |-> e, group |-> 1,
     canonicalized |-> <<>>, results |-> <<>>, failed |-> FALSE]

Idle == Begun("idle", <<>>, <<>>)

Init ==
    /\ heap = [a \in Addresses |-> Free]
    /\ canonicalGroups = {}
    /\ mutex = NoThread
    /\ builder = [t \in Threads |-> Idle]

Current(t) == builder[t].entries[builder[t].group]

\* All references of group r, with names applied to the group of each.
MapReferences(r, names) ==
    [i \in DOMAIN r |->
        [content |-> r[i].content,
         refs |-> [k \in DOMAIN r[i].refs |->
                      [group |-> names[r[i].refs[k].group],
                       index |-> r[i].refs[k].index]]]]

References(r) == UNION {{r[i].refs[k] : k \in DOMAIN r[i].refs} : i \in DOMAIN r}

\* Groups whose references name other groups by these names.
GroupsOver(names) ==
    Seq([content : DOMAIN Shape, refs : Seq([group : names, index : Nat])])

\* A program has groups, these have types, and all they name is in the program.
IsProgram(p) ==
    /\ p \in Seq(GroupsOver(1..Len(p)))
    /\ p # <<>>
    /\ \A i \in DOMAIN p : p[i] # <<>>

ASSUME ProgramsAssumption == \A p \in Programs : IsProgram(p)

\* Contents are known; "later" is none of them.
ASSUME ContentsAssumption == Leaves \subseteq DOMAIN Shape /\ "later" \notin DOMAIN Shape

\* Mutant: references keep naming the group that is freed.
OldName(t, g) == g

\* A group found to be a duplicate goes by the name of the canonical one.
Renamed(t, g) ==
    LET known == builder[t].canonicalized
    IN  IF g \in DOMAIN known THEN known[g] ELSE g

\* Mutant: a reference out of the group is compared by its index alone.
SameIndex(x, y, u, v) == u.index = v.index /\ (u.group = x) = (v.group = y)

\* RecGroupEquator::eq(HeapType, HeapType), for groups x and y.
SameReference(x, y, u, v) ==
    /\ u.index = v.index
    /\ (u.group = x) = (v.group = y)
    /\ u.group # x => u.group = v.group

(***************************************************************************)
(* RecGroupEquator: two groups are the same if their types are, piece by   *)
(* piece; references into the own group compare by index, others by the    *)
(* identity of the group.  view is the part of the content compared.       *)
(***************************************************************************)
SameGroup(x, y, view) ==
    LET X == heap[x].types
        Y == heap[y].types
    IN  \/ x = y
        \/ /\ Len(X) = Len(Y)
           /\ \A i \in DOMAIN X :
                 /\ view[X[i].content] = view[Y[i].content]
                 /\ Len(X[i].refs) = Len(Y[i].refs)
                 /\ \A k \in DOMAIN X[i].refs :
                       SameReference(x, y, X[i].refs[k], Y[i].refs[k])

Content == [c \in DOMAIN Shape |-> c]

(***************************************************************************)
(* A TypeBuilder is filled: every entry is allocated up front.             *)
(***************************************************************************)
Begin(t, p) ==
    /\ builder[t].pc = "idle"
    /\ \E e \in Placements(Addresses \ Allocated, Len(p)) :
          /\ builder' = [builder EXCEPT ![t] = Begun("prepare", p, e)]
          /\ heap' = [a \in Addresses |->
                IF \E i \in DOMAIN p : e[i] = a
                THEN LET i == CHOOSE i \in DOMAIN p : e[i] = a
                     IN  [temp |-> TRUE,
                          types |-> MapReferences(p[i], e)]
                ELSE heap[a]]
    /\ UNCHANGED <<canonicalGroups, mutex>>

\* HeapType(Signature) and its like: a trivial group that is not temporary.
Construct(t, c) ==
    /\ builder[t].pc = "idle"
    /\ \E e \in Placements(Addresses \ Allocated, 1) :
          LET r == <<[content |-> c, refs |-> <<>>]>> IN
          /\ heap' = [heap EXCEPT ![e[1]] = [temp |-> FALSE, types |-> r]]
          /\ builder' = [builder EXCEPT ![t] = Begun("insert", <<r>>, e)]
    /\ UNCHANGED <<canonicalGroups, mutex>>

(***************************************************************************)
(* updateReferencedHeapTypes, then the checks that precede the lock.  An   *)
(* error returns from build() and leaves the groups built so far.          *)
(***************************************************************************)
Prepare(t) ==
    LET a == Current(t)
        r == MapReferences(heap[a].types, [g \in Addresses |-> Renamed(t, g)])
        forward == \E x \in References(r) : heap[x.group].temp /\ x.group # a
    IN  /\ builder[t].pc = "prepare"
        /\ heap' = [heap EXCEPT ![a].types = r]
        /\ builder' = [builder EXCEPT ![t].pc = IF forward THEN "done" ELSE "insert",
                                      ![t].failed = forward]
        /\ UNCHANGED <<canonicalGroups, mutex>>

\* Mutant: no lock.
NoLock == TRUE

MutexIsFree == mutex = NoThread

\* The mutex is taken and the group found or inserted.
Insert(t) ==
    LET a == Current(t) IN
    /\ builder[t].pc = "insert"
    /\ MutexIsFree
    /\ IF \E c \in canonicalGroups : SameGroup(a, c, Content)
       THEN LET c == CHOOSE c \in canonicalGroups : SameGroup(a, c, Content) IN
            /\ builder' = [builder EXCEPT
                  ![t].pc = "unique",
                  ![t].results = Append(@, c),
                  ![t].canonicalized =
                      [g \in DOMAIN @ \cup {a} |-> IF g = a THEN c ELSE @[g]]]
            /\ UNCHANGED <<canonicalGroups, mutex>>
       ELSE /\ canonicalGroups' = canonicalGroups \cup {a}
            /\ mutex' = t
            /\ builder' = [builder EXCEPT ![t].pc = "publish",
                                          ![t].results = Append(@, a)]
    /\ UNCHANGED heap

\* The types move to globalHeapTypeStore and the mutex is released.
Publish(t) ==
    /\ builder[t].pc = "publish"
    /\ heap' = [heap EXCEPT ![Current(t)].temp = FALSE]
    /\ mutex' = NoThread
    /\ builder' = [builder EXCEPT ![t].pc = "unique"]
    /\ UNCHANGED canonicalGroups

\* The infos of a duplicate are freed as the loop goes on.  A builder of
\* several groups refuses groups that a binary could not tell apart.
Unique(t) ==
    LET b == builder[t]
        conflict ==
            /\ Len(b.program) > 1
            /\ \E k \in 1..(b.group - 1) :
                  /\ b.results[k] # b.results[b.group]
                  /\ SameGroup(b.results[k], b.results[b.group], Shape)
        more == ~conflict /\ b.group < Len(b.program)
    IN  /\ b.pc = "unique"
        /\ builder' = [builder EXCEPT ![t].pc = IF more THEN "prepare" ELSE "done",
                                      ![t].group = IF more THEN @ + 1 ELSE @,
                                      ![t].failed = conflict]
        /\ heap' = IF b.results[b.group] = Current(t) THEN heap
                   ELSE [heap EXCEPT ![Current(t)] = Free]
        /\ UNCHANGED <<canonicalGroups, mutex>>

\* The caller has its results; the TypeBuilder goes with all it still owns.
Return(t) ==
    LET b == builder[t]
        owned == {b.entries[i] : i \in (b.group + 1)..Len(b.entries)}
                 \cup (IF Len(b.results) < b.group THEN {Current(t)} ELSE {})
    IN  /\ b.pc = "done"
        /\ builder' = [builder EXCEPT ![t] = Idle]
        /\ heap' = [a \in Addresses |-> IF a \in owned THEN Free ELSE heap[a]]
        /\ UNCHANGED <<canonicalGroups, mutex>>

Step(t) ==
    \/ \E p \in Programs : Begin(t, p)
    \/ \E c \in Leaves : Construct(t, c)
    \/ Prepare(t)
    \/ Insert(t)
    \/ Publish(t)
    \/ Unique(t)
    \/ Return(t)

Next == \E t \in Threads : Step(t)

Spec == Init /\ [][Next]_vars
-----------------------------------------------------------------------------
(* Types are as declared, and the mutex is held just while publishing.     *)
TypesOK ==
    /\ \A a \in Addresses : \A x \in References(heap[a].types) : x.group \in Addresses
    /\ canonicalGroups \subseteq Addresses
    /\ mutex \in Threads \cup {NoThread}
    /\ \A t \in Threads : (mutex = t) = (builder[t].pc = "publish")

(* What the store hands to a thread, and all that is reachable from it, is *)
(* canonical, alive and no longer temporary (wasm-type.cpp:2632-2638), and *)
(* only the group being published is in the store and still temporary.     *)
Settled(a) ==
    /\ heap[a] # Free
    /\ ~heap[a].temp
    /\ \A x \in References(heap[a].types) : x.group \in canonicalGroups

NoTemporaryLeaks ==
    /\ \A a \in canonicalGroups :
          \/ Settled(a)
          \/ mutex # NoThread /\ a = Current(mutex)
    /\ \A t \in Threads : \A i \in DOMAIN builder[t].results :
          LET a == builder[t].results[i] IN
          /\ a \in canonicalGroups
          /\ Settled(a) \/ (mutex = t /\ a = Current(t))
-----------------------------------------------------------------------------
(* The structure of a group with all references unfolded, and what a       *)
(* program means by its j-th group, whoever else is building types.        *)
Own == <<>>
Later == <<[content |-> "later", refs |-> <<>>]>>

Unfold(groups) ==
    LET U[a \in DOMAIN groups] ==
            MapReferences(groups[a],
                          [g \in DOMAIN groups |-> IF g = a THEN Own ELSE U[g]])
    IN  U

Structures == Unfold([a \in canonicalGroups |-> heap[a].types])

Meaning(p) ==
    LET M[j \in DOMAIN p] ==
            MapReferences(p[j], [g \in DOMAIN p |->
                IF g = j THEN Own ELSE IF g < j THEN M[g] ELSE Later])
    IN  [j \in DOMAIN p |-> M[j]]

\* What a binary would tell of a structure.
Erased(v) == [i \in DOMAIN v |-> [v[i] EXCEPT !.content = Shape[@]]]

Collide(values, n) ==
    \E j, k \in 1..n : values[j] # values[k] /\ Erased(values[j]) = Erased(values[k])

LooksAhead(values, n) ==
    n < Len(values) /\ \E x \in References(values[n + 1]) : x.group = Later

Refused(values, n) ==
    Len(values) > 1 /\ (Collide(values, n) \/ LooksAhead(values, n))

(* The store implements a table from structures to groups: one group per   *)
(* structure, every result the group of what the program means, and a call *)
(* fails exactly where its own program is at fault.                        *)
TypeTable == [v \in {Structures[a] : a \in canonicalGroups} |->
                 CHOOSE a \in canonicalGroups : Structures[a] = v]

TypesWanted == [t \in Threads |-> Meaning(builder[t].program)]

TypesGot == [t \in Threads |-> builder[t].results]

Types == INSTANCE CanonicalTable WITH
    Clients <- Threads,
    table <- TypeTable,
    want <- TypesWanted,
    got <- TypesGot

ImplementsTypeTable == Types!Spec
=============================================================================
