--------------------------- MODULE TypeStoreProofs ---------------------------
(***************************************************************************)
(* Proofs about TypeStore, for any threads, addresses, programs and any    *)
(* allocator: the type invariant, that nothing temporary is ever handed    *)
(* out or reachable from what is (NoTemporaryLeaks), and that the store    *)
(* implements CanonicalTable (ImplementsTypeTable).                        *)
(***************************************************************************)
EXTENDS TypeStore, SequenceTheorems, NaturalsInduction, WellFoundedInduction, TLAPS

Size(t) == Len(builder[t].program)

\* The group being built is still the builder's, to be kept or freed.
CurrentIsMine(t) ==
    \/ builder[t].pc \in {"prepare", "insert"}
    \/ builder[t].pc = "unique" /\ builder[t].results[builder[t].group] # Current(t)
    \/ builder[t].pc = "done" /\ Len(builder[t].results) < builder[t].group

\* The groups a builder will look at later, and all that it owns.
Ahead(t) == {builder[t].entries[i] : i \in (builder[t].group + 1)..Size(t)}

Mine(t) == Ahead(t) \cup (IF CurrentIsMine(t) THEN {Current(t)} ELSE {})

Groups(a) == {x.group : x \in References(heap[a].types)}

\* The heap holds groups, and they name addresses.
HeapInv ==
    /\ heap = [a \in Addresses |->
                  [temp |-> heap[a].temp, types |-> heap[a].types]]
    /\ \A a \in Addresses : Groups(a) \subseteq Addresses

\* Canonical groups are alive and name each other; the last may be temporary.
CanonicalInv ==
    /\ canonicalGroups \subseteq Addresses
    /\ \A a \in canonicalGroups :
          /\ DOMAIN heap[a].types # {}
          /\ Groups(a) \subseteq canonicalGroups
          /\ heap[a].temp # FALSE => mutex # NoThread /\ a = Current(mutex)

\* Builders own their groups alone.
OwnershipInv ==
    \A t \in Threads :
        /\ Mine(t) \subseteq Addresses
        /\ Mine(t) \cap canonicalGroups = {}
        /\ \A a \in Mine(t) : DOMAIN heap[a].types # {}
        /\ \A u \in Threads \ {t} : Mine(t) \cap Mine(u) = {}

\* The locals of build(): entries and results, by the position of the loop.
LoopInv(t) ==
    LET b == builder[t] IN
    /\ Size(t) \in Nat
    /\ b.entries \in [1..Size(t) -> Addresses]
    /\ \A i, j \in 1..Size(t) : i # j => b.entries[i] # b.entries[j]
    /\ b.group \in 1..Size(t)
    /\ b.results \in Seq(canonicalGroups)
    /\ Len(b.results) = IF b.pc \in {"prepare", "insert"} THEN b.group - 1
                        ELSE IF b.pc \in {"publish", "unique"} THEN b.group
                        ELSE Len(b.results)
    /\ Len(b.results) \in {b.group - 1, b.group}
    /\ b.pc = "publish" => b.results[b.group] = Current(t)

\* Groups built go by the names of the results, all others by their own.
NamesInv(t) ==
    LET b == builder[t] IN
    \A j \in 1..Size(t) :
        Renamed(t, b.entries[j]) = IF j <= Len(b.results) THEN b.results[j]
                                   ELSE b.entries[j]

\* What the groups to be built refer to.
InputInv(t) ==
    LET b == builder[t]
        own == {b.entries[i] : i \in 1..Size(t)}
    IN  /\ \A a \in Ahead(t) : heap[a].temp = TRUE /\ Groups(a) \subseteq own
        /\ b.pc = "prepare" => Groups(Current(t)) \subseteq own
        /\ b.pc = "insert" => Groups(Current(t)) \subseteq canonicalGroups \cup {Current(t)}

\* Results are settled, but for one that is being published.
ResultsInv(t) ==
    LET b == builder[t] IN
    \A j \in 1..Len(b.results) :
        heap[b.results[j]].temp = FALSE \/ (mutex = t /\ b.results[j] = Current(t))

BuilderInv(t) ==
    \/ builder[t] = Idle
    \/ /\ builder[t].pc \in {"prepare", "insert", "publish", "unique", "done"}
       /\ LoopInv(t) /\ NamesInv(t) /\ InputInv(t) /\ ResultsInv(t)

Record(b) ==
    [pc |-> b.pc, program |-> b.program, entries |-> b.entries, group |-> b.group,
     canonicalized |-> b.canonicalized, results |-> b.results, failed |-> b.failed]

\* The same call, further on.
After(t, pc, group, canonicalized, results, failed) ==
    [pc |-> pc, program |-> builder[t].program, entries |-> builder[t].entries,
     group |-> group, canonicalized |-> canonicalized, results |-> results,
     failed |-> failed]

TypesInv ==
    /\ HeapInv /\ CanonicalInv /\ OwnershipInv
    /\ mutex \in Threads \cup {NoThread}
    /\ builder = [t \in Threads |-> Record(builder[t])]
    /\ \A t \in Threads : BuilderInv(t) /\ (mutex = t) = (builder[t].pc = "publish")
-----------------------------------------------------------------------------
(* Facts used by several actions *)

\* What groups refer to.
LEMMA GroupFacts ==
    ASSUME NEW N, NEW r \in GroupsOver(N)
    PROVE  /\ Len(r) \in Nat /\ DOMAIN r = 1..Len(r)
           /\ \A i \in 1..Len(r) :
                 /\ r[i] \in [content : DOMAIN Shape, refs : Seq([group : N, index : Nat])]
                 /\ Len(r[i].refs) \in Nat /\ DOMAIN r[i].refs = 1..Len(r[i].refs)
                 /\ \A k \in 1..Len(r[i].refs) :
                       r[i].refs[k] \in [group : N, index : Nat]
           /\ \A x \in References(r) : x.group \in N
<1>1. r \in Seq([content : DOMAIN Shape, refs : Seq([group : N, index : Nat])])
  BY DEF GroupsOver
<1>2. Len(r) \in Nat /\ DOMAIN r = 1..Len(r)
  BY <1>1
<1>3. ASSUME NEW i \in 1..Len(r)
      PROVE  /\ r[i] \in [content : DOMAIN Shape, refs : Seq([group : N, index : Nat])]
             /\ Len(r[i].refs) \in Nat /\ DOMAIN r[i].refs = 1..Len(r[i].refs)
             /\ \A k \in 1..Len(r[i].refs) : r[i].refs[k] \in [group : N, index : Nat]
  <2>1. PICK T : T = [content : DOMAIN Shape, refs : Seq([group : N, index : Nat])]
    OBVIOUS
  <2>2. r \in Seq(T)
    BY <1>1, <2>1
  <2>3. r[i] \in T
    BY <2>2
  <2>4. PICK R : R = [group : N, index : Nat]
    OBVIOUS
  <2>5. r[i].refs \in Seq(R)
    BY <2>1, <2>3, <2>4
  <2>6. Len(r[i].refs) \in Nat /\ DOMAIN r[i].refs = 1..Len(r[i].refs)
    BY <2>5
  <2>7. \A k \in 1..Len(r[i].refs) : r[i].refs[k] \in R
    BY <2>5
  <2> QED BY <2>1, <2>3, <2>4, <2>6, <2>7, Zenon
<1>4. ASSUME NEW x \in References(r)
      PROVE  x.group \in N
  <2>1. PICK i \in 1..Len(r) : \E k \in DOMAIN r[i].refs : x = r[i].refs[k]
    BY <1>2 DEF References
  <2>2. x \in [group : N, index : Nat]
    BY <1>3, <2>1
  <2> QED BY <2>2
<1> QED BY <1>2, <1>3, <1>4

\* What is in a program.
LEMMA ProgramFacts ==
    ASSUME NEW p, IsProgram(p)
    PROVE  /\ Len(p) \in Nat \ {0} /\ DOMAIN p = 1..Len(p)
           /\ \A i \in 1..Len(p) :
                 /\ p[i] \in GroupsOver(1..Len(p))
                 /\ DOMAIN p[i] # {}
                 /\ \A x \in References(p[i]) : x.group \in 1..Len(p)
<1>1. p \in Seq(GroupsOver(1..Len(p))) /\ p # <<>>
  BY DEF IsProgram
<1>2. Len(p) \in Nat \ {0} /\ DOMAIN p = 1..Len(p)
  BY <1>1
<1>3. ASSUME NEW i \in 1..Len(p)
      PROVE  /\ p[i] \in GroupsOver(1..Len(p))
             /\ DOMAIN p[i] # {}
             /\ \A x \in References(p[i]) : x.group \in 1..Len(p)
  <2>1. p[i] \in GroupsOver(1..Len(p)) /\ p[i] # <<>>
    BY <1>1, <1>2 DEF IsProgram
  <2>2. DOMAIN p[i] # {}
    <3>1. PICK T : p[i] \in Seq(T)
      BY <2>1 DEF GroupsOver
    <3>2. PICK q : q = p[i]
      OBVIOUS
    <3>3. q \in Seq(T) /\ q # <<>>
      BY <2>1, <3>1, <3>2
    <3>4. DOMAIN q = 1..Len(q) /\ Len(q) \in Nat /\ Len(q) # 0
      BY <3>3, EmptySeq
    <3>5. 1 \in DOMAIN q
      BY <3>4
    <3> QED BY <3>2, <3>5
  <2> QED BY <2>1, <2>2, GroupFacts
<1> QED BY <1>2, <1>3

\* What MapReferences does to the groups named.
LEMMA Mapped ==
    ASSUME NEW r, NEW names
    PROVE  /\ DOMAIN MapReferences(r, names) = DOMAIN r
           /\ \A y \in References(MapReferences(r, names)) :
                 \E x \in References(r) : y.group = names[x.group]
<1>1. DOMAIN MapReferences(r, names) = DOMAIN r
  BY DEF MapReferences
<1>2. ASSUME NEW y \in References(MapReferences(r, names))
      PROVE  \E x \in References(r) : y.group = names[x.group]
  <2> DEFINE m == MapReferences(r, names)
  <2>1. PICK i \in DOMAIN m : \E k \in DOMAIN m[i].refs : y = m[i].refs[k]
    BY DEF References
  <2>2. /\ DOMAIN m[i].refs = DOMAIN r[i].refs
        /\ \A k \in DOMAIN m[i].refs : m[i].refs[k].group = names[r[i].refs[k].group]
    BY <1>1 DEF MapReferences
  <2>3. \A k \in DOMAIN r[i].refs : r[i].refs[k] \in References(r)
    BY <1>1 DEF References
  <2> QED BY <2>1, <2>2, <2>3
<1> QED BY <1>1, <1>2

\* Steps of t leave the other builders and what they own as they are.
LEMMA Others ==
    ASSUME TypesInv, NEW t \in Threads,
           \A u \in Threads \ {t} : builder'[u] = builder[u],
           canonicalGroups \subseteq canonicalGroups',
           canonicalGroups' \subseteq canonicalGroups \cup Mine(t),
           \A u \in Threads \ {t} : \A a \in Mine(u) : heap'[a] = heap[a],
           \A a \in canonicalGroups : heap[a].temp = FALSE => heap'[a].temp = FALSE,
           \A u \in Threads \ {t} : (mutex' = u) = (mutex = u)
    PROVE  \A u \in Threads \ {t} :
              /\ BuilderInv(u)'
              /\ (mutex' = u) = (builder'[u].pc = "publish")
              /\ Mine(u)' = Mine(u) /\ Current(u)' = Current(u)
              /\ Mine(u) \cap canonicalGroups' = {}
              /\ \A a \in Mine(u) : DOMAIN heap'[a].types # {}
<1> SUFFICES ASSUME NEW u \in Threads \ {t}
             PROVE  /\ BuilderInv(u)'
                    /\ (mutex' = u) = (builder'[u].pc = "publish")
                    /\ Mine(u)' = Mine(u) /\ Current(u)' = Current(u)
                    /\ Mine(u) \cap canonicalGroups' = {}
                    /\ \A a \in Mine(u) : DOMAIN heap'[a].types # {}
  OBVIOUS
<1>1. builder'[u] = builder[u]
  OBVIOUS
<1>2. (mutex' = u) = (builder'[u].pc = "publish")
  BY <1>1 DEF TypesInv
<1>3. Mine(u)' = Mine(u) /\ Ahead(u)' = Ahead(u) /\ Current(u)' = Current(u)
  BY <1>1 DEF Mine, Ahead, Size, CurrentIsMine, Current
<1>4. /\ Mine(u) \cap canonicalGroups' = {}
      /\ \A a \in Mine(u) : DOMAIN heap'[a].types # {}
  BY DEF TypesInv, OwnershipInv
<1>5. BuilderInv(u)'
  <2>1. CASE builder[u] = Idle
    BY <1>1, <2>1 DEF BuilderInv, Idle, Begun
  <2>2. ASSUME builder[u].pc \in {"prepare", "insert", "publish", "unique", "done"},
               LoopInv(u), NamesInv(u), InputInv(u), ResultsInv(u)
        PROVE  BuilderInv(u)'
    <3>1. LoopInv(u)'
      BY <1>1, <1>3, <2>2 DEF LoopInv, Size
    <3>2. NamesInv(u)'
      BY <1>1, <2>2 DEF NamesInv, Size, Renamed
    <3>3. InputInv(u)'
      <4>1. \A a \in Ahead(u) : heap'[a] = heap[a]
        BY DEF Mine
      <4>2. builder[u].pc \in {"prepare", "insert"} => heap'[Current(u)] = heap[Current(u)]
        BY DEF Mine, CurrentIsMine
      <4>3. \A a \in Ahead(u) : Groups(a)' = Groups(a)
        BY <4>1 DEF Groups
      <4>4. builder[u].pc \in {"prepare", "insert"} => Groups(Current(u))' = Groups(Current(u))
        BY <1>3, <4>2 DEF Groups
      <4> QED BY <1>1, <1>3, <2>2, <4>1, <4>3, <4>4 DEF InputInv, Size
    <3>4. ResultsInv(u)'
      <4>1. \A j \in 1..Len(builder[u].results) : builder[u].results[j] \in canonicalGroups
        BY <2>2 DEF LoopInv
      <4> QED BY <1>1, <1>3, <2>2, <4>1 DEF ResultsInv
    <3> QED BY <1>1, <2>2, <3>1, <3>2, <3>3, <3>4 DEF BuilderInv
  <2> QED BY <2>1, <2>2 DEF TypesInv, BuilderInv
<1> QED BY <1>2, <1>3, <1>4, <1>5

\* What is left to show of a step of t.
LEMMA Steps ==
    ASSUME TypesInv, NEW t \in Threads, NEW b,
           b = Record(b), builder' = [builder EXCEPT ![t] = b],
           canonicalGroups \subseteq canonicalGroups',
           canonicalGroups' \subseteq canonicalGroups \cup Mine(t),
           \A u \in Threads \ {t} : \A a \in Mine(u) : heap'[a] = heap[a],
           \A a \in canonicalGroups : heap[a].temp = FALSE => heap'[a].temp = FALSE,
           \A u \in Threads \ {t} : (mutex' = u) = (mutex = u),
           mutex' \in Threads \cup {NoThread},
           (mutex' = t) = (b.pc = "publish"),
           HeapInv', CanonicalInv', BuilderInv(t)',
           Mine(t)' \subseteq Addresses,
           Mine(t)' \cap canonicalGroups' = {},
           \A a \in Mine(t)' : DOMAIN heap'[a].types # {},
           \A u \in Threads \ {t} : Mine(t)' \cap Mine(u) = {}
    PROVE  TypesInv'
<1>1. /\ builder'[t] = b
      /\ \A u \in Threads \ {t} : builder'[u] = builder[u]
      /\ DOMAIN builder' = Threads
  BY DEF TypesInv
<1>2. \A u \in Threads \ {t} :
          /\ BuilderInv(u)'
          /\ (mutex' = u) = (builder'[u].pc = "publish")
          /\ Mine(u)' = Mine(u) /\ Current(u)' = Current(u)
          /\ Mine(u) \cap canonicalGroups' = {}
          /\ \A a \in Mine(u) : DOMAIN heap'[a].types # {}
  <2>1. \A u \in Threads \ {t} : builder'[u] = builder[u]
    BY <1>1
  <2> HIDE <1>1
  <2> QED BY <2>1, Others
<1>3. OwnershipInv'
  <2>1. OwnershipInv
    BY DEF TypesInv
  <2> QED BY <1>2, <2>1 DEF OwnershipInv
<1>4. builder' = [u \in Threads |-> Record(builder'[u])]
  <2>1. \A u \in Threads : builder[u] = Record(builder[u])
    BY DEF TypesInv
  <2>2. \A u \in Threads : builder'[u] = Record(builder'[u])
    BY <1>1, <2>1
  <2> QED BY <1>1, <2>2 DEF TypesInv
<1> QED BY <1>1, <1>2, <1>3, <1>4 DEF TypesInv

\* In a call, the builder's locals are as the loop leaves them.
LEMMA InCall ==
    ASSUME TypesInv, NEW t \in Threads, builder[t].pc # "idle"
    PROVE  /\ LoopInv(t) /\ NamesInv(t) /\ InputInv(t) /\ ResultsInv(t)
           /\ builder[t] = Record(builder[t])
           /\ Current(t) \in Addresses /\ Current(t) \notin Ahead(t)
           /\ Ahead(t) \subseteq Addresses
<1>1. LoopInv(t) /\ NamesInv(t) /\ InputInv(t) /\ ResultsInv(t)
  BY DEF TypesInv, BuilderInv, Idle, Begun
<1>2. builder[t] = Record(builder[t])
  BY DEF TypesInv
<1>3. Current(t) \in Addresses
  BY <1>1 DEF LoopInv, Current
<1>4. Current(t) \notin Ahead(t) /\ Ahead(t) \subseteq Addresses
  BY <1>1 DEF LoopInv, Current, Ahead
<1> QED BY <1>1, <1>2, <1>3, <1>4

LEMMA TypesPrepare ==
    ASSUME TypesInv, NEW t \in Threads, Prepare(t)
    PROVE  TypesInv'
<1>0. PICK a : a = Current(t)
  OBVIOUS
<1> DEFINE names == [g \in Addresses |-> Renamed(t, g)]
           r == MapReferences(heap[a].types, names)
           forward == \E x \in References(r) : heap[x.group].temp /\ x.group # a
           pc == IF forward THEN "done" ELSE "insert"
           b == After(t, pc, builder[t].group, builder[t].canonicalized,
                      builder[t].results, forward)
           own == {builder[t].entries[i] : i \in 1..Size(t)}
<1>1. /\ builder[t].pc = "prepare"
      /\ heap' = [heap EXCEPT ![a].types = r]
      /\ builder' = [builder EXCEPT ![t].pc = pc, ![t].failed = forward]
      /\ canonicalGroups' = canonicalGroups /\ mutex' = mutex
  BY <1>0 DEF Prepare
<1>2. /\ LoopInv(t) /\ NamesInv(t) /\ InputInv(t) /\ ResultsInv(t)
      /\ builder[t] = Record(builder[t])
      /\ a \in Addresses /\ a \notin Ahead(t) /\ Ahead(t) \subseteq Addresses
  BY <1>0, <1>1, InCall
<1>3. builder' = [builder EXCEPT ![t] = b]
  <2>1. builder = [u \in Threads |-> builder[u]]
    BY DEF TypesInv
  <2>2. builder'[t] = b
    BY <1>1, <1>2, <2>1 DEF Record, After
  <2> HIDE DEF b, pc, forward
  <2> QED BY <1>1, <2>1, <2>2
<1>4. /\ b = Record(b) /\ b.pc = pc
      /\ b.program = builder[t].program /\ b.entries = builder[t].entries
      /\ b.group = builder[t].group /\ b.canonicalized = builder[t].canonicalized
      /\ b.results = builder[t].results
  BY DEF Record, After
<1>5. builder'[t] = b /\ \A u \in Threads \ {t} : builder'[u] = builder[u]
  BY <1>3 DEF TypesInv
<1> HIDE DEF b, pc, forward
<1>6. /\ heap'[a] = [temp |-> heap[a].temp, types |-> r]
      /\ \A c \in Addresses \ {a} : heap'[c] = heap[c]
      /\ DOMAIN r = DOMAIN heap[a].types
  BY <1>1, <1>2, Mapped DEF TypesInv, HeapInv
<1>7. a \in Mine(t) /\ a \notin canonicalGroups
  BY <1>0, <1>1 DEF Mine, CurrentIsMine, TypesInv, OwnershipInv
<1>8. \A c \in Addresses \ {a} : Groups(c)' = Groups(c)
  BY <1>6 DEF Groups
<1>9. \A g \in Groups(a)' :
          \E j \in 1..Size(t) :
              g = IF j <= Len(builder[t].results) THEN builder[t].results[j]
                  ELSE builder[t].entries[j]
  <2> SUFFICES ASSUME NEW g \in Groups(a)'
               PROVE  \E j \in 1..Size(t) :
                          g = IF j <= Len(builder[t].results) THEN builder[t].results[j]
                              ELSE builder[t].entries[j]
    OBVIOUS
  <2>1. PICK y \in References(r) : g = y.group
    BY <1>6 DEF Groups
  <2>2. PICK x \in References(heap[a].types) : y.group = names[x.group]
    BY <2>1, Mapped
  <2>3. x.group \in own
    BY <1>0, <1>1, <1>2, <2>2 DEF InputInv, Groups
  <2>4. PICK j \in 1..Size(t) : x.group = builder[t].entries[j]
    BY <2>3
  <2>5. x.group \in Addresses
    BY <1>2, <2>4 DEF LoopInv
  <2> QED BY <1>2, <2>1, <2>2, <2>4, <2>5 DEF NamesInv
<1>10. /\ Len(builder[t].results) = builder[t].group - 1
       /\ \A j \in 1..Len(builder[t].results) : builder[t].results[j] \in canonicalGroups
       /\ builder[t].group \in 1..Size(t) /\ Size(t) \in Nat
       /\ builder[t].entries \in [1..Size(t) -> Addresses]
  BY <1>1, <1>2 DEF LoopInv
<1>11. Groups(a)' \subseteq canonicalGroups \cup {a} \cup Ahead(t)
  <2> SUFFICES ASSUME NEW g \in Groups(a)'
               PROVE  g \in canonicalGroups \cup {a} \cup Ahead(t)
    OBVIOUS
  <2>1. PICK j \in 1..Size(t) :
              g = IF j <= Len(builder[t].results) THEN builder[t].results[j]
                  ELSE builder[t].entries[j]
    BY <1>9
  <2>2. CASE j <= Len(builder[t].results)
    BY <1>10, <2>1, <2>2
  <2>3. CASE j = builder[t].group
    BY <1>0, <1>10, <2>1, <2>3 DEF Current
  <2>4. CASE j > builder[t].group
    BY <1>10, <2>1, <2>4 DEF Ahead
  <2> QED BY <1>10, <2>2, <2>3, <2>4
<1>12. HeapInv'
  <2>1. Groups(a)' \subseteq Addresses
    BY <1>2, <1>11 DEF TypesInv, CanonicalInv
  <2>2. /\ \A c \in Addresses : heap[c] = [temp |-> heap[c].temp, types |-> heap[c].types]
        /\ heap = [c \in Addresses |-> heap[c]]
        /\ \A c \in Addresses : Groups(c) \subseteq Addresses
    BY DEF TypesInv, HeapInv
  <2>3. /\ \A c \in Addresses : heap'[c] = [temp |-> heap'[c].temp, types |-> heap'[c].types]
        /\ heap' = [c \in Addresses |-> heap'[c]]
    BY <1>1, <1>6, <2>2
  <2> QED BY <1>8, <2>1, <2>2, <2>3 DEF HeapInv
<1>13. CanonicalInv'
  <2>1. CanonicalInv /\ canonicalGroups \subseteq Addresses \ {a}
    BY <1>7 DEF TypesInv, CanonicalInv
  <2>2. mutex # NoThread => mutex \in Threads \ {t} /\ Current(mutex)' = Current(mutex)
    BY <1>1, <1>5 DEF TypesInv, Current
  <2> QED BY <1>1, <1>6, <1>8, <2>1, <2>2 DEF CanonicalInv
<1>14. /\ Size(t)' = Size(t) /\ Ahead(t)' = Ahead(t) /\ Current(t)' = a
       /\ \A g : Renamed(t, g)' = Renamed(t, g)
  BY <1>0, <1>4, <1>5 DEF Size, Ahead, Current, Renamed
<1>15. Mine(t)' = Mine(t)
  <2>1. CurrentIsMine(t)' /\ CurrentIsMine(t)
    BY <1>1, <1>4, <1>5, <1>10 DEF CurrentIsMine, pc
  <2> QED BY <1>0, <1>14, <2>1 DEF Mine
<1>16. BuilderInv(t)'
  <2>0. /\ builder'[t].pc \in {"done", "insert"}
        /\ builder'[t].program = builder[t].program
        /\ builder'[t].entries = builder[t].entries
        /\ builder'[t].group = builder[t].group
        /\ builder'[t].results = builder[t].results
    BY <1>4, <1>5 DEF pc
  <2>1. LoopInv(t)'
    <3>1. builder[t].results \in Seq(canonicalGroups')
      BY <1>1, <1>2 DEF LoopInv
    <3>2. builder[t].group - 1 \in {builder[t].group - 1, builder[t].group}
      OBVIOUS
    <3> QED BY <1>2, <1>10, <1>14, <2>0, <3>1, <3>2 DEF LoopInv
  <2>2. NamesInv(t)'
    BY <1>2, <1>4, <1>5, <1>14 DEF NamesInv
  <2>3. InputInv(t)'
    <3>1. \A c \in Ahead(t) : heap'[c] = heap[c] /\ Groups(c)' = Groups(c)
      BY <1>2, <1>6, <1>8
    <3>2. b.pc = "insert" => Groups(a)' \subseteq canonicalGroups \cup {a}
      <4> SUFFICES ASSUME ~forward, NEW g \in Groups(a)', g \in Ahead(t)
                   PROVE  g = a
        BY <1>4, <1>11 DEF pc
      <4>1. heap[g].temp = TRUE
        BY <1>2 DEF InputInv
      <4>2. PICK x \in References(r) : g = x.group
        BY <1>6 DEF Groups
      <4> QED BY <4>1, <4>2 DEF forward
    <3>3. \A c \in Ahead(t) : heap[c].temp = TRUE /\ Groups(c) \subseteq own
      BY <1>2 DEF InputInv
    <3>4. {builder'[t].entries[i] : i \in 1..Size(t)'} = own
      BY <1>14, <2>0
    <3>5. \A c \in Ahead(t)' : heap'[c].temp = TRUE /\ Groups(c)' \subseteq own
      BY <1>14, <3>1, <3>3
    <3>6. builder'[t].pc = "insert" =>
              Groups(Current(t))' \subseteq canonicalGroups' \cup {Current(t)'}
      BY <1>1, <1>5, <1>14, <3>2 DEF Groups
    <3> HIDE DEF own
    <3> QED BY <2>0, <3>4, <3>5, <3>6 DEF InputInv
  <2>4. ResultsInv(t)'
    <3>1. \A j \in 1..Len(builder[t].results) :
              heap'[builder[t].results[j]] = heap[builder[t].results[j]]
      BY <1>6, <1>7, <1>10 DEF TypesInv, CanonicalInv
    <3> QED BY <1>0, <1>1, <1>2, <1>4, <1>5, <1>14, <3>1 DEF ResultsInv
  <2> QED BY <1>4, <1>5, <2>1, <2>2, <2>3, <2>4 DEF BuilderInv, pc
<1>17. \A u \in Threads \ {t} : \A c \in Mine(u) : heap'[c] = heap[c]
  BY <1>6, <1>7 DEF TypesInv, OwnershipInv
<1>18. \A c \in canonicalGroups : heap'[c] = heap[c]
  BY <1>6, <1>7 DEF TypesInv, CanonicalInv
<1>19. /\ Mine(t) \subseteq Addresses
       /\ Mine(t) \cap canonicalGroups = {}
       /\ \A c \in Mine(t) : DOMAIN heap'[c].types # {}
       /\ \A u \in Threads \ {t} : Mine(t) \cap Mine(u) = {}
  BY <1>6 DEF TypesInv, OwnershipInv
<1>20. mutex' \in Threads \cup {NoThread} /\ (mutex' = t) = (b.pc = "publish")
  BY <1>1, <1>4 DEF TypesInv, pc
<1> HIDE DEF r, names, own
<1> QED
  BY <1>1, <1>3, <1>4, <1>12, <1>13, <1>15, <1>16, <1>17, <1>18, <1>19, <1>20, Steps

\* What follows where the loop stays at its group.
LEMMA SameGroupNext ==
    ASSUME NEW t \in Threads,
           builder'[t].program = builder[t].program,
           builder'[t].entries = builder[t].entries,
           builder'[t].group = builder[t].group
    PROVE  Size(t)' = Size(t) /\ Ahead(t)' = Ahead(t) /\ Current(t)' = Current(t)
<1>1. Size(t)' = Size(t)
  BY DEF Size
<1>2. Ahead(t)' = Ahead(t)
  BY <1>1 DEF Ahead
<1>3. Current(t)' = Current(t)
  BY DEF Current
<1> QED BY <1>1, <1>2, <1>3

LEMMA LoopGoesOn ==
    ASSUME NEW t \in Threads, LoopInv(t),
           builder'[t].program = builder[t].program,
           builder'[t].entries = builder[t].entries,
           builder'[t].group \in 1..Size(t),
           builder'[t].results \in Seq(canonicalGroups'),
           LET b == builder'[t] IN
               /\ Len(b.results) = IF b.pc \in {"prepare", "insert"} THEN b.group - 1
                                   ELSE IF b.pc \in {"publish", "unique"} THEN b.group
                                   ELSE Len(b.results)
               /\ Len(b.results) \in {b.group - 1, b.group}
               /\ b.pc = "publish" => b.results[b.group] = b.entries[b.group]
    PROVE  LoopInv(t)'
<1>1. Size(t)' = Size(t)
  BY DEF Size
<1>2. Current(t)' = builder'[t].entries[builder'[t].group]
  BY DEF Current
<1> QED BY <1>1, <1>2 DEF LoopInv

LEMMA NamesGoOn ==
    ASSUME NEW t \in Threads, Size(t)' = Size(t),
           NEW e, builder'[t].entries = e,
           NEW known, builder'[t].canonicalized = known,
           NEW results, builder'[t].results = results,
           \A j \in 1..Size(t) :
              (IF e[j] \in DOMAIN known THEN known[e[j]] ELSE e[j]) =
                  IF j <= Len(results) THEN results[j] ELSE e[j]
    PROVE  NamesInv(t)'
BY DEF NamesInv, Renamed

\* A duplicate goes by the name of c from now on.
LEMMA TypesInsertOld ==
    ASSUME TypesInv, NEW t \in Threads, builder[t].pc = "insert", mutex = NoThread,
           NEW c \in canonicalGroups,
           builder' = [builder EXCEPT
              ![t].pc = "unique",
              ![t].results = Append(@, c),
              ![t].canonicalized =
                  [g \in DOMAIN @ \cup {Current(t)} |-> IF g = Current(t) THEN c ELSE @[g]]],
           UNCHANGED <<heap, canonicalGroups, mutex>>
    PROVE  TypesInv'
<1>0. PICK a : a = Current(t)
  OBVIOUS
<1> DEFINE known == builder[t].canonicalized
           names == [g \in DOMAIN known \cup {a} |-> IF g = a THEN c ELSE known[g]]
           results == Append(builder[t].results, c)
           b == After(t, "unique", builder[t].group, names, results, builder[t].failed)
           own == {builder[t].entries[i] : i \in 1..Size(t)}
<1>1. /\ LoopInv(t) /\ NamesInv(t) /\ InputInv(t) /\ ResultsInv(t)
      /\ builder[t] = Record(builder[t])
      /\ a \in Addresses /\ a \notin Ahead(t) /\ Ahead(t) \subseteq Addresses
  BY <1>0, InCall
<1>2. builder' = [builder EXCEPT ![t] = b]
  <2>1. builder = [u \in Threads |-> builder[u]]
    BY DEF TypesInv
  <2>2. builder'[t] = b
    BY <1>0, <1>1, <2>1 DEF Record, After
  <2> HIDE DEF b
  <2> QED BY <2>1, <2>2
<1>3. /\ b = Record(b) /\ b.pc = "unique"
      /\ b.program = builder[t].program /\ b.entries = builder[t].entries
      /\ b.group = builder[t].group /\ b.canonicalized = names
      /\ b.results = results
  BY DEF Record, After
<1>4. builder'[t] = b /\ \A u \in Threads \ {t} : builder'[u] = builder[u]
  BY <1>2 DEF TypesInv
<1> HIDE DEF b
<1>5. /\ Len(builder[t].results) = builder[t].group - 1
      /\ builder[t].results \in Seq(canonicalGroups)
      /\ builder[t].group \in 1..Size(t) /\ Size(t) \in Nat
      /\ builder[t].entries \in [1..Size(t) -> Addresses]
      /\ \A i, j \in 1..Size(t) : i # j => builder[t].entries[i] # builder[t].entries[j]
      /\ a = builder[t].entries[builder[t].group]
  BY <1>0, <1>1 DEF LoopInv, Current
<1>6. /\ results \in Seq(canonicalGroups) /\ Len(results) = builder[t].group
      /\ results[builder[t].group] = c
      /\ \A j \in 1..(builder[t].group - 1) : results[j] = builder[t].results[j]
  BY <1>5
<1> HIDE DEF results
<1>7. /\ Size(t)' = Size(t) /\ Ahead(t)' = Ahead(t) /\ Current(t)' = a
      /\ \A g \in Addresses : Groups(g)' = Groups(g)
  <2>1. Size(t)' = Size(t) /\ Ahead(t)' = Ahead(t) /\ Current(t)' = a
    BY <1>0, <1>3, <1>4, SameGroupNext
  <2>2. \A g \in Addresses : Groups(g)' = Groups(g)
    BY DEF Groups
  <2> QED BY <2>1, <2>2
<1>8. a \in Mine(t) /\ a # c
  BY <1>0 DEF Mine, CurrentIsMine, TypesInv, OwnershipInv
<1>9. Mine(t)' = Mine(t)
  <2>1. CurrentIsMine(t)
    BY DEF CurrentIsMine
  <2>2. CurrentIsMine(t)'
    BY <1>3, <1>4, <1>6, <1>7, <1>8 DEF CurrentIsMine
  <2> QED BY <1>0, <1>7, <2>1, <2>2 DEF Mine
<1>10. HeapInv' /\ CanonicalInv'
  BY <1>7 DEF TypesInv, HeapInv, CanonicalInv
<1>11. BuilderInv(t)'
  <2>1. LoopInv(t)'
    BY <1>1, <1>3, <1>4, <1>5, <1>6, LoopGoesOn
  <2>2. NamesInv(t)'
    <3>1. DOMAIN names = DOMAIN known \cup {a} /\ names[a] = c
          /\ \A g \in DOMAIN known \ {a} : names[g] = known[g]
      OBVIOUS
    <3>2. \A j \in 1..Size(t) :
              Renamed(t, builder[t].entries[j]) =
                  IF j <= Len(builder[t].results) THEN builder[t].results[j]
                  ELSE builder[t].entries[j]
      BY <1>1 DEF NamesInv
    <3> DEFINE e == builder[t].entries
    <3>3. ASSUME NEW j \in 1..Size(t)
          PROVE  (IF e[j] \in DOMAIN names THEN names[e[j]] ELSE e[j]) =
                     IF j <= Len(results) THEN results[j] ELSE e[j]
      <4> HIDE DEF names
      <4>1. CASE j = builder[t].group
        BY <1>5, <1>6, <3>1, <4>1
      <4>2. CASE j # builder[t].group
        <5>1. e[j] # a
          BY <1>5, <4>2
        <5>2. (IF e[j] \in DOMAIN names THEN names[e[j]] ELSE e[j]) = Renamed(t, e[j])
          BY <3>1, <5>1 DEF Renamed
        <5>3. CASE j < builder[t].group
          BY <1>5, <1>6, <3>2, <5>2, <5>3
        <5>4. CASE j > builder[t].group
          BY <1>5, <1>6, <3>2, <5>2, <5>4
        <5> QED BY <1>5, <4>2, <5>3, <5>4
      <4> QED BY <4>1, <4>2
    <3>4. builder'[t].canonicalized = names /\ builder'[t].results = results
          /\ builder'[t].entries = e
      BY <1>3, <1>4
    <3> HIDE DEF names, known, e
    <3>5. \A j \in 1..Size(t) :
              (IF e[j] \in DOMAIN names THEN names[e[j]] ELSE e[j]) =
                  IF j <= Len(results) THEN results[j] ELSE e[j]
      BY <3>3
    <3>6. Size(t)' = Size(t)
      BY <1>7
    <3> QED BY ONLY <3>4, <3>5, <3>6, NamesGoOn
  <2>3. InputInv(t)'
    <3>1. \A g \in Ahead(t) : heap[g].temp = TRUE /\ Groups(g) \subseteq own
      BY <1>1 DEF InputInv
    <3>2. {builder'[t].entries[i] : i \in 1..Size(t)'} = own
      BY <1>3, <1>4, <1>7
    <3>3. \A g \in Ahead(t)' : heap'[g].temp = TRUE /\ Groups(g)' \subseteq own
      BY <1>1, <1>7, <3>1
    <3> HIDE DEF own
    <3> QED BY <1>3, <1>4, <3>2, <3>3 DEF InputInv
  <2>4. ResultsInv(t)'
    <3>1. heap[c].temp = FALSE
      BY DEF TypesInv, CanonicalInv
    <3>2. \A j \in 1..Len(builder[t].results) : heap[builder[t].results[j]].temp = FALSE
      BY <1>1, NoThreadAssumption DEF ResultsInv
    <3> QED BY <1>3, <1>4, <1>5, <1>6, <3>1, <3>2 DEF ResultsInv
  <2> QED BY <1>3, <1>4, <2>1, <2>2, <2>3, <2>4 DEF BuilderInv
<1>12. /\ Mine(t) \subseteq Addresses
       /\ Mine(t) \cap canonicalGroups = {}
       /\ \A g \in Mine(t) : DOMAIN heap'[g].types # {}
       /\ \A u \in Threads \ {t} : Mine(t) \cap Mine(u) = {}
  BY DEF TypesInv, OwnershipInv
<1>13. mutex' \in Threads \cup {NoThread} /\ (mutex' = t) = (b.pc = "publish")
  BY <1>3, NoThreadAssumption DEF TypesInv
<1> HIDE DEF names, own
<1> QED
  BY <1>2, <1>3, <1>9, <1>10, <1>11, <1>12, <1>13, Steps

\* The group is entered in the store, and the mutex held on.
LEMMA TypesInsertNew ==
    ASSUME TypesInv, NEW t \in Threads, builder[t].pc = "insert", mutex = NoThread,
           canonicalGroups' = canonicalGroups \cup {Current(t)},
           mutex' = t,
           builder' = [builder EXCEPT ![t].pc = "publish",
                                      ![t].results = Append(@, Current(t))],
           UNCHANGED heap
    PROVE  TypesInv'
<1>0. PICK a : a = Current(t)
  OBVIOUS
<1> DEFINE results == Append(builder[t].results, a)
           b == After(t, "publish", builder[t].group, builder[t].canonicalized,
                      results, builder[t].failed)
           own == {builder[t].entries[i] : i \in 1..Size(t)}
<1>1. /\ LoopInv(t) /\ NamesInv(t) /\ InputInv(t) /\ ResultsInv(t)
      /\ builder[t] = Record(builder[t])
      /\ a \in Addresses /\ a \notin Ahead(t) /\ Ahead(t) \subseteq Addresses
  BY <1>0, InCall
<1>2. builder' = [builder EXCEPT ![t] = b]
  <2>1. builder = [u \in Threads |-> builder[u]]
    BY DEF TypesInv
  <2>2. builder'[t] = b
    BY <1>0, <1>1, <2>1 DEF Record, After
  <2> HIDE DEF b
  <2> QED BY <2>1, <2>2
<1>3. /\ b = Record(b) /\ b.pc = "publish"
      /\ b.program = builder[t].program /\ b.entries = builder[t].entries
      /\ b.group = builder[t].group /\ b.canonicalized = builder[t].canonicalized
      /\ b.results = results
  BY DEF Record, After
<1>4. builder'[t] = b /\ \A u \in Threads \ {t} : builder'[u] = builder[u]
  BY <1>2 DEF TypesInv
<1> HIDE DEF b
<1>5. /\ Len(builder[t].results) = builder[t].group - 1
      /\ builder[t].results \in Seq(canonicalGroups)
      /\ builder[t].group \in 1..Size(t) /\ Size(t) \in Nat
      /\ builder[t].entries \in [1..Size(t) -> Addresses]
      /\ \A i, j \in 1..Size(t) : i # j => builder[t].entries[i] # builder[t].entries[j]
      /\ a = builder[t].entries[builder[t].group]
  BY <1>0, <1>1 DEF LoopInv, Current
<1>6. /\ results \in Seq(canonicalGroups') /\ Len(results) = builder[t].group
      /\ results[builder[t].group] = a
      /\ \A j \in 1..(builder[t].group - 1) : results[j] = builder[t].results[j]
  <2>1. builder[t].results \in Seq(canonicalGroups') /\ a \in canonicalGroups'
    BY <1>0, <1>5
  <2>2. /\ results \in Seq(canonicalGroups')
        /\ Len(results) = Len(builder[t].results) + 1
        /\ \A j \in 1..Len(builder[t].results) : results[j] = builder[t].results[j]
        /\ results[Len(builder[t].results) + 1] = a
    BY ONLY <2>1, AppendProperties
  <2>3. Len(builder[t].results) + 1 = builder[t].group
    BY <1>5
  <2> HIDE DEF results
  <2> QED BY <1>5, <2>2, <2>3
<1> HIDE DEF results
<1>7. /\ Size(t)' = Size(t) /\ Ahead(t)' = Ahead(t) /\ Current(t)' = a
      /\ \A g \in Addresses : Groups(g)' = Groups(g)
  <2>1. Size(t)' = Size(t) /\ Ahead(t)' = Ahead(t) /\ Current(t)' = a
    BY <1>0, <1>3, <1>4, SameGroupNext
  <2>2. \A g \in Addresses : Groups(g)' = Groups(g)
    BY DEF Groups
  <2> QED BY <2>1, <2>2
<1>8. /\ a \in Mine(t) /\ Ahead(t) \subseteq Mine(t) /\ a \notin canonicalGroups
      /\ DOMAIN heap[a].types # {}
  BY <1>0 DEF Mine, CurrentIsMine, TypesInv, OwnershipInv
<1>9. Mine(t)' = Ahead(t)
  BY <1>3, <1>4, <1>7 DEF CurrentIsMine, Mine
<1>10. HeapInv'
  BY <1>7 DEF TypesInv, HeapInv
<1>11. CanonicalInv'
  <2>1. Groups(a) \subseteq canonicalGroups \cup {a}
    BY <1>0, <1>1 DEF InputInv
  <2>2. t # NoThread
    BY NoThreadAssumption
  <2>3. CanonicalInv
    BY DEF TypesInv
  <2> QED BY <1>0, <1>1, <1>7, <1>8, <2>1, <2>2, <2>3 DEF CanonicalInv
<1>12. BuilderInv(t)'
  <2>1. LoopInv(t)'
    <3>1. /\ builder'[t].pc = "publish"
          /\ builder'[t].program = builder[t].program
          /\ builder'[t].entries = builder[t].entries
          /\ builder'[t].group = builder[t].group
          /\ builder'[t].results = results
      BY <1>3, <1>4
    <3> QED BY ONLY <1>1, <1>5, <1>6, <3>1, LoopGoesOn
  <2>2. NamesInv(t)'
    <3> DEFINE e == builder[t].entries
               known == builder[t].canonicalized
    <3>1. ASSUME NEW j \in 1..Size(t)
          PROVE  (IF e[j] \in DOMAIN known THEN known[e[j]] ELSE e[j]) =
                     IF j <= Len(results) THEN results[j] ELSE e[j]
      <4>1. (IF e[j] \in DOMAIN known THEN known[e[j]] ELSE e[j]) =
                IF j <= Len(builder[t].results) THEN builder[t].results[j] ELSE e[j]
        BY <1>1 DEF NamesInv, Renamed
      <4> HIDE DEF known
      <4>2. CASE j = builder[t].group
        BY <1>5, <1>6, <4>1, <4>2
      <4>3. CASE j # builder[t].group
        BY <1>5, <1>6, <4>1, <4>3
      <4> QED BY <4>2, <4>3
    <3>2. /\ builder'[t].canonicalized = known /\ builder'[t].results = results
          /\ builder'[t].entries = e
          /\ Size(t)' = Size(t)
      BY <1>3, <1>4, <1>7
    <3> HIDE DEF known, e
    <3>3. \A j \in 1..Size(t) :
              (IF e[j] \in DOMAIN known THEN known[e[j]] ELSE e[j]) =
                  IF j <= Len(results) THEN results[j] ELSE e[j]
      BY <3>1
    <3> QED BY ONLY <3>2, <3>3, NamesGoOn
  <2>3. InputInv(t)'
    <3>1. \A g \in Ahead(t) : heap[g].temp = TRUE /\ Groups(g) \subseteq own
      BY <1>1 DEF InputInv
    <3>2. {builder'[t].entries[i] : i \in 1..Size(t)'} = own
      BY <1>3, <1>4, <1>7
    <3>3. \A g \in Ahead(t)' : heap'[g].temp = TRUE /\ Groups(g)' \subseteq own
      BY <1>1, <1>7, <3>1
    <3> HIDE DEF own
    <3> QED BY <1>3, <1>4, <3>2, <3>3 DEF InputInv
  <2>4. ResultsInv(t)'
    <3>1. \A j \in 1..Len(builder[t].results) : heap[builder[t].results[j]].temp = FALSE
      BY <1>1, NoThreadAssumption DEF ResultsInv
    <3>2. builder'[t].results = results
      BY <1>3, <1>4
    <3>3. \A j \in 1..Len(results) : heap[results[j]].temp = FALSE \/ results[j] = a
      BY <1>5, <1>6, <3>1
    <3> QED BY <1>7, <3>2, <3>3 DEF ResultsInv
  <2> QED BY <1>3, <1>4, <2>1, <2>2, <2>3, <2>4 DEF BuilderInv
<1>13. /\ Ahead(t) \cap canonicalGroups' = {}
       /\ \A g \in Ahead(t) : DOMAIN heap'[g].types # {}
       /\ \A u \in Threads \ {t} : Ahead(t) \cap Mine(u) = {}
       /\ canonicalGroups' \subseteq canonicalGroups \cup Mine(t)
  BY <1>0, <1>1, <1>8 DEF TypesInv, OwnershipInv
<1>14. \A u \in Threads \ {t} : (mutex' = u) = (mutex = u)
  BY NoThreadAssumption
<1>15. mutex' \in Threads \cup {NoThread} /\ (mutex' = t) = (b.pc = "publish")
  BY <1>3
<1> HIDE DEF own
<1>16. /\ canonicalGroups \subseteq canonicalGroups'
       /\ \A u \in Threads \ {t} : \A g \in Mine(u) : heap'[g] = heap[g]
       /\ \A g \in canonicalGroups : heap[g].temp = FALSE => heap'[g].temp = FALSE
  OBVIOUS
<1>17. /\ Mine(t)' \subseteq Addresses
       /\ Mine(t)' \cap canonicalGroups' = {}
       /\ \A g \in Mine(t)' : DOMAIN heap'[g].types # {}
       /\ \A u \in Threads \ {t} : Mine(t)' \cap Mine(u) = {}
  BY <1>1, <1>9, <1>13
<1>18. b = Record(b)
  BY <1>3
<1> QED
  BY ONLY TypesInv, <1>2, <1>10, <1>11, <1>12, <1>13, <1>14, <1>15, <1>16, <1>17, <1>18, Steps

LEMMA TypesInsert ==
    ASSUME TypesInv, NEW t \in Threads, Insert(t)
    PROVE  TypesInv'
<1>1. builder[t].pc = "insert" /\ mutex = NoThread
  BY DEF Insert, MutexIsFree
<1>2. CASE \E c \in canonicalGroups : SameGroup(Current(t), c, Content)
  <2> DEFINE c == CHOOSE c \in canonicalGroups : SameGroup(Current(t), c, Content)
  <2>1. c \in canonicalGroups
    BY <1>2
  <2> HIDE DEF c
  <2>2. /\ builder' = [builder EXCEPT
              ![t].pc = "unique",
              ![t].results = Append(@, c),
              ![t].canonicalized =
                  [g \in DOMAIN @ \cup {Current(t)} |-> IF g = Current(t) THEN c ELSE @[g]]]
        /\ UNCHANGED <<heap, canonicalGroups, mutex>>
    BY <1>2 DEF Insert, c
  <2> QED BY <1>1, <2>1, <2>2, TypesInsertOld
<1>3. CASE ~ \E c \in canonicalGroups : SameGroup(Current(t), c, Content)
  BY <1>1, <1>3, TypesInsertNew DEF Insert
<1> QED BY <1>2, <1>3

LEMMA TypesPublish ==
    ASSUME TypesInv, NEW t \in Threads, Publish(t)
    PROVE  TypesInv'
<1>0. PICK a : a = Current(t)
  OBVIOUS
<1> DEFINE b == After(t, "unique", builder[t].group, builder[t].canonicalized,
                      builder[t].results, builder[t].failed)
           own == {builder[t].entries[i] : i \in 1..Size(t)}
<1>1. /\ builder[t].pc = "publish" /\ mutex = t /\ t # NoThread
      /\ heap' = [heap EXCEPT ![a].temp = FALSE]
      /\ mutex' = NoThread
      /\ builder' = [builder EXCEPT ![t].pc = "unique"]
      /\ canonicalGroups' = canonicalGroups
  BY <1>0, NoThreadAssumption DEF Publish, TypesInv
<1>2. /\ LoopInv(t) /\ NamesInv(t) /\ InputInv(t) /\ ResultsInv(t)
      /\ builder[t] = Record(builder[t])
      /\ a \in Addresses /\ a \notin Ahead(t) /\ Ahead(t) \subseteq Addresses
  BY <1>0, <1>1, InCall
<1>3. builder' = [builder EXCEPT ![t] = b]
  <2>1. builder = [u \in Threads |-> builder[u]]
    BY DEF TypesInv
  <2>2. builder'[t] = b
    BY <1>1, <1>2, <2>1 DEF Record, After
  <2> HIDE DEF b
  <2> QED BY <1>1, <2>1, <2>2
<1>4. b = Record(b) /\ b.pc = "unique"
  BY DEF Record, After
<1>5. /\ builder'[t].pc = "unique"
      /\ builder'[t].program = builder[t].program
      /\ builder'[t].entries = builder[t].entries
      /\ builder'[t].group = builder[t].group
      /\ builder'[t].canonicalized = builder[t].canonicalized
      /\ builder'[t].results = builder[t].results
      /\ \A u \in Threads \ {t} : builder'[u] = builder[u]
  BY <1>3 DEF After, TypesInv
<1> HIDE DEF b
<1>6. /\ Len(builder[t].results) = builder[t].group
      /\ builder[t].results \in Seq(canonicalGroups)
      /\ builder[t].group \in 1..Size(t) /\ Size(t) \in Nat
      /\ builder[t].results[builder[t].group] = a
      /\ a \in canonicalGroups
  <2>1. /\ Len(builder[t].results) = builder[t].group
        /\ builder[t].results \in Seq(canonicalGroups)
        /\ builder[t].group \in 1..Size(t) /\ Size(t) \in Nat
        /\ builder[t].results[builder[t].group] = a
    BY <1>0, <1>1, <1>2 DEF LoopInv
  <2> QED BY <2>1
<1>7. Size(t)' = Size(t) /\ Ahead(t)' = Ahead(t) /\ Current(t)' = a
  BY <1>0, <1>5, SameGroupNext
<1>8. /\ heap'[a] = [temp |-> FALSE, types |-> heap[a].types]
      /\ \A g \in Addresses \ {a} : heap'[g] = heap[g]
      /\ \A g \in Addresses : heap'[g].types = heap[g].types
  <2>1. heap = [g \in Addresses |-> heap[g]]
        /\ heap[a] = [temp |-> heap[a].temp, types |-> heap[a].types]
    BY <1>2 DEF TypesInv, HeapInv
  <2> QED BY <1>1, <1>2, <2>1
<1>9. \A g \in Addresses : Groups(g)' = Groups(g)
  BY <1>8 DEF Groups
<1>10. Mine(t)' = Ahead(t)
  BY <1>5, <1>6, <1>7 DEF CurrentIsMine, Mine
<1>11. HeapInv'
  <2>1. /\ \A g \in Addresses : heap[g] = [temp |-> heap[g].temp, types |-> heap[g].types]
        /\ heap = [g \in Addresses |-> heap[g]]
        /\ \A g \in Addresses : Groups(g) \subseteq Addresses
    BY DEF TypesInv, HeapInv
  <2>2. /\ \A g \in Addresses : heap'[g] = [temp |-> heap'[g].temp, types |-> heap'[g].types]
        /\ heap' = [g \in Addresses |-> heap'[g]]
    BY <1>1, <1>8, <2>1
  <2> QED BY <1>9, <2>1, <2>2 DEF HeapInv
<1>12. \A g \in canonicalGroups : heap'[g].temp = FALSE
  <2>1. \A g \in canonicalGroups :
            g \in Addresses /\ (heap[g].temp # FALSE => g = Current(mutex))
    BY DEF TypesInv, CanonicalInv
  <2>2. Current(mutex) = a
    BY <1>0, <1>1
  <2>3. heap'[a].temp = FALSE
    BY <1>8
  <2>4. ASSUME NEW g \in canonicalGroups, g # a
        PROVE  heap'[g].temp = FALSE
    <3>1. g \in Addresses /\ heap[g].temp = FALSE
      BY <2>1, <2>2, <2>4
    <3>2. heap'[g] = heap[g]
      BY <1>8, <2>4, <3>1
    <3> QED BY <3>1, <3>2
  <2> QED BY <2>3, <2>4
<1>13. CanonicalInv'
  BY <1>1, <1>8, <1>9, <1>12 DEF TypesInv, CanonicalInv
<1>14. BuilderInv(t)'
  <2>1. LoopInv(t)'
    BY <1>1, <1>2, <1>5, <1>6, LoopGoesOn
  <2>2. NamesInv(t)'
    <3> DEFINE e == builder[t].entries
               known == builder[t].canonicalized
               results == builder[t].results
    <3>1. \A j \in 1..Size(t) :
              (IF e[j] \in DOMAIN known THEN known[e[j]] ELSE e[j]) =
                  IF j <= Len(results) THEN results[j] ELSE e[j]
      BY <1>2 DEF NamesInv, Renamed
    <3> HIDE DEF known, e, results
    <3>2. /\ builder'[t].canonicalized = known /\ builder'[t].results = results
          /\ builder'[t].entries = e
          /\ Size(t)' = Size(t)
      BY <1>5, <1>7 DEF known, e, results
    <3> QED BY ONLY <3>1, <3>2, NamesGoOn
  <2>3. InputInv(t)'
    <3>1. \A g \in Ahead(t) : heap[g].temp = TRUE /\ Groups(g) \subseteq own
      BY <1>2 DEF InputInv
    <3>2. {builder'[t].entries[i] : i \in 1..Size(t)'} = own
      BY <1>5, <1>7
    <3>3. \A g \in Ahead(t)' : heap'[g].temp = TRUE /\ Groups(g)' \subseteq own
      BY <1>2, <1>7, <1>8, <1>9, <3>1
    <3> HIDE DEF own
    <3> QED BY <1>5, <3>2, <3>3 DEF InputInv
  <2>4. ResultsInv(t)'
    BY <1>5, <1>6, <1>12 DEF ResultsInv
  <2> QED BY <1>5, <2>1, <2>2, <2>3, <2>4 DEF BuilderInv
<1>15. /\ Ahead(t) \subseteq Mine(t)
       /\ Ahead(t) \cap canonicalGroups = {}
       /\ \A g \in Ahead(t) : DOMAIN heap'[g].types # {}
       /\ \A u \in Threads \ {t} : Ahead(t) \cap Mine(u) = {}
  <2>1. Ahead(t) \subseteq Mine(t)
    BY DEF Mine
  <2> QED BY <1>2, <1>8, <2>1 DEF TypesInv, OwnershipInv
<1>16. /\ canonicalGroups \subseteq canonicalGroups'
       /\ canonicalGroups' \subseteq canonicalGroups \cup Mine(t)
       /\ \A u \in Threads \ {t} : \A g \in Mine(u) : heap'[g] = heap[g]
       /\ \A g \in canonicalGroups : heap[g].temp = FALSE => heap'[g].temp = FALSE
  BY <1>1, <1>6, <1>8, <1>12 DEF TypesInv, OwnershipInv
<1>17. /\ Mine(t)' \subseteq Addresses
       /\ Mine(t)' \cap canonicalGroups' = {}
       /\ \A g \in Mine(t)' : DOMAIN heap'[g].types # {}
       /\ \A u \in Threads \ {t} : Mine(t)' \cap Mine(u) = {}
  BY <1>1, <1>2, <1>10, <1>15
<1>18. /\ mutex' \in Threads \cup {NoThread}
       /\ (mutex' = t) = (b.pc = "publish")
       /\ \A u \in Threads \ {t} : (mutex' = u) = (mutex = u)
  BY <1>1, <1>4, NoThreadAssumption
<1> QED
  BY ONLY TypesInv, <1>3, <1>4, <1>11, <1>13, <1>14, <1>16, <1>17, <1>18, Steps

LEMMA TypesUnique ==
    ASSUME TypesInv, NEW t \in Threads, Unique(t)
    PROVE  TypesInv'
<1>0. PICK a : a = Current(t)
  OBVIOUS
<1>1. PICK more, failed :
          /\ more \in BOOLEAN
          /\ builder[t].pc = "unique"
          /\ builder' = [builder EXCEPT ![t].pc = IF more THEN "prepare" ELSE "done",
                                        ![t].group = IF more THEN @ + 1 ELSE @,
                                        ![t].failed = failed]
          /\ heap' = IF builder[t].results[builder[t].group] = a THEN heap
                     ELSE [heap EXCEPT ![a] = Free]
          /\ UNCHANGED <<canonicalGroups, mutex>>
          /\ more => builder[t].group < Size(t)
  BY <1>0 DEF Unique, Size
<1> DEFINE pc == IF more THEN "prepare" ELSE "done"
           group == IF more THEN builder[t].group + 1 ELSE builder[t].group
           b == After(t, pc, group, builder[t].canonicalized, builder[t].results, failed)
           own == {builder[t].entries[i] : i \in 1..Size(t)}
<1>2. /\ LoopInv(t) /\ NamesInv(t) /\ InputInv(t) /\ ResultsInv(t)
      /\ builder[t] = Record(builder[t])
      /\ a \in Addresses /\ a \notin Ahead(t) /\ Ahead(t) \subseteq Addresses
  BY <1>0, <1>1, InCall
<1>3. builder' = [builder EXCEPT ![t] = b]
  <2>1. builder = [u \in Threads |-> builder[u]]
    BY DEF TypesInv
  <2>2. builder'[t] = b
    BY <1>1, <1>2, <2>1 DEF Record, After
  <2> HIDE DEF b
  <2> QED BY <1>1, <2>1, <2>2
<1>4. b = Record(b) /\ b.pc = pc
  BY DEF Record, After
<1>5. /\ builder'[t].pc = pc
      /\ builder'[t].program = builder[t].program
      /\ builder'[t].entries = builder[t].entries
      /\ builder'[t].group = group
      /\ builder'[t].canonicalized = builder[t].canonicalized
      /\ builder'[t].results = builder[t].results
      /\ \A u \in Threads \ {t} : builder'[u] = builder[u]
  BY <1>3 DEF After, TypesInv
<1> HIDE DEF b
<1>6. /\ Len(builder[t].results) = builder[t].group
      /\ builder[t].results \in Seq(canonicalGroups)
      /\ builder[t].group \in 1..Size(t) /\ Size(t) \in Nat
      /\ builder[t].entries \in [1..Size(t) -> Addresses]
  BY <1>1, <1>2 DEF LoopInv
<1>7. /\ group \in 1..Size(t) /\ group >= builder[t].group
      /\ group - 1 = Len(builder[t].results) - (IF more THEN 0 ELSE 1)
  BY <1>1, <1>6
<1>8. /\ Size(t)' = Size(t)
      /\ Ahead(t)' = {builder[t].entries[i] : i \in (group + 1)..Size(t)}
      /\ Current(t)' = builder[t].entries[group]
      /\ Ahead(t)' \subseteq Ahead(t)
      /\ more => Current(t)' \in Ahead(t)
  <2>1. Size(t)' = Size(t) /\ Current(t)' = builder[t].entries[group]
    BY <1>5 DEF Size, Current
  <2>2. Ahead(t)' = {builder[t].entries[i] : i \in (group + 1)..Size(t)}
    BY <1>5, <2>1 DEF Ahead
  <2>3. more => group = builder[t].group + 1
    OBVIOUS
  <2> HIDE DEF group
  <2>4. \A i \in (group + 1)..Size(t) : i \in (builder[t].group + 1)..Size(t)
    BY <1>6, <1>7
  <2>5. {builder[t].entries[i] : i \in (group + 1)..Size(t)}
            \subseteq {builder[t].entries[i] : i \in (builder[t].group + 1)..Size(t)}
    BY <2>4
  <2>6. more => group \in (builder[t].group + 1)..Size(t)
    BY <1>6, <1>7, <2>3
  <2>7. more => builder[t].entries[group] \in Ahead(t)
    BY <2>6 DEF Ahead
  <2>8. Ahead(t)' \subseteq Ahead(t)
    BY <2>2, <2>5 DEF Ahead
  <2>9. more => Current(t)' \in Ahead(t)
    BY <2>1, <2>7
  <2> QED BY <2>1, <2>2, <2>8, <2>9
<1>9. Mine(t)' \subseteq Ahead(t) /\ Ahead(t) \subseteq Mine(t)
  <2>1. ~more => ~CurrentIsMine(t)'
    BY <1>5, <1>6 DEF CurrentIsMine
  <2> QED BY <1>8, <2>1 DEF Mine
<1>10. /\ a \notin canonicalGroups \/ heap' = heap
       /\ \A u \in Threads \ {t} : a \notin Mine(u) \/ heap' = heap
       /\ \A g \in Addresses \ {a} : heap'[g] = heap[g]
  <2>1. CASE builder[t].results[builder[t].group] = a
    BY <1>1, <2>1
  <2>2. CASE builder[t].results[builder[t].group] # a
    <3>1. a \in Mine(t)
      BY <1>0, <1>1, <2>2 DEF Mine, CurrentIsMine
    <3>2. heap = [g \in Addresses |-> heap[g]] /\ heap' = [heap EXCEPT ![a] = Free]
      BY <1>1, <2>2 DEF TypesInv, HeapInv
    <3> QED BY <3>1, <3>2 DEF TypesInv, OwnershipInv
  <2> QED BY <2>1, <2>2
<1>11. \A g \in Addresses \ {a} : Groups(g)' = Groups(g)
  BY <1>10 DEF Groups
<1>12. HeapInv'
  <2>1. CASE heap' = heap
    BY <2>1 DEF TypesInv, HeapInv, Groups
  <2>2. CASE heap' = [heap EXCEPT ![a] = Free]
    <3>1. /\ \A g \in Addresses : heap[g] = [temp |-> heap[g].temp, types |-> heap[g].types]
          /\ heap = [g \in Addresses |-> heap[g]]
          /\ \A g \in Addresses : Groups(g) \subseteq Addresses
      BY DEF TypesInv, HeapInv
    <3>2. heap'[a] = Free /\ Free = [temp |-> FALSE, types |-> <<>>]
      BY <1>2, <2>2, <3>1 DEF Free
    <3>3. /\ \A g \in Addresses : heap'[g] = [temp |-> heap'[g].temp, types |-> heap'[g].types]
          /\ heap' = [g \in Addresses |-> heap'[g]]
      BY <1>10, <2>2, <3>1, <3>2
    <3>4. Groups(a)' = {}
      BY <3>2 DEF Groups, References
    <3> QED BY <1>11, <3>1, <3>3, <3>4 DEF HeapInv
  <2> QED BY <1>1, <2>1, <2>2
<1>13. \A g \in canonicalGroups : g \in Addresses /\ heap'[g] = heap[g]
  BY <1>10 DEF TypesInv, CanonicalInv
<1>14. CanonicalInv'
  <2>1. CanonicalInv
    BY DEF TypesInv
  <2>2. mutex # NoThread => mutex \in Threads \ {t} /\ Current(mutex)' = Current(mutex)
    BY <1>1, <1>5 DEF TypesInv, Current
  <2>3. \A g \in canonicalGroups : Groups(g)' = Groups(g)
    BY <1>13 DEF Groups
  <2> QED BY <1>1, <1>13, <2>1, <2>2, <2>3 DEF CanonicalInv
<1>15. \A g \in Ahead(t) : heap[g].temp = TRUE /\ Groups(g) \subseteq own
  BY <1>2 DEF InputInv
<1>16. \A g \in Ahead(t) : heap'[g].temp = TRUE /\ Groups(g)' \subseteq own
  BY <1>2, <1>10, <1>11, <1>15
<1>17. BuilderInv(t)'
  <2>1. LoopInv(t)'
    <3>1. builder[t].results \in Seq(canonicalGroups')
      BY <1>1, <1>6
    <3> QED BY <1>2, <1>5, <1>6, <1>7, <3>1, LoopGoesOn
  <2>2. NamesInv(t)'
    <3> DEFINE e == builder[t].entries
               known == builder[t].canonicalized
               results == builder[t].results
    <3>1. \A j \in 1..Size(t) :
              (IF e[j] \in DOMAIN known THEN known[e[j]] ELSE e[j]) =
                  IF j <= Len(results) THEN results[j] ELSE e[j]
      BY <1>2 DEF NamesInv, Renamed
    <3> HIDE DEF known, e, results
    <3>2. /\ builder'[t].canonicalized = known /\ builder'[t].results = results
          /\ builder'[t].entries = e
          /\ Size(t)' = Size(t)
      BY <1>5, <1>8 DEF known, e, results
    <3> QED BY ONLY <3>1, <3>2, NamesGoOn
  <2>3. InputInv(t)'
    <3>1. {builder'[t].entries[i] : i \in 1..Size(t)'} = own
      BY <1>5, <1>8
    <3>2. \A g \in Ahead(t)' : heap'[g].temp = TRUE /\ Groups(g)' \subseteq own
      BY <1>8, <1>16
    <3>3. builder'[t].pc = "prepare" => Groups(Current(t))' \subseteq own
      <4>1. PICK g : g = Current(t)'
        OBVIOUS
      <4>2. builder'[t].pc = "prepare" => Groups(g)' \subseteq own
        BY <1>5, <1>8, <1>16, <4>1
      <4> HIDE DEF own
      <4> QED BY <4>1, <4>2 DEF Groups
    <3>4. builder'[t].pc # "insert"
      BY <1>5
    <3> HIDE DEF own
    <3> QED BY <3>1, <3>2, <3>3, <3>4 DEF InputInv
  <2>4. ResultsInv(t)'
    <3>1. mutex # t
      BY <1>1 DEF TypesInv
    <3>2. \A j \in 1..Len(builder[t].results) :
              /\ builder[t].results[j] \in canonicalGroups
              /\ heap[builder[t].results[j]].temp = FALSE
      BY <1>2, <1>6, <3>1 DEF ResultsInv
    <3> QED BY <1>5, <1>13, <3>2 DEF ResultsInv
  <2> QED BY <1>5, <2>1, <2>2, <2>3, <2>4 DEF BuilderInv
<1>18. /\ Ahead(t) \cap canonicalGroups = {}
       /\ \A g \in Ahead(t) : DOMAIN heap'[g].types # {}
       /\ \A u \in Threads \ {t} : Ahead(t) \cap Mine(u) = {}
  BY <1>2, <1>9, <1>10 DEF TypesInv, OwnershipInv
<1>19. /\ canonicalGroups \subseteq canonicalGroups'
       /\ canonicalGroups' \subseteq canonicalGroups \cup Mine(t)
       /\ \A u \in Threads \ {t} : \A g \in Mine(u) : heap'[g] = heap[g]
       /\ \A g \in canonicalGroups : heap[g].temp = FALSE => heap'[g].temp = FALSE
  BY <1>1, <1>10, <1>13 DEF TypesInv, OwnershipInv
<1>20. /\ Mine(t)' \subseteq Addresses
       /\ Mine(t)' \cap canonicalGroups' = {}
       /\ \A g \in Mine(t)' : DOMAIN heap'[g].types # {}
       /\ \A u \in Threads \ {t} : Mine(t)' \cap Mine(u) = {}
  BY <1>1, <1>2, <1>9, <1>18
<1>21. /\ mutex' \in Threads \cup {NoThread}
       /\ (mutex' = t) = (b.pc = "publish")
       /\ \A u \in Threads \ {t} : (mutex' = u) = (mutex = u)
  BY <1>1, <1>4 DEF TypesInv
<1> QED
  BY ONLY TypesInv, <1>3, <1>4, <1>12, <1>14, <1>17, <1>19, <1>20, <1>21, Steps

LEMMA TypesReturn ==
    ASSUME TypesInv, NEW t \in Threads, Return(t)
    PROVE  TypesInv'
<1>1. /\ builder[t].pc = "done"
      /\ builder' = [builder EXCEPT ![t] = Idle]
      /\ canonicalGroups' = canonicalGroups /\ mutex' = mutex
  BY DEF Return
<1>2. LoopInv(t)
  BY <1>1, InCall
<1>3. \A a \in Addresses : heap'[a] = IF a \in Mine(t) THEN Free ELSE heap[a]
  <2>1. Len(builder[t].entries) = Size(t)
    <3> DEFINE e == builder[t].entries
    <3>1. Size(t) \in Nat /\ e \in [1..Size(t) -> Addresses]
      BY <1>2 DEF LoopInv
    <3>2. e \in Seq(Addresses)
      BY <3>1, SeqDef
    <3>3. Len(e) \in Nat /\ DOMAIN e = 1..Len(e)
      BY <3>2, LenProperties
    <3> HIDE DEF e
    <3>4. 1..Len(e) = 1..Size(t)
      BY <3>1, <3>3
    <3> QED BY <3>1, <3>3, <3>4 DEF e
  <2>2. CurrentIsMine(t) <=> Len(builder[t].results) < builder[t].group
    BY <1>1 DEF CurrentIsMine
  <2> QED BY <1>1, <2>1, <2>2 DEF Return, Mine, Ahead
<1>4. heap' = [a \in Addresses |-> heap'[a]]
  BY DEF Return
<1>5. builder'[t] = Idle /\ Idle = Record(Idle) /\ Idle.pc = "idle" /\ Idle.program = <<>>
  BY <1>1 DEF TypesInv, Idle, Begun, Record
<1>6. Mine(t)' = {}
  BY <1>5 DEF Mine, Ahead, Size, CurrentIsMine, Idle, Begun
<1>7. \A a \in Addresses \ Mine(t) : heap'[a] = heap[a] /\ Groups(a)' = Groups(a)
  BY <1>3 DEF Groups
<1>8. \A a \in Addresses : a \in Mine(t) => heap'[a] = Free /\ Groups(a)' = {}
  BY <1>3 DEF Groups, References, Free
<1>9. HeapInv'
  <2>1. /\ \A a \in Addresses : heap[a] = [temp |-> heap[a].temp, types |-> heap[a].types]
        /\ \A a \in Addresses : Groups(a) \subseteq Addresses
    BY DEF TypesInv, HeapInv
  <2>2. Free = [temp |-> Free.temp, types |-> Free.types]
    BY DEF Free
  <2>3. \A a \in Addresses : heap'[a] = [temp |-> heap'[a].temp, types |-> heap'[a].types]
    BY <1>3, <2>1, <2>2
  <2>4. \A a \in Addresses : Groups(a)' \subseteq Addresses
    BY <1>7, <1>8, <2>1
  <2>5. heap' = [a \in Addresses |-> [temp |-> heap'[a].temp, types |-> heap'[a].types]]
    BY <1>4, <2>3
  <2> QED BY <2>4, <2>5 DEF HeapInv
<1>10. \A a \in canonicalGroups : heap'[a] = heap[a] /\ Groups(a)' = Groups(a)
  BY <1>7 DEF TypesInv, CanonicalInv, OwnershipInv
<1>11. CanonicalInv'
  <2>1. CanonicalInv
    BY DEF TypesInv
  <2>2. mutex # NoThread => mutex \in Threads \ {t} /\ Current(mutex)' = Current(mutex)
    BY <1>1 DEF TypesInv, Current
  <2> QED BY <1>1, <1>10, <2>1, <2>2 DEF CanonicalInv
<1>12. BuilderInv(t)'
  <2>1. Idle' = Idle
    BY DEF Idle, Begun
  <2> QED BY <1>5, <2>1 DEF BuilderInv
<1>13. \A u \in Threads \ {t} : \A a \in Mine(u) : heap'[a] = heap[a]
  BY <1>7 DEF TypesInv, OwnershipInv
<1>14. /\ mutex' \in Threads \cup {NoThread} /\ (mutex' = t) = (Idle.pc = "publish")
       /\ \A u \in Threads \ {t} : (mutex' = u) = (mutex = u)
  BY <1>1, <1>5 DEF TypesInv
<1>15. /\ canonicalGroups \subseteq canonicalGroups'
       /\ canonicalGroups' \subseteq canonicalGroups \cup Mine(t)
       /\ \A a \in canonicalGroups : heap[a].temp = FALSE => heap'[a].temp = FALSE
  BY <1>1, <1>10
<1>16. /\ Mine(t)' \subseteq Addresses
       /\ Mine(t)' \cap canonicalGroups' = {}
       /\ \A a \in Mine(t)' : DOMAIN heap'[a].types # {}
       /\ \A u \in Threads \ {t} : Mine(t)' \cap Mine(u) = {}
  BY <1>6
<1> QED
  BY ONLY TypesInv, <1>1, <1>5, <1>9, <1>11, <1>12, <1>13, <1>14, <1>15, <1>16, Steps

\* Where the allocator puts new groups, nobody has any.
LEMMA FreshAddresses ==
    ASSUME TypesInv, NEW a \in Addresses \ Allocated
    PROVE  a \notin canonicalGroups /\ \A u \in Threads : a \notin Mine(u)
<1>1. heap[a] = Free
  BY DEF Allocated
<1>2. DOMAIN heap[a].types = {}
  BY <1>1 DEF Free
<1> QED BY <1>2 DEF TypesInv, CanonicalInv, OwnershipInv

\* What is left to show where t makes new groups.
LEMMA Starts ==
    ASSUME TypesInv, NEW t \in Threads, NEW b,
           builder[t].pc = "idle",
           b = Record(b), builder' = [builder EXCEPT ![t] = b],
           b.pc \in {"prepare", "insert"}, Len(b.program) \in Nat \ {0},
           b.group = 1, b.results = <<>>, b.canonicalized = <<>>,
           canonicalGroups' = canonicalGroups, mutex' = mutex,
           b.entries \in [1..Len(b.program) -> Addresses \ Allocated],
           \A i, j \in 1..Len(b.program) : i # j => b.entries[i] # b.entries[j],
           HeapInv',
           \A a \in Addresses :
              (\A i \in 1..Len(b.program) : b.entries[i] # a) => heap'[a] = heap[a],
           \A i \in 1..Len(b.program) : DOMAIN heap'[b.entries[i]].types # {},
           InputInv(t)'
    PROVE  TypesInv'
<1>0. PICK e, n : e = b.entries /\ n = Len(b.program) /\ n \in Nat \ {0}
  OBVIOUS
<1>1. /\ builder'[t] = b
      /\ \A u \in Threads \ {t} : builder'[u] = builder[u]
  BY DEF TypesInv
<1>placed. /\ e \in [1..n -> Addresses \ Allocated]
           /\ \A i, j \in 1..n : i # j => e[i] # e[j]
           /\ \A a \in Addresses : (\A i \in 1..n : e[i] # a) => heap'[a] = heap[a]
           /\ \A i \in 1..n : DOMAIN heap'[e[i]].types # {}
  BY <1>0
<1>2. Size(t)' = n /\ Current(t)' = e[1] /\ Ahead(t)' = {e[i] : i \in 2..n}
  <2>1. Size(t)' = n /\ Current(t)' = e[1]
    BY <1>0, <1>1 DEF Size, Current
  <2>2. 1 + 1 = 2
    OBVIOUS
  <2> QED BY <1>0, <1>1, <2>1, <2>2 DEF Ahead
<1>3. Mine(t)' \subseteq {e[i] : i \in 1..n}
  BY <1>0, <1>2 DEF Mine
<1>4. \A i \in 1..n : e[i] \notin canonicalGroups /\ \A u \in Threads : e[i] \notin Mine(u)
  BY <1>placed, FreshAddresses
<1>5. \A a \in canonicalGroups : a \in Addresses /\ heap'[a] = heap[a]
  BY <1>4, <1>placed DEF TypesInv, CanonicalInv
<1>6. \A u \in Threads : \A a \in Mine(u) : heap'[a] = heap[a]
  BY <1>4, <1>placed DEF TypesInv, OwnershipInv
<1>7. CanonicalInv'
  <2>1. CanonicalInv
    BY DEF TypesInv
  <2>2. mutex # NoThread => mutex \in Threads \ {t} /\ Current(mutex)' = Current(mutex)
    BY <1>1 DEF TypesInv, Current
  <2>3. \A a \in canonicalGroups : Groups(a)' = Groups(a)
    BY <1>5 DEF Groups
  <2> QED BY <1>5, <2>1, <2>2, <2>3 DEF CanonicalInv
<1>8. BuilderInv(t)'
  <2>1. LoopInv(t)'
    <3>1. <<>> \in Seq(canonicalGroups') /\ Len(<<>>) = 0 /\ 1 - 1 = 0
      OBVIOUS
    <3>2. e \in [1..n -> Addresses] /\ 1 \in 1..n
      BY <1>0, <1>placed
    <3>3. /\ builder'[t].entries = e /\ builder'[t].group = 1 /\ builder'[t].results = <<>>
          /\ builder'[t].pc \in {"prepare", "insert"}
      BY <1>0, <1>1
    <3>4. Len(builder'[t].results) = builder'[t].group - 1
      BY <3>1, <3>3
    <3>5. builder'[t].results \in Seq(canonicalGroups') /\ builder'[t].group \in 1..n
      BY <3>1, <3>2, <3>3
    <3>6. builder'[t].pc # "publish"
      BY <3>3
    <3>7. \A i, j \in 1..Size(t)' : i # j => builder'[t].entries[i] # builder'[t].entries[j]
      <4> SUFFICES ASSUME NEW i \in 1..n, NEW j \in 1..n, i # j
                   PROVE  e[i] # e[j]
        BY <1>2, <3>3
      <4> QED BY <1>placed
    <3>8. Size(t)' \in Nat /\ builder'[t].entries \in [1..Size(t)' -> Addresses]
      BY <1>0, <1>2, <3>2, <3>3
    <3> QED BY <1>2, <3>3, <3>4, <3>5, <3>6, <3>7, <3>8 DEF LoopInv
  <2>2. NamesInv(t)'
    BY <1>1, <1>2 DEF NamesInv, Renamed
  <2>3. ResultsInv(t)'
    BY <1>1 DEF ResultsInv
  <2> QED BY <1>1, <2>1, <2>2, <2>3 DEF BuilderInv
<1>9. /\ mutex' \in Threads \cup {NoThread} /\ (mutex' = t) = (b.pc = "publish")
      /\ \A u \in Threads \ {t} : (mutex' = u) = (mutex = u)
  BY DEF TypesInv
<1>10. /\ canonicalGroups \subseteq canonicalGroups'
       /\ canonicalGroups' \subseteq canonicalGroups \cup Mine(t)
       /\ \A u \in Threads \ {t} : \A a \in Mine(u) : heap'[a] = heap[a]
       /\ \A a \in canonicalGroups : heap[a].temp = FALSE => heap'[a].temp = FALSE
  BY <1>5, <1>6
<1>11. /\ Mine(t)' \subseteq Addresses
       /\ Mine(t)' \cap canonicalGroups' = {}
       /\ \A a \in Mine(t)' : DOMAIN heap'[a].types # {}
       /\ \A u \in Threads \ {t} : Mine(t)' \cap Mine(u) = {}
  BY <1>3, <1>4, <1>placed
<1> QED BY <1>7, <1>8, <1>9, <1>10, <1>11, Steps

LEMMA TypesConstruct ==
    ASSUME TypesInv, NEW t \in Threads, NEW c \in Leaves, Construct(t, c)
    PROVE  TypesInv'
<1> DEFINE r == <<[content |-> c, refs |-> <<>>]>>
<1>1. PICK e \in Placements(Addresses \ Allocated, 1) :
          /\ heap' = [heap EXCEPT ![e[1]] = [temp |-> FALSE, types |-> r]]
          /\ builder' = [builder EXCEPT ![t] = Begun("insert", <<r>>, e)]
  BY DEF Construct
<1>2. builder[t].pc = "idle" /\ UNCHANGED <<canonicalGroups, mutex>>
  BY DEF Construct
<1>3. e \in [1..1 -> Addresses \ Allocated] /\ \A i, j \in 1..1 : i # j => e[i] # e[j]
  <2>1. Addresses \ Allocated \in SUBSET Addresses /\ 1 \in {1} \cup {Len(p) : p \in Programs}
    OBVIOUS
  <2> QED BY <2>1, PlacementsAssumption
<1>4. PICK a \in Addresses \ Allocated : a = e[1]
  BY <1>3
<1> DEFINE b == Begun("insert", <<r>>, e)
<1>5. /\ b = Record(b) /\ b.pc = "insert" /\ Len(b.program) = 1
      /\ b.entries = e /\ b.group = 1 /\ b.results = <<>> /\ b.canonicalized = <<>>
  BY DEF Record, Begun
<1> HIDE DEF b
<1>6. DOMAIN r = {1} /\ References(r) = {}
  <2>1. DOMAIN r = {1} /\ r[1].refs = <<>>
    OBVIOUS
  <2> HIDE DEF r
  <2> QED BY <2>1 DEF References
<1> HIDE DEF r
<1>7. /\ heap'[a] = [temp |-> FALSE, types |-> r]
      /\ \A g \in Addresses : a # g => heap'[g] = heap[g]
      /\ heap' = [g \in Addresses |-> heap'[g]]
  BY <1>1, <1>4 DEF TypesInv, HeapInv
<1>8. Groups(a)' = {} /\ \A g \in Addresses : a # g => Groups(g)' = Groups(g)
  BY <1>6, <1>7 DEF Groups
<1>9. HeapInv'
  <2>1. /\ \A g \in Addresses : heap[g] = [temp |-> heap[g].temp, types |-> heap[g].types]
        /\ \A g \in Addresses : Groups(g) \subseteq Addresses
    BY DEF TypesInv, HeapInv
  <2>2. \A g \in Addresses : heap'[g] = [temp |-> heap'[g].temp, types |-> heap'[g].types]
    BY <1>7, <2>1
  <2>3. heap' = [g \in Addresses |-> [temp |-> heap'[g].temp, types |-> heap'[g].types]]
    BY <1>7, <2>2
  <2> QED BY <1>8, <2>1, <2>3 DEF HeapInv
<1>10. builder'[t] = b
  BY <1>1 DEF TypesInv, b
<1>11. InputInv(t)'
  <2>1. Current(t)' = a /\ Size(t)' = 1
    BY <1>4, <1>5, <1>10 DEF Current, Size
  <2>2. Ahead(t)' = {}
    BY <1>5, <1>10, <2>1 DEF Ahead
  <2>3. Groups(Current(t))' = {}
    BY <1>8, <2>1 DEF Groups
  <2> QED BY <1>5, <1>10, <2>2, <2>3 DEF InputInv
<1>12. /\ 1 \in Nat \ {0} /\ b.pc \in {"prepare", "insert"}
       /\ \A g \in Addresses : (\A i \in 1..1 : e[i] # g) => heap'[g] = heap[g]
       /\ \A i \in 1..1 : DOMAIN heap'[e[i]].types # {}
  <2>1. \A i \in 1..1 : e[i] = a
    BY <1>4
  <2>2. DOMAIN heap'[a].types = {1} /\ 1 \in 1..1
    BY <1>6, <1>7
  <2>3. \A g \in Addresses : (\A i \in 1..1 : e[i] # g) => a # g
    BY <2>1, <2>2
  <2> QED BY <1>5, <1>7, <2>1, <2>2, <2>3
<1>13. builder' = [builder EXCEPT ![t] = b]
  BY <1>1 DEF b
<1>14. canonicalGroups' = canonicalGroups /\ mutex' = mutex
  BY <1>2
<1>15. /\ b.entries \in [1..Len(b.program) -> Addresses \ Allocated]
       /\ \A i, j \in 1..Len(b.program) : i # j => b.entries[i] # b.entries[j]
       /\ Len(b.program) \in Nat \ {0}
       /\ \A g \in Addresses :
              (\A i \in 1..Len(b.program) : b.entries[i] # g) => heap'[g] = heap[g]
       /\ \A i \in 1..Len(b.program) : DOMAIN heap'[b.entries[i]].types # {}
  BY <1>3, <1>5, <1>12
<1> QED BY ONLY TypesInv, <1>2, <1>5, <1>9, <1>11, <1>12, <1>13, <1>14, <1>15, Starts

LEMMA TypesBegin ==
    ASSUME TypesInv, NEW t \in Threads, NEW p \in Programs, Begin(t, p)
    PROVE  TypesInv'
<1> DEFINE n == Len(p)
<1>1. PICK e \in Placements(Addresses \ Allocated, n) :
          /\ builder' = [builder EXCEPT ![t] = Begun("prepare", p, e)]
          /\ heap' = [a \in Addresses |->
                IF \E i \in DOMAIN p : e[i] = a
                THEN LET i == CHOOSE i \in DOMAIN p : e[i] = a
                     IN  [temp |-> TRUE,
                          types |-> MapReferences(p[i], e)]
                ELSE heap[a]]
  BY DEF Begin
<1>2. builder[t].pc = "idle" /\ UNCHANGED <<canonicalGroups, mutex>>
  BY DEF Begin
<1>3. /\ n \in Nat \ {0} /\ DOMAIN p = 1..n
      /\ \A i \in 1..n : /\ DOMAIN p[i] # {}
                         /\ \A x \in References(p[i]) : x.group \in 1..n
  BY ProgramsAssumption, ProgramFacts
<1>4. /\ e \in [1..n -> Addresses \ Allocated]
      /\ \A i, j \in 1..n : i # j => e[i] # e[j]
  <2>1. Addresses \ Allocated \in SUBSET Addresses /\ n \in {1} \cup {Len(q) : q \in Programs}
    OBVIOUS
  <2> QED BY <2>1, PlacementsAssumption
<1> DEFINE b == Begun("prepare", p, e)
<1>5. /\ b = Record(b) /\ b.pc = "prepare" /\ Len(b.program) = n
      /\ b.entries = e /\ b.group = 1 /\ b.results = <<>> /\ b.canonicalized = <<>>
  BY DEF Record, Begun
<1> HIDE DEF b, n
<1>6. \A i \in 1..n : heap'[e[i]] = [temp |-> TRUE, types |-> MapReferences(p[i], e)]
  <2> SUFFICES ASSUME NEW i \in 1..n
               PROVE  heap'[e[i]] = [temp |-> TRUE, types |-> MapReferences(p[i], e)]
    OBVIOUS
  <2>1. (CHOOSE j \in 1..n : e[j] = e[i]) = i
    BY <1>4
  <2>2. e[i] \in Addresses
    BY <1>4
  <2> QED BY <1>1, <1>3, <2>1, <2>2
<1>made. \A i \in 1..n : heap'[e[i]].temp = TRUE /\ heap'[e[i]].types = MapReferences(p[i], e)
  <2> SUFFICES ASSUME NEW i \in 1..n
               PROVE  heap'[e[i]].temp = TRUE /\ heap'[e[i]].types = MapReferences(p[i], e)
    OBVIOUS
  <2>1. PICK m : m = MapReferences(p[i], e)
    OBVIOUS
  <2>2. heap'[e[i]] = [temp |-> TRUE, types |-> m]
    BY <1>6, <2>1
  <2> QED BY ONLY <2>1, <2>2
<1>7. \A a \in Addresses : (\A i \in 1..n : e[i] # a) => heap'[a] = heap[a]
  BY <1>1, <1>3
<1> DEFINE own == {e[i] : i \in 1..n}
<1>8. \A i \in 1..n : Groups(e[i])' \subseteq own
  <2> SUFFICES ASSUME NEW i \in 1..n, NEW g \in Groups(e[i])'
               PROVE  g \in own
    OBVIOUS
  <2>1. PICK y \in References(MapReferences(p[i], e)) : g = y.group
    <3>1. PICK a : a = e[i]
      OBVIOUS
    <3>2. heap'[a].types = MapReferences(p[i], e) /\ g \in Groups(a)'
      BY <1>made, <3>1
    <3> QED BY <3>2 DEF Groups
  <2>2. PICK x \in References(p[i]) : y.group = e[x.group]
    BY Mapped
  <2> QED BY <1>3, <2>1, <2>2
<1>9. HeapInv'
  <2>1. /\ \A a \in Addresses : heap[a] = [temp |-> heap[a].temp, types |-> heap[a].types]
        /\ \A a \in Addresses : Groups(a) \subseteq Addresses
    BY DEF TypesInv, HeapInv
  <2>2. ASSUME NEW a \in Addresses
        PROVE  /\ heap'[a] = [temp |-> heap'[a].temp, types |-> heap'[a].types]
               /\ Groups(a)' \subseteq Addresses
    <3>1. CASE \E i \in 1..n : e[i] = a
      <4>1. PICK i \in 1..n : e[i] = a
        BY <3>1
      <4>2. heap'[a] = [temp |-> heap'[a].temp, types |-> heap'[a].types]
        <5>1. heap'[a] = [temp |-> TRUE, types |-> MapReferences(p[i], e)]
          BY <1>6, <4>1
        <5> QED BY <5>1
      <4>3. Groups(a)' \subseteq own
        BY <1>8, <4>1
      <4> QED BY <1>4, <4>2, <4>3
    <3>2. CASE \A i \in 1..n : e[i] # a
      <4>1. heap'[a] = heap[a]
        BY <1>7, <3>2
      <4> QED BY <2>1, <4>1 DEF Groups
    <3> QED BY <3>1, <3>2
  <2>3. heap' = [a \in Addresses |-> heap'[a]]
    BY <1>1
  <2>4. heap' = [a \in Addresses |-> [temp |-> heap'[a].temp, types |-> heap'[a].types]]
    BY <2>2, <2>3
  <2> QED BY <2>2, <2>4 DEF HeapInv
<1>10. builder'[t] = b
  BY <1>1 DEF TypesInv, b
<1>11. InputInv(t)'
  <2>1. Size(t)' = n /\ Current(t)' = e[1] /\ 1 + 1 = 2
    BY <1>5, <1>10 DEF Current, Size
  <2>2. Ahead(t)' = {e[i] : i \in 2..n}
    BY <1>5, <1>10, <2>1 DEF Ahead
  <2>3. Groups(Current(t))' \subseteq own
    <3>1. PICK g : g = e[1]
      OBVIOUS
    <3>2. Groups(g)' \subseteq own
      BY <1>3, <1>8, <3>1
    <3> HIDE DEF own
    <3> QED BY <2>1, <3>1, <3>2 DEF Groups
  <2>4. \A a \in Ahead(t)' : heap'[a].temp = TRUE /\ Groups(a)' \subseteq own
    <3> SUFFICES ASSUME NEW i \in 2..n, NEW a, a = e[i]
                 PROVE  heap'[a].temp = TRUE /\ Groups(a)' \subseteq own
      BY <2>2
    <3>1. i \in 1..n
      BY <1>3
    <3>2. heap'[a] = [temp |-> TRUE, types |-> MapReferences(p[i], e)]
      BY <1>6, <3>1
    <3> QED BY <1>8, <3>1, <3>2
  <2>5. {builder'[t].entries[i] : i \in 1..Size(t)'} = own
    BY <1>5, <1>10, <2>1
  <2> HIDE DEF own
  <2> QED BY <1>5, <1>10, <2>3, <2>4, <2>5 DEF InputInv
<1>12. /\ b.pc \in {"prepare", "insert"}
       /\ \A i \in 1..n : DOMAIN heap'[e[i]].types # {}
  <2>1. \A i \in 1..n : DOMAIN MapReferences(p[i], e) # {}
    BY <1>3, Mapped
  <2>2. \A i \in 1..n : heap'[e[i]].types = MapReferences(p[i], e)
    BY <1>made
  <2> QED BY <1>5, <2>1, <2>2
<1>13. builder' = [builder EXCEPT ![t] = b]
  BY <1>1 DEF b
<1> HIDE DEF own
<1>14. canonicalGroups' = canonicalGroups /\ mutex' = mutex
  BY <1>2
<1>15. /\ b.entries \in [1..Len(b.program) -> Addresses \ Allocated]
       /\ \A i, j \in 1..Len(b.program) : i # j => b.entries[i] # b.entries[j]
       /\ Len(b.program) \in Nat \ {0}
       /\ \A a \in Addresses :
              (\A i \in 1..Len(b.program) : b.entries[i] # a) => heap'[a] = heap[a]
       /\ \A i \in 1..Len(b.program) : DOMAIN heap'[b.entries[i]].types # {}
  BY <1>3, <1>4, <1>5, <1>7, <1>12
<1> QED BY ONLY TypesInv, <1>2, <1>5, <1>9, <1>11, <1>12, <1>13, <1>14, <1>15, Starts
-----------------------------------------------------------------------------
LEMMA TypesInit ==
    ASSUME Init
    PROVE  TypesInv
<1>1. \A a \in Addresses : heap[a] = Free /\ Groups(a) = {}
  BY DEF Init, Free, Groups, References
<1>2. HeapInv
  <2>1. heap = [a \in Addresses |-> Free] /\ Free = [temp |-> Free.temp, types |-> Free.types]
    BY DEF Init, Free
  <2> QED BY <1>1, <2>1 DEF HeapInv
<1>3. \A t \in Threads : builder[t] = Idle /\ Mine(t) = {}
  BY DEF Init, Mine, Ahead, Size, CurrentIsMine, Idle, Begun
<1>4. canonicalGroups = {} /\ mutex = NoThread
  BY DEF Init
<1>5. builder = [t \in Threads |-> Record(builder[t])]
  <2>1. Idle = Record(Idle)
    BY DEF Idle, Begun, Record
  <2> QED BY <2>1 DEF Init
<1>6. Idle.pc = "idle"
  BY DEF Idle, Begun
<1>7. \A t \in Threads : (mutex = t) = (builder[t].pc = "publish")
  BY <1>3, <1>4, <1>6, NoThreadAssumption
<1> QED BY <1>2, <1>3, <1>4, <1>5, <1>7 DEF TypesInv, CanonicalInv, OwnershipInv, BuilderInv

LEMMA TypesNext ==
    ASSUME TypesInv, [Next]_vars
    PROVE  TypesInv'
<1>1. ASSUME NEW t \in Threads, Step(t)
      PROVE  TypesInv'
  BY <1>1, TypesBegin, TypesConstruct, TypesPrepare, TypesInsert, TypesPublish, TypesUnique,
     TypesReturn DEF Step
<1>2. CASE UNCHANGED vars
  <2>1. /\ heap' = heap /\ canonicalGroups' = canonicalGroups
        /\ mutex' = mutex /\ builder' = builder
    BY <1>2 DEF vars
  <2>2. HeapInv'
    BY <2>1 DEF TypesInv, HeapInv, Groups
  <2>3. CanonicalInv'
    BY <2>1 DEF TypesInv, CanonicalInv, Groups, Current
  <2>4. OwnershipInv'
    <3>1. OwnershipInv
      BY DEF TypesInv
    <3>2. \A t \in Threads : Mine(t)' = Mine(t)
      BY <2>1 DEF Mine, Ahead, Size, Current, CurrentIsMine
    <3> QED BY <2>1, <3>1, <3>2 DEF OwnershipInv
  <2>5. \A t \in Threads : BuilderInv(t)'
    <3> SUFFICES ASSUME NEW t \in Threads
                 PROVE  BuilderInv(t)'
      OBVIOUS
    <3>1. BuilderInv(t)
      BY DEF TypesInv
    <3>2. Size(t)' = Size(t) /\ Current(t)' = Current(t) /\ Idle' = Idle
      BY <2>1 DEF Size, Current, Idle, Begun
    <3>3. Ahead(t)' = Ahead(t)
      BY <2>1, <3>2 DEF Ahead
    <3>4. LoopInv(t)' = LoopInv(t)
      BY <2>1, <3>2 DEF LoopInv
    <3>5. NamesInv(t)' = NamesInv(t)
      BY <2>1, <3>2 DEF NamesInv, Renamed
    <3>6. InputInv(t)' = InputInv(t)
      BY <2>1, <3>2, <3>3 DEF InputInv, Groups
    <3>7. ResultsInv(t)' = ResultsInv(t)
      BY <2>1, <3>2 DEF ResultsInv
    <3> QED BY <2>1, <3>1, <3>2, <3>4, <3>5, <3>6, <3>7 DEF BuilderInv
  <2> QED BY <2>1, <2>2, <2>3, <2>4, <2>5 DEF TypesInv, Record
<1> QED BY <1>1, <1>2 DEF Next

(* Every state of the store and its builders satisfies the invariant: what  *)
(* build() has looked at, what it still owns and what it may name.          *)
THEOREM TypesInvariant == Spec => []TypesInv
<1>1. Init => TypesInv
  BY TypesInit
<1>2. TypesInv /\ [Next]_vars => TypesInv'
  BY TypesNext
<1> QED BY <1>1, <1>2, PTL DEF Spec

(* References name addresses, the store holds groups, and RecGroupStore's   *)
(* mutex is held just while a new group's types become global.              *)
THEOREM TypesTyped == Spec => []TypesOK
<1>1. TypesInv => TypesOK
  <2> SUFFICES ASSUME TypesInv
               PROVE  TypesOK
    OBVIOUS
  <2>1. \A a \in Addresses : \A x \in References(heap[a].types) : x.group \in Addresses
    BY DEF TypesInv, HeapInv, Groups
  <2> QED BY <2>1 DEF TypesInv, CanonicalInv, TypesOK
<1> QED BY <1>1, TypesInvariant, PTL

(* No caller of TypeBuilder::build() or HeapType() gets a temporary type,   *)
(* or one from which a temporary or freed type can be reached.              *)
THEOREM NothingTemporaryLeaks == Spec => []NoTemporaryLeaks
<1>1. TypesInv => NoTemporaryLeaks
  <2> SUFFICES ASSUME TypesInv
               PROVE  NoTemporaryLeaks
    OBVIOUS
  <2>1. \A a \in canonicalGroups :
            \/ Settled(a)
            \/ mutex # NoThread /\ a = Current(mutex)
    <3> SUFFICES ASSUME NEW a \in canonicalGroups, heap[a].temp = FALSE
                 PROVE  Settled(a)
      BY DEF TypesInv, CanonicalInv
    <3>1. DOMAIN heap[a].types # {} /\ Groups(a) \subseteq canonicalGroups
      BY DEF TypesInv, CanonicalInv
    <3> QED BY <3>1 DEF Settled, Groups, Free
  <2>2. ASSUME NEW t \in Threads, NEW i \in DOMAIN builder[t].results
        PROVE  LET a == builder[t].results[i] IN
               /\ a \in canonicalGroups
               /\ Settled(a) \/ (mutex = t /\ a = Current(t))
    <3> DEFINE a == builder[t].results[i]
    <3>1. builder[t] # Idle
      BY <2>2 DEF Idle, Begun
    <3>2. LoopInv(t) /\ ResultsInv(t)
      BY <3>1 DEF TypesInv, BuilderInv
    <3>3. i \in 1..Len(builder[t].results) /\ a \in canonicalGroups
      BY <3>2 DEF LoopInv
    <3>4. heap[a].temp = FALSE \/ (mutex = t /\ a = Current(t))
      BY <3>2, <3>3 DEF ResultsInv
    <3>5. DOMAIN heap[a].types # {} /\ Groups(a) \subseteq canonicalGroups
      BY <3>3 DEF TypesInv, CanonicalInv
    <3> QED BY <3>3, <3>4, <3>5 DEF Settled, Groups, Free
  <2> QED BY <2>1, <2>2 DEF NoTemporaryLeaks
<1> QED BY <1>1, TypesInvariant, PTL
-----------------------------------------------------------------------------
(***************************************************************************)
(* The table of structures                                                 *)
(*                                                                         *)
(* A structure is a group with its references unfolded.  The invariant is  *)
(* that canonical groups have structures of their own and that each call   *)
(* has been given what its program means (TableInv); RecGroupEquator then  *)
(* compares structures (SameStructure), and inserting a group leaves those *)
(* of the others as they are (UnfoldWith).                                 *)
(***************************************************************************)

\* The groups that a group names.
Named(r) == {x.group : x \in References(r)}

\* The type i of a group whose references are renamed.
LEMMA MappedType ==
    ASSUME NEW N, NEW r \in GroupsOver(N), NEW names, NEW i \in 1..Len(r),
           NEW m, m = MapReferences(r, names)
    PROVE  /\ DOMAIN m = 1..Len(r)
           /\ m[i] = [content |-> r[i].content, refs |-> m[i].refs]
           /\ DOMAIN m[i].refs = 1..Len(r[i].refs)
           /\ \A k \in 1..Len(r[i].refs) :
                 m[i].refs[k] = [group |-> names[r[i].refs[k].group],
                                 index |-> r[i].refs[k].index]
<1>1. DOMAIN r = 1..Len(r) /\ DOMAIN r[i].refs = 1..Len(r[i].refs)
  BY GroupFacts
<1> QED BY <1>1 DEF MapReferences

LEMMA ReferencesIn ==
    ASSUME NEW r, NEW i \in DOMAIN r, NEW k \in DOMAIN r[i].refs
    PROVE  r[i].refs[k] \in References(r)
BY DEF References

\* A function on 1..n is a sequence of length n.
LEMMA AsSeq ==
    ASSUME NEW S, NEW n \in Nat, NEW s, s = [i \in 1..n |-> s[i]],
           \A i \in 1..n : s[i] \in S
    PROVE  s \in Seq(S) /\ Len(s) = n
<1>1. s \in [1..n -> S]
  OBVIOUS
<1> QED BY <1>1, SeqDef

\* Renaming references into M gives groups over M, of the same shape.
LEMMA MapOver ==
    ASSUME NEW N, NEW r \in GroupsOver(N), NEW M, NEW names,
           \A x \in References(r) : names[x.group] \in M
    PROVE  /\ MapReferences(r, names) \in GroupsOver(M)
           /\ Len(MapReferences(r, names)) = Len(r)
<1> DEFINE m == MapReferences(r, names)
<1>0. Len(r) \in Nat /\ DOMAIN r = 1..Len(r)
  BY GroupFacts
<1>1. m = [i \in 1..Len(r) |-> m[i]]
  BY <1>0 DEF MapReferences
<1>2. PICK R : R = [group : M, index : Nat]
  OBVIOUS
<1>3. PICK T : T = [content : DOMAIN Shape, refs : Seq(R)]
  OBVIOUS
<1>4. ASSUME NEW i \in 1..Len(r)
      PROVE  m[i] \in T
  <2>1. /\ m[i] = [content |-> r[i].content, refs |-> m[i].refs]
        /\ DOMAIN m[i].refs = 1..Len(r[i].refs)
        /\ \A k \in 1..Len(r[i].refs) :
              m[i].refs[k] = [group |-> names[r[i].refs[k].group],
                              index |-> r[i].refs[k].index]
    BY MappedType
  <2>2. /\ r[i].content \in DOMAIN Shape
        /\ Len(r[i].refs) \in Nat
        /\ \A k \in 1..Len(r[i].refs) :
              r[i].refs[k].index \in Nat /\ r[i].refs[k] \in References(r)
    <3>1. /\ r[i] \in [content : DOMAIN Shape, refs : Seq([group : N, index : Nat])]
          /\ Len(r[i].refs) \in Nat /\ DOMAIN r[i].refs = 1..Len(r[i].refs)
          /\ \A k \in 1..Len(r[i].refs) : r[i].refs[k] \in [group : N, index : Nat]
      BY GroupFacts
    <3>2. r[i].content \in DOMAIN Shape
      BY <3>1
    <3>3. \A k \in 1..Len(r[i].refs) : r[i].refs[k].index \in Nat
      BY <3>1
    <3>4. \A k \in 1..Len(r[i].refs) : r[i].refs[k] \in References(r)
      BY <1>0, <3>1, ReferencesIn
    <3> QED BY <3>1, <3>2, <3>3, <3>4
  <2>3. \A k \in 1..Len(r[i].refs) : m[i].refs[k] \in R
    <3> SUFFICES ASSUME NEW k \in 1..Len(r[i].refs)
                 PROVE  m[i].refs[k] \in R
      OBVIOUS
    <3>1. PICK y : y = r[i].refs[k]
      OBVIOUS
    <3>2. names[y.group] \in M /\ y.index \in Nat
      BY <2>2, <3>1
    <3>3. m[i].refs[k] = [group |-> names[y.group], index |-> y.index]
      BY <2>1, <3>1
    <3> HIDE DEF m
    <3> QED BY <1>2, <3>2, <3>3
  <2>4. m[i].refs = [k \in 1..Len(r[i].refs) |-> m[i].refs[k]]
    BY <1>0, GroupFacts DEF MapReferences
  <2>5. m[i].refs \in Seq(R)
    <3> HIDE DEF m
    <3> QED BY <2>2, <2>3, <2>4, AsSeq
  <2> HIDE DEF m
  <2> QED BY <1>3, <2>1, <2>2, <2>5
<1> HIDE DEF m
<1>5. m \in Seq(T) /\ Len(m) = Len(r)
  BY <1>0, <1>1, <1>4, AsSeq
<1> QED BY <1>2, <1>3, <1>5 DEF GroupsOver, m

\* Only the names of what is named matter.
LEMMA MapSame ==
    ASSUME NEW r, NEW n1, NEW n2, \A g \in Named(r) : n1[g] = n2[g]
    PROVE  MapReferences(r, n1) = MapReferences(r, n2)
<1>1. \A i \in DOMAIN r : \A k \in DOMAIN r[i].refs :
          n1[r[i].refs[k].group] = n2[r[i].refs[k].group]
  BY DEF Named, References
<1> QED BY <1>1 DEF MapReferences

\* Renaming twice.
LEMMA MapTwice ==
    ASSUME NEW r, NEW n1, NEW n2, NEW n3,
           \A g \in Named(r) : n3[g] = n2[n1[g]]
    PROVE  MapReferences(MapReferences(r, n1), n2) = MapReferences(r, n3)
<1>1. \A i \in DOMAIN r : \A k \in DOMAIN r[i].refs :
          n3[r[i].refs[k].group] = n2[n1[r[i].refs[k].group]]
  BY DEF Named, References
<1> QED BY <1>1 DEF MapReferences

\* What renamed groups name.
LEMMA NamedMapped ==
    ASSUME NEW r, NEW names
    PROVE  Named(MapReferences(r, names)) = {names[g] : g \in Named(r)}
<1>1. ASSUME NEW g \in Named(r)
      PROVE  names[g] \in Named(MapReferences(r, names))
  <2>1. PICK i \in DOMAIN r : \E k \in DOMAIN r[i].refs : g = r[i].refs[k].group
    BY DEF Named, References
  <2>2. PICK k \in DOMAIN r[i].refs : g = r[i].refs[k].group
    BY <2>1
  <2> DEFINE m == MapReferences(r, names)
  <2>3. DOMAIN m = DOMAIN r /\ DOMAIN m[i].refs = DOMAIN r[i].refs
        /\ m[i].refs[k].group = names[g]
    BY <2>2 DEF MapReferences
  <2> HIDE DEF m
  <2>4. m[i].refs[k] \in References(m)
    BY <2>3 DEF References
  <2>5. names[g] \in Named(m)
    BY <2>3, <2>4 DEF Named
  <2> QED BY <2>5 DEF m
<1>2. ASSUME NEW h \in Named(MapReferences(r, names))
      PROVE  \E g \in Named(r) : h = names[g]
  <2>1. PICK y \in References(MapReferences(r, names)) : h = y.group
    BY DEF Named
  <2>2. PICK x \in References(r) : y.group = names[x.group]
    BY Mapped
  <2> QED BY <2>1, <2>2 DEF Named
<1> QED BY <1>1, <1>2

\* A structure under a view of its contents.
Seen(v, view) ==
    [i \in DOMAIN v |-> [content |-> view[v[i].content], refs |-> v[i].refs]]

\* What it takes for two groups to be the same once renamed.
Alike(r, s, n1, n2, view) ==
    /\ Len(r) = Len(s)
    /\ \A i \in 1..Len(r) :
          /\ view[r[i].content] = view[s[i].content]
          /\ Len(r[i].refs) = Len(s[i].refs)
          /\ \A k \in 1..Len(r[i].refs) :
                /\ r[i].refs[k].index = s[i].refs[k].index
                /\ n1[r[i].refs[k].group] = n2[s[i].refs[k].group]

LEMMA AlikeIsSeen ==
    ASSUME NEW N, NEW r \in GroupsOver(N), NEW s \in GroupsOver(N),
           NEW n1, NEW n2, NEW view
    PROVE  Seen(MapReferences(r, n1), view) = Seen(MapReferences(s, n2), view)
              <=> Alike(r, s, n1, n2, view)
<1>1. PICK v : v = Seen(MapReferences(r, n1), view)
  OBVIOUS
<1>2. PICK w : w = Seen(MapReferences(s, n2), view)
  OBVIOUS
<1>3. /\ Len(r) \in Nat /\ DOMAIN r = 1..Len(r)
      /\ Len(s) \in Nat /\ DOMAIN s = 1..Len(s)
  BY GroupFacts
<1>4. DOMAIN v = 1..Len(r) /\ DOMAIN w = 1..Len(s)
  BY <1>1, <1>2, <1>3 DEF Seen, MapReferences
<1>5. \A i \in 1..Len(r) :
          /\ v[i] = [content |-> view[r[i].content], refs |-> v[i].refs]
          /\ v[i].refs = [k \in 1..Len(r[i].refs) |-> v[i].refs[k]]
          /\ \A k \in 1..Len(r[i].refs) :
                v[i].refs[k] = [group |-> n1[r[i].refs[k].group],
                                index |-> r[i].refs[k].index]
  <2> SUFFICES ASSUME NEW i \in 1..Len(r)
               PROVE  /\ v[i] = [content |-> view[r[i].content], refs |-> v[i].refs]
                      /\ v[i].refs = [k \in 1..Len(r[i].refs) |-> v[i].refs[k]]
                      /\ \A k \in 1..Len(r[i].refs) :
                            v[i].refs[k] = [group |-> n1[r[i].refs[k].group],
                                            index |-> r[i].refs[k].index]
    OBVIOUS
  <2>1. DOMAIN r[i].refs = 1..Len(r[i].refs)
    BY GroupFacts
  <2> QED BY <1>1, <1>3, <2>1 DEF Seen, MapReferences
<1>6. \A i \in 1..Len(s) :
          /\ w[i] = [content |-> view[s[i].content], refs |-> w[i].refs]
          /\ w[i].refs = [k \in 1..Len(s[i].refs) |-> w[i].refs[k]]
          /\ \A k \in 1..Len(s[i].refs) :
                w[i].refs[k] = [group |-> n2[s[i].refs[k].group],
                                index |-> s[i].refs[k].index]
  <2> SUFFICES ASSUME NEW i \in 1..Len(s)
               PROVE  /\ w[i] = [content |-> view[s[i].content], refs |-> w[i].refs]
                      /\ w[i].refs = [k \in 1..Len(s[i].refs) |-> w[i].refs[k]]
                      /\ \A k \in 1..Len(s[i].refs) :
                            w[i].refs[k] = [group |-> n2[s[i].refs[k].group],
                                            index |-> s[i].refs[k].index]
    OBVIOUS
  <2>1. DOMAIN s[i].refs = 1..Len(s[i].refs)
    BY GroupFacts
  <2> QED BY <1>2, <1>3, <2>1 DEF Seen, MapReferences
<1>7. v = [i \in 1..Len(r) |-> v[i]] /\ w = [i \in 1..Len(s) |-> w[i]]
  BY <1>1, <1>2, <1>3 DEF Seen, MapReferences
<1>8. ASSUME v = w
      PROVE  Alike(r, s, n1, n2, view)
  <2>1. Len(r) = Len(s)
    <3>1. 1..Len(r) = 1..Len(s)
      BY <1>4, <1>8, Zenon
    <3>2. \A m, n \in Nat : 1..m = 1..n => m = n
      OBVIOUS
    <3> QED BY <1>3, <3>1, <3>2, Zenon
  <2>2. ASSUME NEW i \in 1..Len(r)
        PROVE  /\ view[r[i].content] = view[s[i].content]
               /\ Len(r[i].refs) = Len(s[i].refs)
               /\ \A k \in 1..Len(r[i].refs) :
                     /\ r[i].refs[k].index = s[i].refs[k].index
                     /\ n1[r[i].refs[k].group] = n2[s[i].refs[k].group]
    <3>1. i \in 1..Len(s)
      BY <2>1
    <3>2. /\ v[i] = [content |-> view[r[i].content], refs |-> v[i].refs]
          /\ v[i] = [content |-> view[s[i].content], refs |-> v[i].refs]
      BY <1>5, <1>6, <1>8, <3>1
    <3>3. view[r[i].content] = view[s[i].content]
      BY <3>2
    <3>4. /\ v[i].refs = [k \in 1..Len(r[i].refs) |-> v[i].refs[k]]
          /\ v[i].refs = [k \in 1..Len(s[i].refs) |-> v[i].refs[k]]
      BY <1>5, <1>6, <1>8, <3>1
    <3>5. Len(r[i].refs) \in Nat /\ Len(s[i].refs) \in Nat
      BY <3>1, GroupFacts
    <3>6. Len(r[i].refs) = Len(s[i].refs)
      BY <3>4, <3>5
    <3>7. ASSUME NEW k \in 1..Len(r[i].refs)
          PROVE  /\ r[i].refs[k].index = s[i].refs[k].index
                 /\ n1[r[i].refs[k].group] = n2[s[i].refs[k].group]
      <4>1. /\ v[i].refs[k] = [group |-> n1[r[i].refs[k].group],
                               index |-> r[i].refs[k].index]
            /\ v[i].refs[k] = [group |-> n2[s[i].refs[k].group],
                               index |-> s[i].refs[k].index]
        <5>1. k \in 1..Len(s[i].refs)
          BY <3>6
        <5>2. v[i].refs[k] = [group |-> n1[r[i].refs[k].group],
                              index |-> r[i].refs[k].index]
          BY <1>5, Zenon
        <5>3. w[i].refs[k] = [group |-> n2[s[i].refs[k].group],
                              index |-> s[i].refs[k].index]
          BY <1>6, <3>1, <5>1, Zenon
        <5> QED BY <1>8, <5>2, <5>3, Zenon
      <4> QED BY <4>1
    <3> QED BY <3>3, <3>6, <3>7
  <2> QED BY <2>1, <2>2 DEF Alike
<1>9. ASSUME Alike(r, s, n1, n2, view)
      PROVE  v = w
  <2>1. Len(r) = Len(s)
    BY <1>9 DEF Alike
  <2>2. ASSUME NEW i \in 1..Len(r)
        PROVE  v[i] = w[i]
    <3>1. i \in 1..Len(s)
      BY <2>1
    <3>2. /\ view[r[i].content] = view[s[i].content]
          /\ Len(r[i].refs) = Len(s[i].refs)
          /\ \A k \in 1..Len(r[i].refs) :
                /\ r[i].refs[k].index = s[i].refs[k].index
                /\ n1[r[i].refs[k].group] = n2[s[i].refs[k].group]
      BY <1>9 DEF Alike
    <3>3. /\ v[i] = [content |-> view[r[i].content], refs |-> v[i].refs]
          /\ w[i] = [content |-> view[r[i].content], refs |-> w[i].refs]
      BY <1>5, <1>6, <3>1, <3>2
    <3>4. \A k \in 1..Len(r[i].refs) : v[i].refs[k] = w[i].refs[k]
      <4> SUFFICES ASSUME NEW k \in 1..Len(r[i].refs)
                   PROVE  v[i].refs[k] = w[i].refs[k]
        OBVIOUS
      <4>1. k \in 1..Len(s[i].refs)
        BY <3>2
      <4>2. v[i].refs[k] = [group |-> n1[r[i].refs[k].group],
                            index |-> r[i].refs[k].index]
        BY <1>5, Zenon
      <4>3. w[i].refs[k] = [group |-> n2[s[i].refs[k].group],
                            index |-> s[i].refs[k].index]
        BY <1>6, <3>1, <4>1, Zenon
      <4>4. /\ r[i].refs[k].index = s[i].refs[k].index
            /\ n1[r[i].refs[k].group] = n2[s[i].refs[k].group]
        BY <3>2, Zenon
      <4> QED BY <4>2, <4>3, <4>4, Zenon
    <3>5. /\ v[i].refs = [k \in 1..Len(r[i].refs) |-> v[i].refs[k]]
          /\ w[i].refs = [k \in 1..Len(r[i].refs) |-> w[i].refs[k]]
      BY <1>5, <1>6, <3>1, <3>2
    <3>6. v[i].refs = w[i].refs
      BY <3>4, <3>5
    <3> QED BY <3>3, <3>6
  <2> QED BY <1>7, <2>1, <2>2
<1> QED BY <1>1, <1>2, <1>8, <1>9

\* The two views that are taken: of all, and of what a binary tells.
LEMMA SeenWhole ==
    ASSUME NEW N, NEW r \in GroupsOver(N), NEW names
    PROVE  Seen(MapReferences(r, names), Content) = MapReferences(r, names)
<1>1. PICK m : m = MapReferences(r, names)
  OBVIOUS
<1>2. /\ Len(r) \in Nat /\ DOMAIN r = 1..Len(r) /\ DOMAIN m = 1..Len(r)
      /\ m = [i \in 1..Len(r) |-> m[i]]
  BY <1>1, GroupFacts DEF MapReferences
<1>3. ASSUME NEW i \in 1..Len(r)
      PROVE  m[i] = [content |-> Content[m[i].content], refs |-> m[i].refs]
  <2>1. m[i] = [content |-> r[i].content, refs |-> m[i].refs]
    BY <1>1, MappedType
  <2>2. r[i] \in [content : DOMAIN Shape, refs : Seq([group : N, index : Nat])]
    BY GroupFacts
  <2>3. r[i].content \in DOMAIN Shape
    BY <2>2
  <2>4. m[i].content = r[i].content
    BY <2>1
  <2>5. Content[m[i].content] = r[i].content
    BY <2>3, <2>4 DEF Content
  <2> QED BY <2>1, <2>5
<1>4. Seen(m, Content) = m
  BY <1>2, <1>3 DEF Seen
<1> QED BY <1>1, <1>4

LEMMA SeenErased ==
    ASSUME NEW N, NEW r \in GroupsOver(N), NEW names
    PROVE  Seen(MapReferences(r, names), Shape) = Erased(MapReferences(r, names))
<1>1. PICK m : m = MapReferences(r, names)
  OBVIOUS
<1>2. DOMAIN m = 1..Len(r)
  BY <1>1, GroupFacts DEF MapReferences
<1>3. ASSUME NEW i \in 1..Len(r)
      PROVE  [m[i] EXCEPT !.content = Shape[@]]
                = [content |-> Shape[m[i].content], refs |-> m[i].refs]
  <2>1. m[i] = [content |-> r[i].content, refs |-> m[i].refs]
    BY <1>1, MappedType
  <2>2. PICK R : R = m[i].refs
    OBVIOUS
  <2>3. m[i] = [content |-> r[i].content, refs |-> R]
    BY <2>1, <2>2
  <2> QED BY <2>3
<1>4. Seen(m, Shape) = Erased(m)
  BY <1>2, <1>3 DEF Seen, Erased
<1> QED BY <1>1, <1>4
-----------------------------------------------------------------------------
(* Unfolding.  groups gives the groups at a set of addresses.              *)

\* The names that structures give: a group is itself, others are unfolded.
Unfolded(f, D, a) == [g \in D |-> IF g = a THEN Own ELSE f[g]]

Solves(f, groups) ==
    f = [a \in DOMAIN groups |->
            MapReferences(groups[a], Unfolded(f, DOMAIN groups, a))]

Closed(groups) == \A a \in DOMAIN groups : Named(groups[a]) \subseteq DOMAIN groups

\* There are no cycles but within a group.
Grounded(groups) ==
    \A S \in SUBSET DOMAIN groups :
        S # {} => \E a \in S : Named(groups[a]) \cap S \subseteq {a}

LEMMA UnfoldSolves ==
    ASSUME NEW groups, NEW f, Solves(f, groups)
    PROVE  Solves(Unfold(groups), groups)
BY DEF Unfold, Solves, Unfolded

\* A solution says what each structure is.
LEMMA Solution ==
    ASSUME NEW groups, NEW f, Solves(f, groups)
    PROVE  /\ DOMAIN f = DOMAIN groups
           /\ \A a \in DOMAIN groups :
                 f[a] = MapReferences(groups[a], Unfolded(f, DOMAIN groups, a))
<1>1. f = [a \in DOMAIN groups |->
              MapReferences(groups[a], Unfolded(f, DOMAIN groups, a))]
  BY DEF Solves
<1>2. DOMAIN f = DOMAIN groups
  BY <1>1
<1>3. \A a \in DOMAIN groups :
          f[a] = MapReferences(groups[a], Unfolded(f, DOMAIN groups, a))
  BY <1>1
<1> QED BY <1>2, <1>3

LEMMA OneSolution ==
    ASSUME NEW groups, Closed(groups), Grounded(groups),
           NEW f, Solves(f, groups), NEW h, Solves(h, groups)
    PROVE  f = h
<1> DEFINE D == DOMAIN groups
           S == {a \in D : f[a] # h[a]}
<1>1. ASSUME S # {}
      PROVE  FALSE
  <2>1. PICK a \in S : Named(groups[a]) \cap S \subseteq {a}
    <3>1. S \in SUBSET DOMAIN groups
      OBVIOUS
    <3> HIDE DEF S
    <3> QED BY <1>1, <3>1 DEF Grounded
  <2>2. \A g \in Named(groups[a]) : Unfolded(f, D, a)[g] = Unfolded(h, D, a)[g]
    BY <2>1 DEF Closed, Unfolded
  <2>3. MapReferences(groups[a], Unfolded(f, D, a))
           = MapReferences(groups[a], Unfolded(h, D, a))
    BY <2>2, MapSame
  <2>4. f[a] = h[a]
    BY <2>3, Solution
  <2> QED BY <2>4
<1>2. \A a \in D : f[a] = h[a]
  BY <1>1
<1>3. f = [a \in D |-> f[a]] /\ h = [a \in D |-> h[a]]
  BY DEF Solves
<1> QED BY <1>2, <1>3

\* The groups with one more of them, at a.
With(groups, a, r) ==
    [g \in DOMAIN groups \cup {a} |-> IF g = a THEN r ELSE groups[g]]

LEMMA WithGrounded ==
    ASSUME NEW groups, Closed(groups), Grounded(groups),
           NEW a, a \notin DOMAIN groups, NEW r,
           Named(r) \subseteq DOMAIN groups \cup {a}
    PROVE  Closed(With(groups, a, r)) /\ Grounded(With(groups, a, r))
<1> DEFINE D == DOMAIN groups
           more == With(groups, a, r)
<1>1. /\ DOMAIN more = D \cup {a} /\ more[a] = r
      /\ \A g \in D : more[g] = groups[g]
  BY DEF With
<1> HIDE DEF more
<1>2. Closed(more)
  BY <1>1 DEF Closed
<1>3. ASSUME NEW S \in SUBSET DOMAIN more, S # {}
      PROVE  \E c \in S : Named(more[c]) \cap S \subseteq {c}
  <2>1. CASE S = {a}
    BY <2>1
  <2>2. CASE S # {a}
    <3>1. S \ {a} # {} /\ S \ {a} \in SUBSET D
      BY <1>1, <1>3, <2>2
    <3>2. PICK c \in S \ {a} : Named(groups[c]) \cap (S \ {a}) \subseteq {c}
      BY <3>1 DEF Grounded
    <3>3. c \in D /\ Named(groups[c]) \subseteq D /\ more[c] = groups[c]
      BY <1>1, <3>1, <3>2 DEF Closed
    <3>4. Named(more[c]) \cap S \subseteq {c}
      BY <3>2, <3>3
    <3> QED BY <3>4
  <2> QED BY <2>1, <2>2
<1>4. Grounded(more)
  BY <1>3 DEF Grounded
<1> QED BY <1>2, <1>4 DEF more

LEMMA UnfoldWith ==
    ASSUME NEW groups, Closed(groups), Grounded(groups),
           Solves(Unfold(groups), groups),
           NEW a, a \notin DOMAIN groups, NEW r,
           Named(r) \subseteq DOMAIN groups \cup {a},
           NEW more, more = With(groups, a, r)
    PROVE  /\ Solves(Unfold(more), more)
           /\ \A g \in DOMAIN groups : Unfold(more)[g] = Unfold(groups)[g]
           /\ Unfold(more)[a] = MapReferences(r, Unfolded(Unfold(groups), DOMAIN groups \cup {a}, a))
<1> DEFINE D == DOMAIN groups
<1>1. /\ DOMAIN more = D \cup {a} /\ more[a] = r
      /\ \A g \in D : more[g] = groups[g]
  BY DEF With
<1>2. PICK u : u = Unfold(groups)
  OBVIOUS
<1>3. /\ DOMAIN u = D
      /\ \A g \in D : u[g] = MapReferences(groups[g], Unfolded(u, D, g))
  BY <1>2, Solution
<1>4. PICK v : v = MapReferences(r, Unfolded(u, D \cup {a}, a))
  OBVIOUS
<1>5. PICK f : f = [g \in D \cup {a} |-> IF g = a THEN v ELSE u[g]]
  OBVIOUS
<1>6. \A g \in D : f[g] = u[g]
  BY <1>5
<1>7. f[a] = v
  BY <1>5
<1>8. ASSUME NEW g \in D \cup {a}
      PROVE  f[g] = MapReferences(more[g], Unfolded(f, D \cup {a}, g))
  <2>1. CASE g \in D
    <3>1. \A h \in Named(groups[g]) : Unfolded(f, D \cup {a}, g)[h] = Unfolded(u, D, g)[h]
      BY <1>6, <2>1 DEF Closed, Unfolded
    <3>2. MapReferences(groups[g], Unfolded(f, D \cup {a}, g))
             = MapReferences(groups[g], Unfolded(u, D, g))
      BY <3>1, MapSame
    <3> QED BY <1>1, <1>3, <1>6, <2>1, <3>2
  <2>2. CASE g = a
    <3>1. \A h \in Named(r) : Unfolded(f, D \cup {a}, a)[h] = Unfolded(u, D \cup {a}, a)[h]
      BY <1>6 DEF Unfolded
    <3>2. MapReferences(r, Unfolded(f, D \cup {a}, a))
             = MapReferences(r, Unfolded(u, D \cup {a}, a))
      BY <3>1, MapSame
    <3> QED BY <1>1, <1>4, <1>7, <2>2, <3>2
  <2> QED BY <2>1, <2>2
<1>9. Solves(f, more)
  <2>1. f = [g \in D \cup {a} |-> f[g]]
    BY <1>5
  <2>2. f = [g \in D \cup {a} |-> MapReferences(more[g], Unfolded(f, D \cup {a}, g))]
    BY <1>8, <2>1
  <2> QED BY <1>1, <2>2 DEF Solves
<1>10. Solves(Unfold(more), more)
  BY <1>9, UnfoldSolves
<1>11. Unfold(more) = f
  BY <1>9, <1>10, WithGrounded, OneSolution
<1> QED BY <1>2, <1>4, <1>6, <1>7, <1>10, <1>11

-----------------------------------------------------------------------------
(* Meanings.                                                               *)

\* Induction over the natural numbers, for a set in place of a predicate.
LEMMA SetInduction ==
  ASSUME NEW S, 0 \in S, \A n \in Nat : n \in S => n + 1 \in S
  PROVE  Nat \subseteq S
  <1> DEFINE T == Nat \ S
  <1>1. SUFFICES ASSUME T # {} PROVE FALSE
    OBVIOUS
  <1> DEFINE R == OpToRel(<, Nat)
  <1>2. IsWellFoundedOn(R, Nat)
    BY NatLessThanWellFounded
  <1>3. \A x, y \in Nat : y < x => <<y, x>> \in R
    BY DEF OpToRel
  <1> HIDE DEF R
  <1> HIDE DEF T
  <1>5. T \subseteq Nat
    BY DEF T
  <1>4. PICK x \in T : \A y \in T : ~(<<y, x>> \in R)
    BY <1>1, <1>2, <1>5, WFMin
  <1>6. x \in Nat /\ x # 0 /\ x \notin S
    BY DEF T
  <1>7. x - 1 \in Nat /\ x - 1 < x /\ (x - 1) + 1 = x
    BY <1>6
  <1>8. x - 1 \notin T
    BY <1>3, <1>4, <1>6, <1>7
  <1>9. x - 1 \in S
    BY <1>7, <1>8 DEF T
  <1> QED BY <1>6, <1>7, <1>9

\* The names that meanings give in the j-th group.
Meant(V, n, j) == [g \in 1..n |-> IF g = j THEN Own ELSE IF g < j THEN V[g] ELSE Later]

LEMMA MeaningFacts ==
    ASSUME NEW p, IsProgram(p)
    PROVE  /\ DOMAIN Meaning(p) = 1..Len(p) /\ Len(Meaning(p)) = Len(p)
           /\ \A j \in 1..Len(p) :
                 Meaning(p)[j] = MapReferences(p[j], Meant(Meaning(p), Len(p), j))
<1>1. Len(p) \in Nat \ {0} /\ DOMAIN p = 1..Len(p)
  BY ProgramFacts
<1> DEFINE Value(f, j) == MapReferences(p[j], Meant(f, Len(p), j))
           S == {n \in Nat : n <= Len(p) => \E f : f = [j \in 1..n |-> Value(f, j)]}
<1>2. \A f, h : \A j \in 1..Len(p) : (\A g \in 1..(j - 1) : f[g] = h[g]) => Value(f, j) = Value(h, j)
  <2> SUFFICES ASSUME NEW f, NEW h, NEW j \in 1..Len(p), \A g \in 1..(j - 1) : f[g] = h[g]
               PROVE  Value(f, j) = Value(h, j)
    OBVIOUS
  <2>1. \A g \in 1..Len(p) : g < j => f[g] = h[g]
    OBVIOUS
  <2>2. Meant(f, Len(p), j) = Meant(h, Len(p), j)
    BY <2>1 DEF Meant
  <2> QED BY <2>2
<1> HIDE DEF Value
<1>3. 0 \in S
  <2>1. PICK f : f = [j \in 1..0 |-> 0]
    OBVIOUS
  <2>2. f = [j \in 1..0 |-> Value(f, j)]
    BY <2>1
  <2> QED BY <2>2
<1>4. ASSUME NEW n \in Nat, n \in S
      PROVE  n + 1 \in S
  <2>1. ASSUME n + 1 <= Len(p)
        PROVE  \E f : f = [j \in 1..n + 1 |-> Value(f, j)]
    <3>0. n <= Len(p)
      BY <1>1, <2>1
    <3>1. PICK f : f = [j \in 1..n |-> Value(f, j)]
      BY <1>4, <3>0
    <3>2. PICK h : h = [j \in 1..n + 1 |-> IF j <= n THEN f[j] ELSE Value(f, n + 1)]
      OBVIOUS
    <3>3. ASSUME NEW j \in 1..n + 1
          PROVE  h[j] = Value(h, j)
      <4>1. \A g \in 1..(j - 1) : f[g] = h[g]
        BY <3>2
      <4>2. j \in 1..Len(p)
        BY <1>1, <2>1
      <4>3. Value(f, j) = Value(h, j)
        BY <1>2, <4>1, <4>2
      <4>4. h[j] = Value(f, j)
        <5>1. CASE j <= n
          BY <3>1, <3>2, <5>1
        <5>2. CASE j = n + 1
          BY <3>2, <5>2
        <5> QED BY <5>1, <5>2
      <4> QED BY <4>3, <4>4
    <3>4. h = [j \in 1..n + 1 |-> h[j]]
      BY <3>2
    <3>5. h = [j \in 1..n + 1 |-> Value(h, j)]
      BY <3>3, <3>4
    <3> QED BY <3>5
  <2> QED BY <2>1
<1>5. PICK f : f = [j \in 1..Len(p) |-> Value(f, j)]
  <2>1. Len(p) \in S
    <3> HIDE DEF S
    <3>1. Nat \subseteq S
      BY <1>3, <1>4, SetInduction
    <3> QED BY <1>1, <3>1
  <2> QED BY <2>1
<1>6. PICK M : /\ M = [j \in 1..Len(p) |-> Value(M, j)]
               /\ Meaning(p) = [j \in 1..Len(p) |-> M[j]]
  <2> DEFINE Means(h) == h = [j \in DOMAIN p |-> MapReferences(p[j],
                          [g \in DOMAIN p |->
                              IF g = j THEN Own ELSE IF g < j THEN h[g] ELSE Later])]
             M == CHOOSE h : Means(h)
  <2>1. Means(f)
    BY <1>1, <1>5 DEF Value, Meant
  <2>2. Means(M)
    <3> HIDE DEF Means
    <3> QED BY <2>1
  <2>3. Meaning(p) = [j \in DOMAIN p |-> M[j]]
    BY DEF Meaning
  <2>4. M = [j \in 1..Len(p) |-> Value(M, j)]
    <3> HIDE DEF M
    <3> QED BY <1>1, <2>2 DEF Value, Meant
  <2> QED BY <1>1, <2>3, <2>4
<1>7. Meaning(p) = M
  BY <1>6
<1>8. \A j \in 1..Len(p) : M[j] = Value(M, j)
  BY <1>6
<1>9. DOMAIN M = 1..Len(p) /\ M = [j \in 1..Len(p) |-> M[j]]
  BY <1>6
<1>10. Len(M) = Len(p)
  <2>1. \A j \in 1..Len(p) : M[j] \in {M[g] : g \in 1..Len(p)}
    OBVIOUS
  <2> QED BY <1>1, <1>9, <2>1, AsSeq
<1> QED BY <1>7, <1>8, <1>9, <1>10 DEF Value

LEMMA NoMeaning == Meaning(<<>>) = <<>>
<1>1. DOMAIN <<>> = {}
  OBVIOUS
<1> QED BY <1>1 DEF Meaning
-----------------------------------------------------------------------------
(* The invariant                                                           *)

Store == [a \in canonicalGroups |-> heap[a].types]

\* No two canonical groups have the same structure, and no cycle joins them.
StructuresInv ==
    /\ \A a \in Addresses : heap[a].types \in GroupsOver(Addresses)
    /\ Closed(Store) /\ Grounded(Store)
    /\ Solves(Structures, Store)
    /\ \A a, c \in canonicalGroups : Structures[a] = Structures[c] => a = c

\* The groups a program's positions stand for.
Stands(t) == [j \in 1..Size(t) |->
                IF j <= Len(builder[t].results) THEN builder[t].results[j]
                ELSE builder[t].entries[j]]

\* The input that is still to be built.
Pending(t) ==
    {i \in 1..Size(t) : \/ i > builder[t].group
                        \/ i = builder[t].group /\ builder[t].pc = "prepare"}

\* Results are what the program means, and the rest of it is as it was given.
CallInv(t) ==
    LET b == builder[t]
        p == b.program
    IN  /\ IsProgram(p)
        /\ \A j \in 1..Len(b.results) : Structures[b.results[j]] = Meaning(p)[j]
        /\ \A i \in Pending(t) : heap[b.entries[i]].types = MapReferences(p[i], b.entries)
        /\ b.pc = "insert" =>
              /\ heap[Current(t)].types = MapReferences(p[b.group], Stands(t))
              /\ \A g \in Named(p[b.group]) : g <= b.group
        /\ b.pc # "done" /\ Len(p) > 1 => ~Collide(Meaning(p), b.group - 1)
        /\ b.pc = "done" => \/ Len(b.results) = Len(p)
                            \/ Refused(Meaning(p), Len(b.results))

TableInv ==
    /\ StructuresInv
    /\ \A t \in Threads : builder[t].pc # "idle" => CallInv(t)

LEMMA StructuresUnfold == Structures = Unfold(Store)
BY DEF Structures, Store

\* What the structure of a canonical group is.
LEMMA StructureOf ==
    ASSUME TypesInv, StructuresInv, NEW c \in canonicalGroups
    PROVE  /\ c \in Addresses
           /\ Named(heap[c].types) \subseteq canonicalGroups
           /\ Structures[c] = MapReferences(heap[c].types,
                                            Unfolded(Structures, canonicalGroups, c))
           /\ DOMAIN Structures[c] # {}
           /\ Structures[c] # Own
<1>1. c \in Addresses /\ DOMAIN heap[c].types # {}
  BY DEF TypesInv, CanonicalInv
<1>2. Named(heap[c].types) \subseteq canonicalGroups
  BY DEF TypesInv, CanonicalInv, Groups, Named
<1>3. DOMAIN Store = canonicalGroups /\ Store[c] = heap[c].types
  BY DEF Store
<1>4. Structures[c] = MapReferences(heap[c].types, Unfolded(Structures, canonicalGroups, c))
  <2>1. Solves(Structures, Store)
    BY DEF StructuresInv
  <2>2. \A g \in DOMAIN Store :
            Structures[g] = MapReferences(Store[g], Unfolded(Structures, DOMAIN Store, g))
    BY <2>1, Solution
  <2> QED BY <1>3, <2>2
<1>5. DOMAIN Structures[c] # {}
  BY <1>1, <1>4, Mapped
<1>6. DOMAIN Own = {}
  BY DEF Own
<1> QED BY <1>1, <1>2, <1>4, <1>5, <1>6

\* The structure a group has, or would have if it were canonical.
Image(a) == MapReferences(heap[a].types, Unfolded(Structures, canonicalGroups \cup {a}, a))

\* RecGroupEquator compares structures.
LEMMA SameStructure ==
    ASSUME TypesInv, StructuresInv, NEW a \in Addresses,
           Named(heap[a].types) \subseteq canonicalGroups \cup {a},
           NEW c \in canonicalGroups, NEW view
    PROVE  SameGroup(a, c, view) <=> Seen(Image(a), view) = Seen(Structures[c], view)
<1>1. CASE a = c
  <2>1. canonicalGroups \cup {a} = canonicalGroups
    BY <1>1
  <2>2. Image(a) = Structures[c]
    BY <1>1, <2>1, StructureOf DEF Image
  <2> QED BY <1>1, <2>2 DEF SameGroup
<1>2. CASE a # c
  <2>1. PICK X : X = heap[a].types
    OBVIOUS
  <2>2. PICK Y : Y = heap[c].types
    OBVIOUS
  <2>3. PICK n1 : n1 = Unfolded(Structures, canonicalGroups \cup {a}, a)
    OBVIOUS
  <2>4. PICK n2 : n2 = Unfolded(Structures, canonicalGroups, c)
    OBVIOUS
  <2>5. X \in GroupsOver(Addresses) /\ Y \in GroupsOver(Addresses)
    BY <2>1, <2>2, StructureOf DEF StructuresInv
  <2>6. Image(a) = MapReferences(X, n1) /\ Structures[c] = MapReferences(Y, n2)
    BY <2>1, <2>2, <2>3, <2>4, StructureOf DEF Image
  <2>7. Seen(Image(a), view) = Seen(Structures[c], view) <=> Alike(X, Y, n1, n2, view)
    BY <2>5, <2>6, AlikeIsSeen
  <2>8. /\ Named(X) \subseteq canonicalGroups \cup {a}
        /\ Named(Y) \subseteq canonicalGroups
    BY <2>1, <2>2, StructureOf
  <2>9. \A g \in canonicalGroups \cup {a}, h \in canonicalGroups :
            n1[g] = n2[h] <=> /\ (g = a) = (h = c)
                              /\ g # a => g = h
    <3> SUFFICES ASSUME NEW g \in canonicalGroups \cup {a}, NEW h \in canonicalGroups
                 PROVE  n1[g] = n2[h] <=> /\ (g = a) = (h = c)
                                          /\ g # a => g = h
      OBVIOUS
    <3>1. n1[g] = IF g = a THEN Own ELSE Structures[g]
      BY <2>3 DEF Unfolded
    <3>2. n2[h] = IF h = c THEN Own ELSE Structures[h]
      BY <2>4 DEF Unfolded
    <3>3. Structures[h] # Own /\ (g \in canonicalGroups => Structures[g] # Own)
      BY StructureOf
    <3>4. g \in canonicalGroups => (Structures[g] = Structures[h] => g = h)
      BY DEF StructuresInv
    <3> QED BY <3>1, <3>2, <3>3, <3>4
  <2>10. /\ Len(X) \in Nat /\ DOMAIN X = 1..Len(X)
         /\ Len(Y) \in Nat /\ DOMAIN Y = 1..Len(Y)
         /\ \A i \in 1..Len(X) : DOMAIN X[i].refs = 1..Len(X[i].refs)
         /\ \A i \in 1..Len(Y) : DOMAIN Y[i].refs = 1..Len(Y[i].refs)
    BY <2>5, GroupFacts
  <2>11. /\ \A i \in 1..Len(X) : \A k \in 1..Len(X[i].refs) :
               X[i].refs[k].group \in canonicalGroups \cup {a}
         /\ \A i \in 1..Len(Y) : \A k \in 1..Len(Y[i].refs) :
               Y[i].refs[k].group \in canonicalGroups
    BY <2>8, <2>10, ReferencesIn DEF Named
  <2>12. ASSUME Len(X) = Len(Y), NEW i \in 1..Len(X), Len(X[i].refs) = Len(Y[i].refs),
                NEW k \in 1..Len(X[i].refs)
         PROVE  SameReference(a, c, X[i].refs[k], Y[i].refs[k])
                   <=> /\ X[i].refs[k].index = Y[i].refs[k].index
                       /\ n1[X[i].refs[k].group] = n2[Y[i].refs[k].group]
    <3>1. /\ X[i].refs[k].group \in canonicalGroups \cup {a}
          /\ Y[i].refs[k].group \in canonicalGroups
      BY <2>11, <2>12
    <3>2. PICK u : u = X[i].refs[k]
      OBVIOUS
    <3>3. PICK v : v = Y[i].refs[k]
      OBVIOUS
    <3>4. n1[u.group] = n2[v.group] <=> /\ (u.group = a) = (v.group = c)
                                        /\ u.group # a => u.group = v.group
      BY <2>9, <3>1, <3>2, <3>3
    <3> QED BY <3>2, <3>3, <3>4 DEF SameReference
  <2>13. Alike(X, Y, n1, n2, view) <=>
            /\ Len(X) = Len(Y)
            /\ \A i \in 1..Len(X) :
                  /\ view[X[i].content] = view[Y[i].content]
                  /\ Len(X[i].refs) = Len(Y[i].refs)
                  /\ \A k \in 1..Len(X[i].refs) :
                        SameReference(a, c, X[i].refs[k], Y[i].refs[k])
    BY <2>12 DEF Alike
  <2>14. SameGroup(a, c, view) <=>
            /\ Len(X) = Len(Y)
            /\ \A i \in DOMAIN X :
                  /\ view[X[i].content] = view[Y[i].content]
                  /\ Len(X[i].refs) = Len(Y[i].refs)
                  /\ \A k \in DOMAIN X[i].refs :
                        SameReference(a, c, X[i].refs[k], Y[i].refs[k])
    BY <1>2, <2>1, <2>2 DEF SameGroup
  <2> QED BY <2>7, <2>10, <2>13, <2>14
<1> QED BY <1>1, <1>2

LEMMA SameWhole ==
    ASSUME TypesInv, StructuresInv, NEW a \in Addresses,
           Named(heap[a].types) \subseteq canonicalGroups \cup {a},
           NEW c \in canonicalGroups
    PROVE  SameGroup(a, c, Content) <=> Image(a) = Structures[c]
<1>1. heap[a].types \in GroupsOver(Addresses)
  BY DEF StructuresInv
<1>2. Seen(Image(a), Content) = Image(a)
  BY <1>1, SeenWhole DEF Image
<1>3. heap[c].types \in GroupsOver(Addresses)
  BY StructureOf DEF StructuresInv
<1>4. Seen(Structures[c], Content) = Structures[c]
  <2>1. Structures[c] = MapReferences(heap[c].types,
                                      Unfolded(Structures, canonicalGroups, c))
    BY StructureOf
  <2> QED BY <1>3, <2>1, SeenWhole
<1>5. SameGroup(a, c, Content) <=> Seen(Image(a), Content) = Seen(Structures[c], Content)
  BY SameStructure
<1> QED BY <1>2, <1>4, <1>5

LEMMA SameErased ==
    ASSUME TypesInv, StructuresInv, NEW a \in canonicalGroups, NEW c \in canonicalGroups
    PROVE  SameGroup(a, c, Shape) <=> Erased(Structures[a]) = Erased(Structures[c])
<1>1. ASSUME NEW g \in canonicalGroups
      PROVE  Seen(Structures[g], Shape) = Erased(Structures[g])
  <2>1. heap[g].types \in GroupsOver(Addresses)
    BY StructureOf DEF StructuresInv
  <2>2. Structures[g] = MapReferences(heap[g].types,
                                      Unfolded(Structures, canonicalGroups, g))
    BY StructureOf
  <2> QED BY <2>1, <2>2, SeenErased
<1>2. Image(a) = Structures[a]
  <2>1. canonicalGroups \cup {a} = canonicalGroups
    OBVIOUS
  <2> QED BY <2>1, StructureOf DEF Image
<1>3. a \in Addresses /\ Named(heap[a].types) \subseteq canonicalGroups \cup {a}
  BY StructureOf
<1>4. SameGroup(a, c, Shape) <=> Seen(Image(a), Shape) = Seen(Structures[c], Shape)
  BY <1>3, SameStructure
<1> QED BY <1>1, <1>2, <1>4

\* Steps that leave the types of canonical groups leave the structures.
LEMMA StructuresKept ==
    ASSUME TypesInv, StructuresInv, canonicalGroups' = canonicalGroups,
           \A a \in canonicalGroups : heap'[a].types = heap[a].types,
           \A a \in Addresses : heap'[a].types \in GroupsOver(Addresses)
    PROVE  StructuresInv' /\ Structures' = Structures
<1>1. Store' = Store
  BY DEF Store
<1>2. Structures' = Structures
  BY <1>1, StructuresUnfold DEF Structures, Store
<1>3. StructuresInv'
  BY <1>1, <1>2 DEF StructuresInv
<1> QED BY <1>2, <1>3

\* The calls of other threads are as they were.
LEMMA OtherCalls ==
    ASSUME TypesInv, TableInv, NEW t \in Threads,
           \A u \in Threads \ {t} : builder'[u] = builder[u],
           \A u \in Threads \ {t} : \A a \in Mine(u) : heap'[a].types = heap[a].types,
           \A g \in canonicalGroups : Structures'[g] = Structures[g]
    PROVE  \A u \in Threads \ {t} : builder'[u].pc # "idle" => CallInv(u)'
<1> SUFFICES ASSUME NEW u \in Threads \ {t}, builder'[u].pc # "idle"
             PROVE  CallInv(u)'
  OBVIOUS
<1>1. builder'[u] = builder[u] /\ builder[u].pc # "idle"
  OBVIOUS
<1>2. CallInv(u)
  BY <1>1 DEF TableInv
<1>3. LoopInv(u) /\ Len(builder[u].results) \in Nat
  BY <1>1, InCall DEF LoopInv
<1>4. /\ Size(u)' = Size(u) /\ Current(u)' = Current(u)
      /\ Pending(u)' = Pending(u) /\ Stands(u)' = Stands(u)
  BY <1>1 DEF Size, Current, Pending, Stands
<1>5. \A j \in 1..Len(builder[u].results) : builder[u].results[j] \in canonicalGroups
  BY <1>3 DEF LoopInv
<1>6. \A i \in Pending(u) : builder[u].entries[i] \in Mine(u)
  <2> SUFFICES ASSUME NEW i \in Pending(u)
               PROVE  builder[u].entries[i] \in Mine(u)
    OBVIOUS
  <2>1. CASE i > builder[u].group
    <3>1. i \in (builder[u].group + 1)..Size(u)
      BY <1>3, <2>1 DEF Pending, LoopInv
    <3> QED BY <3>1 DEF Mine, Ahead
  <2>2. CASE i = builder[u].group /\ builder[u].pc = "prepare"
    BY <2>2 DEF Mine, CurrentIsMine, Current
  <2> QED BY <2>1, <2>2 DEF Pending
<1>7. builder[u].pc = "insert" => Current(u) \in Mine(u)
  BY DEF Mine, CurrentIsMine
<1>8. \A i \in Pending(u) :
          heap'[builder[u].entries[i]].types = heap[builder[u].entries[i]].types
  BY <1>6
<1>9. builder[u].pc = "insert" => heap'[Current(u)].types = heap[Current(u)].types
  BY <1>7
<1>10. \A j \in 1..Len(builder[u].results) :
           Structures'[builder[u].results[j]] = Structures[builder[u].results[j]]
  BY <1>5
<1> QED BY <1>1, <1>2, <1>4, <1>8, <1>9, <1>10 DEF CallInv

\* A meaning mentions what comes later just if the program does.
LEMMA LaterMeans ==
    ASSUME NEW p, IsProgram(p), NEW j \in 1..Len(p)
    PROVE  LooksAhead(Meaning(p), j - 1) <=> \E g \in Named(p[j]) : g > j
<1>1. PICK V : V = Meaning(p)
  OBVIOUS
<1>2. /\ Len(V) = Len(p) /\ Len(p) \in Nat
      /\ \A i \in 1..Len(p) : V[i] = MapReferences(p[i], Meant(V, Len(p), i))
  BY <1>1, MeaningFacts, ProgramFacts
<1>3. \A i \in 1..Len(p) : V[i] # Later
  <2> SUFFICES ASSUME NEW i \in 1..Len(p)
               PROVE  V[i] # Later
    OBVIOUS
  <2>1. p[i] \in GroupsOver(1..Len(p)) /\ DOMAIN p[i] # {}
    BY ProgramFacts
  <2>2. Len(p[i]) \in Nat /\ DOMAIN p[i] = 1..Len(p[i])
    BY <2>1, GroupFacts
  <2>3. 1 \in 1..Len(p[i])
    BY <2>1, <2>2
  <2>4. p[i][1] \in [content : DOMAIN Shape, refs : Seq([group : 1..Len(p), index : Nat])]
    BY <2>1, <2>3, GroupFacts
  <2>5. V[i][1] = [content |-> p[i][1].content, refs |-> V[i][1].refs]
    BY <1>2, <2>1, <2>3, MappedType
  <2>6. V[i][1].content \in DOMAIN Shape
    BY <2>4, <2>5
  <2>7. Later[1].content = "later"
    BY DEF Later
  <2> QED BY <2>6, <2>7, ContentsAssumption
<1>4. Own # Later
  <2>1. DOMAIN Own = {} /\ DOMAIN Later # {}
    BY DEF Own, Later
  <2> QED BY <2>1
<1>5. \A g \in Named(p[j]) : g \in 1..Len(p)
  BY ProgramFacts DEF Named
<1>6. \A g \in 1..Len(p) : Meant(V, Len(p), j)[g] = Later <=> g > j
  BY <1>2, <1>3, <1>4 DEF Meant
<1>7. Named(V[j]) = {Meant(V, Len(p), j)[g] : g \in Named(p[j])}
  BY <1>2, NamedMapped
<1>8. Later \in Named(V[j]) <=> \E g \in Named(p[j]) : g > j
  BY <1>5, <1>6, <1>7
<1>9. LooksAhead(V, j - 1) <=> Later \in Named(V[j])
  <2>1. j - 1 < Len(V) /\ (j - 1) + 1 = j
    BY <1>2
  <2> QED BY <2>1 DEF LooksAhead, Named
<1> QED BY <1>1, <1>8, <1>9

\* The group to be inserted has the structure that the program means.
LEMMA ImageMeant ==
    ASSUME TypesInv, TableInv, NEW t \in Threads, builder[t].pc = "insert"
    PROVE  /\ Image(Current(t)) = Meaning(builder[t].program)[builder[t].group]
           /\ Named(heap[Current(t)].types) \subseteq canonicalGroups \cup {Current(t)}
           /\ Current(t) \in Addresses /\ Current(t) \notin canonicalGroups
<1>1. /\ LoopInv(t) /\ InputInv(t) /\ Current(t) \in Addresses
  BY InCall
<1>2. CallInv(t)
  BY DEF TableInv
<1>3. PICK a : a = Current(t)
  OBVIOUS
<1>4. PICK p : p = builder[t].program
  OBVIOUS
<1>5. PICK j : j = builder[t].group
  OBVIOUS
<1>6. PICK V : V = Meaning(p)
  OBVIOUS
<1>7. a \notin canonicalGroups
  <2>1. a \in Mine(t)
    BY <1>3 DEF Mine, CurrentIsMine
  <2> QED BY <2>1 DEF TypesInv, OwnershipInv
<1>8. Named(heap[a].types) \subseteq canonicalGroups \cup {a}
  BY <1>1, <1>3 DEF InputInv, Groups, Named
<1>9. /\ IsProgram(p) /\ j \in 1..Len(p) /\ Size(t) = Len(p) /\ Len(p) \in Nat
      /\ Len(builder[t].results) = j - 1
      /\ builder[t].entries[j] = a
      /\ \A g \in 1..(j - 1) : builder[t].results[g] \in canonicalGroups
  BY <1>1, <1>2, <1>3, <1>4, <1>5 DEF CallInv, LoopInv, Size, Current
<1>10. heap[a].types = MapReferences(p[j], Stands(t)) /\ \A g \in Named(p[j]) : g <= j
  BY <1>2, <1>3, <1>4, <1>5 DEF CallInv
<1>11. \A g \in 1..(j - 1) : Structures[builder[t].results[g]] = V[g]
  BY <1>2, <1>4, <1>6, <1>9 DEF CallInv
<1>12. \A g \in Named(p[j]) : g \in 1..j
  BY <1>9, <1>10, ProgramFacts DEF Named
<1>13. PICK names : names = Unfolded(Structures, canonicalGroups \cup {a}, a)
  OBVIOUS
<1>14. ASSUME NEW g \in 1..j
       PROVE  Meant(V, Len(p), j)[g] = names[Stands(t)[g]]
  <2>1. CASE g < j
    <3>1. Stands(t)[g] = builder[t].results[g]
      BY <1>9, <2>1 DEF Stands
    <3>2. Meant(V, Len(p), j)[g] = V[g]
      BY <1>9, <2>1 DEF Meant
    <3>3. names[builder[t].results[g]] = Structures[builder[t].results[g]]
      BY <1>7, <1>9, <1>13, <2>1 DEF Unfolded
    <3> QED BY <1>9, <1>11, <2>1, <3>1, <3>2, <3>3
  <2>2. CASE g = j
    <3>1. Stands(t)[g] = a
      BY <1>9, <2>2 DEF Stands
    <3>2. Meant(V, Len(p), j)[g] = Own
      BY <1>9, <2>2 DEF Meant
    <3>3. names[a] = Own
      BY <1>13 DEF Unfolded
    <3> QED BY <3>1, <3>2, <3>3
  <2>3. g < j \/ g = j
    BY <1>9
  <2> QED BY <2>1, <2>2, <2>3
<1>15. Image(a) = MapReferences(p[j], Meant(V, Len(p), j))
  <2>1. \A g \in Named(p[j]) : Meant(V, Len(p), j)[g] = names[Stands(t)[g]]
    BY <1>12, <1>14
  <2>2. MapReferences(MapReferences(p[j], Stands(t)), names)
           = MapReferences(p[j], Meant(V, Len(p), j))
    BY <2>1, MapTwice
  <2> QED BY <1>10, <1>13, <2>2 DEF Image
<1>16. V[j] = MapReferences(p[j], Meant(V, Len(p), j))
  BY <1>6, <1>9, MeaningFacts
<1> QED BY <1>1, <1>3, <1>4, <1>5, <1>6, <1>7, <1>8, <1>15, <1>16
-----------------------------------------------------------------------------
(* The steps of build() preserve the invariant                             *)

LEMMA TablePrepare ==
    ASSUME TypesInv, TableInv, NEW t \in Threads, Prepare(t)
    PROVE  TableInv' /\ Structures' = Structures
<1>0. PICK a : a = Current(t)
  OBVIOUS
<1>00. PICK names : names = [g \in Addresses |-> Renamed(t, g)]
  OBVIOUS
<1>1. PICK r : r = MapReferences(heap[a].types, names)
  OBVIOUS
<1>2. PICK forward : forward = \E x \in References(r) : heap[x.group].temp /\ x.group # a
  OBVIOUS
<1>3. /\ builder[t].pc = "prepare"
      /\ heap' = [heap EXCEPT ![a].types = r]
      /\ builder' = [builder EXCEPT ![t].pc = IF forward THEN "done" ELSE "insert",
                                    ![t].failed = forward]
      /\ canonicalGroups' = canonicalGroups /\ mutex' = mutex
  BY <1>0, <1>00, <1>1, <1>2 DEF Prepare
<1>4. /\ LoopInv(t) /\ NamesInv(t) /\ InputInv(t) /\ ResultsInv(t)
      /\ builder[t] = Record(builder[t])
      /\ a \in Addresses /\ a \notin Ahead(t) /\ Ahead(t) \subseteq Addresses
  BY <1>0, <1>3, InCall
<1>5. PICK p : p = builder[t].program
  OBVIOUS
<1>6. PICK e : e = builder[t].entries
  OBVIOUS
<1>7. PICK j : j = builder[t].group
  OBVIOUS
<1>8. PICK results : results = builder[t].results
  OBVIOUS
<1>9. /\ builder'[t].pc = (IF forward THEN "done" ELSE "insert")
      /\ builder'[t].program = p /\ builder'[t].entries = e
      /\ builder'[t].group = j /\ builder'[t].results = results
      /\ \A u \in Threads \ {t} : builder'[u] = builder[u]
  BY <1>3, <1>4, <1>5, <1>6, <1>7, <1>8 DEF TypesInv, Record
<1>10. /\ heap'[a].types = r
       /\ \A g \in Addresses \ {a} : heap'[g] = heap[g]
  BY <1>3, <1>4 DEF TypesInv, HeapInv
<1>11. a \in Mine(t) /\ a \notin canonicalGroups
  BY <1>0, <1>3 DEF Mine, CurrentIsMine, TypesInv, OwnershipInv
<1>12. CallInv(t) /\ StructuresInv
  BY <1>3 DEF TableInv
<1>13. /\ IsProgram(p) /\ Len(p) \in Nat /\ j \in 1..Len(p) /\ Size(t) = Len(p)
       /\ Len(results) = j - 1
       /\ e \in [1..Len(p) -> Addresses]
       /\ \A g, h \in 1..Len(p) : g # h => e[g] # e[h]
       /\ a = e[j]
       /\ \A g \in 1..(j - 1) : results[g] \in canonicalGroups
  BY <1>0, <1>3, <1>4, <1>5, <1>6, <1>7, <1>8, <1>12 DEF CallInv, LoopInv, Size, Current
<1>14. \A g \in 1..Len(p) : Stands(t)[g] = names[e[g]]
  <2> SUFFICES ASSUME NEW g \in 1..Len(p)
               PROVE  Stands(t)[g] = names[e[g]]
    OBVIOUS
  <2>1. Renamed(t, e[g]) = IF g <= Len(results) THEN results[g] ELSE e[g]
    BY <1>4, <1>6, <1>8, <1>13 DEF NamesInv
  <2>2. names[e[g]] = Renamed(t, e[g])
    BY <1>00, <1>13
  <2>3. Stands(t)[g] = IF g <= Len(results) THEN results[g] ELSE e[g]
    BY <1>6, <1>8, <1>13 DEF Stands
  <2> QED BY <2>1, <2>2, <2>3
<1>15. \A g \in Named(p[j]) : g \in 1..Len(p)
  BY <1>13, ProgramFacts DEF Named
<1>16. r = MapReferences(p[j], Stands(t))
  <2>1. j \in Pending(t)
    BY <1>3, <1>7, <1>13 DEF Pending
  <2>2. heap[a].types = MapReferences(p[j], e)
    BY <1>5, <1>6, <1>12, <1>13, <2>1 DEF CallInv
  <2>3. \A g \in Named(p[j]) : Stands(t)[g] = names[e[g]]
    BY <1>14, <1>15
  <2>4. MapReferences(MapReferences(p[j], e), names) = MapReferences(p[j], Stands(t))
    BY <2>3, MapTwice
  <2> QED BY <1>1, <2>2, <2>4
<1>17. \A g \in 1..Len(p) :
           /\ g < j => Stands(t)[g] = results[g] /\ results[g] \in canonicalGroups
           /\ g >= j => Stands(t)[g] = e[g]
           /\ Stands(t)[g] \in Addresses
  <2> SUFFICES ASSUME NEW g \in 1..Len(p)
               PROVE  /\ g < j => Stands(t)[g] = results[g] /\ results[g] \in canonicalGroups
                      /\ g >= j => Stands(t)[g] = e[g]
                      /\ Stands(t)[g] \in Addresses
    OBVIOUS
  <2>1. Stands(t)[g] = IF g <= Len(results) THEN results[g] ELSE e[g]
    BY <1>6, <1>8, <1>13 DEF Stands
  <2>2. g <= Len(results) <=> g < j
    BY <1>13
  <2>3. canonicalGroups \subseteq Addresses
    BY DEF TypesInv, CanonicalInv
  <2>4. CASE g < j
    BY <1>13, <2>1, <2>2, <2>3, <2>4
  <2>5. CASE g >= j
    BY <1>13, <2>1, <2>2, <2>5
  <2> QED BY <1>13, <2>4, <2>5
<1>18. ASSUME NEW g \in 1..Len(p)
       PROVE  heap[Stands(t)[g]].temp /\ Stands(t)[g] # a <=> g > j
  <2>1. CASE g < j
    <3>1. heap[results[g]].temp = FALSE
      <4>1. mutex # t
        BY <1>3 DEF TypesInv
      <4>2. g \in 1..Len(results)
        BY <1>13, <2>1
      <4> QED BY <1>4, <1>8, <4>1, <4>2 DEF ResultsInv
    <3>2. Stands(t)[g] = results[g]
      BY <1>17, <2>1
    <3>3. ~(g > j)
      BY <1>13, <2>1
    <3> QED BY <3>1, <3>2, <3>3
  <2>2. CASE g = j
    <3>1. Stands(t)[g] = a /\ ~(g > j)
      BY <1>13, <1>17, <2>2
    <3> QED BY <3>1
  <2>3. CASE g > j
    <3>1. Stands(t)[g] = e[g] /\ e[g] # a
      BY <1>13, <1>17, <2>3
    <3>2. e[g] \in Ahead(t)
      BY <1>6, <1>7, <1>13, <2>3 DEF Ahead
    <3>3. heap[e[g]].temp = TRUE
      BY <1>4, <3>2 DEF InputInv
    <3> QED BY <2>3, <3>1, <3>3
  <2> QED BY <1>13, <2>1, <2>2, <2>3
<1>19. forward = \E g \in Named(p[j]) : g > j
  <2>1. forward = \E h \in Named(r) : heap[h].temp /\ h # a
    BY <1>2 DEF Named
  <2>2. Named(r) = {Stands(t)[g] : g \in Named(p[j])}
    BY <1>16, NamedMapped
  <2> QED BY <1>15, <1>18, <2>1, <2>2
<1>20. /\ Size(t)' = Len(p) /\ Current(t)' = a
       /\ Stands(t)' = Stands(t)
       /\ \A i \in Pending(t)' : i \in Pending(t) /\ i > j /\ e[i] # a
  <2>1. Size(t)' = Len(p) /\ Current(t)' = a
    BY <1>9, <1>13 DEF Size, Current
  <2>2. Stands(t)' = Stands(t)
    BY <1>6, <1>8, <1>9, <1>13, <2>1 DEF Stands
  <2>3. builder'[t].pc # "prepare"
    BY <1>9
  <2>4. \A i \in Pending(t)' : i \in Pending(t) /\ i > j
    BY <1>7, <1>9, <1>13, <2>1, <2>3 DEF Pending
  <2>5. \A i \in Pending(t)' : e[i] # a
    BY <1>13, <2>1, <2>4 DEF Pending
  <2> QED BY <2>1, <2>2, <2>4, <2>5
<1>21. StructuresInv' /\ Structures' = Structures
  <2>1. r \in GroupsOver(Addresses)
    <3>1. p[j] \in GroupsOver(1..Len(p))
      BY <1>13, ProgramFacts
    <3>2. \A x \in References(p[j]) : Stands(t)[x.group] \in Addresses
      BY <1>15, <1>17 DEF Named
    <3> QED BY <1>16, <3>1, <3>2, MapOver
  <2>2. \A g \in Addresses : heap'[g].types \in GroupsOver(Addresses)
    BY <1>10, <1>12, <2>1 DEF StructuresInv
  <2>3. canonicalGroups \subseteq Addresses
    BY DEF TypesInv, CanonicalInv
  <2>4. \A g \in canonicalGroups : heap'[g].types = heap[g].types
    BY <1>10, <1>11, <2>3
  <2> QED BY <1>3, <1>12, <2>2, <2>4, StructuresKept
<1>22. CallInv(t)'
  <2>1. \A i \in 1..Len(results) : Structures'[results[i]] = Meaning(p)[i]
    BY <1>5, <1>8, <1>12, <1>21 DEF CallInv
  <2>2. \A i \in Pending(t)' : heap'[e[i]].types = MapReferences(p[i], e)
    <3> SUFFICES ASSUME NEW i \in Pending(t)'
                 PROVE  heap'[e[i]].types = MapReferences(p[i], e)
      OBVIOUS
    <3>1. i \in Pending(t) /\ e[i] # a
      BY <1>20
    <3>2. i \in 1..Len(p)
      BY <1>13, <3>1 DEF Pending
    <3>3. heap'[e[i]] = heap[e[i]]
      BY <1>10, <1>13, <3>1, <3>2
    <3>4. heap[e[i]].types = MapReferences(p[i], e)
      BY <1>5, <1>6, <1>12, <3>1 DEF CallInv
    <3> QED BY <3>3, <3>4
  <2>3. ~forward => \A g \in Named(p[j]) : g <= j
    BY <1>13, <1>15, <1>19
  <2>4. heap'[a].types = MapReferences(p[j], Stands(t))
    BY <1>10, <1>16
  <2>5. Len(p) > 1 => ~Collide(Meaning(p), j - 1)
    BY <1>3, <1>5, <1>7, <1>12 DEF CallInv
  <2>6. forward => Refused(Meaning(p), Len(results))
    <3> SUFFICES ASSUME forward
                 PROVE  Refused(Meaning(p), Len(results))
      OBVIOUS
    <3>1. PICK g \in Named(p[j]) : g > j
      BY <1>19
    <3>2. LooksAhead(Meaning(p), j - 1)
      BY <1>13, <3>1, LaterMeans
    <3>3. Len(Meaning(p)) > 1
      BY <1>13, <1>15, <3>1, MeaningFacts
    <3> QED BY <1>13, <3>2, <3>3 DEF Refused
  <2>7. (builder'[t].pc = "insert" <=> ~forward) /\ (builder'[t].pc = "done" <=> forward)
    BY <1>9
  <2> QED BY <1>9, <1>13, <1>20, <2>1, <2>2, <2>3, <2>4, <2>5, <2>6, <2>7 DEF CallInv
<1>23. \A u \in Threads \ {t} : builder'[u].pc # "idle" => CallInv(u)'
  <2>1. \A u \in Threads \ {t} : \A g \in Mine(u) : heap'[g].types = heap[g].types
    BY <1>10, <1>11 DEF TypesInv, OwnershipInv
  <2> QED BY <1>9, <1>21, <2>1, OtherCalls
<1> QED BY <1>21, <1>22, <1>23 DEF TableInv

\* The lock is taken and the group found: results go on with c.
Reused(t, c) ==
    /\ c \in canonicalGroups /\ SameGroup(Current(t), c, Content)
    /\ canonicalGroups' = canonicalGroups
    /\ builder'[t].pc = "unique" /\ builder'[t].results = Append(builder[t].results, c)

\* Or it is made canonical.
Inserted(t) ==
    /\ \A c \in canonicalGroups : ~SameGroup(Current(t), c, Content)
    /\ canonicalGroups' = canonicalGroups \cup {Current(t)}
    /\ builder'[t].pc = "publish"
    /\ builder'[t].results = Append(builder[t].results, Current(t))

LEMMA InsertCases ==
    ASSUME TypesInv, NEW t \in Threads, Insert(t)
    PROVE  /\ builder[t].pc = "insert" /\ heap' = heap
           /\ builder'[t].program = builder[t].program
           /\ builder'[t].entries = builder[t].entries
           /\ builder'[t].group = builder[t].group
           /\ \A u \in Threads \ {t} : builder'[u] = builder[u]
           /\ Inserted(t) \/ \E c \in canonicalGroups : Reused(t, c)
<1>0. builder[t].pc = "insert" /\ heap' = heap
  BY DEF Insert
<1>1. builder[t] = Record(builder[t]) /\ DOMAIN builder = Threads
  BY DEF TypesInv
<1>2. CASE \E c \in canonicalGroups : SameGroup(Current(t), c, Content)
  <2>1. PICK c : c = CHOOSE d \in canonicalGroups : SameGroup(Current(t), d, Content)
    OBVIOUS
  <2>2. c \in canonicalGroups /\ SameGroup(Current(t), c, Content)
    BY <1>2, <2>1
  <2>3. PICK known : builder' = [builder EXCEPT
                          ![t].pc = "unique",
                          ![t].results = Append(@, c),
                          ![t].canonicalized = known]
    BY <1>2, <2>1 DEF Insert
  <2>4. canonicalGroups' = canonicalGroups
    BY <1>2 DEF Insert
  <2>5. /\ builder'[t].program = builder[t].program
        /\ builder'[t].entries = builder[t].entries
        /\ builder'[t].group = builder[t].group
        /\ builder'[t].pc = "unique"
        /\ builder'[t].results = Append(builder[t].results, c)
        /\ \A u \in Threads \ {t} : builder'[u] = builder[u]
    BY <1>1, <2>3 DEF Record
  <2>6. Reused(t, c)
    BY <2>2, <2>4, <2>5 DEF Reused
  <2> QED BY <1>0, <2>2, <2>5, <2>6
<1>3. CASE \A c \in canonicalGroups : ~SameGroup(Current(t), c, Content)
  <2>1. PICK a : a = Current(t)
    OBVIOUS
  <2>2. builder' = [builder EXCEPT ![t].pc = "publish", ![t].results = Append(@, a)]
    BY <1>3, <2>1 DEF Insert
  <2>3. canonicalGroups' = canonicalGroups \cup {a}
    BY <1>3, <2>1 DEF Insert
  <2>4. /\ builder'[t].program = builder[t].program
        /\ builder'[t].entries = builder[t].entries
        /\ builder'[t].group = builder[t].group
        /\ builder'[t].pc = "publish"
        /\ builder'[t].results = Append(builder[t].results, a)
        /\ \A u \in Threads \ {t} : builder'[u] = builder[u]
    BY <1>1, <2>2 DEF Record
  <2>5. Inserted(t)
    BY <1>3, <2>1, <2>3, <2>4 DEF Inserted
  <2> QED BY <1>0, <2>4, <2>5
<1> QED BY <1>2, <1>3

\* A group that is found has the structure that is meant.
LEMMA ReusedMeant ==
    ASSUME TypesInv, TableInv, NEW t \in Threads, builder[t].pc = "insert",
           NEW c, Reused(t, c)
    PROVE  Structures[c] = Meaning(builder[t].program)[builder[t].group]
<1>1. c \in canonicalGroups /\ SameGroup(Current(t), c, Content)
  BY DEF Reused
<1>2. StructuresInv
  BY DEF TableInv
<1> QED BY <1>1, <1>2, ImageMeant, SameWhole

\* A group that is made has it as well, and has it alone.
LEMMA InsertedMeant ==
    ASSUME TypesInv, TableInv, NEW t \in Threads, builder[t].pc = "insert",
           heap' = heap, Inserted(t)
    PROVE  /\ StructuresInv'
           /\ \A g \in canonicalGroups : Structures'[g] = Structures[g]
           /\ Structures'[Current(t)] = Meaning(builder[t].program)[builder[t].group]
           /\ \A g \in canonicalGroups : Structures'[Current(t)] # Structures[g]
<1>1. PICK a : a = Current(t)
  OBVIOUS
<1>2. /\ a \in Addresses /\ a \notin canonicalGroups
      /\ Named(heap[a].types) \subseteq canonicalGroups \cup {a}
      /\ Image(a) = Meaning(builder[t].program)[builder[t].group]
  BY <1>1, ImageMeant
<1>3. StructuresInv
  BY DEF TableInv
<1>4. /\ \A c \in canonicalGroups : ~SameGroup(a, c, Content)
      /\ canonicalGroups' = canonicalGroups \cup {a}
  BY <1>1 DEF Inserted
<1>5. \A c \in canonicalGroups : Structures[c] # Image(a)
  BY <1>2, <1>3, <1>4, SameWhole
<1>6. PICK r : r = heap[a].types
  OBVIOUS
<1>7. DOMAIN Store = canonicalGroups
  BY DEF Store
<1>8. Store' = With(Store, a, r)
  <2>1. Store' = [g \in canonicalGroups \cup {a} |-> heap[g].types]
    BY <1>4 DEF Store
  <2>2. With(Store, a, r) = [g \in canonicalGroups \cup {a} |->
                                IF g = a THEN r ELSE Store[g]]
    BY <1>7 DEF With
  <2>3. \A g \in canonicalGroups : Store[g] = heap[g].types
    BY DEF Store
  <2>4. \A g \in canonicalGroups \cup {a} :
            heap[g].types = IF g = a THEN r ELSE Store[g]
    BY <1>6, <2>3
  <2> QED BY <2>1, <2>2, <2>4
<1>9. Structures' = Unfold(Store')
  BY StructuresUnfold DEF Structures, Store
<1>10. PICK more : more = Store'
  OBVIOUS
<1>11. /\ Closed(Store) /\ Grounded(Store) /\ Solves(Unfold(Store), Store)
       /\ Structures = Unfold(Store)
  BY <1>3, StructuresUnfold DEF StructuresInv
<1>12. /\ Solves(Unfold(more), more)
       /\ \A g \in DOMAIN Store : Unfold(more)[g] = Unfold(Store)[g]
       /\ Unfold(more)[a] = MapReferences(r, Unfolded(Unfold(Store), DOMAIN Store \cup {a}, a))
  <2>1. more = With(Store, a, r) /\ a \notin DOMAIN Store
    BY <1>2, <1>7, <1>8, <1>10
  <2>2. Named(r) \subseteq DOMAIN Store \cup {a}
    BY <1>2, <1>6, <1>7
  <2> QED BY <1>11, <2>1, <2>2, UnfoldWith
<1>13. Closed(more) /\ Grounded(more)
  <2>1. more = With(Store, a, r) /\ a \notin DOMAIN Store
    BY <1>2, <1>7, <1>8, <1>10
  <2>2. Named(r) \subseteq DOMAIN Store \cup {a}
    BY <1>2, <1>6, <1>7
  <2> QED BY <1>11, <2>1, <2>2, WithGrounded
<1>14. /\ \A g \in canonicalGroups : Structures'[g] = Structures[g]
       /\ Structures'[a] = Image(a)
  BY <1>6, <1>7, <1>9, <1>10, <1>11, <1>12 DEF Image
<1>15. \A g, c \in canonicalGroups' : Structures'[g] = Structures'[c] => g = c
  <2>1. \A g, c \in canonicalGroups : Structures[g] = Structures[c] => g = c
    BY <1>3 DEF StructuresInv
  <2> QED BY <1>4, <1>5, <1>14, <2>1
<1>16. StructuresInv'
  <2>1. \A g \in Addresses : heap'[g].types \in GroupsOver(Addresses)
    BY <1>3 DEF StructuresInv
  <2>2. Closed(Store') /\ Grounded(Store') /\ Solves(Structures', Store')
    BY <1>9, <1>10, <1>12, <1>13
  <2> QED BY <1>15, <2>1, <2>2 DEF StructuresInv
<1> QED BY <1>1, <1>2, <1>5, <1>14, <1>16

\* The results, with one more that is what is meant.
LEMMA TableInsert ==
    ASSUME TypesInv, TableInv, NEW t \in Threads, Insert(t)
    PROVE  TableInv'
<1>1. /\ builder[t].pc = "insert" /\ heap' = heap
      /\ builder'[t].program = builder[t].program
      /\ builder'[t].entries = builder[t].entries
      /\ builder'[t].group = builder[t].group
      /\ \A u \in Threads \ {t} : builder'[u] = builder[u]
      /\ Inserted(t) \/ \E c \in canonicalGroups : Reused(t, c)
  BY InsertCases
<1>2. PICK p : p = builder[t].program
  OBVIOUS
<1>3. PICK j : j = builder[t].group
  OBVIOUS
<1>4. CallInv(t) /\ LoopInv(t) /\ StructuresInv
  BY <1>1, InCall DEF TableInv
<1>5. PICK results : results = builder[t].results
  OBVIOUS
<1>6. /\ Len(results) = j - 1 /\ results \in Seq(canonicalGroups)
      /\ j \in 1..Len(p) /\ Len(p) \in Nat /\ Size(t) = Len(p)
  BY <1>1, <1>2, <1>3, <1>4, <1>5 DEF LoopInv, Size
<1>7. PICK c : /\ builder'[t].results = Append(results, c)
               /\ builder'[t].pc \in {"unique", "publish"}
               /\ StructuresInv'
               /\ Structures'[c] = Meaning(p)[j]
               /\ \A g \in canonicalGroups : Structures'[g] = Structures[g]
  <2>1. CASE Inserted(t)
    <3>1. /\ builder'[t].results = Append(results, Current(t))
          /\ builder'[t].pc \in {"unique", "publish"}
      BY <1>5, <2>1 DEF Inserted
    <3> QED BY <1>1, <1>2, <1>3, <2>1, <3>1, InsertedMeant
  <2>2. ASSUME NEW c \in canonicalGroups, Reused(t, c)
        PROVE  /\ builder'[t].results = Append(results, c)
               /\ builder'[t].pc \in {"unique", "publish"}
               /\ StructuresInv'
               /\ Structures'[c] = Meaning(p)[j]
               /\ \A g \in canonicalGroups : Structures'[g] = Structures[g]
    <3>1. /\ builder'[t].results = Append(results, c)
          /\ builder'[t].pc \in {"unique", "publish"}
          /\ canonicalGroups' = canonicalGroups
      BY <1>5, <2>2 DEF Reused
    <3>2. Structures[c] = Meaning(p)[j]
      BY <1>1, <1>2, <1>3, <2>2, ReusedMeant
    <3>3. StructuresInv' /\ Structures' = Structures
      BY <1>1, <1>4, <3>1, StructuresKept DEF StructuresInv
    <3> QED BY <3>1, <3>2, <3>3
  <2> QED BY <1>1, <2>1, <2>2
<1>8. \A i \in 1..Len(builder'[t].results) : Structures'[builder'[t].results[i]] = Meaning(p)[i]
  <2>1. /\ Len(Append(results, c)) = j
        /\ \A i \in 1..(j - 1) : Append(results, c)[i] = results[i]
        /\ Append(results, c)[j] = c
    BY <1>6
  <2>2. \A i \in 1..(j - 1) : results[i] \in canonicalGroups
    BY <1>6
  <2>3. \A i \in 1..(j - 1) : Structures[results[i]] = Meaning(p)[i]
    BY <1>2, <1>4, <1>5, <1>6 DEF CallInv
  <2> QED BY <1>6, <1>7, <2>1, <2>2, <2>3
<1>9. CallInv(t)'
  <2>1. Size(t)' = Size(t) /\ Pending(t)' \subseteq Pending(t)
    BY <1>1, <1>7 DEF Size, Pending
  <2>2. IsProgram(p) /\ (Len(p) > 1 => ~Collide(Meaning(p), j - 1))
    BY <1>1, <1>2, <1>3, <1>4 DEF CallInv
  <2>3. \A i \in Pending(t)' :
            heap'[builder[t].entries[i]].types = MapReferences(p[i], builder[t].entries)
    BY <1>1, <1>2, <1>4, <2>1 DEF CallInv
  <2>4. builder'[t].pc # "insert" /\ builder'[t].pc # "done"
    BY <1>7
  <2> QED BY <1>1, <1>2, <1>3, <1>8, <2>2, <2>3, <2>4 DEF CallInv
<1>10. \A u \in Threads \ {t} : builder'[u].pc # "idle" => CallInv(u)'
  BY <1>1, <1>7, OtherCalls
<1> QED BY <1>7, <1>9, <1>10 DEF TableInv

LEMMA TablePublish ==
    ASSUME TypesInv, TableInv, NEW t \in Threads, Publish(t)
    PROVE  TableInv' /\ Structures' = Structures
<1>1. PICK a : a = Current(t)
  OBVIOUS
<1>2. /\ builder[t].pc = "publish"
      /\ heap' = [heap EXCEPT ![a].temp = FALSE]
      /\ builder' = [builder EXCEPT ![t].pc = "unique"]
      /\ canonicalGroups' = canonicalGroups
  BY <1>1 DEF Publish
<1>3. builder[t] = Record(builder[t]) /\ DOMAIN builder = Threads
  BY DEF TypesInv
<1>4. /\ builder'[t].pc = "unique"
      /\ builder'[t].program = builder[t].program
      /\ builder'[t].entries = builder[t].entries
      /\ builder'[t].group = builder[t].group
      /\ builder'[t].results = builder[t].results
      /\ \A u \in Threads \ {t} : builder'[u] = builder[u]
  BY <1>2, <1>3 DEF Record
<1>5. \A g \in Addresses : heap'[g].types = heap[g].types
  BY <1>2 DEF TypesInv, HeapInv
<1>6. CallInv(t) /\ LoopInv(t) /\ StructuresInv
  BY <1>2, InCall DEF TableInv
<1>7. StructuresInv' /\ Structures' = Structures
  <2>1. \A g \in Addresses : heap'[g].types \in GroupsOver(Addresses)
    BY <1>5, <1>6 DEF StructuresInv
  <2>2. \A g \in canonicalGroups : heap'[g].types = heap[g].types
    BY <1>5 DEF TypesInv, CanonicalInv
  <2> QED BY <1>2, <1>6, <2>1, <2>2, StructuresKept
<1>8. CallInv(t)'
  <2>1. Size(t)' = Size(t) /\ Pending(t)' \subseteq Pending(t)
    BY <1>4 DEF Size, Pending
  <2>2. \A i \in Pending(t) : builder[t].entries[i] \in Addresses
    BY <1>6 DEF Pending, LoopInv
  <2>3. \A i \in Pending(t)' :
            heap'[builder[t].entries[i]].types
               = MapReferences(builder[t].program[i], builder[t].entries)
    BY <1>5, <1>6, <2>1, <2>2 DEF CallInv
  <2>4. builder[t].pc # "insert" /\ builder[t].pc # "done"
    BY <1>2
  <2> QED BY <1>4, <1>6, <1>7, <2>3, <2>4 DEF CallInv
<1>9. \A u \in Threads \ {t} : builder'[u].pc # "idle" => CallInv(u)'
  <2>1. \A u \in Threads \ {t} : \A g \in Mine(u) : heap'[g].types = heap[g].types
    BY <1>5 DEF TypesInv, OwnershipInv
  <2> QED BY <1>4, <1>7, <2>1, OtherCalls
<1> QED BY <1>7, <1>8, <1>9 DEF TableInv

\* The uniqueness check sees a collision just if the structures meant collide.
LEMMA TableUnique ==
    ASSUME TypesInv, TableInv, NEW t \in Threads, Unique(t)
    PROVE  TableInv' /\ Structures' = Structures
<1>1. PICK a : a = Current(t)
  OBVIOUS
<1>2. PICK p : p = builder[t].program
  OBVIOUS
<1>3. PICK j : j = builder[t].group
  OBVIOUS
<1>4. PICK results : results = builder[t].results
  OBVIOUS
<1>5. PICK e : e = builder[t].entries
  OBVIOUS
<1>6. PICK V : V = Meaning(p)
  OBVIOUS
<1>7. PICK conflict : conflict = (/\ Len(p) > 1
                                  /\ \E k \in 1..(j - 1) :
                                        /\ results[k] # results[j]
                                        /\ SameGroup(results[k], results[j], Shape))
  OBVIOUS
<1>8. PICK more : more = (~conflict /\ j < Len(p))
  OBVIOUS
<1>9. /\ builder[t].pc = "unique"
      /\ builder' = [builder EXCEPT ![t].pc = IF more THEN "prepare" ELSE "done",
                                    ![t].group = IF more THEN @ + 1 ELSE @,
                                    ![t].failed = conflict]
      /\ heap' = IF results[j] = a THEN heap ELSE [heap EXCEPT ![a] = Free]
      /\ canonicalGroups' = canonicalGroups
  BY <1>1, <1>2, <1>3, <1>4, <1>7, <1>8 DEF Unique
<1>10. /\ builder'[t].pc = (IF more THEN "prepare" ELSE "done")
       /\ builder'[t].group = (IF more THEN j + 1 ELSE j)
       /\ builder'[t].program = p /\ builder'[t].entries = e
       /\ builder'[t].results = results
       /\ \A u \in Threads \ {t} : builder'[u] = builder[u]
  <2>1. builder[t] = Record(builder[t]) /\ DOMAIN builder = Threads
    BY DEF TypesInv
  <2> QED BY <1>2, <1>3, <1>4, <1>5, <1>9, <2>1 DEF Record
<1>11. CallInv(t) /\ LoopInv(t) /\ StructuresInv /\ a \in Addresses
  BY <1>1, <1>9, InCall DEF TableInv
<1>12. /\ IsProgram(p) /\ Len(p) \in Nat /\ j \in 1..Len(p) /\ Size(t) = Len(p)
       /\ results \in Seq(canonicalGroups) /\ Len(results) = j
       /\ e \in [1..Len(p) -> Addresses]
       /\ \A g, h \in 1..Len(p) : g # h => e[g] # e[h]
       /\ a = e[j]
  BY <1>1, <1>2, <1>3, <1>4, <1>5, <1>9, <1>11 DEF CallInv, LoopInv, Size, Current
<1>13. \A k \in 1..j : results[k] \in canonicalGroups /\ Structures[results[k]] = V[k]
  <2>1. \A k \in 1..j : results[k] \in canonicalGroups
    BY <1>12
  <2> QED BY <1>2, <1>4, <1>6, <1>11, <1>12, <2>1 DEF CallInv
<1>14. results[j] # a => a \in Mine(t) /\ a \notin canonicalGroups
  BY <1>1, <1>3, <1>4, <1>9 DEF Mine, CurrentIsMine, TypesInv, OwnershipInv
<1>15. /\ \A g \in Addresses \ {a} : heap'[g] = heap[g]
       /\ heap'[a] = heap[a] \/ (heap'[a] = Free /\ results[j] # a)
  BY <1>9, <1>11 DEF TypesInv, HeapInv
<1>16. \A k \in 1..(j - 1) :
           results[k] # results[j] /\ SameGroup(results[k], results[j], Shape)
              <=> V[k] # V[j] /\ Erased(V[k]) = Erased(V[j])
  <2> SUFFICES ASSUME NEW k \in 1..(j - 1)
               PROVE  results[k] # results[j] /\ SameGroup(results[k], results[j], Shape)
                         <=> V[k] # V[j] /\ Erased(V[k]) = Erased(V[j])
    OBVIOUS
  <2>1. k \in 1..j /\ j \in 1..j
    BY <1>12
  <2>2. PICK x \in canonicalGroups : x = results[k] /\ Structures[x] = V[k]
    BY <1>13, <2>1
  <2>3. PICK y \in canonicalGroups : y = results[j] /\ Structures[y] = V[j]
    BY <1>13, <2>1
  <2>4. SameGroup(x, y, Shape) <=> Erased(Structures[x]) = Erased(Structures[y])
    BY <1>11, SameErased
  <2>5. x = y <=> Structures[x] = Structures[y]
    BY <1>11 DEF StructuresInv
  <2> QED BY <2>2, <2>3, <2>4, <2>5
<1>17. Len(p) > 1 => ~Collide(V, j - 1)
  BY <1>2, <1>3, <1>6, <1>9, <1>11 DEF CallInv
<1>18. conflict <=> Len(p) > 1 /\ Collide(V, j)
  <2>1. ASSUME conflict
        PROVE  Len(p) > 1 /\ Collide(V, j)
    <3>1. PICK k \in 1..(j - 1) : V[k] # V[j] /\ Erased(V[k]) = Erased(V[j])
      BY <1>7, <1>16, <2>1
    <3>2. k \in 1..j /\ j \in 1..j
      BY <1>12
    <3> QED BY <1>7, <2>1, <3>1, <3>2 DEF Collide
  <2>2. ASSUME Len(p) > 1, Collide(V, j)
        PROVE  conflict
    <3>1. PICK k \in 1..j, h \in 1..j : V[k] # V[h] /\ Erased(V[k]) = Erased(V[h])
      BY <2>2 DEF Collide
    <3>2. ~(k \in 1..(j - 1) /\ h \in 1..(j - 1))
      BY <1>17, <2>2, <3>1 DEF Collide
    <3>3. k # h
      BY <3>1
    <3>4. \/ k = j /\ h \in 1..(j - 1)
          \/ h = j /\ k \in 1..(j - 1)
      BY <1>12, <3>2, <3>3
    <3>5. \E g \in 1..(j - 1) : V[g] # V[j] /\ Erased(V[g]) = Erased(V[j])
      BY <3>1, <3>4
    <3> QED BY <1>7, <1>16, <2>2, <3>5
  <2> QED BY <2>1, <2>2
<1>19. StructuresInv' /\ Structures' = Structures
  <2>1. Free.types \in GroupsOver(Addresses)
    <3>1. Free.types = <<>>
      BY DEF Free
    <3> QED BY <3>1, EmptySeq DEF GroupsOver
  <2>2. \A g \in Addresses : heap'[g].types \in GroupsOver(Addresses)
    BY <1>11, <1>15, <2>1 DEF StructuresInv
  <2>3. canonicalGroups \subseteq Addresses
    BY DEF TypesInv, CanonicalInv
  <2>4. \A g \in canonicalGroups : heap'[g].types = heap[g].types
    BY <1>14, <1>15, <2>3
  <2> QED BY <1>9, <1>11, <2>2, <2>4, StructuresKept
<1>20. CallInv(t)'
  <2>1. Size(t)' = Len(p)
    BY <1>10 DEF Size
  <2>2. \A i \in Pending(t)' : i \in 1..Len(p) /\ i > j
    BY <1>10, <1>12, <2>1 DEF Pending
  <2>3. \A i \in Pending(t)' : heap'[e[i]].types = MapReferences(p[i], e)
    <3> SUFFICES ASSUME NEW i \in Pending(t)'
                 PROVE  heap'[e[i]].types = MapReferences(p[i], e)
      OBVIOUS
    <3>1. i \in 1..Len(p) /\ i > j
      BY <2>2
    <3>2. i \in Pending(t)
      BY <1>3, <1>12, <3>1 DEF Pending
    <3>3. heap[e[i]].types = MapReferences(p[i], e)
      BY <1>2, <1>5, <1>11, <3>2 DEF CallInv
    <3>4. e[i] \in Addresses \ {a}
      BY <1>12, <3>1
    <3> QED BY <1>15, <3>3, <3>4
  <2>4. \A i \in 1..Len(results) : Structures'[results[i]] = Meaning(p)[i]
    BY <1>6, <1>12, <1>13, <1>19
  <2>5. CASE more
    <3>1. builder'[t].pc = "prepare" /\ builder'[t].group = j + 1 /\ (j + 1) - 1 = j
      BY <1>10, <1>12, <2>5
    <3>2. Len(p) > 1 => ~Collide(Meaning(p), (j + 1) - 1)
      BY <1>6, <1>8, <1>18, <2>5, <3>1
    <3> QED BY <1>10, <1>12, <2>3, <2>4, <3>1, <3>2 DEF CallInv
  <2>6. CASE ~more
    <3>1. builder'[t].pc = "done"
      BY <1>10, <2>6
    <3>2. Len(results) = Len(p) \/ Refused(Meaning(p), Len(results))
      <4>1. CASE conflict
        <5>1. Len(V) = Len(p)
          BY <1>6, <1>12, MeaningFacts
        <5> QED BY <1>6, <1>12, <1>18, <4>1, <5>1 DEF Refused
      <4>2. CASE ~conflict
        <5>1. ~(j < Len(p))
          BY <1>8, <2>6, <4>2
        <5> QED BY <1>12, <5>1
      <4> QED BY <4>1, <4>2, Zenon
    <3> QED BY <1>10, <1>12, <2>3, <2>4, <3>1, <3>2 DEF CallInv
  <2> QED BY <2>5, <2>6
<1>21. \A u \in Threads \ {t} : builder'[u].pc # "idle" => CallInv(u)'
  <2>1. \A u \in Threads \ {t} : \A g \in Mine(u) : heap'[g].types = heap[g].types
    <3> SUFFICES ASSUME NEW u \in Threads \ {t}, NEW g \in Mine(u)
                 PROVE  heap'[g].types = heap[g].types
      OBVIOUS
    <3>1. g \in Addresses /\ Mine(t) \cap Mine(u) = {}
      BY DEF TypesInv, OwnershipInv
    <3> QED BY <1>14, <1>15, <3>1
  <2> QED BY <1>10, <1>19, <2>1, OtherCalls
<1> QED BY <1>19, <1>20, <1>21 DEF TableInv

LEMMA TableReturn ==
    ASSUME TypesInv, TableInv, NEW t \in Threads, Return(t)
    PROVE  TableInv' /\ Structures' = Structures
<1>1. PICK owned : owned = {builder[t].entries[i] :
                               i \in (builder[t].group + 1)..Len(builder[t].entries)}
                           \cup (IF Len(builder[t].results) < builder[t].group
                                 THEN {Current(t)} ELSE {})
  OBVIOUS
<1>2. /\ builder[t].pc = "done"
      /\ builder' = [builder EXCEPT ![t] = Idle]
      /\ heap' = [a \in Addresses |-> IF a \in owned THEN Free ELSE heap[a]]
      /\ canonicalGroups' = canonicalGroups
  BY <1>1 DEF Return
<1>3. LoopInv(t)
  BY <1>2, InCall
<1>4. owned \subseteq Mine(t)
  <2>1. Len(builder[t].entries) = Size(t)
    BY <1>3, AsSeq DEF LoopInv
  <2> QED BY <1>1, <1>2, <2>1 DEF Mine, Ahead, CurrentIsMine
<1>5. /\ builder'[t].pc = "idle"
      /\ \A u \in Threads \ {t} : builder'[u] = builder[u]
  BY <1>2 DEF TypesInv, Idle, Begun
<1>6. StructuresInv
  BY DEF TableInv
<1>7. StructuresInv' /\ Structures' = Structures
  <2>1. Free.types \in GroupsOver(Addresses)
    <3>1. Free.types = <<>>
      BY DEF Free
    <3> QED BY <3>1, EmptySeq DEF GroupsOver
  <2>2. \A g \in Addresses : heap'[g].types \in GroupsOver(Addresses)
    BY <1>2, <1>6, <2>1 DEF StructuresInv
  <2>3. canonicalGroups \subseteq Addresses /\ Mine(t) \cap canonicalGroups = {}
    BY DEF TypesInv, CanonicalInv, OwnershipInv
  <2>4. \A g \in canonicalGroups : heap'[g].types = heap[g].types
    BY <1>2, <1>4, <2>3
  <2> QED BY <1>2, <1>6, <2>2, <2>4, StructuresKept
<1>8. \A u \in Threads \ {t} : builder'[u].pc # "idle" => CallInv(u)'
  <2>1. \A u \in Threads \ {t} : \A g \in Mine(u) : heap'[g].types = heap[g].types
    <3> SUFFICES ASSUME NEW u \in Threads \ {t}, NEW g \in Mine(u)
                 PROVE  heap'[g].types = heap[g].types
      OBVIOUS
    <3>1. g \in Addresses /\ Mine(t) \cap Mine(u) = {}
      BY DEF TypesInv, OwnershipInv
    <3> QED BY <1>2, <1>4, <3>1
  <2> QED BY <1>5, <1>7, <2>1, OtherCalls
<1> QED BY <1>5, <1>7, <1>8 DEF TableInv

\* Where a call starts, in fresh addresses, the others go on.
LEMMA TableStarts ==
    ASSUME TypesInv, TableInv, NEW t \in Threads,
           \A u \in Threads \ {t} : builder'[u] = builder[u],
           canonicalGroups' = canonicalGroups,
           \A a \in Addresses :
              /\ a \notin Addresses \ Allocated => heap'[a].types = heap[a].types
              /\ heap'[a].types \in GroupsOver(Addresses)
    PROVE  /\ StructuresInv' /\ Structures' = Structures
           /\ \A u \in Threads \ {t} : builder'[u].pc # "idle" => CallInv(u)'
<1>1. StructuresInv
  BY DEF TableInv
<1>2. StructuresInv' /\ Structures' = Structures
  <2>1. canonicalGroups \subseteq Addresses
    BY DEF TypesInv, CanonicalInv
  <2>2. \A g \in canonicalGroups : heap'[g].types = heap[g].types
    BY <2>1, FreshAddresses
  <2> QED BY <1>1, <2>2, StructuresKept
<1>3. \A u \in Threads \ {t} : \A g \in Mine(u) : heap'[g].types = heap[g].types
  <2> SUFFICES ASSUME NEW u \in Threads \ {t}, NEW g \in Mine(u)
               PROVE  heap'[g].types = heap[g].types
    OBVIOUS
  <2>1. g \in Addresses
    BY DEF TypesInv, OwnershipInv
  <2> QED BY <2>1, FreshAddresses
<1> QED BY <1>2, <1>3, OtherCalls

LEMMA NoCollision ==
    ASSUME NEW V
    PROVE  ~Collide(V, 0)
BY DEF Collide

LEMMA TableBegin ==
    ASSUME TypesInv, TableInv, NEW t \in Threads, NEW p \in Programs, Begin(t, p)
    PROVE  /\ TableInv' /\ Structures' = Structures
           /\ IsProgram(p)
           /\ builder'[t].program = p /\ builder'[t].results = <<>>
           /\ \A u \in Threads \ {t} : builder'[u] = builder[u]
<1> DEFINE n == Len(p)
<1>1. PICK e \in Placements(Addresses \ Allocated, n) :
          /\ builder' = [builder EXCEPT ![t] = Begun("prepare", p, e)]
          /\ heap' = [a \in Addresses |->
                IF \E i \in DOMAIN p : e[i] = a
                THEN LET i == CHOOSE i \in DOMAIN p : e[i] = a
                     IN  [temp |-> TRUE,
                          types |-> MapReferences(p[i], e)]
                ELSE heap[a]]
  BY DEF Begin
<1>2. canonicalGroups' = canonicalGroups
  BY DEF Begin
<1>3. IsProgram(p) /\ n \in Nat \ {0} /\ DOMAIN p = 1..n
  BY ProgramsAssumption, ProgramFacts
<1>4. /\ e \in [1..n -> Addresses \ Allocated]
      /\ \A i, j \in 1..n : i # j => e[i] # e[j]
  <2>1. Addresses \ Allocated \in SUBSET Addresses /\ n \in {1} \cup {Len(q) : q \in Programs}
    OBVIOUS
  <2> QED BY <2>1, PlacementsAssumption
<1> HIDE DEF n
<1>5. ASSUME NEW i \in 1..n
      PROVE  heap'[e[i]].types = MapReferences(p[i], e)
  <2>1. (CHOOSE j \in 1..n : e[j] = e[i]) = i
    BY <1>4
  <2>2. PICK m : m = MapReferences(p[i], e)
    OBVIOUS
  <2>3. e[i] \in Addresses
    BY <1>4
  <2>4. heap'[e[i]] = [temp |-> TRUE, types |-> m]
    BY <1>1, <1>3, <2>1, <2>2, <2>3
  <2>5. heap'[e[i]].types = m
    BY <2>4
  <2> QED BY <2>2, <2>5
<1>6. ASSUME NEW a \in Addresses
      PROVE  /\ a \notin Addresses \ Allocated => heap'[a].types = heap[a].types
             /\ heap'[a].types \in GroupsOver(Addresses)
  <2>1. CASE \E i \in 1..n : e[i] = a
    <3>1. PICK i \in 1..n : e[i] = a
      BY <2>1
    <3>2. heap'[a].types = MapReferences(p[i], e)
      BY <1>5, <3>1
    <3>3. p[i] \in GroupsOver(1..n) /\ \A x \in References(p[i]) : e[x.group] \in Addresses
      BY <1>3, <1>4, <3>1, ProgramFacts DEF n
    <3>4. heap'[a].types \in GroupsOver(Addresses)
      BY <3>2, <3>3, MapOver
    <3>5. a \in Addresses \ Allocated
      BY <1>4, <3>1
    <3> QED BY <3>4, <3>5
  <2>2. CASE \A i \in 1..n : e[i] # a
    <3>1. heap'[a] = heap[a]
      BY <1>1, <1>3, <2>2
    <3> QED BY <3>1 DEF TableInv, StructuresInv
  <2> QED BY <2>1, <2>2
<1>7. /\ builder'[t].pc = "prepare" /\ builder'[t].program = p
      /\ builder'[t].entries = e /\ builder'[t].group = 1
      /\ builder'[t].results = <<>>
      /\ \A u \in Threads \ {t} : builder'[u] = builder[u]
  BY <1>1 DEF TypesInv, Begun
<1>8. /\ StructuresInv' /\ Structures' = Structures
      /\ \A u \in Threads \ {t} : builder'[u].pc # "idle" => CallInv(u)'
  BY <1>2, <1>6, <1>7, TableStarts
<1>9. CallInv(t)'
  <2>1. Size(t)' = n
    BY <1>7 DEF Size, n
  <2>2. \A i \in Pending(t)' : i \in 1..n
    BY <2>1 DEF Pending
  <2>3. \A i \in Pending(t)' : heap'[e[i]].types = MapReferences(p[i], e)
    BY <1>5, <2>2
  <2>4. ~Collide(Meaning(p), 1 - 1)
    <3>1. 1 - 1 = 0
      OBVIOUS
    <3> QED BY <3>1, NoCollision
  <2>5. Len(builder'[t].results) = 0
    BY <1>7
  <2> QED BY <1>3, <1>7, <2>3, <2>4, <2>5 DEF CallInv
<1> QED BY <1>3, <1>7, <1>8, <1>9 DEF TableInv

\* The program that is one leaf.
LEMMA LeafProgram ==
    ASSUME NEW c \in Leaves, NEW r, r = <<[content |-> c, refs |-> <<>>]>>
    PROVE  /\ \A N : r \in GroupsOver(N)
           /\ Named(r) = {}
           /\ IsProgram(<<r>>) /\ Len(<<r>>) = 1 /\ <<r>>[1] = r
<1>1. PICK x : x = [content |-> c, refs |-> <<>>]
  OBVIOUS
<1>2. r = <<x>> /\ r # <<>>
  BY <1>1
<1>3. ASSUME NEW N
      PROVE  r \in GroupsOver(N)
  <2>1. PICK R : R = [group : N, index : Nat]
    OBVIOUS
  <2>2. <<>> \in Seq(R)
    BY EmptySeq
  <2>3. c \in DOMAIN Shape
    BY ContentsAssumption
  <2>4. PICK T : T = [content : DOMAIN Shape, refs : Seq(R)]
    OBVIOUS
  <2>5. x \in T
    BY <1>1, <2>2, <2>3, <2>4
  <2>6. <<x>> \in Seq(T)
    BY <2>5
  <2> QED BY <1>2, <2>1, <2>4, <2>6 DEF GroupsOver
<1>4. Named(r) = {}
  <2>1. DOMAIN r = {1} /\ r[1] = x /\ x.refs = <<>>
    BY <1>1, <1>2
  <2>2. DOMAIN r[1].refs = {}
    BY <2>1
  <2>3. References(r) = {}
    BY <2>1, <2>2 DEF References
  <2> QED BY <2>3 DEF Named
<1>5. PICK G : G = GroupsOver(1..1)
  OBVIOUS
<1>6. Len(<<r>>) = 1 /\ <<r>>[1] = r /\ DOMAIN <<r>> = 1..1 /\ <<r>> # <<>>
  OBVIOUS
<1>7. r \in G
  BY <1>3, <1>5
<1>8. <<r>> \in Seq(G)
  BY <1>7
<1>9. IsProgram(<<r>>)
  BY <1>2, <1>5, <1>6, <1>8 DEF IsProgram
<1> QED BY <1>3, <1>4, <1>6, <1>9

LEMMA TableConstruct ==
    ASSUME TypesInv, TableInv, NEW t \in Threads, NEW c \in Leaves, Construct(t, c)
    PROVE  /\ TableInv' /\ Structures' = Structures
           /\ IsProgram(builder'[t].program) /\ builder'[t].results = <<>>
           /\ \A u \in Threads \ {t} : builder'[u] = builder[u]
<1>0. PICK r : r = <<[content |-> c, refs |-> <<>>]>>
  OBVIOUS
<1>1. PICK e \in Placements(Addresses \ Allocated, 1) :
          /\ heap' = [heap EXCEPT ![e[1]] = [temp |-> FALSE, types |-> r]]
          /\ builder' = [builder EXCEPT ![t] = Begun("insert", <<r>>, e)]
  BY <1>0 DEF Construct
<1>2. canonicalGroups' = canonicalGroups
  BY DEF Construct
<1>3. e \in [1..1 -> Addresses \ Allocated]
  <2>1. Addresses \ Allocated \in SUBSET Addresses /\ 1 \in {1} \cup {Len(p) : p \in Programs}
    OBVIOUS
  <2> QED BY <2>1, PlacementsAssumption
<1>4. PICK a \in Addresses \ Allocated : a = e[1]
  BY <1>3
<1>5. /\ \A N : r \in GroupsOver(N)
      /\ Named(r) = {}
      /\ IsProgram(<<r>>) /\ Len(<<r>>) = 1 /\ <<r>>[1] = r
  BY <1>0, LeafProgram
<1>6. /\ heap'[a].types = r
      /\ \A g \in Addresses \ {a} : heap'[g] = heap[g]
  BY <1>1, <1>4 DEF TypesInv, HeapInv
<1>7. PICK p : p = <<r>>
  OBVIOUS
<1>8. /\ builder'[t].pc = "insert" /\ builder'[t].program = p
      /\ builder'[t].entries = e /\ builder'[t].group = 1
      /\ builder'[t].results = <<>>
      /\ \A u \in Threads \ {t} : builder'[u] = builder[u]
  BY <1>1, <1>7 DEF TypesInv, Begun
<1>9. /\ StructuresInv' /\ Structures' = Structures
      /\ \A u \in Threads \ {t} : builder'[u].pc # "idle" => CallInv(u)'
  <2>1. ASSUME NEW g \in Addresses
        PROVE  /\ g \notin Addresses \ Allocated => heap'[g].types = heap[g].types
               /\ heap'[g].types \in GroupsOver(Addresses)
    <3>1. CASE g = a
      BY <1>5, <1>6, <3>1
    <3>2. CASE g # a
      BY <1>6, <3>2 DEF TableInv, StructuresInv
    <3> QED BY <3>1, <3>2
  <2> QED BY <1>2, <1>8, <2>1, TableStarts
<1>10. CallInv(t)'
  <2>1. Size(t)' = 1 /\ Current(t)' = a
    BY <1>4, <1>5, <1>7, <1>8 DEF Size, Current
  <2>2. Pending(t)' = {}
    BY <1>8, <2>1 DEF Pending
  <2>3. ~(Len(p) > 1)
    BY <1>5, <1>7
  <2>4. Len(builder'[t].results) = 0
    BY <1>8
  <2>5. PICK names : names = Stands(t)'
    OBVIOUS
  <2>6. heap'[a].types = MapReferences(p[1], names)
    <3>1. MapReferences(r, names) = r
      <4>1. PICK x : x = [content |-> c, refs |-> <<>>]
        OBVIOUS
      <4>2. r = [i \in {1} |-> x]
        BY <1>0, <4>1
      <4>3. [content |-> x.content,
             refs |-> [k \in DOMAIN x.refs |-> [group |-> names[x.refs[k].group],
                                               index |-> x.refs[k].index]]] = x
        BY <4>1
      <4> QED BY <4>2, <4>3 DEF MapReferences
    <3> QED BY <1>5, <1>6, <1>7, <3>1
  <2>7. \A g \in Named(p[1]) : g <= 1
    BY <1>5, <1>7
  <2> QED BY <1>5, <1>7, <1>8, <2>1, <2>2, <2>3, <2>4, <2>5, <2>6, <2>7 DEF CallInv
<1> QED BY <1>5, <1>7, <1>8, <1>9, <1>10 DEF TableInv
-----------------------------------------------------------------------------
LEMMA TableInit ==
    ASSUME Init
    PROVE  TableInv
<1>1. canonicalGroups = {} /\ heap = [a \in Addresses |-> Free]
  BY DEF Init
<1>2. \A t \in Threads : builder[t].pc = "idle"
  BY DEF Init, Idle, Begun
<1>3. DOMAIN Store = {}
  BY <1>1 DEF Store
<1>4. Closed(Store) /\ Grounded(Store)
  BY <1>3 DEF Closed, Grounded
<1>5. Solves(Structures, Store)
  <2>1. PICK f : f = [a \in {} |-> 0]
    OBVIOUS
  <2>2. f = [a \in {} |-> MapReferences(Store[a], Unfolded(f, {}, a))]
    BY <2>1
  <2>3. Solves(f, Store)
    BY <1>3, <2>2 DEF Solves
  <2> QED BY <2>3, UnfoldSolves, StructuresUnfold
<1>6. \A a \in Addresses : heap[a].types \in GroupsOver(Addresses)
  <2>1. Free.types = <<>>
    BY DEF Free
  <2>2. Free.types \in GroupsOver(Addresses)
    BY <2>1, EmptySeq DEF GroupsOver
  <2> QED BY <1>1, <2>2
<1>7. StructuresInv
  BY <1>1, <1>4, <1>5, <1>6 DEF StructuresInv
<1> QED BY <1>2, <1>7 DEF TableInv

LEMMA TableNext ==
    ASSUME TypesInv, TableInv, [Next]_vars
    PROVE  TableInv'
<1>1. ASSUME NEW t \in Threads, Step(t)
      PROVE  TableInv'
  BY <1>1, TableBegin, TableConstruct, TablePrepare, TableInsert, TablePublish, TableUnique,
     TableReturn DEF Step
<1>2. CASE UNCHANGED vars
  <2>1. /\ heap' = heap /\ canonicalGroups' = canonicalGroups /\ builder' = builder
    BY <1>2 DEF vars
  <2>2. StructuresInv
    BY DEF TableInv
  <2>3. StructuresInv' /\ Structures' = Structures
    <3>1. \A a \in Addresses : heap'[a].types \in GroupsOver(Addresses)
      BY <2>1, <2>2 DEF StructuresInv
    <3> QED BY <2>1, <2>2, <3>1, StructuresKept
  <2>4. ASSUME NEW t \in Threads, builder'[t].pc # "idle"
        PROVE  CallInv(t)'
    <3>1. CallInv(t)
      BY <2>1, <2>4 DEF TableInv
    <3>2. /\ Size(t)' = Size(t) /\ Current(t)' = Current(t)
          /\ Pending(t)' = Pending(t) /\ Stands(t)' = Stands(t)
      BY <2>1 DEF Size, Current, Pending, Stands
    <3> QED BY <2>1, <2>3, <3>1, <3>2 DEF CallInv
  <2> QED BY <2>3, <2>4 DEF TableInv
<1> QED BY <1>1, <1>2 DEF Next

\* Canonical groups have structures of their own, and calls get what they mean.
LEMMA TableInvariant == Spec => []TableInv
<1>1. Init => TableInv
  BY TableInit
<1>2. TypesInv /\ TableInv /\ [Next]_vars => TableInv'
  BY TableNext
<1> QED BY <1>1, <1>2, TypesInvariant, PTL DEF Spec
-----------------------------------------------------------------------------
(* The store implements the table                                          *)

\* The table of distinct structures.
LEMMA InjectiveTable ==
    ASSUME NEW G, NEW S, \A a, c \in G : S[a] = S[c] => a = c,
           NEW T, T = [v \in {S[a] : a \in G} |-> CHOOSE a \in G : S[a] = v]
    PROVE  /\ DOMAIN T = {S[a] : a \in G}
           /\ \A a \in G : T[S[a]] = a
<1>1. ASSUME NEW a \in G PROVE T[S[a]] = a
  <2>1. T[S[a]] = CHOOSE c \in G : S[c] = S[a]
    OBVIOUS
  <2> QED BY <2>1
<1> QED BY <1>1

LEMMA TypeTableIs ==
    ASSUME StructuresInv
    PROVE  /\ DOMAIN TypeTable = {Structures[a] : a \in canonicalGroups}
           /\ \A a \in canonicalGroups : TypeTable[Structures[a]] = a
<1>1. \A a, c \in canonicalGroups : Structures[a] = Structures[c] => a = c
  BY DEF StructuresInv
<1> QED BY <1>1, InjectiveTable DEF TypeTable

LEMMA TypeTableBecomes ==
    ASSUME StructuresInv'
    PROVE  /\ DOMAIN TypeTable' = {Structures'[a] : a \in canonicalGroups'}
           /\ \A a \in canonicalGroups' : TypeTable'[Structures'[a]] = a
<1>1. \A a, c \in canonicalGroups' : Structures'[a] = Structures'[c] => a = c
  BY DEF StructuresInv
<1>2. PICK G : G = canonicalGroups'
  OBVIOUS
<1>3. PICK S : S = Structures'
  OBVIOUS
<1>4. TypeTable' = [v \in {S[a] : a \in G} |-> CHOOSE a \in G : S[a] = v]
  BY <1>2, <1>3 DEF TypeTable
<1> QED BY <1>1, <1>2, <1>3, <1>4, InjectiveTable

LEMMA TypeTableKept ==
    ASSUME canonicalGroups' = canonicalGroups, Structures' = Structures
    PROVE  TypeTable' = TypeTable
BY DEF TypeTable

\* Between calls a builder has no program.
LEMMA IdleBuilder ==
    ASSUME TypesInv, NEW t \in Threads, builder[t].pc = "idle"
    PROVE  TypesWanted[t] = <<>> /\ TypesGot[t] = <<>>
<1>1. builder[t].program = <<>> /\ builder[t].results = <<>>
  BY DEF TypesInv, BuilderInv, Idle, Begun
<1> QED BY <1>1, NoMeaning DEF TypesWanted, TypesGot

\* A call begins.
LEMMA TypeAsked ==
    ASSUME TypesInv, NEW t \in Threads, builder[t].pc = "idle",
           IsProgram(builder'[t].program), builder'[t].results = <<>>,
           \A u \in Threads \ {t} : builder'[u] = builder[u],
           canonicalGroups' = canonicalGroups, Structures' = Structures
    PROVE  Types!Next
<1>1. TypesWanted[t] = <<>> /\ TypesGot[t] = <<>>
  BY IdleBuilder
<1>2. PICK p : p = builder'[t].program
  OBVIOUS
<1>3. TypesWanted'[t] # <<>>
  <2>1. DOMAIN Meaning(p) = 1..Len(p) /\ Len(p) \in Nat \ {0}
    BY <1>2, MeaningFacts, ProgramFacts
  <2>2. 1 \in 1..Len(p)
    BY <2>1
  <2>3. 1 \in DOMAIN Meaning(p) /\ DOMAIN <<>> = {}
    BY <2>1, <2>2
  <2>4. TypesWanted'[t] = Meaning(p)
    BY <1>2 DEF TypesWanted
  <2> QED BY <2>3, <2>4
<1>4. TypesWanted' = [TypesWanted EXCEPT ![t] = TypesWanted'[t]]
  <2>1. \A u \in Threads \ {t} : TypesWanted'[u] = TypesWanted[u]
    BY DEF TypesWanted
  <2>2. TypesWanted' = [u \in Threads |-> TypesWanted'[u]]
    BY DEF TypesWanted
  <2> QED BY <2>1, <2>2 DEF TypesWanted
<1>5. TypesGot' = TypesGot
  <2>1. \A u \in Threads : builder'[u].results = builder[u].results
    BY <1>1 DEF TypesGot
  <2> QED BY <2>1 DEF TypesGot
<1>6. TypeTable' = TypeTable
  BY TypeTableKept
<1> QED BY <1>1, <1>3, <1>4, <1>5, <1>6 DEF Types!Next, Types!Ask

\* A step that changes neither programs, results nor structures.
LEMMA TypeSilent ==
    ASSUME \A u \in Threads : /\ builder'[u].program = builder[u].program
                              /\ builder'[u].results = builder[u].results,
           canonicalGroups' = canonicalGroups, Structures' = Structures
    PROVE  UNCHANGED Types!vars
<1>1. TypeTable' = TypeTable
  BY TypeTableKept
<1>2. TypesWanted' = TypesWanted /\ TypesGot' = TypesGot
  BY DEF TypesWanted, TypesGot
<1> QED BY <1>1, <1>2 DEF Types!vars

\* A call ends: all is answered, or the program is at fault.
LEMMA TypeReturned ==
    ASSUME TypesInv, TableInv, NEW t \in Threads, Return(t)
    PROVE  Types!Next
<1>1. builder[t].pc = "done" /\ canonicalGroups' = canonicalGroups
  BY DEF Return
<1>2. CallInv(t)
  BY <1>1 DEF TableInv
<1>3. PICK p : p = builder[t].program
  OBVIOUS
<1>4. IsProgram(p) /\ TypesWanted[t] = Meaning(p)
  BY <1>2, <1>3 DEF CallInv, TypesWanted
<1>5. /\ DOMAIN Meaning(p) = 1..Len(p) /\ Len(Meaning(p)) = Len(p)
      /\ Len(p) \in Nat \ {0}
  BY <1>4, MeaningFacts, ProgramFacts
<1>6. TypesWanted[t] # <<>>
  <2>1. 1 \in 1..Len(p)
    BY <1>5
  <2>2. 1 \in DOMAIN Meaning(p) /\ DOMAIN <<>> = {}
    BY <1>5, <2>1
  <2> QED BY <1>4, <2>2
<1>7. \/ Len(TypesGot[t]) = Len(TypesWanted[t])
      \/ Refused(TypesWanted[t], Len(TypesGot[t]))
  BY <1>1, <1>2, <1>3, <1>4, <1>5 DEF CallInv, TypesGot
<1>8. /\ builder'[t].program = <<>> /\ builder'[t].results = <<>>
      /\ \A u \in Threads \ {t} : builder'[u] = builder[u]
  BY DEF Return, TypesInv, Idle, Begun
<1>9. TypesWanted' = [TypesWanted EXCEPT ![t] = <<>>]
  <2>1. TypesWanted'[t] = <<>>
    BY <1>8, NoMeaning DEF TypesWanted
  <2>2. \A u \in Threads \ {t} : TypesWanted'[u] = TypesWanted[u]
    BY <1>8 DEF TypesWanted
  <2>3. TypesWanted' = [u \in Threads |-> TypesWanted'[u]]
    BY DEF TypesWanted
  <2> QED BY <2>1, <2>2, <2>3 DEF TypesWanted
<1>10. TypesGot' = [TypesGot EXCEPT ![t] = <<>>]
  BY <1>8 DEF TypesGot
<1>11. TypeTable' = TypeTable
  BY <1>1, TableReturn, TypeTableKept
<1> QED BY <1>6, <1>7, <1>9, <1>10, <1>11 DEF Types!Next, Types!Return

\* The next group of a call is found or made: its structure is answered.
LEMMA TypeAnswered ==
    ASSUME TypesInv, TableInv, NEW t \in Threads, Insert(t)
    PROVE  Types!Next
<1>1. /\ builder[t].pc = "insert" /\ heap' = heap
      /\ builder'[t].program = builder[t].program
      /\ \A u \in Threads \ {t} : builder'[u] = builder[u]
      /\ Inserted(t) \/ \E c \in canonicalGroups : Reused(t, c)
  BY InsertCases
<1>2. CallInv(t) /\ LoopInv(t) /\ StructuresInv /\ StructuresInv'
  BY <1>1, InCall, TableInsert DEF TableInv
<1>3. PICK p : p = builder[t].program
  OBVIOUS
<1>4. PICK j : j = builder[t].group
  OBVIOUS
<1>5. PICK V : V = Meaning(p)
  OBVIOUS
<1>6. PICK results : results = builder[t].results
  OBVIOUS
<1>7. /\ Len(results) = j - 1 /\ results \in Seq(canonicalGroups)
      /\ IsProgram(p) /\ j \in 1..Len(p) /\ Len(p) \in Nat
  BY <1>1, <1>2, <1>3, <1>4, <1>6 DEF LoopInv, Size, CallInv
<1>8. TypesWanted[t] = V /\ TypesGot[t] = results
  BY <1>3, <1>5, <1>6 DEF TypesWanted, TypesGot
<1>9. Len(V) = Len(p) /\ Len(results) < Len(V) /\ Len(results) + 1 = j
  BY <1>5, <1>7, MeaningFacts
<1>10. ~Refused(V, Len(results))
  <2>1. \A g \in Named(p[j]) : g <= j /\ g \in Nat
    <3>1. \A g \in Named(p[j]) : g <= j
      BY <1>1, <1>2, <1>3, <1>4 DEF CallInv
    <3>2. \A g \in Named(p[j]) : g \in 1..Len(p)
      BY <1>7, ProgramFacts DEF Named
    <3> QED BY <3>1, <3>2
  <2>2. ~LooksAhead(V, j - 1)
    <3>1. ~\E g \in Named(p[j]) : g > j
      BY <1>7, <2>1
    <3> QED BY <1>5, <1>7, <3>1, LaterMeans
  <2>3. Len(V) > 1 => ~Collide(V, j - 1)
    BY <1>1, <1>2, <1>3, <1>4, <1>5, <1>9 DEF CallInv
  <2> QED BY <1>7, <2>2, <2>3 DEF Refused
<1>11. TypesWanted' = TypesWanted
  BY <1>1 DEF TypesWanted
<1>12. ASSUME NEW c, builder'[t].results = Append(results, c)
       PROVE  /\ TypesGot' = [TypesGot EXCEPT ![t] = Append(@, c)]
              /\ TypesGot'[t] # <<>> /\ TypesGot'[t][Len(TypesGot'[t])] = c
  <2>1. TypesGot'[t] = Append(results, c)
    BY <1>12 DEF TypesGot
  <2>2. \A u \in Threads \ {t} : TypesGot'[u] = TypesGot[u]
    BY <1>1 DEF TypesGot
  <2>3. TypesGot' = [u \in Threads |-> TypesGot'[u]]
    BY DEF TypesGot
  <2>4. TypesGot' = [TypesGot EXCEPT ![t] = Append(@, c)]
    BY <1>8, <2>1, <2>2, <2>3 DEF TypesGot
  <2>5. Append(results, c) # <<>> /\ Append(results, c)[Len(Append(results, c))] = c
    BY <1>7
  <2> QED BY <2>1, <2>4, <2>5
<1>13. ASSUME NEW c \in canonicalGroups, Reused(t, c)
       PROVE  Types!Next
  <2>1. Structures[c] = V[j] /\ canonicalGroups' = canonicalGroups
    BY <1>1, <1>3, <1>4, <1>5, <1>13, ReusedMeant DEF Reused
  <2>2. Structures' = Structures
    BY <1>1, <1>2, <2>1, StructuresKept DEF StructuresInv
  <2>3. TypeTable' = TypeTable
    BY <2>1, <2>2, TypeTableKept
  <2>4. V[j] \in DOMAIN TypeTable /\ c = TypeTable[V[j]]
    BY <1>2, <2>1, TypeTableIs
  <2>5. builder'[t].results = Append(results, c)
    BY <1>6, <1>13 DEF Reused
  <2>6. /\ TypesGot' = [TypesGot EXCEPT ![t] = Append(@, c)]
        /\ TypesGot'[t] # <<>> /\ TypesGot'[t][Len(TypesGot'[t])] = c
    BY <1>12, <2>5
  <2>7. Types!Answer(t, c)
    BY <1>8, <1>9, <1>10, <1>11, <2>3, <2>4, <2>6 DEF Types!Answer
  <2> QED BY <2>6, <2>7 DEF Types!Next
<1>14. ASSUME Inserted(t)
       PROVE  Types!Next
  <2>1. PICK a : a = Current(t)
    OBVIOUS
  <2>2. /\ \A g \in canonicalGroups : Structures'[g] = Structures[g]
        /\ Structures'[a] = V[j]
        /\ \A g \in canonicalGroups : V[j] # Structures[g]
    BY <1>1, <1>3, <1>4, <1>5, <1>14, <2>1, InsertedMeant
  <2>3. /\ a \notin canonicalGroups /\ canonicalGroups' = canonicalGroups \cup {a}
        /\ builder'[t].results = Append(results, a)
    BY <1>1, <1>6, <1>14, <2>1, ImageMeant DEF Inserted
  <2>4. /\ DOMAIN TypeTable = {Structures[g] : g \in canonicalGroups}
        /\ \A g \in canonicalGroups : TypeTable[Structures[g]] = g
    BY <1>2, TypeTableIs
  <2>5. /\ DOMAIN TypeTable' = {Structures'[g] : g \in canonicalGroups'}
        /\ \A g \in canonicalGroups' : TypeTable'[Structures'[g]] = g
    BY <1>2, TypeTableBecomes
  <2>6. V[j] \notin DOMAIN TypeTable /\ a \notin Types!Identities
    BY <2>2, <2>3, <2>4 DEF Types!Identities
  <2>7. TypeTable' = [x \in DOMAIN TypeTable \cup {V[j]} |->
                          IF x = V[j] THEN a ELSE TypeTable[x]]
    <3>1. DOMAIN TypeTable' = DOMAIN TypeTable \cup {V[j]}
      BY <2>2, <2>3, <2>4, <2>5
    <3>2. \A x \in DOMAIN TypeTable' :
              TypeTable'[x] = IF x = V[j] THEN a ELSE TypeTable[x]
      BY <2>2, <2>3, <2>4, <2>5
    <3>3. TypeTable' = [x \in DOMAIN TypeTable' |-> TypeTable'[x]]
      BY DEF TypeTable
    <3> QED BY <3>1, <3>2, <3>3
  <2>8. /\ TypesGot' = [TypesGot EXCEPT ![t] = Append(@, a)]
        /\ TypesGot'[t] # <<>> /\ TypesGot'[t][Len(TypesGot'[t])] = a
    BY <1>12, <2>3
  <2>9. Types!Answer(t, a)
    BY <1>8, <1>9, <1>10, <1>11, <2>6, <2>7, <2>8 DEF Types!Answer
  <2> QED BY <2>8, <2>9 DEF Types!Next
<1> QED BY <1>1, <1>13, <1>14

\* Each step of a builder is one of the table, or none.
LEMMA TypeStep ==
    ASSUME TypesInv, TableInv, NEW t \in Threads, Step(t)
    PROVE  [Types!Next]_Types!vars
<1>1. ASSUME NEW p \in Programs, Begin(t, p)
      PROVE  Types!Next
  <2>1. builder[t].pc = "idle" /\ canonicalGroups' = canonicalGroups
    BY <1>1 DEF Begin
  <2> QED BY <1>1, <2>1, TableBegin, TypeAsked
<1>2. ASSUME NEW c \in Leaves, Construct(t, c)
      PROVE  Types!Next
  <2>1. builder[t].pc = "idle" /\ canonicalGroups' = canonicalGroups
    BY <1>2 DEF Construct
  <2> QED BY <1>2, <2>1, TableConstruct, TypeAsked
<1>3. /\ builder[t] = Record(builder[t])
      /\ DOMAIN builder = Threads
  BY DEF TypesInv
<1>4. CASE Prepare(t)
  <2>1. canonicalGroups' = canonicalGroups /\ Structures' = Structures
    BY <1>4, TablePrepare DEF Prepare
  <2>2. \A u \in Threads : /\ builder'[u].program = builder[u].program
                           /\ builder'[u].results = builder[u].results
    BY <1>3, <1>4 DEF Prepare, Record
  <2> QED BY <2>1, <2>2, TypeSilent
<1>5. CASE Publish(t)
  <2>1. canonicalGroups' = canonicalGroups /\ Structures' = Structures
    BY <1>5, TablePublish DEF Publish
  <2>2. \A u \in Threads : /\ builder'[u].program = builder[u].program
                           /\ builder'[u].results = builder[u].results
    BY <1>3, <1>5 DEF Publish, Record
  <2> QED BY <2>1, <2>2, TypeSilent
<1>6. CASE Unique(t)
  <2>1. canonicalGroups' = canonicalGroups /\ Structures' = Structures
    BY <1>6, TableUnique DEF Unique
  <2>2. \A u \in Threads : /\ builder'[u].program = builder[u].program
                           /\ builder'[u].results = builder[u].results
    BY <1>3, <1>6 DEF Unique, Record
  <2> QED BY <2>1, <2>2, TypeSilent
<1> QED BY <1>1, <1>2, <1>4, <1>5, <1>6, TypeAnswered, TypeReturned DEF Step

(* However calls of build() overlap, a structure has one group for ever, a *)
(* result is the group of what the caller's own program means, and a call  *)
(* fails just where that program is at fault.                              *)
THEOREM TypesImplemented == Spec => ImplementsTypeTable
<1>1. Init => Types!Init
  <2> SUFFICES ASSUME Init PROVE Types!Init
    OBVIOUS
  <2>1. \A t \in Threads : builder[t].program = <<>> /\ builder[t].results = <<>>
    BY DEF Init, Idle, Begun
  <2>2. TypesWanted = [t \in Threads |-> <<>>] /\ TypesGot = [t \in Threads |-> <<>>]
    BY <2>1, NoMeaning DEF TypesWanted, TypesGot
  <2>3. TypeTable = <<>>
    BY DEF Init, TypeTable
  <2> QED BY <2>2, <2>3 DEF Types!Init
<1>2. TypesInv /\ TableInv /\ [Next]_vars => [Types!Next]_Types!vars
  <2> SUFFICES ASSUME TypesInv, TableInv, [Next]_vars
               PROVE  [Types!Next]_Types!vars
    OBVIOUS
  <2>1. CASE UNCHANGED vars
    <3>1. /\ canonicalGroups' = canonicalGroups /\ builder' = builder /\ heap' = heap
      BY <2>1 DEF vars
    <3>2. Structures' = Structures
      BY <3>1 DEF Structures
    <3> QED BY <3>1, <3>2, TypeSilent
  <2> QED BY <2>1, TypeStep DEF Next
<1> QED
  BY <1>1, <1>2, TypesInvariant, TableInvariant, PTL
     DEF Spec, ImplementsTypeTable, Types!Spec
=============================================================================
