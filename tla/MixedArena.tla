----------------------------- MODULE MixedArena -----------------------------
(***************************************************************************)
(* The arena of a module (src/src/support/mixed_arena.h): bump allocation  *)
(* on the thread that created the arena, and for every other thread a side *)
(* arena in a lock-free linked list that starts at the module's arena.     *)
(*                                                                         *)
(* Grain.  A step makes at most one access to an atomic `next', and the    *)
(* bump allocator, which is not atomic, takes two steps, so that threads   *)
(* that shared an arena would disturb each other.                          *)
(***************************************************************************)
EXTENDS Integers, Sequences, FiniteSets

CONSTANTS
    Threads,
    Creator,        \* the thread that created the module's arena
    NoThread,       \* a deleted arena belongs to nobody
    ChunkSize,      \* CHUNK_SIZE, which every alignment divides
    Requests,       \* the pairs of a size and an alignment asked for
    MaxAllocs,      \* bound: calls of allocSpace
    MaxArenas       \* bound: arenas ever created

ASSUME CreatorAssumption == Creator \in Threads /\ NoThread \notin Threads
ASSUME ChunkAssumption == ChunkSize \in Nat \ {0}
ASSUME RequestsAssumption ==
    /\ Requests # {}
    /\ \A r \in Requests : r.size \in Nat \ {0} /\ r.align \in Nat \ {0}
                           /\ ChunkSize % r.align = 0
ASSUME BoundsAssumption == MaxAllocs \in Nat /\ MaxArenas \in Nat \ {0}

None == 0           \* nullptr

VARIABLES
    arenas,         \* every arena ever created; the module's is the first
    allocations,    \* what allocSpace has returned
    pc, request,    \* where each thread is in allocSpace, and its arguments
    curr,           \* the local variable curr
    allocated,      \* the local variable allocated
    ret             \* the local variable ret

vars == <<arenas, allocations, pc, request, curr, allocated, ret>>

NewArena(t) == [thread |-> t, next |-> None, chunks |-> <<>>, index |-> 0]
AnyRequest  == CHOOSE r \in Requests : TRUE

Init ==
    /\ arenas = <<NewArena(Creator)>>
    /\ allocations = {}
    /\ pc = [t \in Threads |-> "idle"]
    /\ request = [t \in Threads |-> AnyRequest]
    /\ curr = [t \in Threads |-> 1]
    /\ allocated = [t \in Threads |-> None]
    /\ ret = [t \in Threads |-> <<>>]

Goto(t, label) == pc' = [pc EXCEPT ![t] = label]

\* The arena thread t looks at.
At(t) == arenas[curr[t]]

-----------------------------------------------------------------------------
(* allocSpace: finding the arena of the calling thread *)

\* The threads inside allocSpace.
Inside == {t \in Threads : pc[t] # "idle"}

Request(t) ==
    /\ pc[t] = "idle"
    /\ arenas[1].thread = Creator
    /\ Cardinality(allocations) + Cardinality(Inside) < MaxAllocs
    /\ \E r \in Requests : request' = [request EXCEPT ![t] = r]
    /\ curr' = [curr EXCEPT ![t] = 1]
    /\ Goto(t, "find")
    /\ UNCHANGED <<arenas, allocations, allocated, ret>>

\* Mutants: no test for nullptr; this->next in place of curr->next.
FollowBlindly(t) ==
    /\ pc[t] = "find"
    /\ At(t).thread # t
    /\ curr' = [curr EXCEPT ![t] = At(t).next]
    /\ UNCHANGED <<arenas, allocations, pc, request, allocated, ret>>

FollowFirst(t) ==
    /\ pc[t] = "find"
    /\ At(t).thread # t
    /\ At(t).next # None
    /\ curr' = [curr EXCEPT ![t] = arenas[1].next]
    /\ UNCHANGED <<arenas, allocations, pc, request, allocated, ret>>

\* seen = curr->next.load() is an arena: go on there.
Follow(t) ==
    /\ pc[t] = "find"
    /\ At(t).thread # t
    /\ At(t).next # None
    /\ curr' = [curr EXCEPT ![t] = At(t).next]
    /\ UNCHANGED <<arenas, allocations, pc, request, allocated, ret>>

\* It is nullptr: make an arena for this thread, unless that was done before.
AtEnd(t) ==
    /\ pc[t] = "find"
    /\ At(t).thread # t
    /\ At(t).next = None
    /\ IF allocated[t] = None
       THEN /\ Len(arenas) < MaxArenas
            /\ arenas' = Append(arenas, NewArena(t))
            /\ allocated' = [allocated EXCEPT ![t] = Len(arenas) + 1]
       ELSE UNCHANGED <<arenas, allocated>>
    /\ Goto(t, "exchange")
    /\ UNCHANGED <<allocations, request, curr, ret>>

\* Mutant: a store in place of compare_exchange_strong.
Store(t) ==
    /\ pc[t] = "exchange"
    /\ arenas' = [arenas EXCEPT ![curr[t]].next = allocated[t]]
    /\ allocated' = [allocated EXCEPT ![t] = None]
    /\ Goto(t, "find")
    /\ UNCHANGED <<allocations, request, curr, ret>>

\* compare_exchange_strong.  After success curr still is the predecessor, from
\* which the recursive call of allocSpace follows next once more.
Exchange(t) ==
    /\ pc[t] = "exchange"
    /\ IF At(t).next = None
       THEN /\ arenas' = [arenas EXCEPT ![curr[t]].next = allocated[t]]
            /\ allocated' = [allocated EXCEPT ![t] = None]
            /\ UNCHANGED curr
       ELSE /\ curr' = [curr EXCEPT ![t] = At(t).next]
            /\ UNCHANGED <<arenas, allocated>>
    /\ Goto(t, "find")
    /\ UNCHANGED <<allocations, request, ret>>

\* Mutant: an arena of any thread will do.
FoundAny(t) ==
    /\ pc[t] = "find"
    /\ At(t).thread = t \/ At(t).next = None
    /\ Goto(t, "align")
    /\ UNCHANGED <<arenas, allocations, request, curr, allocated, ret>>

\* The arena of this thread; `allocated' is deleted if it was not needed.
Found(t) ==
    /\ pc[t] = "find"
    /\ At(t).thread = t
    /\ IF allocated[t] # None
       THEN arenas' = [arenas EXCEPT ![allocated[t]].thread = NoThread]
       ELSE UNCHANGED arenas
    /\ allocated' = [allocated EXCEPT ![t] = None]
    /\ Goto(t, "align")
    /\ UNCHANGED <<allocations, request, curr, ret>>

-----------------------------------------------------------------------------
(* allocSpace: the bump allocator *)

\* (index + align - 1) & (-align), for a power of two.
AlignUp(index, align) == ((index + align - 1) \div align) * align

Chunks(size) == (size + ChunkSize - 1) \div ChunkSize

\* Mutants: off by one at the end of the chunk; one chunk for any size.
FitsAlmost(arena, size) ==
    arena.index + size <= ChunkSize + 1 /\ arena.chunks # <<>>
OneChunk(size) == 1

Fits(arena, size) == arena.index + size <= ChunkSize /\ arena.chunks # <<>>

\* Align the index, take a new chunk when the last one has no room, and compute
\* ret = chunks.back() + index.
Align(t) ==
    /\ pc[t] = "align"
    /\ LET r       == request[t]
           aligned == [At(t) EXCEPT !.index = AlignUp(@, r.align)]
           arena   == IF Fits(aligned, r.size) THEN aligned
                      ELSE [aligned EXCEPT !.index = 0,
                              !.chunks = Append(@, Chunks(r.size) * ChunkSize)]
       IN  /\ arenas' = [arenas EXCEPT ![curr[t]] = arena]
           /\ ret' = [ret EXCEPT ![t] =
                 [arena |-> curr[t], chunk |-> Len(arena.chunks),
                  from |-> arena.index, request |-> r, thread |-> t]]
    /\ Goto(t, "take")
    /\ UNCHANGED <<allocations, request, curr, allocated>>

\* index += size; return ret.
Take(t) ==
    /\ pc[t] = "take"
    /\ arenas' = [arenas EXCEPT ![curr[t]].index = @ + request[t].size]
    /\ allocations' = allocations \cup {ret[t]}
    /\ ret' = [ret EXCEPT ![t] = <<>>]
    /\ Goto(t, "idle")
    /\ UNCHANGED <<request, curr, allocated>>

-----------------------------------------------------------------------------
(* ~MixedArena *)

Next(a) == arenas[a].next

\* A set of arenas that holds the next one of each of its members.
Closed(S) == \A a \in S : Next(a) # None => Next(a) \in S

\* The arenas from a on: those in every such set that a is in.
After(a) == {b \in DOMAIN arenas :
                \A S \in SUBSET DOMAIN arenas : a \in S /\ Closed(S) => b \in S}

Chain == After(1)

\* Mutant: the destructor forgets the list.
DestroyOne(t) ==
    /\ t = Creator
    /\ Inside = {}
    /\ arenas[1].thread = Creator
    /\ arenas' = [arenas EXCEPT ![1].thread = NoThread, ![1].chunks = <<>>]
    /\ allocations' = {}
    /\ UNCHANGED <<pc, request, curr, allocated, ret>>

\* The module is destroyed: its arena deletes the next one, and so on.
Destroy(t) ==
    /\ t = Creator
    /\ Inside = {}
    /\ arenas[1].thread = Creator
    /\ arenas' = [a \in DOMAIN arenas |->
                    IF a \in Chain
                    THEN [arenas[a] EXCEPT !.thread = NoThread, !.chunks = <<>>]
                    ELSE arenas[a]]
    /\ allocations' = {}
    /\ UNCHANGED <<pc, request, curr, allocated, ret>>

-----------------------------------------------------------------------------

AllocSpace(t) ==
    Follow(t) \/ AtEnd(t) \/ Exchange(t) \/ Found(t) \/ Align(t) \/ Take(t)

Finished ==
    /\ Inside = {}
    /\ UNCHANGED vars

NextStep ==
    \/ \E t \in Threads : AllocSpace(t) \/ Request(t) \/ Destroy(t)
    \/ Finished

\* A thread inside allocSpace keeps running.
Spec ==
    /\ Init /\ [][NextStep]_vars
    /\ \A t \in Threads : WF_vars(AllocSpace(t))

-----------------------------------------------------------------------------
(* Properties *)

Live == {a \in DOMAIN arenas : arenas[a].thread # NoThread}
End(a) == a.from + a.request.size

Arena == [thread : Threads \cup {NoThread}, next : Nat, chunks : Seq(Nat),
          index : Nat]

TypeOK ==
    /\ arenas \in Seq(Arena) /\ arenas # <<>>
    /\ \A a \in DOMAIN arenas : arenas[a].next \in {None} \cup DOMAIN arenas
    /\ pc \in [Threads -> {"idle", "find", "exchange", "align", "take"}]
    /\ request \in [Threads -> Requests]
    /\ curr \in [Threads -> DOMAIN arenas]
    /\ allocated \in [Threads -> {None} \cup DOMAIN arenas]
    /\ DOMAIN ret = Threads

\* "it is always safe to allocate using a MixedArena, no matter which thread you
\* are on" (mixed_arena.h:56-57): no two allocations share a byte.
NoOverlap ==
    \A a, b \in allocations :
        a # b /\ a.arena = b.arena /\ a.chunk = b.chunk =>
            End(a) <= b.from \/ End(b) <= a.from

\* Every allocation lies inside its chunk, at the alignment asked for.
InsideChunk ==
    \A a \in allocations :
        /\ End(a) <= arenas[a.arena].chunks[a.chunk]
        /\ a.from % a.request.align = 0

\* A thread has at most one arena, so "we may waste a few allocations"
\* (mixed_arena.h:101) never happens: no arena is left over when one is found.
NothingWasted ==
    /\ \A a, b \in Live : arenas[a].thread = arenas[b].thread => a = b
    /\ \A t \in Threads : pc[t] \notin {"find", "exchange"} => allocated[t] = None

\* Every arena that is not deleted is in the list, or about to be put there, so
\* that the destructor of the module's arena frees it.
NothingLeaked ==
    LET kept == {allocated[t] : t \in Threads} \ {None}
    IN  /\ Live \subseteq Chain \cup kept
        /\ arenas[1].thread = NoThread => Live = {}

\* An arena in the list stays there, at the same place.
ListOnlyGrows ==
    [][\A a \in DOMAIN arenas : Next(a) # None => arenas'[a].next = Next(a)]_vars

\* The walk is lock-free: every call of allocSpace returns.
AllocSpaceReturns == \A t \in Threads : pc[t] = "find" ~> pc[t] = "idle"
=============================================================================
