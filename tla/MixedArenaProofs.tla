-------------------------- MODULE MixedArenaProofs --------------------------
(***************************************************************************)
(* Safety of MixedArena for every set of threads, size of the chunks, set  *)
(* of requests, and number of allocations and arenas.                      *)
(***************************************************************************)
EXTENDS MixedArena, SequenceTheorems, TLAPS

\* The threads that look for their arena.
Searching(t) == pc[t] \in {"find", "exchange"}

\* An arena that its thread has made and not yet put in the list.
Unlinked ==
    \A t \in Threads :
        /\ allocated[t] # None =>
              /\ arenas[allocated[t]].thread = t
              /\ arenas[allocated[t]].next = None
              /\ allocated[t] \notin Chain
        /\ pc[t] = "exchange" => allocated[t] # None /\ At(t).thread # t
        /\ ~Searching(t) => allocated[t] = None

\* The walk never passes the arena it looks for: whatever the thread owns is
\* still ahead, or is what it has just made.
Ahead ==
    \A t \in Threads :
        /\ curr[t] \in Chain
        /\ Searching(t) =>
              \A a \in DOMAIN arenas :
                  arenas[a].thread = t /\ a # allocated[t] => a \in After(curr[t])

OnePerThread == \A a, b \in Live : arenas[a].thread = arenas[b].thread => a = b

\* Every arena that is not deleted can be reached, or is some thread's new one.
Kept ==
    /\ \A a \in Live : a \in Chain \/ \E t \in Threads : allocated[t] = a
    /\ arenas[1].thread \in {Creator, NoThread}
    /\ arenas[1].thread = NoThread => Live = {} /\ Inside = {}

\* Where an allocation lies in its arena, and its end before the bump index.
Placed(a) ==
    /\ a.request \in Requests /\ a.from \in Nat
    /\ a.arena \in DOMAIN arenas
    /\ a.chunk \in DOMAIN arenas[a.arena].chunks
    /\ End(a) <= arenas[a.arena].chunks[a.chunk]
    /\ a.from % a.request.align = 0

\* The bump allocator: a thread has its own arena for the two steps, and what
\* it will return is the first room after every allocation of the last chunk.
Bump ==
    /\ \A a \in DOMAIN arenas : \A c \in DOMAIN arenas[a].chunks :
          ChunkSize <= arenas[a].chunks[c]
    /\ \A t \in Threads : pc[t] \in {"align", "take"} => At(t).thread = t
    /\ \A t \in Threads : pc[t] = "take" =>
          /\ Placed(ret[t])
          /\ ret[t].arena = curr[t]
          /\ ret[t].request = request[t]
          /\ ret[t].chunk = Len(At(t).chunks)
          /\ ret[t].from = At(t).index
    /\ \A a \in allocations :
          /\ Placed(a)
          /\ a.chunk = Len(arenas[a.arena].chunks) =>
                End(a) <= arenas[a.arena].index

ListInv == TypeOK /\ Unlinked /\ Ahead /\ OnePerThread /\ Kept

IInv == ListInv /\ Bump /\ NoOverlap

-----------------------------------------------------------------------------
(* The list *)

\* An arena is reached from itself.
LEMMA AfterSelf ==
  ASSUME NEW a \in DOMAIN arenas
  PROVE  a \in After(a)
  BY DEF After

\* What is reached stays reached along next.
LEMMA AfterNext ==
  ASSUME TypeOK, NEW a \in DOMAIN arenas, NEW b \in After(a), Next(b) # None
  PROVE  Next(b) \in After(a)
  <1>1. b \in DOMAIN arenas /\ Next(b) \in DOMAIN arenas
    BY DEF After, TypeOK, Next
  <1> QED BY <1>1 DEF After, Closed

\* Past an arena, the others it reaches are reached from its next one.
LEMMA AfterStep ==
  ASSUME TypeOK, NEW a \in DOMAIN arenas, Next(a) # None,
         NEW b \in After(a), b # a
  PROVE  b \in After(Next(a))
  <1>1. b \in DOMAIN arenas
    BY DEF After
  <1>2. ASSUME NEW S \in SUBSET DOMAIN arenas, Next(a) \in S, Closed(S)
        PROVE  b \in S
    <2>1. S \cup {a} \in SUBSET DOMAIN arenas /\ Closed(S \cup {a})
      BY <1>2 DEF Closed
    <2> QED BY <2>1 DEF After
  <1> QED BY <1>1, <1>2 DEF After

\* The last arena reaches only itself.
LEMMA AfterLast ==
  ASSUME NEW a \in DOMAIN arenas, Next(a) = None, NEW b \in After(a)
  PROVE  b = a
  <1>1. {a} \in SUBSET DOMAIN arenas /\ Closed({a})
    BY DEF Closed
  <1> QED BY <1>1 DEF After

\* A step that only adds arenas and sets the next of a last one keeps what was
\* reached.
LEMMA AfterGrows ==
  ASSUME TypeOK, DOMAIN arenas \subseteq DOMAIN arenas',
         \A x \in DOMAIN arenas :
            arenas[x].next # None => arenas'[x].next = arenas[x].next,
         NEW a \in DOMAIN arenas, NEW b \in After(a)
  PROVE  b \in After(a)'
  <1>1. b \in DOMAIN arenas'
    BY DEF After
  <1>2. ASSUME NEW S \in SUBSET DOMAIN arenas', a \in S, Closed(S)'
        PROVE  b \in S
    <2> DEFINE T == S \cap DOMAIN arenas
    <2>1. ASSUME NEW x \in T, Next(x) # None
          PROVE  Next(x) \in T
      BY <1>2, <2>1 DEF TypeOK, Closed, Next
    <2>2. Closed(T) /\ T \in SUBSET DOMAIN arenas /\ a \in T
      BY <2>1, <1>2 DEF Closed
    <2> QED BY <2>2 DEF After
  <1> QED BY <1>1, <1>2 DEF After

\* What the module's arena reaches is in every closed set it is in.
LEMMA ChainWithin ==
  ASSUME NEW X \in SUBSET DOMAIN arenas, 1 \in X, Closed(X)
  PROVE  Chain \subseteq X
  BY DEF Chain, After

-----------------------------------------------------------------------------
(* The bump allocator *)

\* AlignUp returns a multiple of align that is not below the index.
LEMMA AlignUpFact ==
  ASSUME NEW index \in Nat, NEW align \in Nat \ {0}
  PROVE  /\ AlignUp(index, align) \in Nat
         /\ index <= AlignUp(index, align)
         /\ AlignUp(index, align) % align = 0
  <1> DEFINE q == (index + align - 1) \div align
  <1>1. q \in Nat
    BY SMT
  <1>2. index + align - 1 < q * align + align
    BY SMT
  <1>3. q * align \in Nat /\ index <= q * align
    <2> HIDE DEF q
    <2> QED BY <1>1, <1>2, SMT
  <1>4. (q * align) % align = 0
    <2> HIDE DEF q
    <2> QED BY <1>1, SMT
  <1> QED BY <1>3, <1>4 DEF AlignUp

\* A new chunk is at least CHUNK_SIZE long and has room for the request.
LEMMA ChunksFact ==
  ASSUME NEW size \in Nat \ {0}
  PROVE  /\ Chunks(size) * ChunkSize \in Nat
         /\ ChunkSize <= Chunks(size) * ChunkSize
         /\ size <= Chunks(size) * ChunkSize
  <1> DEFINE k == (size + ChunkSize - 1) \div ChunkSize
  <1>1. k \in Nat /\ k >= 1
    BY ChunkAssumption, SMT
  <1>2. size + ChunkSize - 1 < k * ChunkSize + ChunkSize
    BY ChunkAssumption, SMT
  <1>3. /\ k * ChunkSize \in Nat /\ ChunkSize <= k * ChunkSize
        /\ size <= k * ChunkSize
    <2> HIDE DEF k
    <2> QED BY <1>1, <1>2, ChunkAssumption, SMT
  <1> QED BY <1>3 DEF Chunks

LEMMA ZeroMod ==
  ASSUME NEW align \in Nat \ {0}
  PROVE  0 % align = 0
  BY SMT
-----------------------------------------------------------------------------
(* What each action does to the arenas *)

\* One arena is replaced.
LEMMA Replaced ==
  ASSUME TypeOK, NEW i \in DOMAIN arenas, NEW e \in Arena,
         arenas' = [arenas EXCEPT ![i] = e]
  PROVE  /\ arenas' \in Seq(Arena) /\ arenas' # <<>>
         /\ DOMAIN arenas' = DOMAIN arenas
         /\ arenas'[i] = e
         /\ \A a \in DOMAIN arenas : a # i => arenas'[a] = arenas[a]
  <1>1. arenas \in Seq(Arena) /\ arenas # <<>> /\ i \in 1..Len(arenas)
    BY LenProperties DEF TypeOK
  <1>2. /\ arenas' \in Seq(Arena) /\ Len(arenas') = Len(arenas)
        /\ \A a \in 1..Len(arenas) :
              arenas'[a] = IF a = i THEN e ELSE arenas[a]
    BY <1>1, ExceptSeq
  <1>3. DOMAIN arenas' = 1..Len(arenas) /\ DOMAIN arenas = 1..Len(arenas)
    BY <1>1, <1>2, LenProperties
  <1>4. arenas' # <<>>
    BY <1>1, <1>2, EmptySeq
  <1> QED BY <1>1, <1>2, <1>3, <1>4

\* A thread adds its new arena.
LEMMA Appended ==
  ASSUME TypeOK, NEW t \in Threads, arenas' = Append(arenas, NewArena(t))
  PROVE  /\ arenas' \in Seq(Arena) /\ arenas' # <<>>
         /\ Len(arenas) + 1 \notin DOMAIN arenas /\ Len(arenas) + 1 \in Nat \ {0}
         /\ DOMAIN arenas' = DOMAIN arenas \cup {Len(arenas) + 1}
         /\ arenas'[Len(arenas) + 1] = NewArena(t)
         /\ \A a \in DOMAIN arenas : arenas'[a] = arenas[a]
  <1>1. arenas \in Seq(Arena) /\ NewArena(t) \in Arena
    BY EmptySeq DEF TypeOK, NewArena, Arena, None
  <1>2. /\ arenas' \in Seq(Arena) /\ arenas' # <<>>
        /\ Len(arenas') = Len(arenas) + 1
        /\ \A a \in 1..Len(arenas) : arenas'[a] = arenas[a]
        /\ arenas'[Len(arenas) + 1] = NewArena(t)
    BY <1>1, AppendProperties
  <1>3. /\ DOMAIN arenas' = 1..(Len(arenas) + 1)
        /\ DOMAIN arenas = 1..Len(arenas) /\ Len(arenas) \in Nat
    BY <1>1, <1>2, LenProperties
  <1> QED BY <1>2, <1>3

LEMMA ExchangeArenas ==
  ASSUME ListInv, NEW t \in Threads, pc[t] = "exchange", At(t).next = None,
         arenas' = [arenas EXCEPT ![curr[t]].next = allocated[t]]
  PROVE  /\ arenas' \in Seq(Arena) /\ arenas' # <<>>
         /\ DOMAIN arenas' = DOMAIN arenas
         /\ arenas'[curr[t]] = [arenas[curr[t]] EXCEPT !.next = allocated[t]]
         /\ \A a \in DOMAIN arenas : a # curr[t] => arenas'[a] = arenas[a]
  <1> DEFINE e == [arenas[curr[t]] EXCEPT !.next = allocated[t]]
  <1>1. curr[t] \in DOMAIN arenas /\ allocated[t] \in DOMAIN arenas
    BY DEF ListInv, TypeOK, Unlinked
  <1>2. arenas[curr[t]] \in Arena /\ allocated[t] \in Nat
    BY <1>1, LenProperties, ElementOfSeq DEF ListInv, TypeOK
  <1>3. e \in Arena
    BY <1>2 DEF Arena
  <1>4. arenas' = [arenas EXCEPT ![curr[t]] = e]
    OBVIOUS
  <1> HIDE DEF e
  <1>5. TypeOK
    BY DEF ListInv
  <1>6. /\ arenas' \in Seq(Arena) /\ arenas' # <<>>
        /\ DOMAIN arenas' = DOMAIN arenas
        /\ arenas'[curr[t]] = e
        /\ \A a \in DOMAIN arenas : a # curr[t] => arenas'[a] = arenas[a]
    BY <1>1, <1>3, <1>4, <1>5, Replaced
  <1> QED BY <1>6 DEF e

\* The bump allocator changes no thread and no next.
SameList ==
    /\ arenas' \in Seq(Arena) /\ arenas' # <<>>
    /\ DOMAIN arenas' = DOMAIN arenas
    /\ \A a \in DOMAIN arenas : arenas'[a].next = arenas[a].next

LEMMA AlignArenas ==
  ASSUME ListInv, Bump, NEW t \in Threads, Align(t)
  PROVE  /\ SameList
         /\ \A a \in DOMAIN arenas : arenas'[a].thread = arenas[a].thread
         /\ \A a \in DOMAIN arenas : a # curr[t] => arenas'[a] = arenas[a]
         /\ ret'[t] = [arena |-> curr[t], chunk |-> Len(arenas'[curr[t]].chunks),
                       from |-> arenas'[curr[t]].index, request |-> request[t],
                       thread |-> t]
         /\ \/ /\ arenas'[curr[t]].chunks = At(t).chunks /\ At(t).chunks # <<>>
               /\ arenas'[curr[t]].index = AlignUp(At(t).index, request[t].align)
               /\ arenas'[curr[t]].index + request[t].size <= ChunkSize
            \/ /\ arenas'[curr[t]].chunks =
                    Append(At(t).chunks, Chunks(request[t].size) * ChunkSize)
               /\ arenas'[curr[t]].index = 0
  <1> DEFINE r       == request[t]
             aligned == [At(t) EXCEPT !.index = AlignUp(@, r.align)]
             more    == [aligned EXCEPT !.index = 0,
                           !.chunks = Append(@, Chunks(r.size) * ChunkSize)]
             arena   == IF Fits(aligned, r.size) THEN aligned ELSE more
  <1>1. curr[t] \in DOMAIN arenas /\ At(t) \in Arena /\ r \in Requests
    BY LenProperties, ElementOfSeq DEF ListInv, TypeOK, At
  <1>2. r.size \in Nat \ {0} /\ r.align \in Nat \ {0} /\ At(t).index \in Nat
    BY <1>1, RequestsAssumption DEF Arena
  <1>3. /\ AlignUp(At(t).index, r.align) \in Nat
        /\ Chunks(r.size) * ChunkSize \in Nat
    BY <1>2, AlignUpFact, ChunksFact
  <1>4. aligned \in Arena
    BY <1>1, <1>3 DEF Arena
  <1>5. Append(At(t).chunks, Chunks(r.size) * ChunkSize) \in Seq(Nat)
    BY <1>1, <1>3, AppendProperties DEF Arena
  <1>6. more \in Arena
    BY <1>1, <1>5 DEF Arena
  <1>7. arena \in Arena
    BY <1>4, <1>6
  <1>8. /\ arenas' = [arenas EXCEPT ![curr[t]] = arena]
        /\ ret' = [ret EXCEPT ![t] =
              [arena |-> curr[t], chunk |-> Len(arena.chunks),
               from |-> arena.index, request |-> r, thread |-> t]]
    BY DEF Align
  <1>9. /\ arena.thread = At(t).thread /\ arena.next = At(t).next
        /\ \/ /\ arena.chunks = At(t).chunks /\ At(t).chunks # <<>>
              /\ arena.index = AlignUp(At(t).index, r.align)
              /\ arena.index + r.size <= ChunkSize
           \/ /\ arena.chunks = Append(At(t).chunks, Chunks(r.size) * ChunkSize)
              /\ arena.index = 0
    BY <1>1, <1>4, <1>6 DEF Arena, Fits
  <1> HIDE DEF arena
  <1>10. TypeOK /\ DOMAIN ret = Threads
    BY DEF ListInv, TypeOK
  <1>11. /\ arenas' \in Seq(Arena) /\ arenas' # <<>>
         /\ DOMAIN arenas' = DOMAIN arenas
         /\ arenas'[curr[t]] = arena
         /\ \A a \in DOMAIN arenas : a # curr[t] => arenas'[a] = arenas[a]
    BY <1>1, <1>7, <1>8, <1>10, Replaced
  <1> QED BY <1>8, <1>9, <1>10, <1>11 DEF SameList, At

LEMMA TakeArenas ==
  ASSUME ListInv, NEW t \in Threads, Take(t)
  PROVE  /\ SameList
         /\ \A a \in DOMAIN arenas : arenas'[a].thread = arenas[a].thread
         /\ \A a \in DOMAIN arenas : a # curr[t] => arenas'[a] = arenas[a]
         /\ arenas'[curr[t]].chunks = At(t).chunks
         /\ arenas'[curr[t]].index = At(t).index + request[t].size
  <1> DEFINE arena == [arenas[curr[t]] EXCEPT !.index = @ + request[t].size]
  <1>1. curr[t] \in DOMAIN arenas /\ At(t) \in Arena /\ request[t] \in Requests
    BY LenProperties, ElementOfSeq DEF ListInv, TypeOK, At
  <1>2. At(t).index + request[t].size \in Nat
    BY <1>1, RequestsAssumption DEF Arena
  <1>3. arena \in Arena
    BY <1>1, <1>2 DEF Arena, At
  <1>4. arenas' = [arenas EXCEPT ![curr[t]] = arena]
    BY DEF Take
  <1>5. /\ arena.thread = At(t).thread /\ arena.next = At(t).next
        /\ arena.chunks = At(t).chunks
        /\ arena.index = At(t).index + request[t].size
    BY <1>1 DEF Arena, At
  <1> HIDE DEF arena
  <1>6. TypeOK
    BY DEF ListInv
  <1>7. /\ arenas' \in Seq(Arena) /\ arenas' # <<>>
        /\ DOMAIN arenas' = DOMAIN arenas
        /\ arenas'[curr[t]] = arena
        /\ \A a \in DOMAIN arenas : a # curr[t] => arenas'[a] = arenas[a]
    BY <1>1, <1>3, <1>4, <1>6, Replaced
  <1> QED BY <1>5, <1>7 DEF SameList, At

\* An arena that is found was not made by this call, which deletes nothing.
LEMMA FoundArenas ==
  ASSUME ListInv, NEW t \in Threads, Found(t)
  PROVE  allocated[t] = None /\ arenas' = arenas
  <1>1. ASSUME allocated[t] # None
        PROVE  FALSE
    <2>1. /\ curr[t] \in DOMAIN arenas /\ allocated[t] \in DOMAIN arenas
          /\ arenas[curr[t]].thread = t /\ arenas[allocated[t]].thread = t
      BY <1>1 DEF ListInv, TypeOK, Unlinked, Found, At
    <2>2. curr[t] = allocated[t]
      BY <2>1, CreatorAssumption DEF ListInv, OnePerThread, Live
    <2> QED BY <2>2, <1>1 DEF ListInv, Unlinked, Ahead
  <1> QED BY <1>1 DEF Found

LEMMA DestroyArenas ==
  ASSUME ListInv, NEW t \in Threads, Destroy(t)
  PROVE  /\ SameList
         /\ \A a \in DOMAIN arenas : arenas'[a].thread = NoThread
         /\ \A a \in DOMAIN arenas :
               arenas'[a].chunks \in {arenas[a].chunks, <<>>}
  <1> DEFINE freed(a) == [arenas[a] EXCEPT !.thread = NoThread, !.chunks = <<>>]
             new(a)   == IF a \in Chain THEN freed(a) ELSE arenas[a]
  <1>1. arenas' = [a \in DOMAIN arenas |-> new(a)]
    BY DEF Destroy
  <1>2. /\ \A a \in DOMAIN arenas : arenas[a] \in Arena
        /\ DOMAIN arenas = 1..Len(arenas) /\ Len(arenas) \in Nat \ {0}
    BY LenProperties, ElementOfSeq, EmptySeq DEF ListInv, TypeOK
  <1>3. ASSUME NEW a \in DOMAIN arenas
        PROVE  /\ new(a) \in Arena /\ new(a).next = arenas[a].next
               /\ new(a).chunks \in {arenas[a].chunks, <<>>}
               /\ new(a).thread = NoThread
    <2>1. arenas[a] \in Arena /\ <<>> \in Seq(Nat)
      BY <1>2, EmptySeq
    <2>2. CASE a \in Chain
      BY <2>1, <2>2 DEF Arena
    <2>3. CASE a \notin Chain
      <3>1. \A u \in Threads : allocated[u] = None
        BY DEF Destroy, Inside, ListInv, Unlinked, Searching
      <3>2. \A b \in Live : b \in Chain \/ \E u \in Threads : allocated[u] = b
        BY DEF ListInv, Kept
      <3>3. a # None
        BY <1>2, SMT DEF None
      <3>4. a \notin Live
        BY <2>3, <3>1, <3>2, <3>3
      <3> QED BY <2>1, <2>3, <3>4 DEF Live
    <2> QED BY <2>2, <2>3
  <1> HIDE DEF new
  <1>4. arenas' \in Seq(Arena) /\ Len(arenas') = Len(arenas)
    BY <1>1, <1>2, <1>3, SMT
  <1>5. arenas' # <<>>
    BY <1>2, <1>4, EmptySeq
  <1> QED BY <1>1, <1>3, <1>4, <1>5 DEF SameList

-----------------------------------------------------------------------------
(* Types *)

LEMMA InitTypes == Init => TypeOK
  <1> SUFFICES ASSUME Init PROVE TypeOK
    OBVIOUS
  <1>1. NewArena(Creator) \in Arena
    BY EmptySeq, CreatorAssumption DEF NewArena, Arena, None
  <1>2. /\ arenas \in Seq(Arena) /\ arenas # <<>>
        /\ DOMAIN arenas = {1} /\ arenas[1].next = None
    BY <1>1, SMT DEF Init, NewArena
  <1>3. AnyRequest \in Requests
    BY RequestsAssumption DEF AnyRequest
  <1> QED BY <1>2, <1>3 DEF Init, TypeOK, None

LEMMA NextTypes ==
  ASSUME ListInv, Bump, NextStep
  PROVE  TypeOK'
  <1> USE DEF Goto
  <1>0. TypeOK
    BY DEF ListInv
  <1>1. ASSUME NEW t \in Threads, Request(t)
        PROVE  TypeOK'
    <2>1. 1 \in DOMAIN arenas
      BY <1>0, LenProperties, EmptySeq DEF TypeOK
    <2> QED BY <1>0, <1>1, <2>1 DEF TypeOK, Request
  <1>2. ASSUME NEW t \in Threads, Follow(t)
        PROVE  TypeOK'
    BY <1>0, <1>2 DEF TypeOK, Follow, At
  <1>3. ASSUME NEW t \in Threads, AtEnd(t)
        PROVE  TypeOK'
    <2>1. CASE allocated[t] = None
      <3>1. arenas' = Append(arenas, NewArena(t))
        BY <1>3, <2>1 DEF AtEnd
      <3>2. /\ arenas' \in Seq(Arena) /\ arenas' # <<>>
            /\ DOMAIN arenas' = DOMAIN arenas \cup {Len(arenas) + 1}
            /\ arenas'[Len(arenas) + 1] = NewArena(t)
            /\ \A a \in DOMAIN arenas : arenas'[a] = arenas[a]
        BY <1>0, <3>1, Appended
      <3>3. \A a \in DOMAIN arenas' :
               arenas'[a].next \in {None} \cup DOMAIN arenas'
        BY <1>0, <3>2 DEF TypeOK, NewArena
      <3>4. curr' = curr /\ request' = request /\ ret' = ret
            /\ pc' = [pc EXCEPT ![t] = "exchange"]
            /\ allocated' = [allocated EXCEPT ![t] = Len(arenas) + 1]
        BY <1>3, <2>1 DEF AtEnd
      <3> QED BY <1>0, <3>2, <3>3, <3>4 DEF TypeOK
    <2>2. CASE allocated[t] # None
      BY <1>0, <1>3, <2>2 DEF TypeOK, AtEnd
    <2> QED BY <2>1, <2>2
  <1>4. ASSUME NEW t \in Threads, Exchange(t)
        PROVE  TypeOK'
    <2>1. CASE At(t).next = None
      <3>1. /\ arenas' \in Seq(Arena) /\ arenas' # <<>>
            /\ DOMAIN arenas' = DOMAIN arenas
            /\ arenas'[curr[t]] = [arenas[curr[t]] EXCEPT !.next = allocated[t]]
            /\ \A a \in DOMAIN arenas : a # curr[t] => arenas'[a] = arenas[a]
        BY <1>4, <2>1, ExchangeArenas DEF Exchange
      <3>2. arenas[curr[t]] \in Arena
        BY <1>0, LenProperties, ElementOfSeq DEF TypeOK
      <3>3. arenas'[curr[t]].next = allocated[t]
        BY <3>1, <3>2 DEF Arena
      <3> QED BY <1>0, <1>4, <2>1, <3>1, <3>3 DEF TypeOK, Exchange
    <2>2. CASE At(t).next # None
      BY <1>0, <1>4, <2>2 DEF TypeOK, Exchange, At
    <2> QED BY <2>1, <2>2
  <1>5. ASSUME NEW t \in Threads, Found(t)
        PROVE  TypeOK'
    BY <1>0, <1>5, FoundArenas DEF TypeOK, Found
  <1>6. ASSUME NEW t \in Threads, Align(t)
        PROVE  TypeOK'
    <2>1. SameList
      BY <1>6, AlignArenas
    <2> QED BY <1>0, <1>6, <2>1 DEF TypeOK, Align, SameList
  <1>7. ASSUME NEW t \in Threads, Take(t)
        PROVE  TypeOK'
    <2>1. SameList
      BY <1>7, TakeArenas
    <2> QED BY <1>0, <1>7, <2>1 DEF TypeOK, Take, SameList
  <1>8. ASSUME NEW t \in Threads, Destroy(t)
        PROVE  TypeOK'
    <2>1. SameList
      BY <1>8, DestroyArenas
    <2> QED BY <1>0, <1>8, <2>1 DEF TypeOK, Destroy, SameList
  <1>9. ASSUME Finished
        PROVE  TypeOK'
    BY <1>0, <1>9 DEF TypeOK, Finished, vars
  <1> QED BY <1>1, <1>2, <1>3, <1>4, <1>5, <1>6, <1>7, <1>8, <1>9
       DEF NextStep, AllocSpace

-----------------------------------------------------------------------------
(* The list invariant *)

LEMMA SameAfter ==
  ASSUME SameList \/ arenas' = arenas, NEW a \in DOMAIN arenas
  PROVE  After(a)' = After(a)
  <1>1. DOMAIN arenas' = DOMAIN arenas
    BY DEF SameList
  <1>2. \A S \in SUBSET DOMAIN arenas : Closed(S)' <=> Closed(S)
    BY DEF SameList, Closed, Next
  <1> QED BY <1>1, <1>2 DEF After

\* A step of one thread that leaves the arenas alone, or what of them the list
\* is about.
LEMMA QuietStep ==
  ASSUME ListInv, TypeOK',
         SameList \/ arenas' = arenas,
         \A a \in DOMAIN arenas : arenas'[a].thread = arenas[a].thread,
         allocated' = allocated,
         NEW t \in Threads,
         \A u \in Threads \ {t} : pc'[u] = pc[u] /\ curr'[u] = curr[u],
         arenas[1].thread # NoThread,
         curr'[t] \in Chain,
         pc'[t] = "exchange" => pc[t] = "exchange" /\ curr'[t] = curr[t],
         ~Searching(t)' => allocated[t] = None,
         Searching(t)' => \A a \in DOMAIN arenas :
             arenas[a].thread = t /\ a # allocated[t] => a \in After(curr'[t])
  PROVE  Unlinked' /\ Ahead' /\ OnePerThread' /\ Kept'
  <1>0. TypeOK /\ 1 \in DOMAIN arenas /\ 1 \in DOMAIN arenas'
        /\ DOMAIN arenas' = DOMAIN arenas
    BY LenProperties, EmptySeq DEF ListInv, TypeOK, SameList
  <1>1. \A a \in DOMAIN arenas : After(a)' = After(a)
    BY SameAfter
  <1>2. Chain' = Chain
    BY <1>0, <1>1 DEF Chain
  <1>3. Live' = Live
    BY <1>0 DEF Live
  <1>4. \A a \in DOMAIN arenas : arenas'[a].next = arenas[a].next
    BY DEF SameList
  <1>5. Unlinked'
    <2> SUFFICES ASSUME NEW u \in Threads
                 PROVE  /\ allocated[u] # None =>
                              /\ arenas'[allocated[u]].thread = u
                              /\ arenas'[allocated[u]].next = None
                              /\ allocated[u] \notin Chain
                        /\ pc'[u] = "exchange" =>
                              allocated[u] # None /\ arenas'[curr'[u]].thread # u
                        /\ ~Searching(u)' => allocated[u] = None
      BY <1>2 DEF Unlinked, At
    <2>1. allocated[u] # None => allocated[u] \in DOMAIN arenas
      BY <1>0 DEF TypeOK
    <2>2. curr[u] \in DOMAIN arenas
      BY <1>0 DEF TypeOK
    <2>3. CASE u = t
      BY <1>0, <1>4, <2>1, <2>2, <2>3 DEF ListInv, Unlinked, At
    <2>4. CASE u # t
      <3>1. Searching(u)' <=> Searching(u)
        BY <2>4 DEF Searching
      <3> QED BY <1>0, <1>4, <2>1, <2>2, <2>4, <3>1 DEF ListInv, Unlinked, At
    <2> QED BY <2>3, <2>4
  <1>6. Ahead'
    <2>1. ASSUME NEW u \in Threads
          PROVE  /\ curr'[u] \in Chain
                 /\ Searching(u)' =>
                      \A a \in DOMAIN arenas :
                         arenas[a].thread = u /\ a # allocated[u] =>
                            a \in After(curr'[u])
      <3>1. CASE u = t
        BY <3>1
      <3>2. CASE u # t
        <4>1. Searching(u)' <=> Searching(u)
          BY <3>2 DEF Searching
        <4> QED BY <3>2, <4>1 DEF ListInv, Ahead
      <3> QED BY <3>1, <3>2
    <2>2. ASSUME NEW u \in Threads
          PROVE  After(curr[u])' = After(curr'[u])
      <3>1. PICK k : k = curr'[u]
        OBVIOUS
      <3>2. k \in DOMAIN arenas
        BY <1>0, <3>1 DEF TypeOK
      <3>3. After(k)' = After(k)
        BY <1>1, <3>2
      <3>4. After(curr[u])' = After(k)'
        BY <3>1 DEF After
      <3> QED BY <3>1, <3>3, <3>4
    <2> QED BY <1>0, <1>2, <2>1, <2>2 DEF Ahead
  <1>7. OnePerThread'
    BY <1>0, <1>3 DEF ListInv, OnePerThread, Live
  <1>8. Kept'
    BY <1>0, <1>2, <1>3 DEF ListInv, Kept
  <1> QED BY <1>5, <1>6, <1>7, <1>8

\* The next state's chain is within a set that is closed there.
LEMMA ChainWithinNext ==
  ASSUME NEW X \in SUBSET DOMAIN arenas', 1 \in X,
         \A a \in X : arenas'[a].next # None => arenas'[a].next \in X
  PROVE  Chain' \subseteq X
  <1>1. Closed(X)'
    BY DEF Closed, Next
  <1> QED BY <1>1 DEF Chain, After

\* At the end of the list a thread owns nothing but what it has just made.
LEMMA EndOwns ==
  ASSUME ListInv, NEW t \in Threads, Searching(t),
         At(t).thread # t, At(t).next = None,
         NEW a \in DOMAIN arenas, arenas[a].thread = t
  PROVE  a = allocated[t]
  <1>1. curr[t] \in DOMAIN arenas
    BY DEF ListInv, TypeOK
  <1>2. a # allocated[t] => a \in After(curr[t])
    BY DEF ListInv, Ahead
  <1> QED BY <1>1, <1>2, AfterLast DEF At, Next

LEMMA AtEndStep ==
  ASSUME ListInv, TypeOK', NEW t \in Threads, AtEnd(t), allocated[t] = None,
         arenas[1].thread # NoThread
  PROVE  Unlinked' /\ Ahead' /\ OnePerThread' /\ Kept'
  <1> DEFINE n == Len(arenas) + 1
  <1>1. TypeOK /\ 1 \in DOMAIN arenas
    BY LenProperties, EmptySeq DEF ListInv, TypeOK
  <1>2. /\ arenas' = Append(arenas, NewArena(t))
        /\ allocated' = [allocated EXCEPT ![t] = n]
        /\ pc' = [pc EXCEPT ![t] = "exchange"]
        /\ curr' = curr /\ pc[t] = "find"
        /\ At(t).thread # t /\ At(t).next = None
    BY DEF AtEnd, Goto
  <1>3. /\ n \notin DOMAIN arenas /\ n # None
        /\ DOMAIN arenas' = DOMAIN arenas \cup {n}
        /\ arenas'[n].thread = t /\ arenas'[n].next = None
        /\ \A a \in DOMAIN arenas : arenas'[a] = arenas[a]
    BY <1>1, <1>2, Appended DEF NewArena, None
  <1> HIDE DEF n
  <1>4. ASSUME NEW a \in DOMAIN arenas
        PROVE  After(a) \subseteq After(a)'
    BY <1>1, <1>3, AfterGrows
  <1>5. Chain \subseteq Chain'
    BY <1>1, <1>4 DEF Chain
  <1>6. Chain' \subseteq Chain
    <2>1. PICK X : X = Chain
      OBVIOUS
    <2>2. X \subseteq DOMAIN arenas /\ 1 \in X
      BY <1>1, <2>1, AfterSelf DEF Chain, After
    <2>3. \A a \in X : arenas[a].next # None => arenas[a].next \in X
      BY <1>1, <2>1, AfterNext DEF Chain, Next
    <2>4. \A a \in X : arenas'[a].next # None => arenas'[a].next \in X
      BY <2>2, <2>3, <1>3
    <2>5. Chain' \subseteq X
      BY <2>2, <2>4, <1>3, ChainWithinNext
    <2> QED BY <2>1, <2>5
  <1>7. Chain' = Chain
    BY <1>5, <1>6
  <1>8. Chain \subseteq DOMAIN arenas
    BY DEF Chain, After
  <1>9. \A u \in Threads : curr[u] \in DOMAIN arenas
                           /\ allocated[u] \in {None} \cup DOMAIN arenas
    BY <1>1 DEF TypeOK
  <1>10. \A u \in Threads \ {t} : pc'[u] = pc[u] /\ allocated'[u] = allocated[u]
    BY <1>1, <1>2 DEF TypeOK
  <1>11. pc'[t] = "exchange" /\ allocated'[t] = n
    BY <1>1, <1>2 DEF TypeOK
  <1>12. Searching(t) /\ Searching(t)'
    BY <1>2, <1>11 DEF Searching
  <1>13. \A u \in Threads \ {t} : Searching(u)' <=> Searching(u)
    BY <1>10 DEF Searching
  <1>14. \A a \in DOMAIN arenas : arenas[a].thread # t
    <2>1. ASSUME NEW a \in DOMAIN arenas, arenas[a].thread = t
          PROVE  FALSE
      <3>1. a = None
        BY <1>2, <1>12, <2>1, EndOwns
      <3> QED BY <3>1, <1>1, LenProperties DEF TypeOK, None
    <2> QED BY <2>1
  <1>15. Unlinked'
    <2>1. ASSUME NEW u \in Threads
          PROVE  /\ allocated'[u] # None =>
                       /\ arenas'[allocated'[u]].thread = u
                       /\ arenas'[allocated'[u]].next = None
                       /\ allocated'[u] \notin Chain
                 /\ pc'[u] = "exchange" =>
                       allocated'[u] # None /\ arenas'[curr[u]].thread # u
                 /\ ~Searching(u)' => allocated'[u] = None
      <3>1. CASE u = t
        BY <1>2, <1>3, <1>8, <1>9, <1>11, <1>12, <3>1 DEF At
      <3>2. CASE u # t
        BY <1>3, <1>9, <1>10, <1>13, <3>2 DEF ListInv, Unlinked, At
      <3> QED BY <3>1, <3>2
    <2> QED BY <2>1, <1>2, <1>7 DEF Unlinked, At
  <1>16. Ahead'
    <2>1. ASSUME NEW u \in Threads, NEW k \in DOMAIN arenas, k = curr[u]
          PROVE  /\ k \in Chain
                 /\ Searching(u)' =>
                      \A a \in DOMAIN arenas' :
                         arenas'[a].thread = u /\ a # allocated'[u] =>
                            a \in After(k)'
      <3>1. k \in Chain
        BY <2>1 DEF ListInv, Ahead
      <3>2. CASE u = t
        BY <1>3, <1>11, <1>14, <3>1, <3>2
      <3>3. CASE u # t
        <4>1. Searching(u)' =>
                 \A a \in DOMAIN arenas :
                    arenas[a].thread = u /\ a # allocated[u] => a \in After(k)
          BY <1>13, <2>1, <3>3 DEF ListInv, Ahead
        <4>2. After(k) \subseteq After(k)'
          BY <1>4
        <4> QED BY <1>3, <1>10, <3>1, <3>3, <4>1, <4>2
      <3> QED BY <3>2, <3>3
    <2>2. ASSUME NEW u \in Threads, NEW k \in DOMAIN arenas, k = curr[u]
          PROVE  After(curr[u])' = After(k)'
      BY <1>2, <2>2 DEF After
    <2> QED BY <1>2, <1>7, <1>9, <2>1, <2>2 DEF Ahead
  <1>17. OnePerThread'
    BY <1>3, <1>14 DEF ListInv, OnePerThread, Live
  <1>18. Kept'
    <2>1. ASSUME NEW a \in DOMAIN arenas', arenas'[a].thread # NoThread
          PROVE  a \in Chain \/ \E u \in Threads : allocated'[u] = a
      <3>1. CASE a = n
        BY <1>11, <3>1
      <3>2. CASE a # n
        <4>1. a \in Chain \/ \E u \in Threads : allocated[u] = a
          BY <1>3, <2>1, <3>2 DEF ListInv, Kept, Live
        <4>2. a # None
          BY <1>1, <1>3, <2>1, <3>2, LenProperties DEF TypeOK, None
        <4> QED BY <1>10, <4>1, <4>2
      <3> QED BY <3>1, <3>2
    <2> QED BY <1>1, <1>3, <1>7, <2>1 DEF ListInv, Kept, Live
  <1> QED BY <1>15, <1>16, <1>17, <1>18

LEMMA ExchangeStep ==
  ASSUME ListInv, TypeOK', NEW t \in Threads, Exchange(t), At(t).next = None,
         arenas[1].thread # NoThread
  PROVE  Unlinked' /\ Ahead' /\ OnePerThread' /\ Kept'
  <1>1. TypeOK /\ 1 \in DOMAIN arenas
    BY LenProperties, EmptySeq DEF ListInv, TypeOK
  <1>2. /\ arenas' = [arenas EXCEPT ![curr[t]].next = allocated[t]]
        /\ allocated' = [allocated EXCEPT ![t] = None]
        /\ pc' = [pc EXCEPT ![t] = "find"]
        /\ curr' = curr /\ pc[t] = "exchange"
    BY DEF Exchange, Goto
  <1>3. PICK n : n = allocated[t]
    OBVIOUS
  <1>4. PICK last : last = curr[t]
    OBVIOUS
  <1>5. /\ n # None /\ n \in DOMAIN arenas /\ n \notin Chain
        /\ arenas[n].thread = t /\ arenas[n].next = None
        /\ last \in DOMAIN arenas /\ last \in Chain
        /\ arenas[last].thread # t /\ arenas[last].next = None
    BY <1>1, <1>2, <1>3, <1>4 DEF ListInv, Unlinked, Ahead, TypeOK, At
  <1>6. arenas[last] \in Arena
    BY <1>1, <1>5, LenProperties, ElementOfSeq DEF TypeOK
  <1>7. /\ DOMAIN arenas' = DOMAIN arenas
        /\ arenas'[last] = [arenas[last] EXCEPT !.next = n]
        /\ \A a \in DOMAIN arenas : a # last => arenas'[a] = arenas[a]
    BY <1>2, <1>3, <1>4, ExchangeArenas
  <1>8. /\ arenas'[last].next = n /\ arenas'[last].thread = arenas[last].thread
        /\ \A a \in DOMAIN arenas : arenas'[a].thread = arenas[a].thread
        /\ \A a \in DOMAIN arenas : a # last => arenas'[a].next = arenas[a].next
    BY <1>6, <1>7 DEF Arena
  <1>9. ASSUME NEW a \in DOMAIN arenas
        PROVE  After(a) \subseteq After(a)'
    BY <1>1, <1>5, <1>7, <1>8, AfterGrows
  <1>10. Chain \subseteq Chain'
    BY <1>1, <1>9 DEF Chain
  <1>11. Chain' \subseteq Chain \cup {n}
    <2>1. PICK X : X = Chain \cup {n}
      OBVIOUS
    <2>2. X \subseteq DOMAIN arenas /\ 1 \in X
      BY <1>1, <1>5, <2>1, AfterSelf DEF Chain, After
    <2>3. \A a \in X : arenas[a].next # None => arenas[a].next \in X
      BY <1>1, <1>5, <2>1, AfterNext DEF Chain, Next
    <2>4. \A a \in X : arenas'[a].next # None => arenas'[a].next \in X
      BY <1>5, <1>7, <1>8, <2>1, <2>2, <2>3
    <2>5. Chain' \subseteq X
      BY <2>2, <2>4, <1>7, ChainWithinNext
    <2> QED BY <2>1, <2>5
  <1>12. n \in Chain'
    <2>2. \A S \in SUBSET DOMAIN arenas' :
             last \in S /\ Closed(S)' => n \in S
      BY <1>5, <1>8 DEF Closed, Next
    <2>3. \A S \in SUBSET DOMAIN arenas' :
             1 \in S /\ Closed(S)' => last \in S
      BY <1>10, <1>5 DEF Chain, After
    <2> QED BY <1>5, <1>7, <2>2, <2>3 DEF Chain, After
  <1>13. \A u \in Threads : curr[u] \in DOMAIN arenas
                            /\ allocated[u] \in {None} \cup DOMAIN arenas
    BY <1>1 DEF TypeOK
  <1>14. \A u \in Threads \ {t} : pc'[u] = pc[u] /\ allocated'[u] = allocated[u]
    BY <1>1, <1>2 DEF TypeOK
  <1>15. pc'[t] = "find" /\ allocated'[t] = None
    BY <1>1, <1>2 DEF TypeOK
  <1>16. Searching(t) /\ Searching(t)'
    BY <1>2, <1>15 DEF Searching
  <1>17. \A u \in Threads \ {t} : Searching(u)' <=> Searching(u)
    BY <1>14 DEF Searching
  <1>18. \A a \in DOMAIN arenas : arenas[a].thread = t => a = n
    BY <1>2, <1>3, <1>4, <1>5, <1>16, EndOwns DEF At
  <1>19. Unlinked'
    <2>1. ASSUME NEW u \in Threads
          PROVE  /\ allocated'[u] # None =>
                       /\ arenas'[allocated'[u]].thread = u
                       /\ arenas'[allocated'[u]].next = None
                       /\ allocated'[u] \notin Chain'
                 /\ pc'[u] = "exchange" =>
                       allocated'[u] # None /\ arenas'[curr[u]].thread # u
                 /\ ~Searching(u)' => allocated'[u] = None
      <3>1. CASE u = t
        BY <1>15, <1>16, <3>1
      <3>2. CASE u # t
        <4>1. allocated[u] # None =>
                 /\ arenas[allocated[u]].thread = u /\ arenas[allocated[u]].next = None
                 /\ allocated[u] \notin Chain
                 /\ allocated[u] # last /\ allocated[u] # n
          BY <1>5, <3>2 DEF ListInv, Unlinked
        <4>2. /\ pc[u] = "exchange" => allocated[u] # None /\ arenas[curr[u]].thread # u
              /\ ~Searching(u) => allocated[u] = None
          BY DEF ListInv, Unlinked, At
        <4> QED BY <1>8, <1>11, <1>13, <1>14, <1>17, <3>2, <4>1, <4>2
      <3> QED BY <3>1, <3>2
    <2> QED BY <2>1, <1>2 DEF Unlinked, At
  <1>20. Ahead'
    <2>1. ASSUME NEW u \in Threads, NEW k \in DOMAIN arenas, k = curr[u]
          PROVE  /\ k \in Chain'
                 /\ Searching(u)' =>
                      \A a \in DOMAIN arenas' :
                         arenas'[a].thread = u /\ a # allocated'[u] =>
                            a \in After(k)'
      <3>1. k \in Chain'
        BY <1>10, <2>1 DEF ListInv, Ahead
      <3>2. CASE u = t
        <4>1. \A S \in SUBSET DOMAIN arenas' :
                 k \in S /\ Closed(S)' => n \in S
          BY <1>4, <1>5, <1>8, <2>1, <3>2 DEF Closed, Next
        <4>2. n \in After(k)'
          BY <1>5, <1>7, <4>1 DEF After
        <4> QED BY <1>7, <1>8, <1>18, <3>1, <3>2, <4>2
      <3>3. CASE u # t
        <4>1. Searching(u)' =>
                 \A a \in DOMAIN arenas :
                    arenas[a].thread = u /\ a # allocated[u] => a \in After(k)
          BY <1>17, <2>1, <3>3 DEF ListInv, Ahead
        <4>2. After(k) \subseteq After(k)'
          BY <1>9
        <4> QED BY <1>7, <1>8, <1>14, <3>1, <3>3, <4>1, <4>2
      <3> QED BY <3>2, <3>3
    <2>2. ASSUME NEW u \in Threads, NEW k \in DOMAIN arenas, k = curr[u]
          PROVE  After(curr[u])' = After(k)'
      BY <1>2, <2>2 DEF After
    <2> QED BY <1>2, <1>13, <2>1, <2>2 DEF Ahead
  <1>21. OnePerThread'
    BY <1>7, <1>8 DEF ListInv, OnePerThread, Live
  <1>22. Kept'
    <2>1. Live' = Live
      BY <1>7, <1>8 DEF Live
    <2>2. ASSUME NEW a \in Live
          PROVE  a \in Chain' \/ \E u \in Threads : allocated'[u] = a
      BY <1>3, <1>10, <1>12, <1>14 DEF ListInv, Kept
    <2> QED BY <1>1, <1>8, <2>1, <2>2 DEF ListInv, Kept
  <1> QED BY <1>19, <1>20, <1>21, <1>22

LEMMA DestroyStep ==
  ASSUME ListInv, TypeOK', NEW t \in Threads, Destroy(t)
  PROVE  Unlinked' /\ Ahead' /\ OnePerThread' /\ Kept'
  <1>1. TypeOK /\ 1 \in DOMAIN arenas
    BY LenProperties, EmptySeq DEF ListInv, TypeOK
  <1>2. SameList /\ \A a \in DOMAIN arenas : arenas'[a].thread = NoThread
    BY DestroyArenas
  <1>3. DOMAIN arenas' = DOMAIN arenas
    BY <1>2 DEF SameList
  <1>4. Chain' = Chain
    BY <1>1, <1>2, SameAfter DEF Chain
  <1>5. Live' = {}
    BY <1>2, <1>3 DEF Live
  <1>6. pc' = pc /\ curr' = curr /\ allocated' = allocated
        /\ \A u \in Threads : pc[u] = "idle"
    BY DEF Destroy, Inside
  <1>7. \A u \in Threads : allocated[u] = None /\ curr[u] \in Chain
    BY <1>6 DEF ListInv, Unlinked, Ahead, Searching
  <1>8. Unlinked'
    BY <1>6, <1>7 DEF Unlinked, Searching
  <1>9. Ahead'
    BY <1>4, <1>6, <1>7 DEF Ahead, Searching
  <1>10. OnePerThread'
    BY <1>5 DEF OnePerThread
  <1>11. Kept'
    BY <1>1, <1>2, <1>5, <1>6 DEF Kept, Inside
  <1> QED BY <1>8, <1>9, <1>10, <1>11

LEMMA InitList == Init => ListInv
  <1> SUFFICES ASSUME Init PROVE ListInv
    OBVIOUS
  <1>1. TypeOK
    BY InitTypes
  <1>2. DOMAIN arenas = {1} /\ arenas[1].next = None /\ arenas[1].thread = Creator
    BY SMT DEF Init, NewArena
  <1>3. Chain = {1}
    BY <1>2, AfterSelf DEF Chain, After
  <1>4. Unlinked /\ Ahead
    BY <1>3 DEF Init, Unlinked, Ahead, Searching
  <1>5. OnePerThread
    BY <1>2 DEF OnePerThread, Live
  <1>6. Kept
    BY <1>2, <1>3, CreatorAssumption DEF Kept, Live
  <1> QED BY <1>1, <1>4, <1>5, <1>6 DEF ListInv

LEMMA NextList ==
  ASSUME ListInv, Bump, NextStep
  PROVE  ListInv'
  <1>1. TypeOK' /\ TypeOK /\ 1 \in DOMAIN arenas
    BY NextTypes, LenProperties, EmptySeq DEF ListInv, TypeOK
  <1>2. ASSUME NEW t \in Threads, pc[t] # "idle"
        PROVE  arenas[1].thread # NoThread
    BY <1>2 DEF ListInv, Kept, Inside
  <1>3. ASSUME NEW t \in Threads, Request(t)
        PROVE  Unlinked' /\ Ahead' /\ OnePerThread' /\ Kept'
    <2>1. /\ arenas' = arenas /\ allocated' = allocated
          /\ pc' = [pc EXCEPT ![t] = "find"] /\ curr' = [curr EXCEPT ![t] = 1]
          /\ pc[t] = "idle" /\ arenas[1].thread = Creator
      BY <1>3 DEF Request, Goto
    <2>2. pc'[t] = "find" /\ curr'[t] = 1
      BY <1>1, <2>1 DEF TypeOK
    <2>3. 1 \in Chain
      BY <1>1, AfterSelf DEF Chain
    <2>4. ASSUME NEW a \in DOMAIN arenas, arenas[a].thread = t
          PROVE  a \in After(1)
      <3>1. a \in Live
        BY <2>4, CreatorAssumption DEF Live
      <3>2. allocated[t] = None /\ a # None
        BY <1>1, <2>1, LenProperties DEF ListInv, Unlinked, Searching, TypeOK, None
      <3>3. \A u \in Threads : allocated[u] = a => u = t
        BY <2>4, <3>2 DEF ListInv, Unlinked
      <3> QED BY <3>1, <3>2, <3>3 DEF ListInv, Kept, Chain
    <2>5. \A u \in Threads \ {t} : pc'[u] = pc[u] /\ curr'[u] = curr[u]
      BY <1>1, <2>1 DEF TypeOK
    <2>6. Searching(t)' /\ arenas[1].thread # NoThread
      BY <2>1, <2>2, CreatorAssumption DEF Searching
    <2> QED BY <1>1, <2>1, <2>2, <2>3, <2>4, <2>5, <2>6, QuietStep
  <1>4. ASSUME NEW t \in Threads, NEW k \in DOMAIN arenas, k = curr[t],
               Searching(t), Next(k) # None, arenas[k].thread # t,
               arenas' = arenas, allocated' = allocated,
               pc' = [pc EXCEPT ![t] = "find"],
               curr' = [curr EXCEPT ![t] = Next(k)]
        PROVE  Unlinked' /\ Ahead' /\ OnePerThread' /\ Kept'
    <2>1. pc'[t] = "find" /\ curr'[t] = Next(k)
      BY <1>1, <1>4 DEF TypeOK
    <2>2. k \in Chain
      BY <1>4 DEF ListInv, Ahead
    <2>3. Next(k) \in Chain
      BY <1>1, <1>4, <2>2, AfterNext DEF Chain
    <2>4. ASSUME NEW a \in DOMAIN arenas, arenas[a].thread = t, a # allocated[t]
          PROVE  a \in After(Next(k))
      <3>1. a \in After(k) /\ a # k
        BY <1>4, <2>4 DEF ListInv, Ahead
      <3> QED BY <1>1, <1>4, <3>1, AfterStep
    <2>5. \A u \in Threads \ {t} : pc'[u] = pc[u] /\ curr'[u] = curr[u]
      BY <1>1, <1>4 DEF TypeOK
    <2>6. Searching(t)' /\ arenas[1].thread # NoThread
      BY <1>2, <1>4, <2>1 DEF Searching
    <2> QED BY <1>1, <1>4, <2>1, <2>3, <2>4, <2>5, <2>6, QuietStep
  <1>5. ASSUME NEW t \in Threads, Follow(t)
        PROVE  Unlinked' /\ Ahead' /\ OnePerThread' /\ Kept'
    <2>1. pc' = [pc EXCEPT ![t] = "find"]
      BY <1>1, <1>5 DEF TypeOK, Follow
    <2>2. curr[t] \in DOMAIN arenas
      BY <1>1 DEF TypeOK
    <2> QED BY <1>4, <1>5, <2>1, <2>2 DEF Follow, Searching, At, Next
  <1>6. ASSUME NEW t \in Threads, AtEnd(t)
        PROVE  Unlinked' /\ Ahead' /\ OnePerThread' /\ Kept'
    <2>1. arenas[1].thread # NoThread
      BY <1>2, <1>6 DEF AtEnd
    <2>2. CASE allocated[t] = None
      BY <1>1, <1>6, <2>1, <2>2, AtEndStep
    <2>3. CASE allocated[t] # None
      <3>1. /\ arenas' = arenas /\ allocated' = allocated /\ curr' = curr
            /\ pc' = [pc EXCEPT ![t] = "exchange"]
            /\ pc[t] = "find" /\ At(t).thread # t
        BY <1>6, <2>3 DEF AtEnd, Goto
      <3>2. curr[t] \in Chain /\ Searching(t)
        BY <3>1 DEF ListInv, Ahead, Searching
      <3>3. Unlinked'
        <4>1. ASSUME NEW u \in Threads
              PROVE  /\ pc'[u] = "exchange" => allocated[u] # None /\ At(u).thread # u
                     /\ ~Searching(u)' => ~Searching(u)
          BY <1>1, <3>1, <2>3 DEF TypeOK, ListInv, Unlinked, Searching
        <4> QED BY <4>1, <3>1, SameAfter, <1>1 DEF ListInv, Unlinked, At, Chain
      <3>4. Ahead'
        <4>1. \A u \in Threads : Searching(u)' <=> Searching(u)
          BY <1>1, <3>1 DEF TypeOK, Searching
        <4>2. \A u \in Threads : curr[u] \in DOMAIN arenas
          BY <1>1 DEF TypeOK
        <4>3. ASSUME NEW k \in DOMAIN arenas
              PROVE  After(k)' = After(k)
          BY <3>1, SameAfter
        <4>4. ASSUME NEW u \in Threads
              PROVE  After(curr[u])' = After(curr[u])
          BY <3>1 DEF After, Closed, Next
        <4> QED BY <1>1, <3>1, <4>1, <4>2, <4>3, <4>4 DEF ListInv, Ahead, Chain
      <3>5. OnePerThread'
        BY <3>1 DEF ListInv, OnePerThread, Live
      <3>6. Kept'
        <4>1. Chain' = Chain
          BY <1>1, <3>1, SameAfter DEF Chain
        <4> QED BY <2>1, <3>1, <4>1 DEF ListInv, Kept, Live
      <3> QED BY <3>3, <3>4, <3>5, <3>6
    <2> QED BY <2>2, <2>3
  <1>7. ASSUME NEW t \in Threads, Exchange(t)
        PROVE  Unlinked' /\ Ahead' /\ OnePerThread' /\ Kept'
    <2>1. arenas[1].thread # NoThread
      BY <1>2, <1>7 DEF Exchange
    <2>2. CASE At(t).next = None
      BY <1>1, <1>7, <2>1, <2>2, ExchangeStep
    <2>3. CASE At(t).next # None
      <3>1. curr[t] \in DOMAIN arenas
        BY <1>1 DEF TypeOK
      <3>2. At(t).thread # t
        BY <1>7 DEF ListInv, Unlinked, Exchange
      <3> QED BY <1>4, <1>7, <2>3, <3>1, <3>2
               DEF Exchange, Goto, Searching, At, Next
    <2> QED BY <2>2, <2>3
  <1>8. ASSUME NEW t \in Threads, pc[t] # "idle",
               SameList \/ arenas' = arenas,
               \A a \in DOMAIN arenas : arenas'[a].thread = arenas[a].thread,
               allocated' = allocated, allocated[t] = None, curr' = curr,
               NEW label, pc' = [pc EXCEPT ![t] = label],
               label \in {"align", "take", "idle"}
        PROVE  Unlinked' /\ Ahead' /\ OnePerThread' /\ Kept'
    <2>1. pc'[t] = label /\ \A u \in Threads \ {t} : pc'[u] = pc[u]
      BY <1>1, <1>8 DEF TypeOK
    <2>2. ~Searching(t)' /\ pc'[t] # "exchange"
      BY <1>8, <2>1 DEF Searching
    <2>3. curr'[t] \in Chain /\ arenas[1].thread # NoThread
      BY <1>2, <1>8 DEF ListInv, Ahead
    <2> QED BY <1>1, <1>8, <2>1, <2>2, <2>3, QuietStep
  <1>9. ASSUME NEW t \in Threads, Found(t)
        PROVE  Unlinked' /\ Ahead' /\ OnePerThread' /\ Kept'
    <2>1. allocated[t] = None /\ arenas' = arenas
      BY <1>9, FoundArenas
    <2>2. allocated' = allocated
      BY <1>1, <1>9, <2>1 DEF Found, TypeOK
    <2> QED BY <1>8, <1>9, <2>1, <2>2 DEF Found, Goto
  <1>10. ASSUME NEW t \in Threads, Align(t)
         PROVE  Unlinked' /\ Ahead' /\ OnePerThread' /\ Kept'
    <2>1. SameList /\ \A a \in DOMAIN arenas : arenas'[a].thread = arenas[a].thread
      BY <1>10, AlignArenas
    <2>2. /\ allocated' = allocated /\ curr' = curr
          /\ pc' = [pc EXCEPT ![t] = "take"] /\ pc[t] = "align"
      BY <1>10 DEF Align, Goto
    <2>3. allocated[t] = None
      BY <2>2 DEF ListInv, Unlinked, Searching
    <2> QED BY <1>8, <2>1, <2>2, <2>3
  <1>11. ASSUME NEW t \in Threads, Take(t)
         PROVE  Unlinked' /\ Ahead' /\ OnePerThread' /\ Kept'
    <2>1. SameList /\ \A a \in DOMAIN arenas : arenas'[a].thread = arenas[a].thread
      BY <1>11, TakeArenas
    <2>2. /\ allocated' = allocated /\ curr' = curr
          /\ pc' = [pc EXCEPT ![t] = "idle"] /\ pc[t] = "take"
      BY <1>11 DEF Take, Goto
    <2>3. allocated[t] = None
      BY <2>2 DEF ListInv, Unlinked, Searching
    <2> QED BY <1>8, <2>1, <2>2, <2>3
  <1>12. ASSUME NEW t \in Threads, Destroy(t)
         PROVE  Unlinked' /\ Ahead' /\ OnePerThread' /\ Kept'
    BY <1>1, <1>12, DestroyStep
  <1>13. ASSUME Finished
         PROVE  Unlinked' /\ Ahead' /\ OnePerThread' /\ Kept'
    BY <1>13 DEF Finished, vars, ListInv, Unlinked, Ahead, OnePerThread, Kept,
       Live, Inside, Searching, At, Chain, After, Closed, Next
  <1> QED BY <1>1, <1>3, <1>5, <1>6, <1>7, <1>9, <1>10, <1>11, <1>12, <1>13
       DEF NextStep, AllocSpace, ListInv

-----------------------------------------------------------------------------
(* The bump allocator's invariant *)

\* A step that changes no chunk and no index, and sends at most a thread that
\* has found its arena to the bump allocator.
LEMMA BumpQuiet ==
  ASSUME ListInv, Bump, TypeOK',
         DOMAIN arenas \subseteq DOMAIN arenas',
         \A a \in DOMAIN arenas :
            /\ arenas'[a].chunks = arenas[a].chunks
            /\ arenas'[a].index = arenas[a].index
            /\ arenas'[a].thread = arenas[a].thread,
         \A a \in DOMAIN arenas' \ DOMAIN arenas : arenas'[a].chunks = <<>>,
         ret' = ret, allocations' = allocations,
         \A t \in Threads : pc'[t] \in {"align", "take"} =>
            /\ curr'[t] = curr[t] /\ request'[t] = request[t]
            /\ pc'[t] = pc[t] \/ (pc'[t] = "align" /\ At(t).thread = t)
  PROVE  Bump'
  <1>1. TypeOK /\ \A t \in Threads : curr[t] \in DOMAIN arenas
    BY DEF ListInv, TypeOK
  <1>2. \A a \in DOMAIN arenas' : \A c \in DOMAIN arenas'[a].chunks :
           ChunkSize <= arenas'[a].chunks[c]
    BY DEF Bump
  <1>3. \A t \in Threads : pc'[t] \in {"align", "take"} =>
           arenas'[curr'[t]].thread = t
    BY <1>1 DEF Bump, At
  <1>4. ASSUME NEW t \in Threads, pc'[t] = "take"
        PROVE  /\ Placed(ret[t])'
               /\ ret[t].arena = curr'[t] /\ ret[t].request = request'[t]
               /\ ret[t].chunk = Len(arenas'[curr'[t]].chunks)
               /\ ret[t].from = arenas'[curr'[t]].index
    <2>1. pc[t] = "take" /\ curr'[t] = curr[t] /\ request'[t] = request[t]
      BY <1>4
    <2>2. Placed(ret[t])'
      BY <2>1 DEF Bump, Placed, End
    <2> QED BY <1>1, <2>1, <2>2 DEF Bump, At
  <1>5. ASSUME NEW a \in allocations
        PROVE  /\ Placed(a)'
               /\ a.chunk = Len(arenas'[a.arena].chunks) =>
                     End(a) <= arenas'[a.arena].index
    BY DEF Bump, Placed, End
  <1> QED BY <1>2, <1>3, <1>4, <1>5 DEF Bump, At

LEMMA AlignBump ==
  ASSUME ListInv, Bump, NEW t \in Threads, Align(t)
  PROVE  Bump'
  <1>1. PICK c : c = curr[t]
    OBVIOUS
  <1>2. PICK r : r = request[t]
    OBVIOUS
  <1>3. /\ c \in DOMAIN arenas /\ r \in Requests /\ arenas[c] \in Arena
        /\ arenas[c].thread = t
    BY <1>1, <1>2, LenProperties, ElementOfSeq
       DEF ListInv, TypeOK, Bump, Align, At
  <1>4. r.size \in Nat \ {0} /\ r.align \in Nat \ {0}
        /\ arenas[c].chunks \in Seq(Nat) /\ arenas[c].index \in Nat
    BY <1>3, RequestsAssumption DEF Arena
  <1>5. /\ DOMAIN arenas' = DOMAIN arenas
        /\ \A a \in DOMAIN arenas : arenas'[a].thread = arenas[a].thread
        /\ \A a \in DOMAIN arenas : a # c => arenas'[a] = arenas[a]
        /\ ret'[t] = [arena |-> c, chunk |-> Len(arenas'[c].chunks),
                      from |-> arenas'[c].index, request |-> r, thread |-> t]
        /\ \/ /\ arenas'[c].chunks = arenas[c].chunks /\ arenas[c].chunks # <<>>
              /\ arenas'[c].index = AlignUp(arenas[c].index, r.align)
              /\ arenas'[c].index + r.size <= ChunkSize
           \/ /\ arenas'[c].chunks =
                    Append(arenas[c].chunks, Chunks(r.size) * ChunkSize)
              /\ arenas'[c].index = 0
    BY <1>1, <1>2, AlignArenas DEF SameList, At
  <1>6. /\ curr' = curr /\ request' = request /\ allocations' = allocations
        /\ pc'[t] = "take"
        /\ \A u \in Threads \ {t} : pc'[u] = pc[u] /\ ret'[u] = ret[u]
    BY DEF Align, Goto, ListInv, TypeOK
  <1>7. /\ \A k \in DOMAIN arenas[c].chunks :
              /\ k \in DOMAIN arenas'[c].chunks
              /\ arenas'[c].chunks[k] = arenas[c].chunks[k]
        /\ \A k \in DOMAIN arenas'[c].chunks : ChunkSize <= arenas'[c].chunks[k]
        /\ Len(arenas'[c].chunks) \in DOMAIN arenas'[c].chunks
        /\ arenas'[c].index + r.size <= arenas'[c].chunks[Len(arenas'[c].chunks)]
        /\ arenas'[c].index \in Nat /\ arenas'[c].index % r.align = 0
        /\ \/ arenas'[c].chunks = arenas[c].chunks
              /\ arenas[c].index <= arenas'[c].index
           \/ Len(arenas'[c].chunks) \notin DOMAIN arenas[c].chunks
    <2>1. \A k \in DOMAIN arenas[c].chunks : ChunkSize <= arenas[c].chunks[k]
      BY <1>3 DEF Bump
    <2>2. DOMAIN arenas[c].chunks = 1..Len(arenas[c].chunks)
          /\ Len(arenas[c].chunks) \in Nat
          /\ \A k \in 1..Len(arenas[c].chunks) : arenas[c].chunks[k] \in Nat
      BY <1>4, LenProperties, ElementOfSeq
    <2>3. CASE /\ arenas'[c].chunks = arenas[c].chunks /\ arenas[c].chunks # <<>>
               /\ arenas'[c].index = AlignUp(arenas[c].index, r.align)
               /\ arenas'[c].index + r.size <= ChunkSize
      <3>1. Len(arenas[c].chunks) \in Nat \ {0}
        BY <2>3, <1>4, EmptySeq
      <3>2. /\ AlignUp(arenas[c].index, r.align) \in Nat
            /\ arenas[c].index <= AlignUp(arenas[c].index, r.align)
            /\ AlignUp(arenas[c].index, r.align) % r.align = 0
        BY <1>4, AlignUpFact
      <3>3. Len(arenas[c].chunks) \in DOMAIN arenas[c].chunks
        BY <2>2, <3>1
      <3>4. arenas'[c].index + r.size <= arenas[c].chunks[Len(arenas[c].chunks)]
        <4>1. /\ ChunkSize <= arenas[c].chunks[Len(arenas[c].chunks)]
              /\ arenas[c].chunks[Len(arenas[c].chunks)] \in Nat
          BY <2>1, <2>2, <3>3
        <4> QED BY <1>4, <2>3, <3>2, <4>1, ChunkAssumption
      <3> QED BY <2>1, <2>3, <3>2, <3>3, <3>4
    <2>4. CASE /\ arenas'[c].chunks =
                     Append(arenas[c].chunks, Chunks(r.size) * ChunkSize)
               /\ arenas'[c].index = 0
      <3> DEFINE last == Chunks(r.size) * ChunkSize
      <3>1. last \in Nat /\ ChunkSize <= last /\ r.size <= last
        BY <1>4, ChunksFact
      <3> HIDE DEF last
      <3>2. arenas'[c].chunks = Append(arenas[c].chunks, last)
        BY <2>4 DEF last
      <3>3. /\ arenas'[c].chunks \in Seq(Nat)
            /\ Len(arenas'[c].chunks) = Len(arenas[c].chunks) + 1
            /\ \A k \in 1..Len(arenas[c].chunks) :
                  arenas'[c].chunks[k] = arenas[c].chunks[k]
            /\ arenas'[c].chunks[Len(arenas[c].chunks) + 1] = last
        BY <1>4, <3>1, <3>2, AppendProperties
      <3>4. DOMAIN arenas'[c].chunks = 1..(Len(arenas[c].chunks) + 1)
        BY <3>3, LenProperties
      <3>5. 0 % r.align = 0
        BY <1>4, ZeroMod
      <3>6. \A k \in DOMAIN arenas[c].chunks :
               /\ k \in DOMAIN arenas'[c].chunks
               /\ arenas'[c].chunks[k] = arenas[c].chunks[k]
        <4>1. \A k \in 1..Len(arenas[c].chunks) : k \in 1..(Len(arenas[c].chunks) + 1)
          BY <2>2
        <4>2. DOMAIN arenas[c].chunks = 1..Len(arenas[c].chunks)
          BY <2>2
        <4> QED BY <3>3, <3>4, <4>1, <4>2, Zenon
      <3>7. \A k \in DOMAIN arenas'[c].chunks : ChunkSize <= arenas'[c].chunks[k]
        <4>1. \A k \in 1..(Len(arenas[c].chunks) + 1) :
                 k \in DOMAIN arenas[c].chunks \/ k = Len(arenas[c].chunks) + 1
          BY <2>2
        <4> QED BY <2>1, <3>1, <3>3, <3>4, <3>6, <4>1
      <3>8. /\ Len(arenas'[c].chunks) \in DOMAIN arenas'[c].chunks
            /\ Len(arenas'[c].chunks) \notin DOMAIN arenas[c].chunks
        BY <2>2, <3>3, <3>4
      <3>9. 0 + r.size <= arenas'[c].chunks[Len(arenas'[c].chunks)]
        BY <1>4, <3>1, <3>3
      <3> QED BY <2>4, <3>5, <3>6, <3>7, <3>8, <3>9
    <2> QED BY <1>5, <2>3, <2>4
  <1>8. ASSUME NEW a, Placed(a)
        PROVE  /\ a.arena \in DOMAIN arenas'
               /\ a.chunk \in DOMAIN arenas'[a.arena].chunks
               /\ End(a) <= arenas'[a.arena].chunks[a.chunk]
    <2>1. CASE a.arena = c
      BY <1>5, <1>7, <1>8, <2>1 DEF Placed
    <2>2. CASE a.arena # c
      BY <1>5, <1>8, <2>2 DEF Placed
    <2> QED BY <2>1, <2>2
  <1>9. \A a \in DOMAIN arenas' : \A k \in DOMAIN arenas'[a].chunks :
           ChunkSize <= arenas'[a].chunks[k]
    BY <1>5, <1>7 DEF Bump
  <1>10. \A u \in Threads : pc'[u] \in {"align", "take"} =>
            arenas'[curr[u]].thread = u
    <2>1. \A u \in Threads : curr[u] \in DOMAIN arenas
      BY DEF ListInv, TypeOK
    <2> QED BY <1>1, <1>3, <1>5, <1>6, <2>1 DEF Bump, At
  <1>11. ASSUME NEW u \in Threads, pc'[u] = "take"
         PROVE  /\ Placed(ret[u])'
                /\ ret'[u].arena = curr[u] /\ ret'[u].request = request[u]
                /\ ret'[u].chunk = Len(arenas'[curr[u]].chunks)
                /\ ret'[u].from = arenas'[curr[u]].index
    <2>1. CASE u = t
      BY <1>1, <1>2, <1>3, <1>5, <1>7, <2>1 DEF Placed, End
    <2>2. CASE u # t
      <3>1. pc[u] = "take" /\ ret'[u] = ret[u]
        BY <1>6, <1>11, <2>2
      <3>2. Placed(ret[u]) /\ arenas[curr[u]].thread = u /\ curr[u] \in DOMAIN arenas
            /\ ret[u].arena = curr[u] /\ ret[u].request = request[u]
            /\ ret[u].chunk = Len(arenas[curr[u]].chunks)
            /\ ret[u].from = arenas[curr[u]].index
        BY <3>1 DEF Bump, At, ListInv, TypeOK
      <3>3. curr[u] # c
        BY <1>3, <2>2, <3>2
      <3>4. Placed(ret[u])'
        BY <1>8, <3>1, <3>2 DEF Placed, End
      <3> QED BY <1>5, <3>1, <3>2, <3>3, <3>4
    <2> QED BY <2>1, <2>2
  <1>12. ASSUME NEW a \in allocations
         PROVE  /\ Placed(a)'
                /\ a.chunk = Len(arenas'[a.arena].chunks) =>
                      End(a) <= arenas'[a.arena].index
    <2>1. Placed(a) /\ (a.chunk = Len(arenas[a.arena].chunks) =>
                          End(a) <= arenas[a.arena].index)
      BY DEF Bump
    <2>2. Placed(a)'
      BY <1>8, <2>1 DEF Placed, End
    <2>3. End(a) \in Nat
      BY <2>1, RequestsAssumption DEF Placed, End
    <2>4. CASE a.arena = c
      BY <1>4, <1>7, <2>1, <2>2, <2>3, <2>4 DEF Placed
    <2>5. CASE a.arena # c
      BY <1>5, <2>1, <2>2, <2>5 DEF Placed
    <2> QED BY <2>2, <2>4, <2>5
  <1> QED BY <1>6, <1>9, <1>10, <1>11, <1>12 DEF Bump, At, End

LEMMA TakeBump ==
  ASSUME ListInv, Bump, NoOverlap, NEW t \in Threads, Take(t)
  PROVE  Bump' /\ NoOverlap'
  <1>1. PICK c : c = curr[t]
    OBVIOUS
  <1>2. PICK new : new = ret[t]
    OBVIOUS
  <1>3. /\ c \in DOMAIN arenas /\ arenas[c] \in Arena /\ arenas[c].thread = t
        /\ Placed(new) /\ new.arena = c /\ new.request = request[t]
        /\ new.chunk = Len(arenas[c].chunks) /\ new.from = arenas[c].index
    BY <1>1, <1>2, LenProperties, ElementOfSeq
       DEF ListInv, TypeOK, Bump, Take, At
  <1>4. /\ DOMAIN arenas' = DOMAIN arenas
        /\ \A a \in DOMAIN arenas : arenas'[a].thread = arenas[a].thread
        /\ \A a \in DOMAIN arenas : a # c => arenas'[a] = arenas[a]
        /\ arenas'[c].chunks = arenas[c].chunks
        /\ arenas'[c].index = arenas[c].index + request[t].size
    BY <1>1, TakeArenas DEF SameList, At
  <1>5. /\ curr' = curr /\ request' = request /\ allocations' = allocations \cup {new}
        /\ pc'[t] = "idle"
        /\ \A u \in Threads \ {t} : pc'[u] = pc[u] /\ ret'[u] = ret[u]
    BY <1>2 DEF Take, Goto, ListInv, TypeOK
  <1>6. ASSUME NEW a, Placed(a)
        PROVE  End(a) \in Nat /\ a.from \in Nat /\ a.from <= End(a)
    BY <1>6, RequestsAssumption DEF Placed, End
  <1>7. ASSUME NEW a, Placed(a)
        PROVE  /\ a.arena \in DOMAIN arenas'
               /\ a.chunk \in DOMAIN arenas'[a.arena].chunks
               /\ End(a) <= arenas'[a.arena].chunks[a.chunk]
    <2>1. CASE a.arena = c
      BY <1>4, <1>7, <2>1 DEF Placed
    <2>2. CASE a.arena # c
      BY <1>4, <1>7, <2>2 DEF Placed
    <2> QED BY <2>1, <2>2
  <1>8. arenas'[c].index = End(new) /\ arenas[c].index <= arenas'[c].index
        /\ arenas[c].index \in Nat
    BY <1>3, <1>4, <1>6 DEF End
  <1>9. \A a \in DOMAIN arenas' : \A k \in DOMAIN arenas'[a].chunks :
           ChunkSize <= arenas'[a].chunks[k]
    <2>1. \A a \in DOMAIN arenas : arenas'[a].chunks = arenas[a].chunks
      BY <1>4
    <2> QED BY <1>4, <2>1 DEF Bump
  <1>10. \A u \in Threads : pc'[u] \in {"align", "take"} =>
            arenas'[curr[u]].thread = u
    <2>1. \A u \in Threads : curr[u] \in DOMAIN arenas
      BY DEF ListInv, TypeOK
    <2> QED BY <1>3, <1>4, <1>5, <2>1 DEF Bump, At
  <1>11. ASSUME NEW u \in Threads, pc'[u] = "take"
         PROVE  /\ Placed(ret[u])'
                /\ ret'[u].arena = curr[u] /\ ret'[u].request = request[u]
                /\ ret'[u].chunk = Len(arenas'[curr[u]].chunks)
                /\ ret'[u].from = arenas'[curr[u]].index
    <2>1. u # t /\ pc[u] = "take" /\ ret'[u] = ret[u]
      BY <1>5, <1>11
    <2>2. Placed(ret[u]) /\ arenas[curr[u]].thread = u /\ curr[u] \in DOMAIN arenas
          /\ ret[u].arena = curr[u] /\ ret[u].request = request[u]
          /\ ret[u].chunk = Len(arenas[curr[u]].chunks)
          /\ ret[u].from = arenas[curr[u]].index
      BY <2>1 DEF Bump, At, ListInv, TypeOK
    <2>3. curr[u] # c
      BY <1>3, <2>1, <2>2
    <2>4. Placed(ret[u])'
      BY <1>7, <2>1, <2>2 DEF Placed, End
    <2> QED BY <1>4, <2>1, <2>2, <2>3, <2>4
  <1>12. ASSUME NEW a \in allocations'
         PROVE  /\ Placed(a)'
                /\ a.chunk = Len(arenas'[a.arena].chunks) =>
                      End(a) <= arenas'[a.arena].index
    <2>1. Placed(a)
      BY <1>3, <1>5 DEF Bump
    <2>2. Placed(a)'
      BY <1>7, <2>1 DEF Placed, End
    <2>3. CASE a = new
      BY <1>3, <1>6, <1>8, <2>2, <2>3
    <2>4. CASE a # new
      <3>1. a.chunk = Len(arenas[a.arena].chunks) => End(a) <= arenas[a.arena].index
        BY <1>5, <2>4 DEF Bump
      <3>2. End(a) \in Nat
        BY <1>6, <2>1
      <3>3. CASE a.arena = c
        BY <1>4, <1>6, <1>3, <1>8, <2>2, <3>1, <3>2, <3>3
      <3>4. CASE a.arena # c
        BY <1>4, <2>1, <2>2, <3>1, <3>4 DEF Placed
      <3> QED BY <3>3, <3>4
    <2> QED BY <2>3, <2>4
  <1>13. Bump'
    BY <1>5, <1>9, <1>10, <1>11, <1>12 DEF Bump, At, End
  <1>14. NoOverlap'
    <2>1. ASSUME NEW a \in allocations, a.arena = new.arena, a.chunk = new.chunk
          PROVE  End(a) <= new.from
      BY <1>3, <2>1 DEF Bump
    <2> QED BY <1>5, <2>1 DEF NoOverlap, End
  <1> QED BY <1>13, <1>14

LEMMA DestroyBump ==
  ASSUME ListInv, Bump, NEW t \in Threads, Destroy(t)
  PROVE  Bump' /\ NoOverlap'
  <1>1. /\ DOMAIN arenas' = DOMAIN arenas
        /\ \A a \in DOMAIN arenas : arenas'[a].chunks \in {arenas[a].chunks, <<>>}
    BY DestroyArenas DEF SameList
  <1>2. \A a \in DOMAIN arenas' : \A k \in DOMAIN arenas'[a].chunks :
           ChunkSize <= arenas'[a].chunks[k]
    <2>1. DOMAIN <<>> = {}
      BY EmptySeq, LenProperties
    <2> QED BY <1>1, <2>1 DEF Bump
  <1>3. allocations' = {} /\ \A u \in Threads : pc'[u] = "idle"
    BY DEF Destroy, Inside
  <1> QED BY <1>2, <1>3 DEF Bump, NoOverlap

-----------------------------------------------------------------------------
(* The inductive invariant *)

LEMMA InitInv == Init => IInv
  <1> SUFFICES ASSUME Init PROVE IInv
    OBVIOUS
  <1>1. DOMAIN arenas = {1} /\ arenas[1].chunks = <<>> /\ DOMAIN <<>> = {}
    BY EmptySeq, LenProperties, SMT DEF Init, NewArena
  <1> QED BY <1>1, InitList DEF Init, IInv, Bump, NoOverlap

LEMMA NextInv ==
  ASSUME IInv, NextStep
  PROVE  IInv'
  <1>1. ListInv /\ Bump /\ NoOverlap /\ TypeOK
    BY DEF IInv, ListInv
  <1>2. ListInv' /\ TypeOK'
    BY <1>1, NextList DEF ListInv
  <1>3. ASSUME NEW t \in Threads, Request(t)
        PROVE  Bump' /\ NoOverlap'
    <2>1. \A u \in Threads : pc'[u] \in {"align", "take"} =>
             u # t /\ pc'[u] = pc[u]
      BY <1>1, <1>3 DEF TypeOK, Request, Goto
    <2>2. \A u \in Threads \ {t} : curr'[u] = curr[u] /\ request'[u] = request[u]
      BY <1>1, <1>3 DEF TypeOK, Request
    <2> QED BY <1>1, <1>2, <1>3, <2>1, <2>2, BumpQuiet DEF Request, NoOverlap, End
  <1>4. ASSUME NEW t \in Threads, pc[t] \in {"find", "exchange"},
               pc'[t] \in {"find", "exchange"}, curr'[t] \in DOMAIN arenas,
               \A u \in Threads \ {t} : pc'[u] = pc[u] /\ curr'[u] = curr[u],
               request' = request, ret' = ret, allocations' = allocations,
               DOMAIN arenas \subseteq DOMAIN arenas',
               \A a \in DOMAIN arenas :
                  /\ arenas'[a].chunks = arenas[a].chunks
                  /\ arenas'[a].index = arenas[a].index
                  /\ arenas'[a].thread = arenas[a].thread,
               \A a \in DOMAIN arenas' \ DOMAIN arenas : arenas'[a].chunks = <<>>
        PROVE  Bump' /\ NoOverlap'
    <2>1. \A u \in Threads : pc'[u] \in {"align", "take"} =>
             /\ curr'[u] = curr[u] /\ request'[u] = request[u]
             /\ pc'[u] = pc[u]
      BY <1>4
    <2> QED BY <1>1, <1>2, <1>4, <2>1, BumpQuiet DEF NoOverlap, End
  <1>5. ASSUME NEW t \in Threads, Follow(t)
        PROVE  Bump' /\ NoOverlap'
    BY <1>1, <1>2, <1>4, <1>5 DEF Follow, TypeOK
  <1>6. ASSUME NEW t \in Threads, AtEnd(t)
        PROVE  Bump' /\ NoOverlap'
    <2>1. /\ pc[t] = "find" /\ pc'[t] = "exchange"
          /\ \A u \in Threads \ {t} : pc'[u] = pc[u]
          /\ curr' = curr /\ request' = request /\ ret' = ret
          /\ allocations' = allocations /\ curr'[t] \in DOMAIN arenas
      BY <1>1, <1>6 DEF AtEnd, Goto, TypeOK
    <2>2. CASE allocated[t] = None
      <3>1. arenas' = Append(arenas, NewArena(t))
        BY <1>6, <2>2 DEF AtEnd
      <3>2. /\ DOMAIN arenas' = DOMAIN arenas \cup {Len(arenas) + 1}
            /\ arenas'[Len(arenas) + 1].chunks = <<>>
            /\ \A a \in DOMAIN arenas : arenas'[a] = arenas[a]
        BY <1>1, <3>1, Appended DEF NewArena
      <3> QED BY <1>4, <2>1, <3>2
    <2>3. CASE allocated[t] # None
      BY <1>4, <1>6, <2>1, <2>3 DEF AtEnd
    <2> QED BY <2>2, <2>3
  <1>7. ASSUME NEW t \in Threads, Exchange(t)
        PROVE  Bump' /\ NoOverlap'
    <2>1. /\ pc[t] = "exchange" /\ pc'[t] = "find"
          /\ \A u \in Threads \ {t} : pc'[u] = pc[u] /\ curr'[u] = curr[u]
          /\ request' = request /\ ret' = ret
          /\ allocations' = allocations /\ curr'[t] \in DOMAIN arenas
      BY <1>1, <1>2, <1>7 DEF Exchange, Goto, TypeOK, At
    <2>2. CASE At(t).next = None
      <3>1. /\ DOMAIN arenas' = DOMAIN arenas
            /\ arenas'[curr[t]] = [arenas[curr[t]] EXCEPT !.next = allocated[t]]
            /\ \A a \in DOMAIN arenas : a # curr[t] => arenas'[a] = arenas[a]
        BY <1>1, <1>7, <2>2, ExchangeArenas DEF Exchange
      <3>2. arenas[curr[t]] \in Arena
        BY <1>1, LenProperties, ElementOfSeq DEF TypeOK
      <3>3. \A a \in DOMAIN arenas :
               /\ arenas'[a].chunks = arenas[a].chunks
               /\ arenas'[a].index = arenas[a].index
               /\ arenas'[a].thread = arenas[a].thread
        BY <3>1, <3>2 DEF Arena
      <3> QED BY <1>4, <2>1, <3>1, <3>3
    <2>3. CASE At(t).next # None
      BY <1>4, <1>7, <2>1, <2>3 DEF Exchange
    <2> QED BY <2>2, <2>3
  <1>8. ASSUME NEW t \in Threads, Found(t)
        PROVE  Bump' /\ NoOverlap'
    <2>1. arenas' = arenas
      BY <1>1, <1>8, FoundArenas
    <2>2. /\ pc'[t] = "align" /\ At(t).thread = t
          /\ \A u \in Threads \ {t} : pc'[u] = pc[u]
          /\ curr' = curr /\ request' = request /\ ret' = ret
          /\ allocations' = allocations
      BY <1>1, <1>8 DEF Found, Goto, TypeOK
    <2>3. \A u \in Threads : pc'[u] \in {"align", "take"} =>
             /\ curr'[u] = curr[u] /\ request'[u] = request[u]
             /\ pc'[u] = pc[u] \/ (pc'[u] = "align" /\ At(u).thread = u)
      BY <2>2
    <2> QED BY <1>1, <1>2, <2>1, <2>2, <2>3, BumpQuiet DEF NoOverlap, End
  <1>9. ASSUME NEW t \in Threads, Align(t)
        PROVE  Bump' /\ NoOverlap'
    BY <1>1, <1>9, AlignBump DEF Align, NoOverlap, End
  <1>10. ASSUME NEW t \in Threads, Take(t)
         PROVE  Bump' /\ NoOverlap'
    BY <1>1, <1>10, TakeBump
  <1>11. ASSUME NEW t \in Threads, Destroy(t)
         PROVE  Bump' /\ NoOverlap'
    BY <1>1, <1>11, DestroyBump
  <1>12. ASSUME Finished
         PROVE  Bump' /\ NoOverlap'
    BY <1>1, <1>12 DEF Finished, vars, Bump, Placed, At, NoOverlap, End
  <1> QED BY <1>2, <1>3, <1>5, <1>6, <1>7, <1>8, <1>9, <1>10, <1>11, <1>12
       DEF NextStep, AllocSpace, IInv

\* A step that changes nothing keeps the invariant.
LEMMA StutterInv ==
  ASSUME IInv, UNCHANGED vars
  PROVE  IInv'
  <1>1. TypeOK'
    BY DEF vars, IInv, ListInv, TypeOK
  <1>2. Chain' = Chain /\ Live' = Live /\ Inside' = Inside
    BY DEF vars, Chain, After, Closed, Next, Live, Inside
  <1>3. Unlinked'
    BY <1>2 DEF vars, IInv, ListInv, Unlinked, At, Searching
  <1>4. Ahead'
    BY <1>2 DEF vars, IInv, ListInv, Ahead, After, Closed, Next, Searching
  <1>5. OnePerThread' /\ Kept'
    BY <1>2 DEF vars, IInv, ListInv, OnePerThread, Kept
  <1>6. Bump' /\ NoOverlap'
    BY DEF vars, IInv, Bump, Placed, At, NoOverlap, End
  <1> QED BY <1>1, <1>3, <1>4, <1>5, <1>6 DEF IInv, ListInv

\* The inductive invariant holds in every reachable state.
THEOREM Invariance == Spec => []IInv
  <1>1. IInv /\ [NextStep]_vars => IInv'
    BY NextInv, StutterInv
  <1> QED BY InitInv, <1>1, PTL DEF Spec

-----------------------------------------------------------------------------
(* What follows *)

\* Every variable keeps its type: the list only ever holds arenas that exist.
THEOREM TypeCorrect == Spec => []TypeOK
  <1>1. IInv => TypeOK
    BY DEF IInv, ListInv
  <1> QED BY Invariance, <1>1, PTL

\* allocSpace never returns the same byte twice, on whichever threads it runs.
THEOREM AllocationsDisjoint == Spec => []NoOverlap
  <1>1. IInv => NoOverlap
    BY DEF IInv
  <1> QED BY Invariance, <1>1, PTL

\* What allocSpace returns lies in its chunk and is aligned.
THEOREM AllocationsInside == Spec => []InsideChunk
  <1>1. IInv => InsideChunk
    BY DEF IInv, Bump, Placed, InsideChunk
  <1> QED BY Invariance, <1>1, PTL

\* No thread makes an arena that it then has no use for.
THEOREM NeverWasted == Spec => []NothingWasted
  <1>1. IInv => NothingWasted
    BY DEF IInv, ListInv, OnePerThread, Unlinked, Searching, NothingWasted
  <1> QED BY Invariance, <1>1, PTL

\* Every arena is freed with the module.
THEOREM NeverLeaked == Spec => []NothingLeaked
  <1>1. ASSUME IInv
        PROVE  NothingLeaked
    <2>1. \A a \in Live : a # None
      BY LenProperties DEF Live, None, IInv, ListInv, TypeOK
    <2> QED BY <1>1, <2>1 DEF IInv, ListInv, Kept, NothingLeaked
  <1> QED BY Invariance, <1>1, PTL

\* An arena's place in the list never changes.
THEOREM ListGrows == Spec => ListOnlyGrows
  <1>1. ASSUME IInv, [NextStep]_vars
        PROVE  \A a \in DOMAIN arenas :
                  Next(a) # None => arenas'[a].next = Next(a)
    <2>1. ListInv /\ Bump /\ TypeOK
      BY <1>1 DEF IInv, ListInv
    <2>2. ASSUME NEW t \in Threads, AtEnd(t), NEW a \in DOMAIN arenas
          PROVE  arenas'[a] = arenas[a]
      BY <2>1, <2>2, Appended DEF AtEnd
    <2>3. ASSUME NEW t \in Threads, Exchange(t), NEW a \in DOMAIN arenas,
                 Next(a) # None
          PROVE  arenas'[a].next = Next(a)
      BY <2>1, <2>3, ExchangeArenas DEF Exchange, At, Next
    <2>4. ASSUME NEW t \in Threads, Found(t)
          PROVE  arenas' = arenas
      BY <2>1, <2>4, FoundArenas
    <2>5. ASSUME NEW t \in Threads, Align(t) \/ Take(t) \/ Destroy(t)
          PROVE  SameList
      BY <2>1, <2>5, AlignArenas, TakeArenas, DestroyArenas
    <2>6. ASSUME NEW t \in Threads, Follow(t) \/ Request(t)
          PROVE  arenas' = arenas
      BY <2>6 DEF Follow, Request
    <2>7. CASE Finished \/ UNCHANGED vars
      BY <2>7 DEF Finished, vars, Next
    <2> QED BY <1>1, <2>2, <2>3, <2>4, <2>5, <2>6, <2>7
         DEF NextStep, AllocSpace, SameList, Next
  <1> QED BY Invariance, <1>1, PTL DEF Spec, ListOnlyGrows

-----------------------------------------------------------------------------
(* The walk along the list *)

\* The list has an end: no arena is behind itself.
Acyclic ==
    \A a \in DOMAIN arenas : Next(a) # None => a \notin After(Next(a))

\* Thread t has an arena in the list.
Linked(t) == \E a \in Chain : arenas[a].thread = t

\* A thread has been linked in this step.
NewLink == \E t \in Threads : ~Linked(t) /\ Linked(t)'

\* The arenas the walk of thread t may still come to.
Rest(t) == After(curr[t])

Stage == [idle |-> 0, find |-> 1, exchange |-> 2, align |-> 3, take |-> 4]

\* A step of a thread's own gets it further: along the list, to a later point
\* of allocSpace, into the list, or out of the call.
Onward(t) ==
    \/ Stage[pc[t]] < Stage[pc'[t]] /\ (curr'[t] = curr[t] \/ pc[t] = "idle")
    \/ pc'[t] = "find" /\ Searching(t) /\ Rest(t)' \subseteq Rest(t) \ {curr[t]}
    \/ pc'[t] = "find" /\ pc[t] = "exchange" /\ ~Linked(t) /\ Linked(t)'
    \/ pc'[t] = "idle" /\ pc[t] = "take"

\* Others put more in its way only by linking an arena, which a thread does
\* once: until the module is destroyed the arena stays in the list.
WayKept ==
    /\ \A t \in Threads : curr'[t] = curr[t] => Rest(t)' \subseteq Rest(t) \/ NewLink
    /\ \A t \in Threads : Linked(t) => Linked(t)' \/ Inside = {}

LEMMA AfterBehind ==
  ASSUME NEW a \in DOMAIN arenas, NEW b \in After(a)
  PROVE  After(b) \subseteq After(a)
  BY DEF After

\* What an arena reaches in the next state is within a set closed there.
LEMMA AfterWithinNext ==
  ASSUME NEW X \in SUBSET DOMAIN arenas', NEW a \in X,
         \A x \in X : arenas'[x].next # None => arenas'[x].next \in X
  PROVE  After(a)' \subseteq X
  <1>1. Closed(X)'
    BY DEF Closed, Next
  <1> QED BY <1>1 DEF After

\* A new arena is not in anybody's way.
LEMMA AtEndAfter ==
  ASSUME TypeOK, NEW t \in Threads, AtEnd(t)
  PROVE  /\ \A a \in DOMAIN arenas : After(a)' \subseteq After(a)
         /\ \A a \in DOMAIN arenas : arenas'[a] = arenas[a]
         /\ \A a \in DOMAIN arenas' : a \notin DOMAIN arenas => arenas'[a].next = None
  <1>1. CASE arenas' = arenas
    BY <1>1 DEF After, Closed, Next
  <1>2. CASE arenas' = Append(arenas, NewArena(t))
    <2>1. PICK n : n = Len(arenas) + 1
      OBVIOUS
    <2>2. /\ DOMAIN arenas' = DOMAIN arenas \cup {n} /\ arenas'[n].next = None
          /\ \A a \in DOMAIN arenas : arenas'[a] = arenas[a]
      BY <1>2, <2>1, Appended DEF NewArena, None
    <2>3. ASSUME NEW a \in DOMAIN arenas PROVE After(a)' \subseteq After(a)
      <3>1. PICK X : X = After(a)
        OBVIOUS
      <3>2. X \subseteq DOMAIN arenas /\ a \in X
        BY <3>1, AfterSelf DEF After
      <3>3. \A x \in X : arenas[x].next # None => arenas[x].next \in X
        BY <3>1, AfterNext DEF Next
      <3>4. X \in SUBSET DOMAIN arenas'
            /\ \A x \in X : arenas'[x].next # None => arenas'[x].next \in X
        BY <2>2, <3>2, <3>3
      <3>5. After(a)' \subseteq X
        BY <3>2, <3>4, AfterWithinNext
      <3> QED BY <3>1, <3>5
    <2> QED BY <2>2, <2>3
  <1> QED BY <1>1, <1>2 DEF AtEnd

\* The exchange puts one arena at the end of the list.
LEMMA ExchangeAfter ==
  ASSUME ListInv, NEW t \in Threads, Exchange(t), At(t).next = None
  PROVE  /\ DOMAIN arenas' = DOMAIN arenas
         /\ allocated[t] \in DOMAIN arenas /\ allocated[t] \notin Chain
         /\ allocated[t] # curr[t] /\ arenas[allocated[t]].next = None
         /\ arenas[allocated[t]].thread = t
         /\ arenas'[curr[t]].next = allocated[t]
         /\ \A a \in DOMAIN arenas : a # curr[t] => arenas'[a].next = arenas[a].next
         /\ \A a \in DOMAIN arenas : arenas'[a].thread = arenas[a].thread
         /\ \A a \in DOMAIN arenas : After(a)' \subseteq After(a) \cup {allocated[t]}
  <1>1. TypeOK
    BY DEF ListInv
  <1>2. PICK n, last : n = allocated[t] /\ last = curr[t]
    OBVIOUS
  <1>3. /\ n \in DOMAIN arenas /\ n \notin Chain /\ last \in Chain
        /\ last \in DOMAIN arenas /\ arenas[last].next = None
        /\ arenas[n].next = None /\ arenas[n].thread = t
    BY <1>1, <1>2 DEF Exchange, ListInv, Unlinked, Ahead, TypeOK, At
  <1>4. arenas[last] \in Arena
    BY <1>1, <1>3, LenProperties, ElementOfSeq DEF TypeOK
  <1>5. /\ DOMAIN arenas' = DOMAIN arenas
        /\ arenas'[last] = [arenas[last] EXCEPT !.next = n]
        /\ \A a \in DOMAIN arenas : a # last => arenas'[a] = arenas[a]
    BY <1>2, ExchangeArenas DEF Exchange
  <1>6. /\ arenas'[last].next = n /\ arenas'[last].thread = arenas[last].thread
        /\ \A a \in DOMAIN arenas : a # last => arenas'[a].next = arenas[a].next
        /\ \A a \in DOMAIN arenas : arenas'[a].thread = arenas[a].thread
    BY <1>4, <1>5 DEF Arena
  <1>7. ASSUME NEW a \in DOMAIN arenas PROVE After(a)' \subseteq After(a) \cup {n}
    <2>1. PICK X : X = After(a) \cup {n}
      OBVIOUS
    <2>2. X \subseteq DOMAIN arenas /\ a \in X
      BY <1>3, <2>1, AfterSelf DEF After
    <2>3. \A x \in X : arenas[x].next # None => arenas[x].next \in X
      BY <1>1, <1>3, <2>1, AfterNext DEF Next
    <2>4. \A x \in X : arenas'[x].next # None => arenas'[x].next \in X
      BY <1>3, <1>6, <2>1, <2>2, <2>3
    <2>5. After(a)' \subseteq X
      BY <1>5, <2>2, <2>4, AfterWithinNext
    <2> QED BY <2>1, <2>5
  <1>8. n # last
    BY <1>3
  <1> QED BY <1>2, <1>3, <1>5, <1>6, <1>7, <1>8

\* Every other step leaves the list alone.
LEMMA OthersAfter ==
  ASSUME IInv, [NextStep]_vars
  PROVE  \/ \E t \in Threads : AtEnd(t)
         \/ \E t \in Threads : Exchange(t) /\ At(t).next = None
         \/ /\ DOMAIN arenas' = DOMAIN arenas
            /\ \A a \in DOMAIN arenas : arenas'[a].next = arenas[a].next
            /\ \A a \in DOMAIN arenas : After(a)' = After(a)
  <1>1. ListInv /\ Bump /\ TypeOK
    BY DEF IInv, ListInv
  <1>2. ASSUME SameList \/ arenas' = arenas
        PROVE  /\ DOMAIN arenas' = DOMAIN arenas
               /\ \A a \in DOMAIN arenas : arenas'[a].next = arenas[a].next
               /\ \A a \in DOMAIN arenas : After(a)' = After(a)
    BY <1>2, SameAfter DEF SameList
  <1>3. ASSUME NEW t \in Threads, Exchange(t), At(t).next # None
        PROVE  arenas' = arenas
    BY <1>3 DEF Exchange
  <1>4. ASSUME NEW t \in Threads, Found(t) PROVE arenas' = arenas
    BY <1>1, <1>4, FoundArenas
  <1>5. ASSUME NEW t \in Threads, Align(t) \/ Take(t) \/ Destroy(t) PROVE SameList
    BY <1>1, <1>5, AlignArenas, TakeArenas, DestroyArenas
  <1>6. ASSUME NEW t \in Threads, Follow(t) \/ Request(t) PROVE arenas' = arenas
    BY <1>6 DEF Follow, Request
  <1>7. CASE Finished \/ UNCHANGED vars
    BY <1>2, <1>7 DEF Finished, vars
  <1> QED BY <1>2, <1>3, <1>4, <1>5, <1>6, <1>7 DEF NextStep, AllocSpace

LEMMA AcyclicNext ==
  ASSUME IInv, Acyclic, [NextStep]_vars
  PROVE  Acyclic'
  <1>1. TypeOK /\ ListInv
    BY DEF IInv, ListInv
  <1> SUFFICES ASSUME NEW a \in DOMAIN arenas', NEW k, k = Next(a)', k # None
               PROVE  a \notin After(k)'
    <2>1. ASSUME NEW a \in DOMAIN arenas', Next(a)' # None, NEW k, k = Next(a)'
          PROVE  After(Next(a))' = After(k)'
      BY <2>1 DEF After
    <2> QED BY <2>1 DEF Acyclic
  <1>2. k = arenas'[a].next
    BY DEF Next
  <1>3. ASSUME NEW t \in Threads, AtEnd(t) PROVE a \notin After(k)'
    <2>1. a \in DOMAIN arenas /\ k = Next(a)
      BY <1>1, <1>2, <1>3, AtEndAfter DEF Next
    <2>2. k \in DOMAIN arenas
      BY <1>1, <2>1 DEF TypeOK, Next
    <2>3. After(k)' \subseteq After(k)
      BY <1>1, <1>3, <2>2, AtEndAfter
    <2> QED BY <2>1, <2>3 DEF Acyclic
  <1>4. ASSUME NEW t \in Threads, Exchange(t), At(t).next = None
        PROVE  a \notin After(k)'
    <2>1. PICK n, last : n = allocated[t] /\ last = curr[t]
      OBVIOUS
    <2>2. /\ DOMAIN arenas' = DOMAIN arenas /\ n \in DOMAIN arenas
          /\ n # last /\ arenas[n].next = None
          /\ arenas'[last].next = n
          /\ \A x \in DOMAIN arenas : x # last => arenas'[x].next = arenas[x].next
      BY <1>1, <1>4, <2>1, ExchangeAfter
    <2>3. \A x \in DOMAIN arenas : After(x)' \subseteq After(x) \cup {n}
      BY <1>1, <1>4, <2>1, ExchangeAfter
    <2>4. CASE a = last
      <3>1. k = n
        BY <1>2, <2>2, <2>4
      <3>2. After(n) \subseteq {n}
        BY <2>2, AfterLast DEF Next
      <3> QED BY <2>2, <2>3, <2>4, <3>1, <3>2
    <2>5. CASE a # last
      <3>1. a \in DOMAIN arenas /\ k = Next(a)
        BY <1>2, <2>2, <2>5 DEF Next
      <3>2. k \in DOMAIN arenas
        BY <1>1, <3>1 DEF TypeOK, Next
      <3>3. a # n
        BY <2>2, <3>1 DEF Next
      <3>4. a \notin After(k)
        BY <3>1 DEF Acyclic
      <3> QED BY <2>3, <3>2, <3>3, <3>4
    <2> QED BY <2>4, <2>5
  <1>5. ASSUME DOMAIN arenas' = DOMAIN arenas,
               \A x \in DOMAIN arenas : arenas'[x].next = arenas[x].next,
               \A x \in DOMAIN arenas : After(x)' = After(x)
        PROVE  a \notin After(k)'
    <2>1. a \in DOMAIN arenas /\ k = Next(a)
      BY <1>2, <1>5 DEF Next
    <2>2. k \in DOMAIN arenas
      BY <1>1, <2>1 DEF TypeOK, Next
    <2> QED BY <1>5, <2>1, <2>2 DEF Acyclic
  <1> QED BY <1>3, <1>4, <1>5, OthersAfter

\* The list of arenas never closes to a ring, whatever exchanges race.
THEOREM ListHasAnEnd == Spec => []Acyclic
  <1>1. Init => Acyclic
    <2> SUFFICES ASSUME Init, NEW a \in DOMAIN arenas PROVE Next(a) = None
      BY DEF Acyclic
    <2> QED BY DEF Init, Next, NewArena
  <1>2. IInv /\ Acyclic /\ [NextStep]_vars => Acyclic'
    BY AcyclicNext
  <1> QED BY <1>1, <1>2, Invariance, PTL DEF Spec

\* Who wins the exchange had no arena in the list and has one now.
LEMMA ExchangeLinks ==
  ASSUME ListInv, NEW t \in Threads, Exchange(t), At(t).next = None
  PROVE  ~Linked(t) /\ Linked(t)'
  <1>1. TypeOK /\ 1 \in DOMAIN arenas
    BY LenProperties, EmptySeq DEF ListInv, TypeOK
  <1>2. PICK n, last : n = allocated[t] /\ last = curr[t]
    OBVIOUS
  <1>3. /\ DOMAIN arenas' = DOMAIN arenas
        /\ n \in DOMAIN arenas /\ n \notin Chain
        /\ arenas[n].thread = t /\ arenas'[last].next = n
        /\ \A x \in DOMAIN arenas : x # last => arenas'[x].next = arenas[x].next
        /\ \A x \in DOMAIN arenas : arenas'[x].thread = arenas[x].thread
    BY <1>2, ExchangeAfter
  <1>4. last \in DOMAIN arenas /\ last \in Chain /\ arenas[last].next = None
    BY <1>1, <1>2 DEF Exchange, ListInv, Ahead, TypeOK, At
  <1>5. ASSUME NEW a \in Chain, arenas[a].thread = t PROVE FALSE
    <2>1. a \in DOMAIN arenas
      BY DEF Chain, After
    <2>2. Searching(t) /\ At(t).thread # t
      BY DEF Exchange, Searching, ListInv, Unlinked
    <2>3. a = n
      BY <1>2, <1>5, <2>1, <2>2, EndOwns
    <2> QED BY <1>3, <2>3
  <1>6. last \in Chain'
    <2>1. \A x \in DOMAIN arenas :
             arenas[x].next # None => arenas'[x].next = arenas[x].next
      BY <1>3, <1>4
    <2>2. last \in After(1)'
      BY <1>1, <1>3, <1>4, <2>1, AfterGrows DEF Chain
    <2> QED BY <2>2 DEF Chain
  <1>7. n \in Chain'
    <2>1. \A S \in SUBSET DOMAIN arenas' : last \in S /\ Closed(S)' => n \in S
      BY <1>1, <1>3, LenProperties DEF Closed, Next, TypeOK, None
    <2> QED BY <1>3, <1>6, <2>1 DEF Chain, After
  <1> QED BY <1>3, <1>5, <1>7 DEF Linked

\* Going on to the next arena leaves this one behind.
LEMMA AheadOnward ==
  ASSUME IInv, Acyclic, NEW t \in Threads, arenas' = arenas,
         At(t).next # None, curr'[t] = At(t).next
  PROVE  Rest(t)' \subseteq Rest(t) \ {curr[t]}
  <1>1. PICK c, k : c = curr[t] /\ k = curr'[t]
    OBVIOUS
  <1>2. TypeOK
    BY DEF IInv, ListInv
  <1>3. c \in DOMAIN arenas /\ k = Next(c) /\ k # None /\ k \in DOMAIN arenas
    BY <1>1, <1>2 DEF At, Next, TypeOK
  <1>4. k \in After(c)
    BY <1>2, <1>3, AfterSelf, AfterNext
  <1>5. After(k) \subseteq After(c)
    BY <1>3, <1>4, AfterBehind
  <1>6. c \notin After(k)
    BY <1>3 DEF Acyclic
  <1>7. Rest(t)' = After(k)
    BY <1>1 DEF Rest, After, Closed, Next
  <1> QED BY <1>1, <1>5, <1>6, <1>7 DEF Rest

\* The module is destroyed while no thread is inside allocSpace.
LEMMA NobodyInside ==
  ASSUME NEW t \in Threads, Destroy(t)
  PROVE  Inside = {} /\ pc' = pc /\ curr' = curr
  <1>1. Inside = {}
    BY DEF Destroy
  <1>2. pc' = pc /\ curr' = curr
    BY DEF Destroy
  <1> QED BY <1>1, <1>2

LEMMA OwnOnward ==
  ASSUME IInv, Acyclic, NEW t \in Threads, AllocSpace(t) \/ Request(t)
  PROVE  Onward(t)
  <1> USE DEF Goto, Stage
  <1>1. TypeOK /\ ListInv
    BY DEF IInv, ListInv
  <1>2. t \in DOMAIN pc /\ t \in DOMAIN curr
    BY <1>1 DEF TypeOK
  <1>3. CASE Request(t)
    BY <1>2, <1>3 DEF Request, Onward
  <1>4. CASE Follow(t)
    <2>1. arenas' = arenas /\ At(t).next # None /\ curr'[t] = At(t).next
          /\ pc[t] = "find" /\ pc'[t] = "find"
      BY <1>2, <1>4 DEF Follow
    <2>2. Rest(t)' \subseteq Rest(t) \ {curr[t]}
      BY <2>1, AheadOnward
    <2> QED BY <2>1, <2>2 DEF Onward, Searching
  <1>5. CASE Exchange(t) /\ At(t).next # None
    <2>1. arenas' = arenas /\ curr'[t] = At(t).next
          /\ pc[t] = "exchange" /\ pc'[t] = "find"
      BY <1>2, <1>5 DEF Exchange
    <2>2. Rest(t)' \subseteq Rest(t) \ {curr[t]}
      BY <1>5, <2>1, AheadOnward
    <2> QED BY <2>1, <2>2 DEF Onward, Searching
  <1>6. CASE Exchange(t) /\ At(t).next = None
    <2>1. pc[t] = "exchange" /\ pc'[t] = "find"
      BY <1>2, <1>6 DEF Exchange
    <2>2. ~Linked(t) /\ Linked(t)'
      BY <1>1, <1>6, ExchangeLinks
    <2> QED BY <2>1, <2>2 DEF Onward
  <1>7. CASE AtEnd(t)
    BY <1>2, <1>7 DEF AtEnd, Onward
  <1>8. CASE Found(t)
    BY <1>2, <1>8 DEF Found, Onward
  <1>9. CASE Align(t)
    BY <1>2, <1>9 DEF Align, Onward
  <1>10. CASE Take(t)
    BY <1>2, <1>10 DEF Take, Onward
  <1> QED BY <1>3, <1>4, <1>5, <1>6, <1>7, <1>8, <1>9, <1>10 DEF AllocSpace

LEMMA NextOnward ==
  ASSUME IInv, Acyclic, [NextStep]_vars
  PROVE  \A t \in Threads : [Onward(t)]_<<pc[t], curr[t]>>
  <1>1. TypeOK
    BY DEF IInv, ListInv
  <1> SUFFICES ASSUME NEW t \in Threads PROVE [Onward(t)]_<<pc[t], curr[t]>>
    OBVIOUS
  <1>2. ASSUME NEW u \in Threads, AllocSpace(u) \/ Request(u), u # t
        PROVE  pc'[t] = pc[t] /\ curr'[t] = curr[t]
    BY <1>1, <1>2 DEF AllocSpace, Request, Follow, AtEnd, Exchange, Found, Align,
       Take, Goto, TypeOK
  <1>3. CASE AllocSpace(t) \/ Request(t)
    BY <1>3, OwnOnward
  <1>4. ASSUME NEW u \in Threads, Destroy(u) PROVE pc' = pc /\ curr' = curr
    BY <1>4, NobodyInside
  <1>5. CASE Finished \/ UNCHANGED vars
    BY <1>5 DEF Finished, vars
  <1> QED BY <1>2, <1>3, <1>4, <1>5 DEF NextStep

(* Every step of a thread inside allocSpace gets it further: an exchange   *)
(* that fails, because another thread's came first (mixed_arena.h:113),    *)
(* still takes it along the list, which has an end.                        *)
THEOREM WalkGoesOn ==
  Spec => [][\A t \in Threads : [Onward(t)]_<<pc[t], curr[t]>>]_vars
  <1>1. IInv /\ Acyclic /\ [NextStep]_vars =>
           \A t \in Threads : [Onward(t)]_<<pc[t], curr[t]>>
    BY NextOnward
  <1> QED BY <1>1, Invariance, ListHasAnEnd, PTL DEF Spec

LEMMA NextWayKept ==
  ASSUME IInv, [NextStep]_vars
  PROVE  WayKept
  <1>1. TypeOK /\ ListInv /\ Bump /\ 1 \in DOMAIN arenas
    BY LenProperties, EmptySeq DEF IInv, ListInv, TypeOK
  <1>2. ASSUME NEW t \in Threads, curr'[t] = curr[t]
        PROVE  Rest(t)' \subseteq Rest(t) \/ NewLink
    <2>1. PICK c : c = curr[t]
      OBVIOUS
    <2>2. c \in DOMAIN arenas /\ Rest(t) = After(c) /\ Rest(t)' = After(c)'
      BY <1>1, <1>2, <2>1 DEF TypeOK, Rest, After
    <2>3. ASSUME NEW u \in Threads, AtEnd(u) PROVE After(c)' \subseteq After(c)
      BY <1>1, <2>2, <2>3, AtEndAfter
    <2>4. ASSUME NEW u \in Threads, Exchange(u), At(u).next = None PROVE NewLink
      BY <1>1, <2>4, ExchangeLinks DEF NewLink
    <2> QED BY <2>2, <2>3, <2>4, OthersAfter
  <1>3. ASSUME NEW t \in Threads, Linked(t), Inside # {}
        PROVE  Linked(t)'
    <2>1. PICK a \in Chain : arenas[a].thread = t
      BY <1>3 DEF Linked
    <2>2. a \in DOMAIN arenas
      BY DEF Chain, After
    <2>3. DOMAIN arenas \subseteq DOMAIN arenas'
          /\ \A x \in DOMAIN arenas :
                arenas[x].next # None => arenas'[x].next = arenas[x].next
      <3>1. ASSUME NEW u \in Threads, AtEnd(u)
            PROVE  /\ DOMAIN arenas \subseteq DOMAIN arenas'
                   /\ \A x \in DOMAIN arenas : arenas'[x] = arenas[x]
        BY <1>1, <3>1, Appended DEF AtEnd
      <3>2. ASSUME NEW u \in Threads, Exchange(u), At(u).next = None
            PROVE  /\ DOMAIN arenas' = DOMAIN arenas
                   /\ \A x \in DOMAIN arenas : x # curr[u] =>
                         arenas'[x].next = arenas[x].next
        BY <1>1, <3>2, ExchangeAfter
      <3> QED BY <3>1, <3>2, OthersAfter DEF At
    <2>4. a \in Chain'
      <3>1. a \in After(1)'
        BY <1>1, <2>1, <2>3, AfterGrows DEF Chain
      <3> QED BY <3>1 DEF Chain
    <2>5. arenas'[a].thread = arenas[a].thread
      <3>1. ASSUME NEW u \in Threads, AllocSpace(u) \/ Request(u)
            PROVE  arenas'[a].thread = arenas[a].thread
        <4>1. CASE Follow(u) \/ Request(u)
          BY <4>1 DEF Follow, Request
        <4>2. CASE AtEnd(u)
          BY <1>1, <2>2, <4>2, AtEndAfter
        <4>3. CASE Exchange(u)
          BY <1>1, <2>2, <4>3, ExchangeAfter DEF Exchange
        <4>4. CASE Found(u)
          BY <1>1, <4>4, FoundArenas
        <4>5. CASE Align(u)
          BY <1>1, <2>2, <4>5, AlignArenas
        <4>6. CASE Take(u)
          BY <1>1, <2>2, <4>6, TakeArenas
        <4> QED BY <3>1, <4>1, <4>2, <4>3, <4>4, <4>5, <4>6 DEF AllocSpace
      <3>2. ASSUME NEW u \in Threads, Destroy(u) PROVE FALSE
        <4>1. Inside = {}
          BY <3>2, NobodyInside
        <4> QED BY <1>3, <4>1
      <3>3. CASE Finished \/ UNCHANGED vars
        BY <3>3 DEF Finished, vars
      <3> QED BY <3>1, <3>2, <3>3 DEF NextStep
    <2> QED BY <2>1, <2>4, <2>5 DEF Linked
  <1> QED BY <1>2, <1>3 DEF WayKept

(* The walk is not outrun: what is ahead of a thread grows only when a     *)
(* thread without an arena in the list puts its own there, and that a      *)
(* thread does once.  With WalkGoesOn a call is thus over after finitely   *)
(* many steps of its own thread.                                           *)
THEOREM WalkNotOutrun == Spec => [][WayKept]_vars
  <1>1. IInv /\ [NextStep]_vars => WayKept
    BY NextWayKept
  <1> QED BY <1>1, Invariance, PTL DEF Spec
=============================================================================
