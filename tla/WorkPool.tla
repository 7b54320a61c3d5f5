------------------------------ MODULE WorkPool ------------------------------
(***************************************************************************)
(* What ThreadPool::work promises (src/src/support/threads.h:99-103): a    *)
(* call brings closures, each of which must be called until it answers     *)
(* Finished; several closures are called at once only by the one call that *)
(* owns the helpers; and the call returns when all have answered Finished. *)
(***************************************************************************)
EXTENDS Naturals, Sequences

CONSTANTS Clients, NoOne, NumCores, MaxTasks

VARIABLES
    owner,      \* the client the helpers work for
    todo        \* todo[c]: calls each closure of c still needs; <<>> outside work()

vars == <<owner, todo>>

Init ==
    /\ owner = NoOne
    /\ todo = [c \in Clients |-> <<>>]

\* No helper threads, or at least two.
Sizes == {1} \cup 2..NumCores

Begin(c) ==
    /\ todo[c] = <<>>
    /\ \E n \in Sizes : \E closures \in [1..n -> 1..MaxTasks] :
          todo' = [todo EXCEPT ![c] = closures]
    /\ UNCHANGED owner

Acquire(c) ==
    /\ owner = NoOne
    /\ Len(todo[c]) > 1
    /\ owner' = c
    /\ UNCHANGED todo

\* Closure w is called once more; several closures need the helpers.
CallTask(c, w) ==
    /\ Len(todo[c]) > 1 => owner = c
    /\ todo[c][w] > 0
    /\ todo' = [todo EXCEPT ![c][w] = @ - 1]
    /\ UNCHANGED owner

\* Helpers report separately; without helpers the last task ends the call.
Return(c) ==
    /\ todo[c] # <<>>
    /\ IF Len(todo[c]) = 1 THEN todo[c][1] = 1 /\ UNCHANGED owner
       ELSE /\ owner = c
            /\ \A w \in DOMAIN todo[c] : todo[c][w] = 0
            /\ owner' = NoOne
    /\ todo' = [todo EXCEPT ![c] = <<>>]

Next ==
    \E c \in Clients :
        \/ Begin(c) \/ Acquire(c) \/ Return(c)
        \/ \E w \in DOMAIN todo[c] : CallTask(c, w)

Spec == Init /\ [][Next]_vars
=============================================================================
