----------------------------- MODULE PassOrder -----------------------------
(***************************************************************************)
(* What PassRunner::run promises, whatever the number of threads and in    *)
(* debug mode or not: each function is processed by the passes in the      *)
(* order they were added, function-parallel passes at a pace of its own,   *)
(* while any other pass sees every function at the same point.             *)
(***************************************************************************)
EXTENDS Naturals, Sequences

VARIABLES
    order,      \* order[f]: the passes that are for the defined function f
    log         \* log[f]: the passes f has been through

vars == <<order, log>>

Functions == DOMAIN log

Init == log = [f \in Functions |-> <<>>]

\* The pass that comes next for f is one of these.
Due(f, parallel) ==
    /\ Len(log[f]) < Len(order[f])
    /\ order[f][Len(log[f]) + 1].parallel = parallel

Done(f) == Append(log[f], order[f][Len(log[f]) + 1])

ParallelPass(f) ==
    /\ Due(f, TRUE)
    /\ log' = [log EXCEPT ![f] = Done(f)]

\* Every order[f] has the same module passes, so the same one is due everywhere.
ModulePass ==
    /\ \A f \in Functions : Due(f, FALSE)
    /\ log' = [f \in Functions |-> Done(f)]

Next ==
    /\ ModulePass \/ \E f \in Functions : ParallelPass(f)
    /\ UNCHANGED order

Spec == Init /\ [][Next]_vars
=============================================================================
