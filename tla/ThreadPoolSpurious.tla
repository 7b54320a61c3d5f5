------------------------- MODULE ThreadPoolSpurious -------------------------
(***************************************************************************)
(* ThreadPool when the operating system wakes a helper that nobody         *)
(* notified.  std::condition_variable::wait may return at any time, and    *)
(* mainLoop (threads.cpp:112) waits without a predicate: the helper goes   *)
(* round its loop and reports ready a second time.                         *)
(***************************************************************************)
EXTENDS ThreadPool

\* Bound: no further spurious wakeup once ready has passed NumCores.
WakeHelperSpuriously(w) ==
    /\ step[w] = "waiting"
    /\ ready <= NumCores
    /\ SignalHelper(w)
    /\ UNCHANGED <<mutexes, poolVars, doWork, done, clientVars>>

SpuriousNext == Next \/ \E w \in Helpers : WakeHelperSpuriously(w)

SpuriousSpec == Init /\ [][SpuriousNext]_vars
=============================================================================
