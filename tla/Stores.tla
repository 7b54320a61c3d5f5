------------------------------- MODULE Stores -------------------------------
(***************************************************************************)
(* The process-wide stores of names and types, shared by all threads.  A   *)
(* thread is in one call at a time; no call of one store runs inside a     *)
(* call of the other, so their mutexes never nest.                         *)
(***************************************************************************)
EXTENDS TypeStore, StringStore

CONSTANT MaxCalls    \* bound: calls the threads begin, taken together

VARIABLE calls          \* calls begun so far

allVars == <<vars, stringVars, calls>>

StoresInit == Init /\ StringInit /\ calls = 0

BuildStep(t) ==
    /\ request[t].pc = "idle"
    /\ Step(t)
    /\ UNCHANGED stringVars
    /\ IF builder[t].pc = "idle"
       THEN calls < MaxCalls /\ calls' = calls + 1
       ELSE UNCHANGED calls

NameStep(t) ==
    /\ builder[t].pc = "idle"
    /\ StringStep(t)
    /\ UNCHANGED vars
    /\ IF request[t].pc = "idle"
       THEN calls < MaxCalls /\ calls' = calls + 1
       ELSE UNCHANGED calls

\* The process exits with no call under way.
Exit ==
    /\ calls = MaxCalls
    /\ \A t \in Threads : builder[t].pc = "idle" /\ request[t].pc = "idle"
    /\ UNCHANGED allVars

StoresNext == Exit \/ \E t \in Threads : BuildStep(t) \/ NameStep(t)

StoresSpec == StoresInit /\ [][StoresNext]_allVars
-----------------------------------------------------------------------------
(* One type invariant for both stores.                                     *)
StoresOK == TypesOK /\ StringsOK
=============================================================================
