--------------------------- MODULE CanonicalTable ---------------------------
(***************************************************************************)
(* What an interning store promises to the threads that share it: every    *)
(* value it was ever asked for has one identity, never changed and never   *)
(* given to another value, and a call answers its values in order with the *)
(* identities of just these values.  Only values that are refused whoever  *)
(* else is running may end a call early.                                   *)
(***************************************************************************)
EXTENDS Naturals, Sequences

CONSTANTS
    Clients,
    Refused(_, _)   \* Refused(values, n): no answer follows the first n

VARIABLES
    table,      \* the identity of each value seen so far
    want,       \* want[c]: the values of the call of c; <<>> outside a call
    got         \* got[c]: the identities answered so far

vars == <<table, want, got>>

Identities == {table[v] : v \in DOMAIN table}

Init ==
    /\ table = <<>>
    /\ want = [c \in Clients |-> <<>>]
    /\ got = [c \in Clients |-> <<>>]

Ask(c) ==
    /\ want[c] = <<>>
    /\ want'[c] # <<>>
    /\ want' = [want EXCEPT ![c] = want'[c]]
    /\ UNCHANGED <<table, got>>

\* The next value of c is answered with id.
Answer(c, id) ==
    LET n == Len(got[c])
        v == want[c][n + 1]
    IN  /\ n < Len(want[c])
        /\ ~Refused(want[c], n)
        /\ got' = [got EXCEPT ![c] = Append(@, id)]
        /\ IF v \in DOMAIN table
           THEN id = table[v] /\ UNCHANGED table
           ELSE /\ id \notin Identities
                /\ table' = [x \in DOMAIN table \cup {v} |->
                                IF x = v THEN id ELSE table[x]]
        /\ UNCHANGED want

Return(c) ==
    /\ want[c] # <<>>
    /\ \/ Len(got[c]) = Len(want[c])
       \/ Refused(want[c], Len(got[c]))
    /\ want' = [want EXCEPT ![c] = <<>>]
    /\ got' = [got EXCEPT ![c] = <<>>]
    /\ UNCHANGED table

Next ==
    \E c \in Clients :
        \/ Ask(c)
        \/ got'[c] # <<>> /\ Answer(c, got'[c][Len(got'[c])])
        \/ Return(c)

Spec == Init /\ [][Next]_vars
=============================================================================
