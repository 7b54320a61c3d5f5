----------------------------- MODULE StringStore -----------------------------
(***************************************************************************)
(* IString::interned (src/src/support/istring.cpp): the global set of      *)
(* interned strings under its mutex, the thread-local caches in front of   *)
(* it, and the copies in the arena, whose addresses are the identities of  *)
(* strings from then on.                                                   *)
(***************************************************************************)
EXTENDS Naturals, Callers

CONSTANT Texts

VARIABLES
    globalStrings,  \* the views in the global set: a text and where it is
    localStrings,   \* localStrings[t]: the views cached by thread t
    arena,          \* strings allocated; their addresses are 1..arena
    stringMutex,    \* the thread that holds the mutex of globalStrings
    request         \* request[t]: the call thread t is in

stringVars == <<globalStrings, localStrings, arena, stringMutex, request>>

\* pc: idle, local, global, copy, return.  views: <<>> or the view found.
NoRequest == [pc |-> "idle", text |-> <<>>, views |-> <<>>]

StringInit ==
    /\ globalStrings = {}
    /\ localStrings = [t \in Threads |-> {}]
    /\ arena = 0
    /\ stringMutex = NoThread
    /\ request = [t \in Threads |-> NoRequest]

Find(views, s) == {v \in views : v.text = s}

Call(t, s) ==
    /\ request[t].pc = "idle"
    /\ request' = [request EXCEPT ![t] = [pc |-> "local", text |-> s, views |-> <<>>]]
    /\ UNCHANGED <<globalStrings, localStrings, arena, stringMutex>>

\* The cache, which only t uses, is looked up without the mutex.
LookUpLocal(t) ==
    LET found == Find(localStrings[t], request[t].text) IN
    /\ request[t].pc = "local"
    /\ \/ \E v \in found :
             request' = [request EXCEPT ![t].pc = "return", ![t].views = <<v>>]
       \/ /\ found = {}
          /\ request' = [request EXCEPT ![t].pc = "global"]
    /\ UNCHANGED <<globalStrings, localStrings, arena, stringMutex>>

\* Mutant: no lock.
NoStringLock == TRUE

StringMutexIsFree == stringMutex = NoThread

\* The mutex is taken; a string that is known is cached and returned.
LookUpGlobal(t) ==
    LET found == Find(globalStrings, request[t].text) IN
    /\ request[t].pc = "global"
    /\ StringMutexIsFree
    /\ \/ \E v \in found :
             /\ localStrings' = [localStrings EXCEPT ![t] = @ \cup {v}]
             /\ request' = [request EXCEPT ![t].pc = "return", ![t].views = <<v>>]
             /\ UNCHANGED stringMutex
       \/ /\ found = {}
          /\ stringMutex' = t
          /\ request' = [request EXCEPT ![t].pc = "copy"]
          /\ UNCHANGED localStrings
    /\ UNCHANGED <<globalStrings, arena>>

\* A new string is copied to a stable address and entered in both sets.
Copy(t) ==
    LET v == [text |-> request[t].text, at |-> arena + 1] IN
    /\ request[t].pc = "copy"
    /\ arena' = arena + 1
    /\ globalStrings' = globalStrings \cup {v}
    /\ localStrings' = [localStrings EXCEPT ![t] = @ \cup {v}]
    /\ stringMutex' = NoThread
    /\ request' = [request EXCEPT ![t].pc = "return", ![t].views = <<v>>]

\* The caller has its string.
TakeString(t) ==
    /\ request[t].pc = "return"
    /\ request' = [request EXCEPT ![t] = NoRequest]
    /\ UNCHANGED <<globalStrings, localStrings, arena, stringMutex>>

StringStep(t) ==
    \/ \E s \in Texts : Call(t, s)
    \/ LookUpLocal(t)
    \/ LookUpGlobal(t)
    \/ Copy(t)
    \/ TakeString(t)

StringNext == \E t \in Threads : StringStep(t)

StringSpec == StringInit /\ [][StringNext]_stringVars
-----------------------------------------------------------------------------
View == [text : Texts, at : 1..arena]

(* Types are as declared, and the mutex is held just while copying.        *)
StringsOK ==
    /\ globalStrings \subseteq View
    /\ localStrings \in [Threads -> SUBSET View]
    /\ arena \in Nat
    /\ \A t \in Threads :
          /\ (stringMutex = t) = (request[t].pc = "copy")
          /\ request[t].pc # "idle" => request[t].text \in Texts

NeverRefused(values, n) == FALSE

(* The strings implement a table from texts to addresses: equal names are  *)
(* equal pointers on every thread and for ever, and unequal ones are not.  *)
NameTable == [s \in {v.text : v \in globalStrings} |->
                 (CHOOSE v \in globalStrings : v.text = s).at]
NamesWanted == [t \in Threads |->
                   IF request[t].pc = "idle" THEN <<>> ELSE <<request[t].text>>]
NamesGot == [t \in Threads |->
                IF request[t].views = <<>> THEN <<>> ELSE <<request[t].views[1].at>>]

Names == INSTANCE CanonicalTable WITH
    Clients <- Threads,
    Refused <- NeverRefused,
    table <- NameTable,
    want <- NamesWanted,
    got <- NamesGot

ImplementsNameTable == Names!Spec
=============================================================================
