---------------------------- MODULE StoresProofs ----------------------------
(***************************************************************************)
(* Proofs about StringStore, for any threads and any strings: the type     *)
(* invariant, and that interning implements CanonicalTable.  Then what is  *)
(* proved of each store is shown of the two in one process, where a step   *)
(* of one is a stutter of the other.                                       *)
(***************************************************************************)
EXTENDS Stores, TypeStoreProofs

\* What a thread knows of its call at each point of it.
RequestOK(t) ==
    LET r == request[t] IN
    \/ r = NoRequest
    \/ r.pc \in {"local", "global", "copy"} /\ r.text \in Texts /\ r.views = <<>>
    \/ /\ r.pc = "return"
       /\ r.text \in Texts
       /\ \E v \in globalStrings : v.text = r.text /\ r.views = <<v>>

Stored == [text : Texts, at : Nat]

RequestType ==
    [pc : {"idle", "local", "global", "copy", "return"}, text : Texts \cup {<<>>},
     views : Seq(Stored)]

(***************************************************************************)
(* The inductive invariant.  A string is in the global set once, at an     *)
(* address of its own; caches hold nothing else; and a thread that copies  *)
(* holds the mutex, so that its string is still missing.                   *)
(***************************************************************************)
StringsInv ==
    /\ arena \in Nat
    /\ globalStrings \subseteq Stored
    /\ \A v \in globalStrings : v.at \in 1..arena
    /\ localStrings \in [Threads -> SUBSET globalStrings]
    /\ request \in [Threads -> RequestType]
    /\ \A v, w \in globalStrings : v.text = w.text \/ v.at = w.at => v = w
    /\ \A t \in Threads : RequestOK(t)
    /\ \A t \in Threads : (stringMutex = t) = (request[t].pc = "copy")
    /\ \A t \in Threads :
          request[t].pc = "copy" => Find(globalStrings, request[t].text) = {}
-----------------------------------------------------------------------------
LEMMA StringsInit == StringInit => StringsInv
BY NoThreadAssumption
   DEF StringInit, StringsInv, Stored, RequestOK, RequestType, NoRequest

\* What remains of a call when its thread has found its string.
LEMMA Found ==
    ASSUME request \in [Threads -> RequestType], NEW t \in Threads, NEW v,
           request' = [request EXCEPT ![t].pc = "return", ![t].views = <<v>>]
    PROVE  /\ request'[t] = [pc |-> "return", text |-> request[t].text, views |-> <<v>>]
           /\ \A u \in Threads \ {t} : request'[u] = request[u]
           /\ v \in Stored => request' \in [Threads -> RequestType]
<1> DEFINE r == [pc |-> "return", text |-> request[t].text, views |-> <<v>>]
<1>1. request'[t] = r
  BY DEF RequestType
<1>2. v \in Stored => r \in RequestType
  BY DEF RequestType
<1>3. \A u \in Threads \ {t} : request'[u] = request[u]
  OBVIOUS
<1>4. v \in Stored => request' \in [Threads -> RequestType]
  BY <1>1, <1>2
<1> QED BY <1>1, <1>3, <1>4

LEMMA StringsCall ==
    ASSUME StringsInv, NEW t \in Threads, NEW s \in Texts, Call(t, s)
    PROVE  StringsInv'
<1> USE DEF Call, StringsInv
<1> DEFINE r == [pc |-> "local", text |-> s, views |-> <<>>]
<1>1. request' = [request EXCEPT ![t] = r] /\ r \in RequestType
  BY DEF RequestType
<1> HIDE DEF r
<1>2. request' \in [Threads -> RequestType]
  BY <1>1
<1>3. request'[t] = r /\ \A u \in Threads \ {t} : request'[u] = request[u]
  BY <1>1
<1>4. \A u \in Threads : RequestOK(u)'
  BY <1>3 DEF RequestOK, r
<1>5. \A u \in Threads : (stringMutex' = u) = (request'[u].pc = "copy")
  BY <1>3 DEF r
<1>6. \A u \in Threads :
        request'[u].pc = "copy" => Find(globalStrings', request'[u].text) = {}
  BY <1>3 DEF r, Find
<1> QED
  BY <1>2, <1>4, <1>5, <1>6 DEF RequestType, Stored, Find

LEMMA StringsLookUpLocal ==
    ASSUME StringsInv, NEW t \in Threads, LookUpLocal(t)
    PROVE  StringsInv'
<1> USE DEF LookUpLocal, StringsInv
<1>1. CASE \E v \in Find(localStrings[t], request[t].text) :
              request' = [request EXCEPT ![t].pc = "return", ![t].views = <<v>>]
  <2>1. PICK v \in Find(localStrings[t], request[t].text) :
              request' = [request EXCEPT ![t].pc = "return", ![t].views = <<v>>]
    BY <1>1
  <2>2. v \in globalStrings /\ v.text = request[t].text
    BY DEF Find
  <2> DEFINE r == [pc |-> "return", text |-> request[t].text, views |-> <<v>>]
  <2>3. request'[t] = r
    BY <2>1, Found
  <2>5. \A u \in Threads \ {t} : request'[u] = request[u]
    BY <2>1, Found
  <2>6. request' \in [Threads -> RequestType]
    BY <2>1, <2>2, Found
  <2> HIDE DEF r
  <2>7. \A u \in Threads : RequestOK(u)'
    BY <2>2, <2>3, <2>5 DEF RequestOK, NoRequest, r, Stored
  <2>8. \A u \in Threads : (stringMutex' = u) = (request'[u].pc = "copy")
    BY <2>3, <2>5 DEF r
  <2>9. \A u \in Threads :
          request'[u].pc = "copy" => Find(globalStrings', request'[u].text) = {}
    BY <2>3, <2>5 DEF r, Find
  <2> QED
    BY <2>6, <2>7, <2>8, <2>9 DEF RequestType, Stored, Find
<1>2. CASE request' = [request EXCEPT ![t].pc = "global"]
  <2> DEFINE r == [pc |-> "global", text |-> request[t].text, views |-> <<>>]
  <2>1. request[t].text \in Texts /\ request[t].views = <<>>
    BY DEF RequestOK, NoRequest
  <2>2. request'[t] = r
    BY <1>2, <2>1 DEF RequestType
  <2>3. r \in RequestType
    BY <2>1 DEF RequestType
  <2> HIDE DEF r
  <2>4. \A u \in Threads \ {t} : request'[u] = request[u]
    BY <1>2
  <2>5. request' \in [Threads -> RequestType]
    BY <1>2, <2>2, <2>3
  <2>6. \A u \in Threads : RequestOK(u)'
    BY <2>1, <2>2, <2>4 DEF RequestOK, NoRequest, r
  <2>7. \A u \in Threads : (stringMutex' = u) = (request'[u].pc = "copy")
    BY <2>2, <2>4 DEF r
  <2>8. \A u \in Threads :
          request'[u].pc = "copy" => Find(globalStrings', request'[u].text) = {}
    BY <2>2, <2>4 DEF r, Find
  <2> QED
    BY <2>5, <2>6, <2>7, <2>8 DEF RequestType, Stored, Find
<1> QED BY <1>1, <1>2

LEMMA StringsLookUpGlobal ==
    ASSUME StringsInv, NEW t \in Threads, LookUpGlobal(t)
    PROVE  StringsInv'
<1> USE DEF StringsInv
<1> DEFINE s == request[t].text
<1>1. /\ s \in Texts /\ request[t].views = <<>> /\ request[t].pc = "global"
      /\ stringMutex = NoThread
      /\ UNCHANGED <<globalStrings, arena>>
  BY DEF LookUpGlobal, RequestOK, NoRequest, StringMutexIsFree
<1>2. CASE \E v \in Find(globalStrings, s) :
              /\ localStrings' = [localStrings EXCEPT ![t] = @ \cup {v}]
              /\ request' = [request EXCEPT ![t].pc = "return", ![t].views = <<v>>]
              /\ UNCHANGED stringMutex
  <2>1. PICK v \in Find(globalStrings, s) :
              /\ localStrings' = [localStrings EXCEPT ![t] = @ \cup {v}]
              /\ request' = [request EXCEPT ![t].pc = "return", ![t].views = <<v>>]
              /\ UNCHANGED stringMutex
    BY <1>2
  <2>2. v \in globalStrings /\ v.text = s
    BY DEF Find
  <2> DEFINE r == [pc |-> "return", text |-> s, views |-> <<v>>]
  <2>3. request'[t] = r
    BY <2>1, Found
  <2>5. \A u \in Threads \ {t} : request'[u] = request[u]
    BY <2>1, Found
  <2>6. request' \in [Threads -> RequestType]
    BY <2>1, <2>2, Found
  <2> HIDE DEF r
  <2>7. \A u \in Threads : RequestOK(u)'
    BY <1>1, <2>2, <2>3, <2>5 DEF RequestOK, NoRequest, r, Stored
  <2>8. \A u \in Threads : (stringMutex' = u) = (request'[u].pc = "copy")
    BY <1>1, <2>1, <2>3, <2>5 DEF r
  <2>9. \A u \in Threads :
          request'[u].pc = "copy" => Find(globalStrings', request'[u].text) = {}
    BY <1>1, <2>3, <2>5 DEF r, Find
  <2>10. localStrings' \in [Threads -> SUBSET globalStrings]
    BY <2>1, <2>2
  <2> QED
    BY <1>1, <2>6, <2>7, <2>8, <2>9, <2>10 DEF RequestType, Stored, Find
<1>3. CASE /\ Find(globalStrings, s) = {}
           /\ stringMutex' = t
           /\ request' = [request EXCEPT ![t].pc = "copy"]
           /\ UNCHANGED localStrings
  <2> DEFINE r == [pc |-> "copy", text |-> s, views |-> <<>>]
  <2>2. request'[t] = r
    BY <1>1, <1>3 DEF RequestType
  <2>3. r \in RequestType
    BY <1>1 DEF RequestType
  <2>4. \A u \in Threads \ {t} : request'[u] = request[u]
    BY <1>3
  <2>5. request' \in [Threads -> RequestType]
    BY <1>3, <2>2, <2>3
  <2> HIDE DEF r
  <2>6. \A u \in Threads : RequestOK(u)'
    BY <1>1, <1>3, <2>2, <2>4 DEF RequestOK, NoRequest, r
  <2>7. \A u \in Threads : (stringMutex' = u) = (request'[u].pc = "copy")
    BY <1>1, <1>3, <2>2, <2>4, NoThreadAssumption DEF r
  <2>8. \A u \in Threads :
          request'[u].pc = "copy" => Find(globalStrings', request'[u].text) = {}
    BY <1>1, <1>3, <2>2, <2>4 DEF r, Find
  <2> QED
    BY <1>1, <1>3, <2>5, <2>6, <2>7, <2>8 DEF RequestType, Stored, Find
<1> QED BY <1>2, <1>3 DEF LookUpGlobal

LEMMA StringsCopy ==
    ASSUME StringsInv, NEW t \in Threads, Copy(t)
    PROVE  StringsInv'
<1> USE DEF StringsInv
<1> DEFINE v == [text |-> request[t].text, at |-> arena + 1]
           r == [pc |-> "return", text |-> request[t].text, views |-> <<v>>]
<1>1. /\ request[t].pc = "copy"
      /\ request[t].text \in Texts
      /\ arena' = arena + 1
      /\ globalStrings' = globalStrings \cup {v}
      /\ localStrings' = [localStrings EXCEPT ![t] = @ \cup {v}]
      /\ stringMutex = t /\ stringMutex' = NoThread
  BY DEF Copy, RequestOK, NoRequest
<1>2. v \in Stored /\ v.text = request[t].text /\ v.at = arena + 1
  BY <1>1 DEF Stored
<1>3. request' = [request EXCEPT ![t].pc = "return", ![t].views = <<v>>]
  BY DEF Copy
<1> HIDE DEF v
<1>4. request'[t] = r
  BY <1>3, Found
<1>5. \A u \in Threads \ {t} : request'[u] = request[u]
  BY <1>3, Found
<1>6. \A u \in Threads \ {t} : request[u].pc # "copy"
  BY <1>1
<1>7. request' \in [Threads -> RequestType]
  BY <1>2, <1>3, Found
<1> HIDE DEF r
<1>8. \A u \in Threads : RequestOK(u)'
  BY <1>1, <1>2, <1>4, <1>5 DEF RequestOK, NoRequest, r
<1>9. \A u \in Threads : (stringMutex' = u) = (request'[u].pc = "copy")
  BY <1>1, <1>4, <1>5, <1>6, NoThreadAssumption DEF r
<1>10. \A u \in Threads : request'[u].pc # "copy"
  BY <1>4, <1>5, <1>6 DEF r
<1>11. \A x \in globalStrings : x.text # v.text /\ x.at # v.at
  BY <1>1, <1>2 DEF Find
<1>12. localStrings' \in [Threads -> SUBSET globalStrings']
  BY <1>1
<1>13. /\ arena' \in Nat
       /\ globalStrings' \subseteq Stored
       /\ \A x \in globalStrings' : x.at \in 1..arena'
  BY <1>1, <1>2
<1>14. \A x, y \in globalStrings' : x.text = y.text \/ x.at = y.at => x = y
  BY <1>1, <1>11
<1> QED
  BY <1>7, <1>8, <1>9, <1>10, <1>12, <1>13, <1>14 DEF RequestType, Stored

LEMMA StringsTakeString ==
    ASSUME StringsInv, NEW t \in Threads, TakeString(t)
    PROVE  StringsInv'
<1> USE DEF TakeString, StringsInv
<1>1. NoRequest \in RequestType /\ NoRequest.pc = "idle"
  BY DEF NoRequest, RequestType
<1>2. request' \in [Threads -> RequestType]
  BY <1>1
<1>3. request'[t] = NoRequest /\ \A u \in Threads \ {t} : request'[u] = request[u]
  OBVIOUS
<1>4. \A u \in Threads : RequestOK(u)'
  BY <1>3 DEF RequestOK
<1>5. \A u \in Threads : (stringMutex' = u) = (request'[u].pc = "copy")
  BY <1>1, <1>3
<1>6. \A u \in Threads :
        request'[u].pc = "copy" => Find(globalStrings', request'[u].text) = {}
  BY <1>1, <1>3 DEF Find
<1> QED
  BY <1>2, <1>4, <1>5, <1>6 DEF RequestType, Stored, Find

LEMMA StringsNext == StringsInv /\ [StringNext]_stringVars => StringsInv'
<1> SUFFICES ASSUME StringsInv, [StringNext]_stringVars PROVE StringsInv'
  OBVIOUS
<1>1. CASE UNCHANGED stringVars
  BY <1>1 DEF stringVars, StringsInv, RequestOK
<1>2. ASSUME NEW t \in Threads, StringStep(t) PROVE StringsInv'
  BY <1>2, StringsCall, StringsLookUpLocal, StringsLookUpGlobal, StringsCopy,
     StringsTakeString DEF StringStep
<1> QED BY <1>1, <1>2 DEF StringNext

(* The strongest invariant of the strings (see StringsInv).                *)
THEOREM StringsInvariant == StringSpec => []StringsInv
BY StringsInit, StringsNext, PTL DEF StringSpec

(* Types are as declared, and the mutex is held just while copying.        *)
THEOREM StringTypes == StringSpec => []StringsOK
<1>1. StringsInv => StringsOK
  <2> SUFFICES ASSUME StringsInv PROVE StringsOK
    OBVIOUS
  <2>1. globalStrings \subseteq View
    BY DEF StringsInv, Stored, View
  <2>2. localStrings \in [Threads -> SUBSET View]
    BY <2>1 DEF StringsInv
  <2> QED BY <2>1, <2>2 DEF StringsInv, StringsOK, RequestOK, NoRequest
<1> QED BY <1>1, StringsInvariant, PTL
-----------------------------------------------------------------------------
(* The refinement *)

\* A set with one view of each text is a table of addresses.
LEMMA TableOf ==
    ASSUME NEW G, \A v, w \in G : v.text = w.text => v = w,
           NEW T, T = [s \in {v.text : v \in G} |-> (CHOOSE v \in G : v.text = s).at]
    PROVE  /\ DOMAIN T = {v.text : v \in G}
           /\ \A v \in G : T[v.text] = v.at
<1>1. ASSUME NEW v \in G PROVE T[v.text] = v.at
  <2>1. v = CHOOSE w \in G : w.text = v.text
    OBVIOUS
  <2> QED BY <2>1
<1> QED BY <1>1

\* The table holds each string of the global set, before and after a step.
LEMMA TableOfStrings ==
    ASSUME StringsInv
    PROVE  /\ DOMAIN NameTable = {v.text : v \in globalStrings}
           /\ \A v \in globalStrings : NameTable[v.text] = v.at
BY TableOf DEF NameTable, StringsInv

LEMMA NextTableOfStrings ==
    ASSUME StringsInv'
    PROVE  /\ DOMAIN NameTable' = {v.text : v \in globalStrings'}
           /\ \A v \in globalStrings' : NameTable'[v.text] = v.at
BY TableOf DEF NameTable, StringsInv

\* A thread that finds or makes its string is answered by the table.
LEMMA NameAnswered ==
    ASSUME StringsInv, StringsInv', NEW t \in Threads, NEW v \in globalStrings',
           request[t].pc # "idle", request[t].views = <<>>,
           request[t].text = v.text,
           request'[t] = [pc |-> "return", text |-> request[t].text, views |-> <<v>>],
           \A u \in Threads \ {t} : request'[u] = request[u],
           \/ v \in globalStrings /\ globalStrings' = globalStrings
           \/ /\ globalStrings' = globalStrings \cup {v}
              /\ \A w \in globalStrings : w.text # v.text /\ w.at # v.at
    PROVE  Names!Next
<1>1. NamesWanted[t] = <<v.text>> /\ NamesGot[t] = <<>>
  BY DEF NamesWanted, NamesGot
<1>2. NamesWanted' = NamesWanted
  BY DEF NamesWanted
<1>3. NamesGot' = [NamesGot EXCEPT ![t] = <<v.at>>]
  <2>1. <<v>> # <<>> /\ <<v>>[1] = v
    OBVIOUS
  <2>2. NamesGot'[t] = <<v.at>>
    BY <2>1 DEF NamesGot
  <2>3. \A u \in Threads \ {t} : NamesGot'[u] = NamesGot[u]
    BY DEF NamesGot
  <2>4. NamesGot' = [u \in Threads |-> NamesGot'[u]]
    BY DEF NamesGot
  <2> QED BY <2>2, <2>3, <2>4 DEF NamesGot
<1>4. /\ NamesGot'[t] # <<>>
      /\ NamesGot'[t][Len(NamesGot'[t])] = v.at
  <2>1. NamesGot'[t] = <<v.at>>
    BY <1>3 DEF NamesGot
  <2> QED BY <2>1
<1>5. CASE v \in globalStrings /\ globalStrings' = globalStrings
  <2>1. NameTable' = NameTable
    BY <1>5 DEF NameTable
  <2>2. v.text \in DOMAIN NameTable /\ NameTable[v.text] = v.at
    BY <1>5, TableOfStrings
  <2>3. Names!Answer(t, v.at)
    BY <1>1, <1>2, <1>3, <2>1, <2>2 DEF Names!Answer, NeverRefused
  <2> QED BY <1>4, <2>3 DEF Names!Next
<1>6. CASE /\ globalStrings' = globalStrings \cup {v}
           /\ \A w \in globalStrings : w.text # v.text /\ w.at # v.at
  <2>1. v.text \notin DOMAIN NameTable /\ v.at \notin Names!Identities
    BY <1>6, TableOfStrings DEF Names!Identities
  <2>2. NameTable' = [x \in DOMAIN NameTable \cup {v.text} |->
                          IF x = v.text THEN v.at ELSE NameTable[x]]
    <3>1. /\ DOMAIN NameTable' = {w.text : w \in globalStrings'}
          /\ \A w \in globalStrings' : NameTable'[w.text] = w.at
      BY NextTableOfStrings
    <3>2. DOMAIN NameTable = {w.text : w \in globalStrings}
          /\ \A w \in globalStrings : NameTable[w.text] = w.at
      BY TableOfStrings
    <3>3. DOMAIN NameTable' = DOMAIN NameTable \cup {v.text}
      BY <1>6, <3>1, <3>2
    <3>4. \A x \in DOMAIN NameTable' :
              NameTable'[x] = IF x = v.text THEN v.at ELSE NameTable[x]
      BY <1>6, <3>1, <3>2
    <3>5. NameTable' = [x \in DOMAIN NameTable' |-> NameTable'[x]]
      BY DEF NameTable
    <3> QED BY <3>3, <3>4, <3>5
  <2>3. Names!Answer(t, v.at)
    BY <1>1, <1>2, <1>3, <2>1, <2>2 DEF Names!Answer, NeverRefused
  <2> QED BY <1>4, <2>3 DEF Names!Next
<1> QED BY <1>5, <1>6

\* The calls as the table sees them.
LEMMA NameAsked ==
    ASSUME StringsInv, NEW t \in Threads, NEW s \in Texts, Call(t, s)
    PROVE  Names!Next
<1>1. request' = [request EXCEPT ![t] = [pc |-> "local", text |-> s, views |-> <<>>]]
  BY DEF Call
<1>2. /\ request'[t].pc = "local" /\ request'[t].text = s /\ request'[t].views = <<>>
      /\ \A u \in Threads \ {t} : request'[u] = request[u]
  BY <1>1 DEF StringsInv
<1>3. request[t].pc = "idle" /\ request[t].views = <<>>
  BY DEF Call, StringsInv, RequestOK, NoRequest
<1>4. NamesWanted[t] = <<>> /\ NamesWanted'[t] = <<s>> /\ <<s>> # <<>>
  BY <1>2, <1>3 DEF NamesWanted
<1>5. NamesWanted' = [NamesWanted EXCEPT ![t] = NamesWanted'[t]]
  <2>1. \A u \in Threads \ {t} : NamesWanted'[u] = NamesWanted[u]
    BY <1>2 DEF NamesWanted
  <2>2. NamesWanted' = [u \in Threads |-> NamesWanted'[u]]
    BY DEF NamesWanted
  <2> QED BY <2>1, <2>2 DEF NamesWanted
<1>6. NamesGot' = NamesGot
  BY <1>2, <1>3 DEF NamesGot
<1>7. NameTable' = NameTable
  BY DEF Call, NameTable
<1> QED BY <1>4, <1>5, <1>6, <1>7 DEF Names!Next, Names!Ask

LEMMA NameReturned ==
    ASSUME StringsInv, NEW t \in Threads, TakeString(t)
    PROVE  Names!Next
<1>1. /\ request'[t].pc = "idle" /\ request'[t].views = <<>>
      /\ \A u \in Threads \ {t} : request'[u] = request[u]
  BY DEF TakeString, StringsInv, NoRequest
<1>2. PICK v \in globalStrings : request[t].pc = "return" /\ request[t].views = <<v>>
  BY DEF TakeString, StringsInv, RequestOK, NoRequest
<1>3. NamesWanted[t] = <<request[t].text>> /\ NamesGot[t] = <<v.at>>
  <2>1. <<v>> # <<>> /\ <<v>>[1] = v
    OBVIOUS
  <2> QED BY <1>2, <2>1 DEF NamesWanted, NamesGot
<1>4. NamesWanted[t] # <<>> /\ Len(NamesGot[t]) = Len(NamesWanted[t])
  BY <1>3
<1>5. NamesWanted' = [NamesWanted EXCEPT ![t] = <<>>]
  BY <1>1 DEF NamesWanted
<1>6. NamesGot' = [NamesGot EXCEPT ![t] = <<>>]
  BY <1>1 DEF NamesGot
<1>7. NameTable' = NameTable
  BY DEF TakeString, NameTable
<1> QED BY <1>4, <1>5, <1>6, <1>7 DEF Names!Next, Names!Return

\* A step that only moves on, to pc, is none of the table's.
LEMMA NameSilent ==
    ASSUME StringsInv, NEW t \in Threads, NEW pc, pc # "idle",
           request[t].pc # "idle",
           request' = [request EXCEPT ![t].pc = pc], globalStrings' = globalStrings
    PROVE  UNCHANGED Names!vars
<1>1. /\ request'[t].pc = pc
      /\ request'[t].text = request[t].text
      /\ request'[t].views = request[t].views
      /\ \A u \in Threads \ {t} : request'[u] = request[u]
  BY DEF StringsInv, RequestType
<1>2. NameTable' = NameTable
  BY DEF NameTable
<1>3. NamesWanted' = NamesWanted
  BY <1>1 DEF NamesWanted
<1>4. NamesGot' = NamesGot
  BY <1>1 DEF NamesGot
<1> QED BY <1>2, <1>3, <1>4 DEF Names!vars

LEMMA NameStepLocal ==
    ASSUME StringsInv, StringsInv', NEW t \in Threads, LookUpLocal(t)
    PROVE  [Names!Next]_Names!vars
<1>1. /\ request[t].pc = "local" /\ request[t].views = <<>>
      /\ globalStrings' = globalStrings
      /\ request \in [Threads -> RequestType]
  BY DEF LookUpLocal, StringsInv, RequestOK, NoRequest
<1>2. CASE request' = [request EXCEPT ![t].pc = "global"]
  BY <1>1, <1>2, NameSilent
<1>3. ASSUME NEW v \in Find(localStrings[t], request[t].text),
             request' = [request EXCEPT ![t].pc = "return", ![t].views = <<v>>]
      PROVE  Names!Next
  <2>1. v \in globalStrings /\ v.text = request[t].text
    BY DEF Find, StringsInv
  <2> QED BY <1>1, <1>3, <2>1, Found, NameAnswered
<1> QED BY <1>2, <1>3 DEF LookUpLocal

LEMMA NameStepGlobal ==
    ASSUME StringsInv, StringsInv', NEW t \in Threads, LookUpGlobal(t)
    PROVE  [Names!Next]_Names!vars
<1>1. /\ request[t].pc = "global" /\ request[t].views = <<>>
      /\ globalStrings' = globalStrings
      /\ request \in [Threads -> RequestType]
  BY DEF LookUpGlobal, StringsInv, RequestOK, NoRequest
<1>2. CASE request' = [request EXCEPT ![t].pc = "copy"]
  BY <1>1, <1>2, NameSilent
<1>3. ASSUME NEW v \in Find(globalStrings, request[t].text),
             request' = [request EXCEPT ![t].pc = "return", ![t].views = <<v>>]
      PROVE  Names!Next
  <2>1. v \in globalStrings /\ v.text = request[t].text
    BY DEF Find
  <2> QED BY <1>1, <1>3, <2>1, Found, NameAnswered
<1> QED BY <1>2, <1>3 DEF LookUpGlobal

LEMMA NameStepCopy ==
    ASSUME StringsInv, StringsInv', NEW t \in Threads, Copy(t)
    PROVE  [Names!Next]_Names!vars
<1> DEFINE v == [text |-> request[t].text, at |-> arena + 1]
<1>1. /\ request[t].pc = "copy" /\ request[t].views = <<>>
      /\ arena \in Nat
      /\ request \in [Threads -> RequestType]
      /\ globalStrings' = globalStrings \cup {v}
      /\ request' = [request EXCEPT ![t].pc = "return", ![t].views = <<v>>]
      /\ \A w \in globalStrings : w.at \in 1..arena
      /\ Find(globalStrings, request[t].text) = {}
  <2>1. request[t].pc = "copy" /\ request \in [Threads -> RequestType]
    BY DEF Copy, StringsInv
  <2>2. request[t].views = <<>>
    BY <2>1 DEF StringsInv, RequestOK, NoRequest
  <2>3. /\ globalStrings' = globalStrings \cup {v}
        /\ request' = [request EXCEPT ![t].pc = "return", ![t].views = <<v>>]
    BY DEF Copy
  <2> QED BY <2>1, <2>2, <2>3 DEF StringsInv
<1>2. v.text = request[t].text /\ v.at = arena + 1
  OBVIOUS
<1> HIDE DEF v
<1>3. \A w \in globalStrings : w.text # v.text /\ w.at # v.at
  BY <1>1, <1>2 DEF Find
<1> QED BY <1>1, <1>2, <1>3, Found, NameAnswered

(* Interning gives every name one address, on every thread and for ever,   *)
(* whatever the threads and however their calls overlap.                   *)
THEOREM NamesImplemented == StringSpec => ImplementsNameTable
<1>1. StringInit => Names!Init
  <2> SUFFICES ASSUME StringInit PROVE Names!Init
    OBVIOUS
  <2>1. NamesWanted = [t \in Threads |-> <<>>] /\ NamesGot = [t \in Threads |-> <<>>]
    BY DEF StringInit, NoRequest, NamesWanted, NamesGot
  <2>2. NameTable = <<>>
    BY DEF StringInit, NameTable
  <2> QED BY <2>1, <2>2 DEF Names!Init
<1>2. StringsInv /\ StringsInv' /\ [StringNext]_stringVars => [Names!Next]_Names!vars
  <2> SUFFICES ASSUME StringsInv, StringsInv', [StringNext]_stringVars
               PROVE  [Names!Next]_Names!vars
    OBVIOUS
  <2>1. CASE UNCHANGED stringVars
    BY <2>1 DEF stringVars, Names!vars, NameTable, NamesWanted, NamesGot
  <2>2. ASSUME NEW t \in Threads, StringStep(t) PROVE [Names!Next]_Names!vars
    BY <2>2, NameAsked, NameStepLocal, NameStepGlobal, NameStepCopy, NameReturned
       DEF StringStep
  <2> QED BY <2>1, <2>2 DEF StringNext
<1> QED
  BY <1>1, <1>2, StringsInvariant, PTL
     DEF StringSpec, ImplementsNameTable, Names!Spec
-----------------------------------------------------------------------------
(* Both stores in one process                                              *)

LEMMA StoresHoldTypes == StoresSpec => Spec
<1>1. StoresInit => Init
  BY DEF StoresInit
<1>2. [StoresNext]_allVars => [Next]_vars
  BY DEF StoresNext, Exit, BuildStep, NameStep, Next, allVars
<1> QED BY <1>1, <1>2, PTL DEF StoresSpec, Spec

LEMMA StoresHoldStrings == StoresSpec => StringSpec
<1>1. StoresInit => StringInit
  BY DEF StoresInit
<1>2. [StoresNext]_allVars => [StringNext]_stringVars
  BY DEF StoresNext, Exit, BuildStep, NameStep, StringNext, allVars
<1> QED BY <1>1, <1>2, PTL DEF StoresSpec, StringSpec

(* Type correctness of both stores, each mutex held only in its critical   *)
(* section: while types become global, or while a name is copied.          *)
THEOREM StoresTyped == StoresSpec => []StoresOK
<1>1. TypesOK /\ StringsOK => StoresOK
  BY DEF StoresOK
<1> QED BY <1>1, StoresHoldTypes, StoresHoldStrings, TypesTyped, StringTypes, PTL

(* No caller of TypeBuilder::build() or HeapType() gets a temporary type,  *)
(* or one from which a temporary or freed type can be reached.             *)
THEOREM StoresLeakNothing == StoresSpec => []NoTemporaryLeaks
BY StoresHoldTypes, NothingTemporaryLeaks, PTL

(* Interning gives every name one address, on every thread and for ever,   *)
(* with types being built meanwhile.                                       *)
THEOREM StoresIntern == StoresSpec => ImplementsNameTable
BY StoresHoldStrings, NamesImplemented, PTL

(* However calls of build() overlap, with each other and with interning, a *)
(* result is the one group of what the caller's own program means, and a   *)
(* call fails just where that program is at fault.                         *)
THEOREM StoresInternTypes == StoresSpec => ImplementsTypeTable
BY StoresHoldTypes, TypesImplemented, PTL
=============================================================================
