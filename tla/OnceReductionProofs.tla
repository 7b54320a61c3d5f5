------------------------- MODULE OnceReductionProofs -------------------------
(***************************************************************************)
(* The assertions of OnceReduction, for any functions and any bodies.  The *)
(* argument: a call becomes a nop only after others have written what it   *)
(* writes, so no walk takes anything from what the entry block is known to *)
(* write (NoneLost); what is known of a function only grows with what is   *)
(* known of those it calls (KnownMonotone); so the sets of an iteration    *)
(* contain those of the one before.                                        *)
(***************************************************************************)
EXTENDS OnceReduction, FiniteSetTheorems, SequenceTheorems, NaturalsInduction,
        WellFoundedInduction, TLAPS

LEMMA LeastNat ==
  ASSUME NEW S \in SUBSET Nat, S # {}
  PROVE  \E m \in S : \A k \in S : m <= k
<1> DEFINE R == OpToRel(<, Nat)
<1>1. IsWellFoundedOn(R, Nat)
  BY NatLessThanWellFounded
<1>2. \A x, y \in Nat : y < x => <<y, x>> \in R
  BY DEF OpToRel
<1> HIDE DEF R
<1>3. PICK x \in S : \A y \in S : ~(<<y, x>> \in R)
  BY <1>1, WFMin
<1>4. \A y \in S : ~(y < x)
  BY <1>2, <1>3
<1> QED BY <1>4

\* Induction over the natural numbers, for a set in place of a predicate.
LEMMA CountedInduction ==
  ASSUME NEW S, 0 \in S, \A n \in Nat : n \in S => n + 1 \in S
  PROVE  Nat \subseteq S
<1> DEFINE T == Nat \ S
<1> SUFFICES ASSUME T # {} PROVE FALSE
  OBVIOUS
<1>1. PICK x \in T : \A y \in T : x <= y
  BY LeastNat
<1>2. x \in Nat /\ x # 0 /\ x \notin S
  OBVIOUS
<1>3. x - 1 \in Nat /\ x - 1 < x /\ (x - 1) + 1 = x
  BY <1>2
<1>4. x - 1 \in S
  BY <1>1, <1>3
<1> QED BY <1>2, <1>3, <1>4
-----------------------------------------------------------------------------
(* The walks over a body, item by item                                     *)

Advance(walk, acc, x) == IF walk = "ifs" THEN WalkItem(acc, x) ELSE Visit(acc, x)

\* What a fold over a sequence is: a function of sets of positions.
Folded(walk, base, items, D, it) ==
    it = [s \in SUBSET D |->
             IF s = {} THEN base
             ELSE Advance(walk, it[s \ {Max(s)}], items[Max(s)])]

\* There is such a function, so that what CHOOSE picks is one.
LEMMA FoldExists ==
    ASSUME NEW walk, NEW base, NEW items, NEW n \in Nat
    PROVE  \E it : Folded(walk, base, items, 1..n, it)
<1> DEFINE S == {m \in Nat : \E it : Folded(walk, base, items, 1..m, it)}
<1>1. 0 \in S
  <2>1. PICK it : it = [s \in SUBSET (1..0) |-> base]
    OBVIOUS
  <2>2. \A s \in SUBSET (1..0) : s = {}
    OBVIOUS
  <2>3. Folded(walk, base, items, 1..0, it)
    BY <2>1, <2>2 DEF Folded
  <2> QED BY <2>3
<1>2. ASSUME NEW m \in Nat, m \in S
      PROVE  m + 1 \in S
  <2>1. PICK it : Folded(walk, base, items, 1..m, it)
    BY <1>2
  <2>2. PICK D : D = SUBSET (1..m + 1)
    OBVIOUS
  <2>3. PICK h : h = [s \in D |->
                        IF m + 1 \in s THEN Advance(walk, it[s \ {m + 1}], items[m + 1])
                        ELSE it[s]]
    OBVIOUS
  <2>4. ASSUME NEW s \in D
        PROVE  h[s] = IF s = {} THEN base
                      ELSE Advance(walk, h[s \ {Max(s)}], items[Max(s)])
    <3>1. CASE m + 1 \in s
      <4>1. Max(s) = m + 1
        <5>1. \A y \in s : m + 1 >= y
          BY <2>2
        <5>2. \A x \in s : (\A y \in s : x >= y) => x = m + 1
          BY <2>2, <3>1
        <5> QED BY <3>1, <5>1, <5>2 DEF Max
      <4>2. s \ {m + 1} \in D /\ m + 1 \notin s \ {m + 1}
        BY <2>2
      <4>3. h[s \ {m + 1}] = it[s \ {m + 1}]
        BY <2>3, <4>2
      <4>4. h[s] = Advance(walk, it[s \ {m + 1}], items[m + 1])
        BY <2>3, <3>1
      <4> QED BY <3>1, <4>1, <4>3, <4>4
    <3>2. CASE m + 1 \notin s
      <4>0. s \in SUBSET (1..m)
        BY <2>2, <3>2
      <4>1. s \ {Max(s)} \in SUBSET (1..m)
        BY <4>0
      <4>2. s \ {Max(s)} \in D /\ m + 1 \notin s \ {Max(s)}
        BY <2>2, <3>2, <4>1
      <4>3. h[s] = it[s] /\ h[s \ {Max(s)}] = it[s \ {Max(s)}]
        BY <2>3, <3>2, <4>2
      <4>4. it[s] = IF s = {} THEN base
                    ELSE Advance(walk, it[s \ {Max(s)}], items[Max(s)])
        BY <2>1, <4>0 DEF Folded
      <4> QED BY <4>3, <4>4
    <3> QED BY <3>1, <3>2
  <2>5. h = [s \in D |-> h[s]]
    BY <2>3
  <2>6. h = [s \in D |-> IF s = {} THEN base
                         ELSE Advance(walk, h[s \ {Max(s)}], items[Max(s)])]
    BY <2>4, <2>5
  <2>7. Folded(walk, base, items, 1..m + 1, h)
    BY <2>2, <2>6 DEF Folded
  <2> QED BY <2>7
<1> HIDE DEF S
<1>3. n \in S
  BY <1>1, <1>2, CountedInduction
<1> QED BY <1>3 DEF S

\* The accumulators of a fold.
Runs(walk, base, items, n, a) ==
    /\ a[0] = base
    /\ \A k \in 1..n : a[k] = Advance(walk, a[k - 1], items[k])

LEMMA FoldRuns ==
    ASSUME NEW walk, NEW base, NEW items, NEW n \in Nat, NEW it,
           Folded(walk, base, items, 1..n, it)
    PROVE  \E a : Runs(walk, base, items, n, a) /\ a[n] = it[1..n]
<1>1. PICK a : a = [k \in 0..n |-> it[1..k]]
  OBVIOUS
<1>2. a[0] = base
  <2>1. 1..0 = {} /\ {} \in SUBSET (1..n)
    OBVIOUS
  <2>2. it[{}] = base
    BY <2>1 DEF Folded
  <2> QED BY <1>1, <2>1, <2>2
<1>3. ASSUME NEW k \in 1..n
      PROVE  a[k] = Advance(walk, a[k - 1], items[k])
  <2>1. 1..k \in SUBSET (1..n) /\ 1..k # {}
    OBVIOUS
  <2>2. Max(1..k) = k
    <3>1. k \in 1..k /\ \A y \in 1..k : k >= y
      OBVIOUS
    <3>2. \A x \in 1..k : (\A y \in 1..k : x >= y) => x = k
      OBVIOUS
    <3> QED BY <3>1, <3>2 DEF Max
  <2>3. (1..k) \ {k} = 1..(k - 1)
    OBVIOUS
  <2>4. it[1..k] = Advance(walk, it[(1..k) \ {Max(1..k)}], items[Max(1..k)])
    BY <2>1 DEF Folded
  <2>5. it[1..k] = Advance(walk, it[1..(k - 1)], items[k])
    BY <2>2, <2>3, <2>4
  <2>6. k \in 0..n /\ k - 1 \in 0..n
    OBVIOUS
  <2> QED BY <1>1, <2>5, <2>6
<1>4. a[n] = it[1..n]
  BY <1>1
<1>5. Runs(walk, base, items, n, a)
  BY <1>2, <1>3 DEF Runs
<1> QED BY <1>4, <1>5

\* Straight and Walk are the last accumulators.
LEMMA StraightRuns ==
    ASSUME NEW items, NEW w, NEW n \in Nat, DOMAIN items = 1..n
    PROVE  \E a : /\ Runs("straight", [out |-> <<>>, written |-> w, live |-> TRUE], items, n, a)
                  /\ Straight(items, w) = a[n]
<1>1. PICK base : base = [out |-> <<>>, written |-> w, live |-> TRUE]
  OBVIOUS
<1> DEFINE It(it) == it = [s \in SUBSET (1..n) |->
                             IF s = {} THEN base
                             ELSE Visit(it[s \ {Max(s)}], items[Max(s)])]
           f == CHOOSE it : It(it)
<1>2. PICK h : Folded("straight", base, items, 1..n, h)
  BY FoldExists
<1>3. It(h)
  BY <1>2 DEF Folded, Advance
<1>4. It(f)
  <2> HIDE DEF It
  <2> QED BY <1>3
<1>5. Straight(items, w) = f[1..n]
  BY <1>1 DEF Straight, FoldLeft, MapThenFoldSet
<1> HIDE DEF f
<1>6. Folded("straight", base, items, 1..n, f)
  BY <1>4 DEF Folded, Advance
<1> HIDE DEF It
<1>7. PICK it : it = f /\ Folded("straight", base, items, 1..n, it)
  BY <1>6
<1>8. PICK a : Runs("straight", base, items, n, a) /\ a[n] = it[1..n]
  BY <1>7, FoldRuns
<1> QED BY <1>1, <1>5, <1>7, <1>8

LEMMA WalkRuns ==
    ASSUME NEW items, NEW n \in Nat, DOMAIN items = 1..n
    PROVE  \E a : /\ Runs("ifs", [out |-> <<>>, written |-> {}, live |-> TRUE], items, n, a)
                  /\ Walk(items) = a[n]
<1>1. PICK base : base = [out |-> <<>>, written |-> {}, live |-> TRUE]
  OBVIOUS
<1> DEFINE It(it) == it = [s \in SUBSET (1..n) |->
                             IF s = {} THEN base
                             ELSE WalkItem(it[s \ {Max(s)}], items[Max(s)])]
           f == CHOOSE it : It(it)
<1>2. PICK h : Folded("ifs", base, items, 1..n, h)
  BY FoldExists
<1>3. It(h)
  BY <1>2 DEF Folded, Advance
<1>4. It(f)
  <2> HIDE DEF It
  <2> QED BY <1>3
<1>5. Walk(items) = f[1..n]
  BY <1>1 DEF Walk, FoldLeft, MapThenFoldSet
<1> HIDE DEF f
<1>6. Folded("ifs", base, items, 1..n, f)
  BY <1>4 DEF Folded, Advance
<1> HIDE DEF It
<1>7. PICK it : it = f /\ Folded("ifs", base, items, 1..n, it)
  BY <1>6
<1>8. PICK a : Runs("ifs", base, items, n, a) /\ a[n] = it[1..n]
  BY <1>7, FoldRuns
<1> QED BY <1>1, <1>5, <1>7, <1>8
-----------------------------------------------------------------------------
(* What the entry block is known to write                                  *)

Ends == {"return", "return_call"}

\* The items of the first basic block that are reached.
Entered(b) == {k \in DOMAIN b : /\ \A j \in 1..k : b[j].op # "if"
                                /\ \A j \in 1..(k - 1) : b[j].op \notin Ends}

\* Writes, for any iteration.
Given(globals, once, known, item) ==
    IF item.op = "set" THEN {item.global} \cap globals
    ELSE IF ~IsCall(item) THEN {}
    ELSE IF once[item.func] # NoGlobal THEN {once[item.func]}
    ELSE known[item.func]

Known(globals, once, known, b) ==
    UNION {Given(globals, once, known, b[k]) : k \in Entered(b)}

KnownNow(b) == Known(onceGlobals, onceFuncGlobals, sets, b)

LEMMA WritesGiven ==
    ASSUME NEW x
    PROVE  Writes(x) = Given(onceGlobals, onceFuncGlobals, sets, x)
BY DEF Writes, Given

IsAcc(acc) == DOMAIN acc = {"out", "written", "live"}

LEMMA VisitIs ==
    ASSUME NEW acc, IsAcc(acc), NEW x
    PROVE  /\ IsAcc(Visit(acc, x))
           /\ \E y : /\ Visit(acc, x).out = Append(acc.out, y)
                     /\ y = x \/ (y = Nop /\ Writes(x) \subseteq acc.written)
           /\ Visit(acc, x).written = IF acc.live THEN acc.written \cup Writes(x)
                                      ELSE acc.written
           /\ Visit(acc, x).live <=> acc.live /\ x.op \notin Ends
<1>1. CASE acc.live
  <2>0. PICK l \in BOOLEAN : l = (x.op \notin {"return", "return_call"})
    OBVIOUS
  <2>1. Visit(acc, x) =
          [out |-> Append(acc.out, IF IsOnce(x) /\ Writes(x) \subseteq acc.written
                                   THEN Nop ELSE x),
           written |-> acc.written \cup Writes(x),
           live |-> l]
    BY <1>1, <2>0, Zenon DEF Visit
  <2>2. PICK v : v = Visit(acc, x)
    OBVIOUS
  <2>3. PICK y : y = IF IsOnce(x) /\ Writes(x) \subseteq acc.written THEN Nop ELSE x
    OBVIOUS
  <2>4. v.out = Append(acc.out, y)
    BY <2>1, <2>2, <2>3
  <2>5. v.written = acc.written \cup Writes(x)
    BY <2>1, <2>2
  <2>6. v.live <=> x.op \notin Ends
    <3>1. v.live = l
      BY <2>1, <2>2
    <3> QED BY <2>0, <3>1, Zenon DEF Ends
  <2>7. IsAcc(v)
    BY <2>1, <2>2 DEF IsAcc
  <2>8. y = x \/ (y = Nop /\ Writes(x) \subseteq acc.written)
    BY <2>3
  <2> QED BY <1>1, <2>2, <2>4, <2>5, <2>6, <2>7, <2>8
<1>2. CASE ~acc.live
  <2>1. Visit(acc, x) = [acc EXCEPT !.out = Append(acc.out, x)]
    BY <1>2 DEF Visit
  <2>2. PICK v : v = Visit(acc, x)
    OBVIOUS
  <2>3. IsAcc(v) /\ v.out = Append(acc.out, x) /\ v.written = acc.written
    BY <2>1, <2>2 DEF IsAcc
  <2>4. v.live = acc.live
    BY <2>1, <2>2 DEF IsAcc
  <2>5. ~v.live
    BY <1>2, <2>4
  <2> QED BY <1>2, <2>2, <2>3, <2>5
<1> QED BY <1>1, <1>2

\* The first basic block is a prefix of the body.
LEMMA EntryIs ==
    ASSUME NEW S, NEW b \in Seq(S)
    PROVE  \E m \in 0..Len(b) :
              /\ DOMAIN Entry(b) = 1..m
              /\ \A k \in 1..m : Entry(b)[k] = b[k] /\ b[k].op # "if"
              /\ m < Len(b) => b[m + 1].op = "if"
<1>0. PICK n \in Nat : n = Len(b) /\ DOMAIN b = 1..n
  OBVIOUS
<1>1. PICK ifs : ifs = {i \in DOMAIN b : b[i].op = "if"}
  OBVIOUS
<1>2. CASE ifs = {}
  <2>1. Entry(b) = b
    BY <1>1, <1>2 DEF Entry
  <2>2. \A k \in 1..n : b[k].op # "if"
    BY <1>0, <1>1, <1>2
  <2> QED BY <1>0, <2>1, <2>2
<1>3. CASE ifs # {}
  <2>1. ifs \in SUBSET Nat
    BY <1>0, <1>1
  <2>2. PICK p : p = Min(ifs)
    OBVIOUS
  <2>3. p \in ifs /\ \A i \in ifs : p <= i
    <3>1. \E q \in ifs : \A i \in ifs : q <= i
      BY <1>3, <2>1, LeastNat
    <3> QED BY <2>2, <3>1 DEF Min
  <2>4. p \in 1..n /\ b[p].op = "if" /\ \A k \in 1..(p - 1) : b[k].op # "if"
    BY <1>0, <1>1, <2>1, <2>3
  <2>5. Entry(b) = SubSeq(b, 1, p - 1)
    BY <1>1, <1>3, <2>2 DEF Entry
  <2>6. \A i \in 1..(p - 1) : b[i] \in S
    BY <1>0, <2>4
  <2>7. /\ SubSeq(b, 1, p - 1) \in Seq(S)
        /\ Len(SubSeq(b, 1, p - 1)) = IF 1 <= p - 1 THEN (p - 1) - 1 + 1 ELSE 0
        /\ \A i \in 1..(p - 1) - 1 + 1 : SubSeq(b, 1, p - 1)[i] = b[1 + i - 1]
    BY <2>4, <2>6, SubSeqProperties
  <2>8. Len(Entry(b)) = p - 1 /\ Entry(b) \in Seq(S)
    BY <2>4, <2>5, <2>7
  <2>9. DOMAIN Entry(b) = 1..(p - 1)
    BY <2>8
  <2>10. \A k \in 1..(p - 1) : Entry(b)[k] = b[k]
    BY <2>4, <2>5, <2>7
  <2>11. p - 1 \in 0..Len(b) /\ b[(p - 1) + 1].op = "if"
    BY <1>0, <2>4
  <2> QED BY <2>4, <2>9, <2>10, <2>11
<1> QED BY <1>2, <1>3

\* Of the first k items, those that are reached.
Reached(b, k) == {j \in 1..k : \A i \in 1..(j - 1) : b[i].op \notin Ends}

WrittenBy(b, k) == UNION {Writes(b[j]) : j \in Reached(b, k)}

GoesOn(b, k) == \A i \in 1..k : b[i].op \notin Ends

\* Visits of items, from the entry: what is written and whether it goes on.
LEMMA VisitsAre ==
    ASSUME NEW b, NEW m \in Nat, NEW a,
           a[0] = [out |-> <<>>, written |-> {}, live |-> TRUE],
           \A k \in 1..m : a[k] = Visit(a[k - 1], b[k])
    PROVE  \A k \in 0..m : /\ IsAcc(a[k])
                           /\ a[k].written = WrittenBy(b, k)
                           /\ a[k].live <=> GoesOn(b, k)
<1> DEFINE At(k) == /\ IsAcc(a[k])
                    /\ a[k].written = WrittenBy(b, k)
                    /\ a[k].live <=> GoesOn(b, k)
           S == {k \in Nat : k <= m => At(k)}
<1>1. At(0)
  <2>1. Reached(b, 0) = {} /\ GoesOn(b, 0)
    BY DEF Reached, GoesOn
  <2>2. WrittenBy(b, 0) = {}
    BY <2>1 DEF WrittenBy
  <2> QED BY <2>1, <2>2 DEF IsAcc
<1>2. ASSUME NEW n \in Nat, n \in S
      PROVE  n + 1 \in S
  <2> SUFFICES ASSUME n + 1 <= m PROVE At(n + 1)
    BY <1>2
  <2>1. At(n)
    BY <1>2
  <2>2. PICK acc, x : acc = a[n] /\ x = b[n + 1] /\ a[n + 1] = Visit(acc, x)
    <3>1. n + 1 \in 1..m /\ (n + 1) - 1 = n
      OBVIOUS
    <3> QED BY <3>1
  <2>3. /\ IsAcc(acc) /\ acc.written = WrittenBy(b, n)
        /\ acc.live <=> GoesOn(b, n)
    BY <2>1, <2>2
  <2>4. /\ IsAcc(Visit(acc, x))
        /\ Visit(acc, x).written = IF acc.live THEN acc.written \cup Writes(x)
                                   ELSE acc.written
        /\ Visit(acc, x).live <=> acc.live /\ x.op \notin Ends
    BY <2>3, VisitIs
  <2>5. GoesOn(b, n + 1) <=> acc.live /\ x.op \notin Ends
    <3>1. 1..(n + 1) = (1..n) \cup {n + 1}
      OBVIOUS
    <3> QED BY <2>2, <2>3, <3>1 DEF GoesOn
  <2>6. a[n + 1].written = WrittenBy(b, n + 1)
    <3>1. CASE acc.live
      <4>1. Reached(b, n + 1) = Reached(b, n) \cup {n + 1}
        BY <2>3, <3>1 DEF Reached, GoesOn
      <4>2. WrittenBy(b, n + 1) = WrittenBy(b, n) \cup Writes(b[n + 1])
        BY <4>1 DEF WrittenBy
      <4> QED BY <2>2, <2>3, <2>4, <3>1, <4>2
    <3>2. CASE ~acc.live
      <4>1. Reached(b, n + 1) = Reached(b, n)
        BY <2>3, <3>2 DEF Reached, GoesOn
      <4>2. WrittenBy(b, n + 1) = WrittenBy(b, n)
        BY <4>1 DEF WrittenBy
      <4> QED BY <2>2, <2>3, <2>4, <3>2, <4>2
    <3> QED BY <3>1, <3>2
  <2> QED BY <2>2, <2>4, <2>5, <2>6
<1>3. 0 \in S
  BY <1>1
<1> HIDE DEF S
<1>4. Nat \subseteq S
  BY <1>2, <1>3, CountedInduction
<1> QED BY <1>4 DEF S

\* What an Optimize finds: the new set of a function.
LEMMA FoundIsKnown ==
    ASSUME NEW S, NEW b \in Seq(S)
    PROVE  Straight(Entry(b), {}).written = KnownNow(b)
<1>1. PICK m \in 0..Len(b) :
              /\ DOMAIN Entry(b) = 1..m
              /\ \A k \in 1..m : Entry(b)[k] = b[k] /\ b[k].op # "if"
              /\ m < Len(b) => b[m + 1].op = "if"
  BY EntryIs
<1>2. PICK items : items = Entry(b)
  OBVIOUS
<1>3. m \in Nat /\ DOMAIN items = 1..m
  BY <1>1, <1>2
<1>4. PICK a : /\ Runs("straight", [out |-> <<>>, written |-> {}, live |-> TRUE], items, m, a)
               /\ Straight(items, {}) = a[m]
  BY <1>3, StraightRuns
<1>5. a[0] = [out |-> <<>>, written |-> {}, live |-> TRUE]
  BY <1>4 DEF Runs
<1>6. \A k \in 1..m : a[k] = Visit(a[k - 1], items[k])
  BY <1>4 DEF Runs, Advance
<1>7. \A k \in 0..m : /\ IsAcc(a[k])
                      /\ a[k].written = WrittenBy(items, k)
                      /\ a[k].live <=> GoesOn(items, k)
  BY <1>3, <1>5, <1>6, VisitsAre
<1>8. a[m].written = WrittenBy(items, m)
  BY <1>3, <1>7
<1>9. Reached(items, m) = Entered(b) /\ Entered(b) \subseteq 1..m
  <2>1. \A k \in 1..m : items[k] = b[k] /\ b[k].op # "if"
    BY <1>1, <1>2
  <2>2. DOMAIN b = 1..Len(b) /\ Len(b) \in Nat
    OBVIOUS
  <2>3. ASSUME NEW k \in Entered(b) PROVE k \in 1..m
    <3>1. k \in 1..Len(b) /\ \A j \in 1..k : b[j].op # "if"
      BY <2>2 DEF Entered
    <3>2. m < k => m + 1 \in 1..k /\ m < Len(b)
      BY <2>2, <3>1
    <3> QED BY <1>1, <3>1, <3>2
  <2>4. ASSUME NEW k \in 1..m PROVE k \in Reached(items, m) <=> k \in Entered(b)
    <3>1. \A j \in 1..k : j \in 1..m
      OBVIOUS
    <3>2. k \in DOMAIN b
      BY <2>2
    <3> QED BY <2>1, <3>1, <3>2 DEF Reached, Entered
  <2>5. Reached(items, m) \subseteq 1..m
    BY DEF Reached
  <2> QED BY <2>3, <2>4, <2>5
<1>10. \A j \in Entered(b) : items[j] = b[j]
  BY <1>1, <1>2, <1>9
<1>11. WrittenBy(items, m) = UNION {Writes(b[j]) : j \in Entered(b)}
  BY <1>9, <1>10 DEF WrittenBy
<1>12. KnownNow(b) = UNION {Writes(b[j]) : j \in Entered(b)}
  BY WritesGiven DEF KnownNow, Known
<1> QED BY <1>2, <1>4, <1>8, <1>11, <1>12
-----------------------------------------------------------------------------
(* What a walk leaves of a body                                            *)

LEMMA AppendIs ==
    ASSUME NEW o, o \in Seq(Range(o)), NEW y, NEW p, p = Append(o, y)
    PROVE  /\ p \in Seq(Range(p))
           /\ Len(p) = Len(o) + 1
           /\ \A i \in 1..Len(o) : p[i] = o[i]
           /\ p[Len(o) + 1] = y
           /\ Range(p) = Range(o) \cup {y}
<1>1. PICK S : S = Range(o) \cup {y}
  OBVIOUS
<1>2. o \in Seq(S) /\ y \in S
  BY <1>1
<1>3. PICK n \in Nat : n = Len(o) /\ DOMAIN o = 1..n
  BY <1>2
<1>4. /\ p \in Seq(S)
      /\ Len(p) = n + 1
      /\ \A i \in 1..n : p[i] = o[i]
      /\ p[n + 1] = y
  BY <1>2, <1>3, AppendProperties
<1>5. DOMAIN p = 1..(n + 1)
  BY <1>4
<1>6. Range(p) = S
  <2>1. ASSUME NEW x \in S PROVE x \in Range(p)
    <3>1. CASE x = y
      BY <1>3, <1>4, <1>5, <3>1 DEF Range
    <3>2. CASE x # y
      <4>1. PICK k \in 1..n : x = o[k]
        BY <1>1, <1>3, <3>2 DEF Range
      <4>2. k \in 1..(n + 1) /\ p[k] = x
        BY <1>3, <1>4, <4>1
      <4> QED BY <1>5, <4>2 DEF Range
    <3> QED BY <3>1, <3>2
  <2>2. \A k \in 1..(n + 1) : p[k] \in S
    BY <1>4, <1>5
  <2> QED BY <1>5, <2>1, <2>2 DEF Range
<1> QED BY <1>1, <1>3, <1>4, <1>6

\* A step of the walk adds an item, which calls what the body called there.
LEMMA WalkItemAdds ==
    ASSUME NEW acc, "out" \in DOMAIN acc, NEW x, "op" \in DOMAIN x
    PROVE  /\ "out" \in DOMAIN WalkItem(acc, x)
           /\ \E y : /\ WalkItem(acc, x).out = Append(acc.out, y)
                     /\ "op" \in DOMAIN y
                     /\ y = x \/ ~IsCall(y)
<1>0. "op" \in DOMAIN Nop /\ ~IsCall(Nop)
  BY DEF Nop, IsCall
<1>1. CASE x.op # "if" \/ ~acc.live
  <2>1. WalkItem(acc, x) = Visit(acc, x)
    BY <1>1 DEF WalkItem
  <2>2. CASE ~acc.live
    <3>1. Visit(acc, x) = [acc EXCEPT !.out = Append(acc.out, x)]
      BY <2>2 DEF Visit
    <3>2. PICK v : v = Visit(acc, x)
      OBVIOUS
    <3>3. "out" \in DOMAIN v /\ v.out = Append(acc.out, x)
      BY <3>1, <3>2
    <3> QED BY <2>1, <3>2, <3>3
  <2>3. CASE acc.live
    <3>1. PICK y : y = IF IsOnce(x) /\ Writes(x) \subseteq acc.written THEN Nop ELSE x
      OBVIOUS
    <3>2. PICK w, l : Visit(acc, x) = [out |-> Append(acc.out, y), written |-> w, live |-> l]
      BY <2>3, <3>1 DEF Visit
    <3>3. PICK v : v = Visit(acc, x)
      OBVIOUS
    <3>4. "out" \in DOMAIN v /\ v.out = Append(acc.out, y)
      BY <3>2, <3>3
    <3>5. y = x \/ y = Nop
      BY <3>1
    <3> QED BY <1>0, <2>1, <3>3, <3>4, <3>5
  <2> QED BY <2>2, <2>3
<1>2. CASE x.op = "if" /\ acc.live
  <2>1. PICK s1, s2 : /\ s1 = Straight(x.arms[1], acc.written)
                      /\ s2 = Straight(x.arms[2], acc.written)
    OBVIOUS
  <2>2. PICK y : y = [x EXCEPT !.arms = <<s1.out, s2.out>>]
    OBVIOUS
  <2>3. PICK w, l : WalkItem(acc, x) = [out |-> Append(acc.out, y), written |-> w, live |-> l]
    BY <1>2, <2>1, <2>2 DEF WalkItem
  <2>4. PICK v : v = WalkItem(acc, x)
    OBVIOUS
  <2>5. "out" \in DOMAIN v /\ v.out = Append(acc.out, y)
    BY <2>3, <2>4
  <2>6. "op" \in DOMAIN y /\ y.op = "if"
    BY <1>2, <2>2
  <2>7. ~IsCall(y)
    BY <2>6 DEF IsCall
  <2> QED BY <2>4, <2>5, <2>6, <2>7
<1> QED BY <1>1, <1>2

CallsIn(x, functions) == /\ "op" \in DOMAIN x
                         /\ IsCall(x) => x.func \in functions

LEMMA WalkGrows ==
    ASSUME NEW functions, NEW b, IsBody(b, functions), NEW n \in Nat, n = Len(b),
           NEW a,
           Runs("ifs", [out |-> <<>>, written |-> {}, live |-> TRUE], b, n, a)
    PROVE  \A k \in 0..n : /\ "out" \in DOMAIN a[k]
                           /\ IsBody(a[k].out, functions)
                           /\ Len(a[k].out) = k
                           /\ \A i \in 1..k : a[k].out[i] = a[i].out[i]
<1> DEFINE At(k) == /\ "out" \in DOMAIN a[k]
                    /\ IsBody(a[k].out, functions)
                    /\ Len(a[k].out) = k
                    /\ \A i \in 1..k : a[k].out[i] = a[i].out[i]
           S == {k \in Nat : k <= n => At(k)}
<1>1. At(0)
  <2>1. PICK acc : acc = a[0] /\ acc = [out |-> <<>>, written |-> {}, live |-> TRUE]
    BY DEF Runs
  <2>2. "out" \in DOMAIN acc /\ acc.out = <<>>
    BY <2>1
  <2>3. Range(<<>>) = {}
    BY DEF Range
  <2>4. IsBody(<<>>, functions)
    BY <2>3 DEF IsBody
  <2> QED BY <2>1, <2>2, <2>4
<1>2. ASSUME NEW k \in Nat, k \in S
      PROVE  k + 1 \in S
  <2> SUFFICES ASSUME k + 1 <= n PROVE At(k + 1)
    BY <1>2
  <2>1. At(k)
    BY <1>2
  <2>2. PICK acc, x : acc = a[k] /\ x = b[k + 1] /\ a[k + 1] = WalkItem(acc, x)
    <3>1. k + 1 \in 1..n /\ (k + 1) - 1 = k
      OBVIOUS
    <3> QED BY <3>1 DEF Runs, Advance
  <2>3. CallsIn(x, functions)
    <3>1. k + 1 \in DOMAIN b
      BY DEF IsBody
    <3>2. x \in Range(b)
      BY <2>2, <3>1 DEF Range
    <3> QED BY <3>2 DEF IsBody, CallsIn
  <2>4. "out" \in DOMAIN acc /\ "op" \in DOMAIN x
    BY <2>1, <2>2, <2>3 DEF CallsIn
  <2>5. PICK y : /\ WalkItem(acc, x).out = Append(acc.out, y)
                 /\ "op" \in DOMAIN y
                 /\ y = x \/ ~IsCall(y)
    BY <2>4, WalkItemAdds
  <2>6. "out" \in DOMAIN a[k + 1]
    BY <2>2, <2>4, WalkItemAdds
  <2>7. PICK o, p : o = acc.out /\ p = a[k + 1].out /\ p = Append(o, y)
    BY <2>2, <2>5
  <2>8. o \in Seq(Range(o)) /\ Len(o) = k /\ \A z \in Range(o) : CallsIn(z, functions)
    BY <2>1, <2>2, <2>7 DEF IsBody, CallsIn
  <2>9. /\ p \in Seq(Range(p))
        /\ Len(p) = Len(o) + 1
        /\ \A i \in 1..Len(o) : p[i] = o[i]
        /\ Range(p) = Range(o) \cup {y}
    <3>1. o \in Seq(Range(o))
      BY <2>8
    <3>2. p = Append(o, y)
      BY <2>7
    <3>3. p \in Seq(Range(p)) /\ Len(p) = Len(o) + 1
      BY <3>1, <3>2, AppendIs
    <3>4. \A i \in 1..Len(o) : p[i] = o[i]
      BY <3>1, <3>2, AppendIs
    <3>5. Range(p) = Range(o) \cup {y}
      BY <3>1, <3>2, AppendIs
    <3> QED BY <3>3, <3>4, <3>5
  <2>10. CallsIn(y, functions)
    BY <2>3, <2>5 DEF CallsIn
  <2>11. IsBody(p, functions)
    BY <2>8, <2>9, <2>10 DEF IsBody, CallsIn
  <2>12. ASSUME NEW i \in 1..(k + 1) PROVE p[i] = a[i].out[i]
    <3>1. CASE i = k + 1
      BY <2>7, <3>1
    <3>2. CASE i # k + 1
      <4>1. i \in 1..k
        BY <3>2
      <4> QED BY <2>1, <2>2, <2>7, <2>8, <2>9, <4>1
    <3> QED BY <3>1, <3>2
  <2> QED BY <2>6, <2>7, <2>8, <2>9, <2>11, <2>12
<1>3. 0 \in S
  BY <1>1
<1> HIDE DEF S
<1>4. Nat \subseteq S
  BY <1>2, <1>3, CountedInduction
<1> QED BY <1>4 DEF S

\* The bodies stay bodies, of the same length.
LEMMA WalkKeepsBodies ==
    ASSUME NEW functions, NEW b, IsBody(b, functions)
    PROVE  IsBody(Walk(b).out, functions)
<1>1. PICK n \in Nat : n = Len(b) /\ DOMAIN b = 1..n
  BY DEF IsBody
<1>2. PICK a : /\ Runs("ifs", [out |-> <<>>, written |-> {}, live |-> TRUE], b, n, a)
               /\ Walk(b) = a[n]
  BY <1>1, WalkRuns
<1>3. IsBody(a[n].out, functions)
  BY <1>1, <1>2, WalkGrows
<1> QED BY <1>2, <1>3

\* What is known to be written before a walk is still known after it.
LEMMA NoneLost ==
    ASSUME NEW functions, NEW b, IsBody(b, functions)
    PROVE  KnownNow(b) \subseteq KnownNow(Walk(b).out)
<1>1. PICK n \in Nat : n = Len(b) /\ DOMAIN b = 1..n
  BY DEF IsBody
<1>2. PICK a : /\ Runs("ifs", [out |-> <<>>, written |-> {}, live |-> TRUE], b, n, a)
               /\ Walk(b) = a[n]
  BY <1>1, WalkRuns
<1>3. \A k \in 0..n : /\ "out" \in DOMAIN a[k]
                      /\ IsBody(a[k].out, functions)
                      /\ Len(a[k].out) = k
                      /\ \A i \in 1..k : a[k].out[i] = a[i].out[i]
  BY <1>1, <1>2, WalkGrows
<1>4. PICK out : out = Walk(b).out /\ out = a[n].out
  BY <1>2
<1>5. DOMAIN out = 1..n /\ \A k \in 1..n : out[k] = a[k].out[k]
  <2>1. out \in Seq(Range(out)) /\ Len(out) = n
    BY <1>3, <1>4 DEF IsBody
  <2> QED BY <1>3, <1>4, <2>1
\* An item the walk reaches in the first block, as it is left.
<1>6. ASSUME NEW k \in Entered(b)
      PROVE  /\ k \in 1..n
             /\ \/ out[k] = b[k]
                \/ /\ out[k] = Nop
                   /\ Writes(b[k]) \subseteq WrittenBy(b, k - 1)
  <2>1. k \in 1..n /\ \A j \in 1..k : b[j].op # "if"
    BY <1>1 DEF Entered
  <2>2. ASSUME NEW j \in 1..k PROVE a[j] = Visit(a[j - 1], b[j])
    <3>1. j \in 1..n
      BY <2>1
    <3>2. a[j] = WalkItem(a[j - 1], b[j])
      BY <1>2, <3>1 DEF Runs, Advance
    <3> QED BY <2>1, <3>2 DEF WalkItem
  <2>3. a[0] = [out |-> <<>>, written |-> {}, live |-> TRUE]
    BY <1>2 DEF Runs
  <2>4. k - 1 \in 0..k /\ k - 1 \in 0..n /\ k \in Nat /\ k \in 1..k
    BY <2>1
  <2>5. \A j \in 0..k : /\ IsAcc(a[j])
                        /\ a[j].written = WrittenBy(b, j)
                        /\ a[j].live <=> GoesOn(b, j)
    BY <2>2, <2>3, <2>4, VisitsAre
  <2>6. PICK acc, x : acc = a[k - 1] /\ x = b[k] /\ a[k] = Visit(acc, x)
    BY <2>2, <2>4
  <2>7. IsAcc(acc) /\ acc.written = WrittenBy(b, k - 1)
    BY <2>4, <2>5, <2>6
  <2>8. IsAcc(acc)
    BY <2>7
  <2>9. PICK y : /\ Visit(acc, x).out = Append(acc.out, y)
                 /\ y = x \/ (y = Nop /\ Writes(x) \subseteq acc.written)
    BY <2>8, VisitIs
  <2>10. IsBody(acc.out, functions) /\ Len(acc.out) = k - 1
    BY <1>3, <2>4, <2>6
  <2>11. PICK o, p : o = acc.out /\ p = a[k].out /\ p = Append(o, y)
    BY <2>6, <2>9
  <2>12. o \in Seq(Range(o)) /\ Len(o) = k - 1
    BY <2>10, <2>11 DEF IsBody
  <2>13. p[Len(o) + 1] = y
    <3>1. o \in Seq(Range(o))
      BY <2>12
    <3>2. p = Append(o, y)
      BY <2>11
    <3> QED BY <3>1, <3>2, AppendIs
  <2>14. Len(o) + 1 = k
    BY <2>1, <2>12
  <2>15. out[k] = p[k]
    BY <1>5, <2>1, <2>11
  <2>16. out[k] = y
    BY <2>13, <2>14, <2>15
  <2> QED BY <2>1, <2>6, <2>7, <2>9, <2>16
<1>7. Entered(b) \subseteq Entered(out)
  <2>1. Nop.op \notin Ends \cup {"if"}
    BY DEF Nop, Ends
  <2> SUFFICES ASSUME NEW k \in Entered(b) PROVE k \in Entered(out)
    OBVIOUS
  <2>2. /\ k \in 1..n
        /\ \A j \in 1..k : b[j].op # "if"
        /\ \A j \in 1..(k - 1) : b[j].op \notin Ends
    BY <1>1 DEF Entered
  <2>3. ASSUME NEW j \in 1..k PROVE j \in Entered(b)
    BY <1>1, <2>2 DEF Entered
  <2>4. \A j \in 1..k : out[j] = b[j] \/ out[j] = Nop
    BY <1>6, <2>3
  <2>5. \A j \in 1..k : out[j].op # "if"
    BY <2>1, <2>2, <2>4
  <2>6. \A j \in 1..(k - 1) : out[j].op \notin Ends
    BY <2>1, <2>2, <2>4
  <2> QED BY <1>5, <2>2, <2>5, <2>6 DEF Entered
<1>8. ASSUME NEW k \in Entered(b)
      PROVE  Writes(b[k]) \subseteq KnownNow(out)
  <2> DEFINE T == {j \in Entered(b) : ~(Writes(b[j]) \subseteq KnownNow(out))}
  <2> SUFFICES ASSUME T # {} PROVE FALSE
    OBVIOUS
  <2>1. T \in SUBSET Nat
    BY <1>6
  <2>2. PICK j \in T : \A i \in T : j <= i
    BY <2>1, LeastNat
  <2>3. j \in Entered(b) /\ j \in 1..n /\ ~(Writes(b[j]) \subseteq KnownNow(out))
    BY <1>6
  <2>4. ASSUME NEW i \in Reached(b, j - 1) PROVE Writes(b[i]) \subseteq KnownNow(out)
    <3>1. i \in 1..(j - 1)
      BY DEF Reached
    <3>2. /\ \A m \in 1..j : b[m].op # "if"
          /\ \A m \in 1..(j - 1) : b[m].op \notin Ends
      BY <2>3 DEF Entered
    <3>3. i \in Entered(b)
      BY <1>1, <2>3, <3>1, <3>2 DEF Entered
    <3>4. i \notin T
      BY <2>2, <2>3, <3>1
    <3> QED BY <3>3, <3>4
  <2>5. WrittenBy(b, j - 1) \subseteq KnownNow(out)
    BY <2>4 DEF WrittenBy
  <2>6. out[j] = b[j]
    BY <1>6, <2>3, <2>5
  <2>7. j \in Entered(out)
    BY <1>7, <2>3
  <2>8. Writes(b[j]) \subseteq KnownNow(out)
    BY <2>6, <2>7, WritesGiven DEF KnownNow, Known
  <2> QED BY <2>3, <2>8
<1>9. KnownNow(b) = UNION {Writes(b[k]) : k \in Entered(b)}
  BY WritesGiven DEF KnownNow, Known
<1> QED BY <1>4, <1>8, <1>9
-----------------------------------------------------------------------------
(* What Count adds up                                                      *)

One(t) == CHOOSE x \in t : TRUE

Tallied(s, D, it) ==
    it = [t \in D |-> IF t = {} THEN 0
                      ELSE Cardinality(s[One(t)]) + it[t \ {One(t)}]]

Small(D, n) == {t \in SUBSET D : Cardinality(t) <= n}

LEMMA OneLess ==
    ASSUME NEW D, IsFiniteSet(D), NEW n \in Nat, NEW t \in Small(D, n + 1), t # {}
    PROVE  /\ One(t) \in t
           /\ t \ {One(t)} \in Small(D, n)
<1>1. PICK x : x = One(t)
  OBVIOUS
<1>2. x \in t
  BY <1>1 DEF One
<1>3. t \in SUBSET D /\ Cardinality(t) <= n + 1
  BY DEF Small
<1>4. IsFiniteSet(t)
  BY <1>3, FS_Subset
<1>5. Cardinality(t) \in Nat
  BY <1>4, FS_CardinalityType
<1>6. Cardinality(t \ {x}) = Cardinality(t) - 1
  BY <1>2, <1>4, FS_RemoveElement
<1>7. t \ {x} \in Small(D, n)
  BY <1>3, <1>5, <1>6 DEF Small
<1> QED BY <1>1, <1>2, <1>7

LEMMA TallyExists ==
    ASSUME NEW D, IsFiniteSet(D), NEW s
    PROVE  \E it : Tallied(s, SUBSET D, it)
<1> DEFINE S == {n \in Nat : \E it : Tallied(s, Small(D, n), it)}
<1>1. 0 \in S
  <2>1. ASSUME NEW t \in Small(D, 0) PROVE t = {}
    <3>1. t \in SUBSET D /\ Cardinality(t) <= 0
      BY DEF Small
    <3>2. IsFiniteSet(t)
      BY <3>1, FS_Subset
    <3>3. Cardinality(t) = 0
      BY <3>1, <3>2, FS_CardinalityType
    <3> QED BY <3>2, <3>3, FS_EmptySet
  <2>2. PICK it : it = [t \in Small(D, 0) |-> 0]
    OBVIOUS
  <2>3. Tallied(s, Small(D, 0), it)
    BY <2>1, <2>2 DEF Tallied
  <2> QED BY <2>3
<1>2. ASSUME NEW n \in Nat, n \in S
      PROVE  n + 1 \in S
  <2>1. PICK it : Tallied(s, Small(D, n), it)
    BY <1>2
  <2>2. PICK C, E : C = Small(D, n) /\ E = Small(D, n + 1)
    OBVIOUS
  <2>3. PICK h : h = [t \in E |-> IF t = {} THEN 0
                                  ELSE Cardinality(s[One(t)]) + it[t \ {One(t)}]]
    OBVIOUS
  <2>4. C \subseteq E
    <3>1. ASSUME NEW t \in C PROVE t \in E
      <4>1. t \in SUBSET D /\ Cardinality(t) <= n
        BY <2>2 DEF Small
      <4>2. IsFiniteSet(t)
        BY <4>1, FS_Subset
      <4>3. Cardinality(t) \in Nat
        BY <4>2, FS_CardinalityType
      <4>4. Cardinality(t) <= n + 1
        BY <4>1, <4>3
      <4> QED BY <2>2, <4>1, <4>4 DEF Small
    <3> QED BY <3>1
  <2>5. \A t \in C : it[t] = IF t = {} THEN 0
                             ELSE Cardinality(s[One(t)]) + it[t \ {One(t)}]
    BY <2>1, <2>2 DEF Tallied
  <2>6. \A t \in C : h[t] = it[t]
    BY <2>3, <2>4, <2>5
  <2>7. \A t \in E : t # {} => t \ {One(t)} \in C
    BY <2>2, OneLess
  <2>8. \A t \in E : h[t] = IF t = {} THEN 0
                            ELSE Cardinality(s[One(t)]) + h[t \ {One(t)}]
    BY <2>3, <2>6, <2>7
  <2>9. h = [t \in E |-> h[t]]
    BY <2>3
  <2>10. h = [t \in E |-> IF t = {} THEN 0
                          ELSE Cardinality(s[One(t)]) + h[t \ {One(t)}]]
    BY <2>8, <2>9
  <2>11. Tallied(s, Small(D, n + 1), h)
    BY <2>2, <2>10 DEF Tallied
  <2> QED BY <2>11
<1> HIDE DEF S
<1>3. Nat \subseteq S
  BY <1>1, <1>2, CountedInduction
<1>4. Cardinality(D) \in Nat
  BY FS_CardinalityType
<1>5. PICK it : Tallied(s, Small(D, Cardinality(D)), it)
  BY <1>3, <1>4 DEF S
<1>6. Small(D, Cardinality(D)) = SUBSET D
  BY FS_Subset DEF Small
<1> QED BY <1>5, <1>6

LEMMA CountIs ==
    ASSUME NEW D, IsFiniteSet(D), NEW s, DOMAIN s = D
    PROVE  \E it : Tallied(s, SUBSET D, it) /\ Count(s) = it[D]
<1> DEFINE It(it) == it = [t \in SUBSET D |->
                             IF t = {} THEN 0
                             ELSE Cardinality(s[One(t)]) + it[t \ {One(t)}]]
           f == CHOOSE it : It(it)
<1>1. PICK h : Tallied(s, SUBSET D, h)
  BY TallyExists
<1>2. It(h)
  BY <1>1 DEF Tallied
<1>3. It(f)
  <2> HIDE DEF It
  <2> QED BY <1>2
<1>4. Count(s) = f[D]
  BY DEF Count, FoldFunction, FoldFunctionOnSet, MapThenFoldSet, One
<1> HIDE DEF f
<1>5. Tallied(s, SUBSET D, f)
  BY <1>3 DEF Tallied
<1> QED BY <1>4, <1>5

\* Larger sets add up to more.
LEMMA CountMonotone ==
    ASSUME NEW D, IsFiniteSet(D),
           NEW s, DOMAIN s = D, NEW t, DOMAIN t = D,
           \A f \in D : IsFiniteSet(t[f]) /\ s[f] \subseteq t[f]
    PROVE  Count(s) \in Nat /\ Count(t) \in Nat /\ Count(s) <= Count(t)
<1>1. PICK g : Tallied(s, SUBSET D, g) /\ Count(s) = g[D]
  BY CountIs
<1>2. PICK h : Tallied(t, SUBSET D, h) /\ Count(t) = h[D]
  BY CountIs
<1>3. \A u \in SUBSET D :
         /\ g[u] = IF u = {} THEN 0 ELSE Cardinality(s[One(u)]) + g[u \ {One(u)}]
         /\ h[u] = IF u = {} THEN 0 ELSE Cardinality(t[One(u)]) + h[u \ {One(u)}]
  BY <1>1, <1>2 DEF Tallied
<1>4. \A f \in D : /\ Cardinality(s[f]) \in Nat
                   /\ Cardinality(t[f]) \in Nat
                   /\ Cardinality(s[f]) <= Cardinality(t[f])
  <2> SUFFICES ASSUME NEW f \in D
               PROVE  /\ Cardinality(s[f]) \in Nat
                      /\ Cardinality(t[f]) \in Nat
                      /\ Cardinality(s[f]) <= Cardinality(t[f])
    OBVIOUS
  <2>1. IsFiniteSet(t[f]) /\ s[f] \in SUBSET t[f]
    OBVIOUS
  <2>2. IsFiniteSet(s[f]) /\ Cardinality(s[f]) <= Cardinality(t[f])
    BY <2>1, FS_Subset
  <2> QED BY <2>1, <2>2, FS_CardinalityType
<1> DEFINE Le(u) == g[u] \in Nat /\ h[u] \in Nat /\ g[u] <= h[u]
           S == {n \in Nat : \A u \in Small(D, n) : Le(u)}
<1>5. 0 \in S
  <2>1. ASSUME NEW u \in Small(D, 0) PROVE Le(u)
    <3>1. u \in SUBSET D /\ Cardinality(u) <= 0
      BY DEF Small
    <3>2. IsFiniteSet(u)
      BY <3>1, FS_Subset
    <3>3. Cardinality(u) = 0
      BY <3>1, <3>2, FS_CardinalityType
    <3>4. u = {}
      BY <3>2, <3>3, FS_EmptySet
    <3>5. g[u] = 0
      BY <1>3, <3>1, <3>4
    <3>6. h[u] = 0
      BY <1>3, <3>1, <3>4
    <3> QED BY <3>5, <3>6
  <2> QED BY <2>1
<1>6. ASSUME NEW n \in Nat, n \in S
      PROVE  n + 1 \in S
  <2> SUFFICES ASSUME NEW u \in Small(D, n + 1) PROVE Le(u)
    OBVIOUS
  <2>1. u \in SUBSET D
    BY DEF Small
  <2>2. CASE u = {}
    <3>1. g[u] = 0
      BY <1>3, <2>1, <2>2
    <3>2. h[u] = 0
      BY <1>3, <2>1, <2>2
    <3> QED BY <3>1, <3>2
  <2>3. CASE u # {}
    <3>1. PICK x, v : x = One(u) /\ v = u \ {x}
      OBVIOUS
    <3>2. x \in D /\ v \in Small(D, n)
      BY <2>1, <2>3, <3>1, OneLess
    <3>3. Le(v)
      BY <1>6, <3>2
    <3>4. /\ g[u] = Cardinality(s[x]) + g[v]
          /\ h[u] = Cardinality(t[x]) + h[v]
      BY <1>3, <2>1, <2>3, <3>1
    <3> QED BY <1>4, <3>2, <3>3, <3>4
  <2> QED BY <2>2, <2>3
<1> HIDE DEF S
<1>7. Nat \subseteq S
  BY <1>5, <1>6, CountedInduction
<1>8. Cardinality(D) \in Nat
  BY FS_CardinalityType
<1>9. D \in Small(D, Cardinality(D))
  BY <1>8 DEF Small
<1>10. Le(D)
  BY <1>7, <1>8, <1>9 DEF S
<1> QED BY <1>1, <1>2, <1>10
-----------------------------------------------------------------------------
(* The sets of one iteration and of the next                               *)

LEMMA KnownFinite ==
    ASSUME NEW functions, NEW b, IsBody(b, functions), NEW globals, NEW once, NEW known,
           \A f \in functions : IsFiniteSet(known[f])
    PROVE  IsFiniteSet(Known(globals, once, known, b))
<1>1. PICK n \in Nat : n = Len(b) /\ DOMAIN b = 1..n
  BY DEF IsBody
<1> DEFINE G(k) == Given(globals, once, known, b[k])
           U(k) == UNION {G(j) : j \in Entered(b) \cap (1..k)}
           S == {k \in Nat : k <= n => IsFiniteSet(U(k))}
<1>2. ASSUME NEW k \in 1..n PROVE IsFiniteSet(G(k))
  <2>1. PICK x : x = b[k]
    OBVIOUS
  <2>2. CallsIn(x, functions)
    BY <1>1, <2>1 DEF IsBody, CallsIn, Range
  <2>3. CASE x.op = "set"
    <3>1. G(k) \in SUBSET {x.global}
      BY <2>1, <2>3 DEF Given
    <3>2. IsFiniteSet({x.global})
      BY FS_Singleton
    <3> QED BY <3>1, <3>2, FS_Subset
  <2>4. CASE x.op # "set" /\ ~IsCall(x)
    <3>1. G(k) = {}
      BY <2>1, <2>4 DEF Given
    <3> QED BY <3>1, FS_EmptySet
  <2>5. CASE x.op # "set" /\ IsCall(x)
    <3>1. x.func \in functions
      BY <2>2, <2>5 DEF CallsIn
    <3>2. G(k) = {once[x.func]} \/ G(k) = known[x.func]
      BY <2>1, <2>5 DEF Given
    <3>3. IsFiniteSet({once[x.func]})
      BY FS_Singleton
    <3> QED BY <3>1, <3>2, <3>3
  <2> QED BY <2>3, <2>4, <2>5
<1> HIDE DEF G
<1>3. 0 \in S
  <2>1. U(0) = {}
    OBVIOUS
  <2> QED BY <2>1, FS_EmptySet
<1>4. ASSUME NEW k \in Nat, k \in S
      PROVE  k + 1 \in S
  <2> SUFFICES ASSUME k + 1 <= n PROVE IsFiniteSet(U(k + 1))
    OBVIOUS
  <2>1. IsFiniteSet(U(k))
    BY <1>4
  <2>2. IsFiniteSet(G(k + 1))
    BY <1>2
  <2>3. U(k + 1) \in SUBSET (U(k) \cup G(k + 1))
    <3>1. 1..(k + 1) = (1..k) \cup {k + 1}
      OBVIOUS
    <3> QED BY <3>1
  <2> HIDE DEF U
  <2>4. IsFiniteSet(U(k) \cup G(k + 1))
    BY <2>1, <2>2, FS_Union
  <2> QED BY <2>3, <2>4, FS_Subset
<1> HIDE DEF S
<1>5. n \in S
  BY <1>3, <1>4, CountedInduction
<1>6. Entered(b) \cap (1..n) = Entered(b)
  BY <1>1 DEF Entered
<1>7. U(n) = Known(globals, once, known, b)
  BY <1>6 DEF Known, G
<1> QED BY <1>5, <1>7 DEF S

\* The more is known of the functions called, the more of the caller.
LEMMA KnownMonotone ==
    ASSUME NEW functions, NEW b, IsBody(b, functions), NEW globals, NEW once,
           NEW s, NEW t,
           \A f \in functions : once[f] = NoGlobal => s[f] \subseteq t[f]
    PROVE  Known(globals, once, s, b) \subseteq Known(globals, once, t, b)
<1>1. ASSUME NEW k \in Entered(b)
      PROVE  Given(globals, once, s, b[k]) \subseteq Given(globals, once, t, b[k])
  <2>1. PICK x : x = b[k]
    OBVIOUS
  <2>2. k \in DOMAIN b
    BY DEF Entered
  <2>3. CallsIn(x, functions)
    BY <2>1, <2>2 DEF IsBody, CallsIn, Range
  <2>4. CASE x.op = "set" \/ ~IsCall(x)
    BY <2>1, <2>4 DEF Given
  <2>5. CASE x.op # "set" /\ IsCall(x)
    <3>1. x.func \in functions
      BY <2>3, <2>5 DEF CallsIn
    <3>2. CASE once[x.func] = NoGlobal
      BY <2>1, <2>5, <3>1, <3>2 DEF Given
    <3>3. CASE once[x.func] # NoGlobal
      BY <2>1, <2>5, <3>3 DEF Given
    <3> QED BY <3>2, <3>3
  <2> QED BY <2>4, <2>5
<1> QED BY <1>1 DEF Known
-----------------------------------------------------------------------------
(* The inductive invariant                                                 *)

Shape ==
    /\ IsFiniteSet(Functions)
    /\ todo \subseteq Functions
    /\ DOMAIN onceFuncGlobals = Functions
    /\ DOMAIN sets = Functions
    /\ DOMAIN newSets = Functions
    /\ \A f \in Functions : IsFiniteSet(sets[f]) /\ IsFiniteSet(newSets[f])
    /\ last \in Nat
    /\ phase \in {"scan", "optimize"} =>
          \A f \in Functions : IsBody(body[f], Functions)

GlobalsAreOnce ==
    phase \in {"optimize", "bodies"} =>
        \A f \in Functions : onceFuncGlobals[f] \in onceGlobals \cup {NoGlobal}

\* A function that was optimized still writes what was found of it, which is
\* no less than before, except perhaps for a once function at first.
FoundKept ==
    phase = "optimize" =>
        \A f \in Functions \ todo :
            /\ newSets[f] \subseteq KnownNow(body[f])
            /\ onceFuncGlobals[f] = NoGlobal => sets[f] \subseteq newSets[f]

AtFirst ==
    phase = "optimize" /\ last = 0 =>
        \A f \in Functions : onceFuncGlobals[f] = NoGlobal => sets[f] = {}

\* After the first iteration, every function writes what its set says.
Lasting ==
    phase = "optimize" /\ last # 0 =>
        /\ last = Count(sets)
        /\ \A f \in Functions : sets[f] \subseteq KnownNow(body[f])
        /\ \A f \in Functions \ todo : sets[f] \subseteq newSets[f]

OnceInv == Shape /\ GlobalsAreOnce /\ FoundKept /\ AtFirst /\ Lasting

LEMMA OnceInvInit == Init => OnceInv
<1> SUFFICES ASSUME NEW m \in Modules, Start(m) PROVE OnceInv
  BY DEF Init
<1>1. /\ IsFiniteSet(DOMAIN m.body)
      /\ \A f \in DOMAIN m.body : IsBody(m.body[f], DOMAIN m.body)
  BY ModulesAssumption
<1>2. Functions = DOMAIN m.body /\ body = m.body
  BY DEF Start, Functions
<1>3. IsFiniteSet({})
  BY FS_EmptySet
<1>4. Shape
  BY <1>1, <1>2, <1>3 DEF Start, Shape
<1> QED BY <1>4 DEF Start, OnceInv, GlobalsAreOnce, FoundKept, AtFirst, Lasting

LEMMA ScanKeeps ==
    ASSUME OnceInv, NEW f \in todo, Scan(f)
    PROVE  OnceInv'
<1>1. phase = "scan" /\ phase' = "scan" /\ Functions' = Functions
  BY DEF Scan, Functions
<1>2. Shape'
  BY <1>1 DEF Scan, Shape, OnceInv
<1> QED BY <1>1, <1>2 DEF OnceInv, GlobalsAreOnce, FoundKept, AtFirst, Lasting

LEMMA CombineKeeps ==
    ASSUME OnceInv, Combine
    PROVE  OnceInv'
<1>1. /\ Functions' = Functions /\ body' = body /\ newSets' = newSets
      /\ phase = "scan" /\ phase' \in {"done", "optimize"} /\ last' = 0
      /\ todo' = todo \/ todo' = Functions
      /\ phase' = "optimize" => todo' = Functions
  BY DEF Combine, Functions, InitialCount
<1>2. Shape
  BY DEF OnceInv
<1>3. ASSUME NEW f \in Functions
      PROVE  /\ onceFuncGlobals'[f] = Marked(f)
             /\ sets'[f] = {Marked(f)} \ {NoGlobal}
  BY DEF Combine
<1>4. ASSUME NEW f \in Functions PROVE IsFiniteSet(sets'[f])
  <2>1. sets'[f] \in SUBSET {Marked(f)}
    BY <1>3
  <2>2. IsFiniteSet({Marked(f)})
    BY FS_Singleton
  <2> QED BY <2>1, <2>2, FS_Subset
<1>5. DOMAIN onceFuncGlobals' = Functions /\ DOMAIN sets' = Functions
  BY DEF Combine
<1>6. Shape'
  BY <1>1, <1>2, <1>4, <1>5 DEF Shape
<1>7. ASSUME NEW f \in Functions
      PROVE  onceFuncGlobals'[f] \in onceGlobals' \cup {NoGlobal}
  <2>1. onceGlobals' = onceGlobals \cup ({Marked(g) : g \in Functions} \ {NoGlobal})
    BY DEF Combine
  <2> QED BY <1>3, <2>1
<1>8. GlobalsAreOnce'
  BY <1>1, <1>7 DEF GlobalsAreOnce
<1>9. AtFirst'
  BY <1>1, <1>3 DEF AtFirst
<1>10. FoundKept' /\ Lasting'
  BY <1>1 DEF FoundKept, Lasting
<1> QED BY <1>6, <1>8, <1>9, <1>10 DEF OnceInv

LEMMA OptimizeKeeps ==
    ASSUME OnceInv, NEW f \in todo, Optimize(f)
    PROVE  OnceInv'
<1>1. /\ phase = "optimize" /\ phase' = "optimize" /\ last' = last
      /\ onceGlobals' = onceGlobals /\ onceFuncGlobals' = onceFuncGlobals
      /\ sets' = sets /\ todo' = todo \ {f}
  BY DEF Optimize
<1>2. /\ Shape /\ f \in Functions /\ DOMAIN body = Functions
      /\ \A g \in Functions : IsBody(body[g], Functions)
  BY <1>1 DEF OnceInv, Shape, Functions
<1>3. PICK F, b, out, new :
         /\ F = Functions /\ b = body[f] /\ out = Walk(b).out
         /\ new = Straight(Entry(b), {}).written
  OBVIOUS
<1>4. Functions' = F /\ f \in F
  BY <1>2, <1>3 DEF Optimize, Functions
<1>5. \A g \in F : body'[g] = IF g = f THEN out ELSE body[g]
  BY <1>2, <1>3 DEF Optimize
<1>6. \A g \in F : newSets'[g] = IF g = f THEN new ELSE newSets[g]
  BY <1>2, <1>3 DEF Optimize, Shape
<1>7. IsBody(b, F) /\ b \in Seq(Range(b))
  BY <1>2, <1>3 DEF IsBody
<1>8. IsBody(out, F)
  BY <1>3, <1>7, WalkKeepsBodies
<1>9. new = KnownNow(b) /\ KnownNow(b) \subseteq KnownNow(out)
  BY <1>3, <1>7, FoundIsKnown, NoneLost
<1>10. IsFiniteSet(new)
  <2>1. \A g \in F : IsFiniteSet(sets[g])
    BY <1>2, <1>3 DEF Shape
  <2>2. IsFiniteSet(KnownNow(b))
    BY <1>7, <2>1, KnownFinite DEF KnownNow
  <2> QED BY <1>9, <2>2
<1>11. \A g \in F : KnownNow(body[g]) \subseteq KnownNow(body'[g])
  BY <1>3, <1>5, <1>9
<1>12. \A x : KnownNow(x)' = KnownNow(x)
  BY <1>1 DEF KnownNow
<1>13. \A g \in F : KnownNow(body[g])' = KnownNow(body'[g])
  BY <1>1 DEF KnownNow
<1>14. Shape'
  <2>1. DOMAIN newSets' = F
    BY <1>2, <1>3 DEF Optimize, Shape
  <2>2. \A g \in F : IsFiniteSet(newSets'[g])
    BY <1>2, <1>3, <1>6, <1>10 DEF Shape
  <2>3. \A g \in F : IsBody(body'[g], F)
    BY <1>2, <1>3, <1>5, <1>8
  <2> QED BY <1>1, <1>2, <1>3, <1>4, <2>1, <2>2, <2>3 DEF Shape
<1>15. GlobalsAreOnce'
  BY <1>1, <1>3, <1>4 DEF GlobalsAreOnce, OnceInv
<1>16. AtFirst'
  BY <1>1, <1>3, <1>4 DEF AtFirst, OnceInv
<1>17. ASSUME NEW g \in F, last # 0 PROVE sets[g] \subseteq KnownNow(body[g])
  BY <1>1, <1>3, <1>17 DEF OnceInv, Lasting
<1>18. FoundKept'
  <2> SUFFICES ASSUME NEW g \in F \ todo'
               PROVE  /\ newSets'[g] \subseteq KnownNow(body'[g])
                      /\ onceFuncGlobals[g] = NoGlobal => sets[g] \subseteq newSets'[g]
    BY <1>1, <1>4, <1>13 DEF FoundKept
  <2>1. CASE g = f
    <3>1. newSets'[g] = KnownNow(body[g]) /\ body[g] = b
      BY <1>3, <1>6, <1>9, <2>1
    <3>2. CASE last = 0
      BY <1>1, <1>3, <1>11, <3>1, <3>2 DEF OnceInv, AtFirst
    <3>3. CASE last # 0
      BY <1>11, <1>17, <3>1, <3>3
    <3> QED BY <3>2, <3>3
  <2>2. CASE g # f
    <3>1. g \in Functions \ todo
      BY <1>1, <1>3, <2>2
    <3>2. /\ newSets[g] \subseteq KnownNow(body[g])
          /\ onceFuncGlobals[g] = NoGlobal => sets[g] \subseteq newSets[g]
      BY <1>1, <3>1 DEF OnceInv, FoundKept
    <3>3. newSets'[g] = newSets[g] /\ body'[g] = body[g]
      BY <1>5, <1>6, <2>2
    <3> QED BY <3>2, <3>3
  <2> QED BY <2>1, <2>2
<1>19. Lasting'
  <2> SUFFICES ASSUME last # 0
               PROVE  /\ last = Count(sets)
                      /\ \A g \in F : sets[g] \subseteq KnownNow(body'[g])
                      /\ \A g \in F \ todo' : sets[g] \subseteq newSets'[g]
    BY <1>1, <1>4, <1>13 DEF Lasting
  <2>1. last = Count(sets)
    BY <1>1 DEF OnceInv, Lasting
  <2>2. \A g \in F : sets[g] \subseteq KnownNow(body'[g])
    BY <1>11, <1>17
  <2>3. ASSUME NEW g \in F \ todo' PROVE sets[g] \subseteq newSets'[g]
    <3>1. CASE g = f
      <4>1. newSets'[g] = KnownNow(body[g])
        BY <1>3, <1>6, <1>9, <3>1
      <4> QED BY <1>17, <4>1
    <3>2. CASE g # f
      <4>1. g \in Functions \ todo
        BY <1>1, <1>3, <3>2
      <4>2. sets[g] \subseteq newSets[g]
        BY <1>1, <4>1 DEF OnceInv, Lasting
      <4> QED BY <1>6, <3>2, <4>2
    <3> QED BY <3>1, <3>2
  <2> QED BY <2>1, <2>2, <2>3
<1> QED BY <1>14, <1>15, <1>16, <1>18, <1>19 DEF OnceInv

LEMMA EndIterationKeeps ==
    ASSUME OnceInv, EndIteration
    PROVE  OnceInv'
<1>1. /\ phase = "optimize" /\ phase' \in {"optimize", "bodies"} /\ todo = {}
      /\ body' = body /\ onceGlobals' = onceGlobals
      /\ onceFuncGlobals' = onceFuncGlobals /\ sets' = newSets
      /\ Functions' = Functions /\ todo' = Functions
  BY DEF EndIteration, Functions
<1>2. /\ phase' = "optimize" => last' = Count(newSets) /\ Count(newSets) > last
      /\ phase' = "bodies" => last' = last
  BY <1>1 DEF EndIteration, More
<1>3. Shape /\ \A f \in Functions : IsBody(body[f], Functions)
  BY <1>1 DEF OnceInv, Shape
<1>4. DOMAIN newSets' = Functions /\ \A f \in Functions : newSets'[f] = {}
  BY DEF EndIteration
<1>5. Count(newSets) \in Nat
  <2>1. PICK F, s : F = Functions /\ s = newSets
    OBVIOUS
  <2>2. IsFiniteSet(F) /\ DOMAIN s = F /\ \A f \in F : IsFiniteSet(s[f]) /\ s[f] \subseteq s[f]
    BY <1>3, <2>1 DEF Shape
  <2>3. Count(s) \in Nat
    BY <2>2, CountMonotone
  <2> QED BY <2>1, <2>3
<1>6. last' \in Nat /\ (phase' = "optimize" => last' # 0)
  BY <1>1, <1>2, <1>3, <1>5 DEF Shape
<1>7. Shape'
  BY <1>1, <1>3, <1>4, <1>6, FS_EmptySet DEF Shape
<1>8. GlobalsAreOnce'
  BY <1>1 DEF GlobalsAreOnce, OnceInv
<1>9. FoundKept' /\ AtFirst'
  BY <1>1, <1>6 DEF FoundKept, AtFirst
<1>10. ASSUME NEW f \in Functions PROVE newSets[f] \subseteq KnownNow(body[f])'
  <2>1. PICK F, b, G, O, s, t :
           /\ F = Functions /\ b = body[f] /\ G = onceGlobals
           /\ O = onceFuncGlobals /\ s = sets /\ t = newSets
    OBVIOUS
  <2>2. IsBody(b, F) /\ \A g \in F : O[g] = NoGlobal => s[g] \subseteq t[g]
    BY <1>1, <1>3, <2>1 DEF OnceInv, FoundKept
  <2>3. Known(G, O, s, b) \subseteq Known(G, O, t, b)
    BY <2>2, KnownMonotone
  <2>4. newSets[f] \subseteq Known(G, O, s, b)
    BY <1>1, <2>1 DEF OnceInv, FoundKept, KnownNow
  <2>5. KnownNow(body[f])' = Known(G, O, t, b)
    BY <1>1, <2>1 DEF KnownNow
  <2> QED BY <2>3, <2>4, <2>5
<1>11. Lasting'
  BY <1>1, <1>2, <1>10 DEF Lasting
<1> QED BY <1>7, <1>8, <1>9, <1>11 DEF OnceInv

LEMMA BodiesKeep ==
    ASSUME OnceInv, OptimizeBody \/ Finish \/ UNCHANGED vars
    PROVE  OnceInv'
<1>1. CASE OptimizeBody
  <2>1. /\ phase = "bodies" /\ phase' = phase /\ todo' \subseteq todo
        /\ onceGlobals' = onceGlobals /\ onceFuncGlobals' = onceFuncGlobals
        /\ sets' = sets /\ newSets' = newSets /\ last' = last
    BY <1>1 DEF OptimizeBody
  <2>2. Functions' = Functions
    BY <1>1 DEF OptimizeBody, Functions
  <2>3. Shape'
    BY <2>1, <2>2 DEF OnceInv, Shape
  <2> QED BY <2>1, <2>2, <2>3 DEF OnceInv, GlobalsAreOnce, FoundKept, AtFirst, Lasting
<1>2. CASE Finish
  <2>1. /\ phase' = "done" /\ Functions' = Functions /\ UNCHANGED <<todo, body,
           onceFuncGlobals, sets, newSets, last>>
    BY <1>2 DEF Finish, Functions
  <2>2. Shape'
    BY <2>1 DEF OnceInv, Shape
  <2> QED BY <2>1, <2>2 DEF OnceInv, GlobalsAreOnce, FoundKept, AtFirst, Lasting
<1>3. CASE UNCHANGED vars
  BY <1>3 DEF vars, OnceInv, Shape, GlobalsAreOnce, FoundKept, AtFirst, Lasting,
              Functions, KnownNow
<1> QED BY <1>1, <1>2, <1>3

LEMMA OnceInvNext ==
    ASSUME OnceInv, [Next]_vars
    PROVE  OnceInv'
<1>1. ASSUME NEW f \in todo, Scan(f) PROVE OnceInv'
  BY <1>1, ScanKeeps
<1>2. ASSUME NEW f \in todo, Optimize(f) PROVE OnceInv'
  BY <1>2, OptimizeKeeps
<1>3. CASE Combine
  BY <1>3, CombineKeeps
<1>4. CASE EndIteration
  BY <1>4, EndIterationKeeps
<1>5. CASE OptimizeBody \/ Finish \/ UNCHANGED vars
  BY <1>5, BodiesKeep
<1> QED BY <1>1, <1>2, <1>3, <1>4, <1>5 DEF Next

LEMMA OnceInvHolds == Spec => []OnceInv
<1>1. Init => OnceInv
  BY OnceInvInit
<1>2. OnceInv /\ [Next]_vars => OnceInv'
  BY OnceInvNext
<1> QED BY <1>1, <1>2, PTL DEF Spec

(* No iteration finds fewer globals than the one before, whatever calls    *)
(* have become nops since (OnceReduction.cpp:488), and the global of a     *)
(* once function is a once global (:314): the assertions of the pass.      *)
THEOREM AssertionsAlwaysHold == Spec => []AssertionsHold
<1>1. OnceInv => AssertionsHold
  <2> SUFFICES ASSUME OnceInv PROVE AssertionsHold
    OBVIOUS
  <2>1. ASSUME phase = "optimize", todo = {} PROVE Count(newSets) >= last
    <3>1. PICK F, s, t : F = Functions /\ s = sets /\ t = newSets
      OBVIOUS
    <3>2. /\ IsFiniteSet(F) /\ DOMAIN s = F /\ DOMAIN t = F
          /\ \A f \in F : IsFiniteSet(t[f])
          /\ last \in Nat
      BY <3>1 DEF OnceInv, Shape
    <3>3. CASE last = 0
      <4>1. \A f \in F : IsFiniteSet(t[f]) /\ t[f] \subseteq t[f]
        BY <3>2
      <4>2. Count(t) \in Nat
        BY <3>2, <4>1, CountMonotone
      <4> QED BY <3>1, <3>3, <4>2
    <3>4. CASE last # 0
      <4>1. last = Count(s) /\ \A f \in F : s[f] \subseteq t[f]
        BY <2>1, <3>1, <3>4 DEF OnceInv, Lasting
      <4>2. Count(s) \in Nat /\ Count(t) \in Nat /\ Count(s) <= Count(t)
        BY <3>2, <4>1, CountMonotone
      <4> QED BY <3>1, <4>1, <4>2
    <3> QED BY <3>3, <3>4
  <2> QED BY <2>1 DEF AssertionsHold, OnceInv, GlobalsAreOnce
<1> QED BY <1>1, OnceInvHolds, PTL

-----------------------------------------------------------------------------
(* The end of the iterations                                               *)

\* As many globals as could be found: all of them in every function.
MostFound == Count([f \in Functions |-> onceGlobals])

\* The functions of an order from the n-th on.
From(order, n) == {order[j] : j \in n..Len(order)}

\* What the module is, the globals that are found, and the once bodies to do.
ModuleKept ==
    /\ IsFiniteSet(Functions) /\ IsFiniteSet(onceGlobals)
    /\ module.order \in SetToSeqs(Functions)
    /\ module.idempotent \subseteq Functions

WithinGlobals ==
    /\ phase = "scan" => \A f \in Functions : newSets[f] = {}
    /\ phase = "optimize" =>
          /\ \A f \in Functions : sets[f] \cup newSets[f] \subseteq onceGlobals
          /\ last <= MostFound

InOrder ==
    phase = "bodies" => \E n \in 1..Len(module.order) + 1 : todo = From(module.order, n)

Bounded == ModuleKept /\ WithinGlobals /\ InOrder

Phases == [scan |-> 0, optimize |-> 1, bodies |-> 2, done |-> 3]

\* Every step gets the pass further: to the next phase, to an iteration that has
\* found more globals, or to the next function.
Onward ==
    \/ Phases[phase] < Phases[phase']
    \/ UNCHANGED <<phase, onceGlobals, Functions>> /\ last < last'
    \/ /\ UNCHANGED <<phase, last, Functions>> /\ onceGlobals' \subseteq onceGlobals
       /\ todo' \subseteq todo /\ todo' # todo

LEMMA MostIsMost ==
    ASSUME NEW F, IsFiniteSet(F), NEW G, IsFiniteSet(G),
           NEW s, DOMAIN s = F, \A f \in F : s[f] \subseteq G
    PROVE  /\ Count(s) \in Nat /\ Count([f \in F |-> G]) \in Nat
           /\ Count(s) <= Count([f \in F |-> G])
<1>1. PICK t : t = [f \in F |-> G]
  OBVIOUS
<1>2. DOMAIN t = F /\ \A f \in F : IsFiniteSet(t[f]) /\ s[f] \subseteq t[f]
  BY <1>1
<1>3. Count(s) \in Nat /\ Count(t) \in Nat /\ Count(s) <= Count(t)
  BY <1>2, CountMonotone
<1> QED BY <1>1, <1>3

\* What is known of a body is once globals.
LEMMA KnownWithin ==
    ASSUME NEW functions, NEW b, IsBody(b, functions), NEW globals, NEW once,
           NEW known,
           \A f \in functions : once[f] \in globals \cup {NoGlobal},
           \A f \in functions : known[f] \subseteq globals
    PROVE  Known(globals, once, known, b) \subseteq globals
<1>1. ASSUME NEW k \in Entered(b)
      PROVE  Given(globals, once, known, b[k]) \subseteq globals
  <2>1. PICK x : x = b[k]
    OBVIOUS
  <2>2. k \in DOMAIN b
    BY DEF Entered
  <2>3. CallsIn(x, functions)
    BY <2>1, <2>2 DEF IsBody, CallsIn, Range
  <2>4. CASE x.op = "set" \/ ~IsCall(x)
    BY <2>1, <2>4 DEF Given
  <2>5. CASE x.op # "set" /\ IsCall(x)
    <3>1. x.func \in functions
      BY <2>3, <2>5 DEF CallsIn
    <3> QED BY <2>1, <2>5, <3>1 DEF Given
  <2> QED BY <2>4, <2>5
<1> QED BY <1>1 DEF Known

LEMMA OrderIs ==
    ASSUME NEW F, IsFiniteSet(F), NEW order, order \in SetToSeqs(F)
    PROVE  /\ Len(order) \in Nat /\ DOMAIN order = 1..Len(order)
           /\ \A j \in 1..Len(order) : order[j] \in F
           /\ \A j, k \in 1..Len(order) : j # k => order[j] # order[k]
           /\ F = {order[j] : j \in 1..Len(order)}
<1> DEFINE c == Cardinality(F)
<1>1. c \in Nat
  BY FS_CardinalityType
<1>2. order \in [1..c -> F] /\ \A j, k \in 1..c : j # k => order[j] # order[k]
  BY DEF SetToSeqs
<1>3. order \in Injection(1..c, F)
  BY <1>2 DEF Injection, IsInjective
<1>4. Cardinality(1..c) = c
  BY <1>1, FS_Interval
<1>5. order \in Surjection(1..c, F)
  BY <1>3, <1>4, FS_Injection
<1>6. \A x \in F : \E k \in 1..c : order[k] = x
  BY <1>2, <1>5 DEF Surjection
<1>7. order \in Seq(F) /\ Len(order) = c
  BY <1>1, <1>2
<1> QED BY <1>1, <1>2, <1>6, <1>7

\* The next function in the order is the one after those that are done.
LEMMA NextIsFirst ==
    ASSUME NEW F, IsFiniteSet(F), NEW order, order \in SetToSeqs(F),
           NEW n \in 1..Len(order) + 1, NEW T, T = {order[j] : j \in n..Len(order)}
    PROVE  Cardinality(T) = Len(order) - n + 1
<1>1. /\ Len(order) \in Nat /\ DOMAIN order = 1..Len(order)
      /\ \A j, k \in 1..Len(order) : j # k => order[j] # order[k]
  BY OrderIs
<1>2. PICK D : D = n..Len(order)
  OBVIOUS
<1>3. PICK f : f = [j \in D |-> order[j]]
  OBVIOUS
<1>4. f \in Bijection(D, T)
  <2>1. f \in [D -> T] /\ \A t \in T : \E j \in D : f[j] = t
    BY <1>2, <1>3
  <2>2. \A j, k \in D : j # k => f[j] # f[k]
    BY <1>1, <1>2, <1>3
  <2> QED BY <2>1, <2>2 DEF Bijection, Injection, Surjection, IsInjective
<1>5. IsFiniteSet(D) /\ Cardinality(D) = Len(order) - n + 1
  <2>1. n \in Int /\ Len(order) \in Int
    BY <1>1
  <2>2. /\ IsFiniteSet(n..Len(order))
        /\ Cardinality(n..Len(order)) = IF n > Len(order) THEN 0 ELSE Len(order) - n + 1
    BY <2>1, FS_Interval
  <2> QED BY <1>1, <1>2, <2>2
<1>6. ExistsBijection(D, T)
  BY <1>4 DEF ExistsBijection
<1>7. Cardinality(T) = Cardinality(D)
  BY <1>5, <1>6, FS_Bijection
<1> QED BY <1>5, <1>7

\* So the next one is still to do, and those after it remain.
LEMMA NextTaken ==
    ASSUME NEW F, IsFiniteSet(F), NEW order, order \in SetToSeqs(F),
           NEW n \in 1..Len(order) + 1,
           NEW T, T = From(order, n), T # {},
           NEW x, x = order[Len(order) - Cardinality(T) + 1]
    PROVE  /\ x \in T
           /\ \E k \in 1..Len(order) + 1 :
                 T \ {x} = From(order, k)
<1>1. PICK l : l = Len(order)
  OBVIOUS
<1>2. /\ l \in Nat
      /\ \A j, k \in 1..l : j # k => order[j] # order[k]
  BY <1>1, OrderIs
<1>3. Cardinality(T) = l - n + 1
  BY <1>1, NextIsFirst DEF From
<1>4. n \in 1..l + 1 /\ l - Cardinality(T) + 1 = n
  BY <1>1, <1>2, <1>3
<1>5. x = order[n]
  BY <1>1, <1>4
<1>6. T = {order[j] : j \in n..l}
  BY <1>1 DEF From
<1>7. n <= l
  <2>1. PICK j \in n..l : order[j] \in T
    BY <1>6
  <2> QED BY <1>2, <1>4, <2>1
<1>8. n \in n..l /\ n..l = {n} \cup (n + 1)..l /\ n + 1 \in 1..l + 1
  BY <1>2, <1>4, <1>7
<1>9. x \in T
  BY <1>5, <1>6, <1>8
<1>10. \A j \in (n + 1)..l : order[j] # x
  BY <1>2, <1>4, <1>5
<1>11. T \ {x} = {order[j] : j \in (n + 1)..l}
  BY <1>5, <1>6, <1>8, <1>10
<1> QED BY <1>1, <1>8, <1>9, <1>11 DEF From

LEMMA BoundedInit == Init => Bounded
<1> SUFFICES ASSUME NEW m \in Modules, Start(m) PROVE Bounded
  BY DEF Init
<1>1. /\ IsFiniteSet(DOMAIN m.body) /\ IsFiniteSet(m.private)
      /\ m.order \in SetToSeqs(DOMAIN m.body)
      /\ m.idempotent \subseteq DOMAIN m.body
  BY ModulesAssumption
<1>2. Functions = DOMAIN m.body /\ module = m /\ onceGlobals = m.private
  BY DEF Start, Functions
<1>3. phase = "scan" /\ \A f \in Functions : newSets[f] = {}
  BY <1>2 DEF Start
<1> QED BY <1>1, <1>2, <1>3 DEF Bounded, ModuleKept, WithinGlobals, InOrder

LEMMA ScanBounded ==
    ASSUME Bounded, NEW f \in todo, Scan(f)
    PROVE  Bounded'
<1>1. /\ phase = "scan" /\ phase' = "scan" /\ Functions' = Functions
      /\ module' = module /\ newSets' = newSets /\ onceGlobals' \subseteq onceGlobals
  BY DEF Scan, Functions
<1>2. IsFiniteSet(onceGlobals')
  BY <1>1, FS_Subset DEF Bounded, ModuleKept
<1> QED BY <1>1, <1>2 DEF Bounded, ModuleKept, WithinGlobals, InOrder

LEMMA CombineBounded ==
    ASSUME OnceInv, Bounded, Combine
    PROVE  Bounded'
<1>1. /\ Functions' = Functions /\ module' = module /\ newSets' = newSets
      /\ phase = "scan" /\ phase' \in {"done", "optimize"} /\ last' = 0
  BY DEF Combine, Functions, InitialCount
<1>2. PICK more : /\ more = {Marked(f) : f \in Functions}
                  /\ onceGlobals' = onceGlobals \cup (more \ {NoGlobal})
  BY DEF Combine
<1>3. IsFiniteSet(onceGlobals')
  <2>1. IsFiniteSet(Functions) /\ IsFiniteSet(onceGlobals)
    BY DEF Bounded, ModuleKept
  <2>2. IsFiniteSet(more)
    <3>1. PICK M : M = [f \in Functions |-> Marked(f)]
      OBVIOUS
    <3>2. more = {M[f] : f \in Functions}
      BY <1>2, <3>1
    <3>3. M \in Surjection(Functions, more)
      BY <3>1, <3>2 DEF Surjection
    <3> QED BY <2>1, <3>3, FS_Surjection
  <2>3. IsFiniteSet(more \ {NoGlobal})
    BY <2>2, FS_Subset
  <2> QED BY <1>2, <2>1, <2>3, FS_Union
<1>4. ASSUME NEW f \in Functions
      PROVE  sets'[f] \cup newSets'[f] \subseteq onceGlobals'
  <2>1. sets'[f] = {Marked(f)} \ {NoGlobal} /\ newSets'[f] = {}
    BY <1>1 DEF Combine, Bounded, WithinGlobals
  <2> QED BY <1>2, <2>1
<1>5. last' <= MostFound'
  <2>1. PICK F, G, e : /\ F = Functions /\ G = onceGlobals'
                       /\ e = [f \in F |-> {}]
    OBVIOUS
  <2>2. IsFiniteSet(F) /\ IsFiniteSet(G) /\ DOMAIN e = F /\ \A f \in F : e[f] \subseteq G
    BY <1>3, <2>1 DEF Bounded, ModuleKept
  <2>3. Count([f \in F |-> G]) \in Nat
    BY <2>2, MostIsMost
  <2>4. MostFound' = Count([f \in F |-> G])
    BY <1>1, <2>1 DEF MostFound
  <2> QED BY <1>1, <2>3, <2>4
<1>6. ModuleKept'
  BY <1>1, <1>3 DEF Bounded, ModuleKept
<1>7. WithinGlobals'
  BY <1>1, <1>4, <1>5 DEF WithinGlobals
<1>8. InOrder'
  BY <1>1 DEF InOrder
<1> QED BY <1>6, <1>7, <1>8 DEF Bounded

LEMMA OptimizeBounded ==
    ASSUME OnceInv, Bounded, NEW f \in todo, Optimize(f)
    PROVE  Bounded'
<1>1. /\ phase = "optimize" /\ phase' = "optimize" /\ last' = last
      /\ onceGlobals' = onceGlobals /\ sets' = sets /\ module' = module
      /\ Functions' = Functions
  BY DEF Optimize, Functions
<1>2. /\ f \in Functions /\ DOMAIN newSets = Functions
      /\ \A g \in Functions : IsBody(body[g], Functions)
  BY <1>1 DEF OnceInv, Shape
<1>3. PICK F, b, G, O, s, new :
         /\ F = Functions /\ b = body[f] /\ G = onceGlobals
         /\ O = onceFuncGlobals /\ s = sets
         /\ new = Straight(Entry(b), {}).written
  OBVIOUS
<1>4. \A g \in F : newSets'[g] = IF g = f THEN new ELSE newSets[g]
  BY <1>2, <1>3 DEF Optimize
<1>5. IsBody(b, F) /\ b \in Seq(Range(b))
  BY <1>2, <1>3 DEF IsBody
<1>6. new = Known(G, O, s, b)
  BY <1>3, <1>5, FoundIsKnown DEF KnownNow
<1>7. /\ \A g \in F : O[g] \in G \cup {NoGlobal}
      /\ \A g \in F : s[g] \subseteq G
  BY <1>1, <1>3 DEF OnceInv, GlobalsAreOnce, Bounded, WithinGlobals
<1>8. new \subseteq G
  BY <1>5, <1>6, <1>7, KnownWithin
<1>9. \A g \in F : sets'[g] \cup newSets'[g] \subseteq onceGlobals'
  BY <1>1, <1>3, <1>4, <1>8 DEF Bounded, WithinGlobals
<1>10. last' <= MostFound'
  BY <1>1 DEF Bounded, WithinGlobals, MostFound
<1>11. ModuleKept'
  BY <1>1 DEF Bounded, ModuleKept
<1>12. WithinGlobals'
  BY <1>1, <1>3, <1>9, <1>10 DEF WithinGlobals
<1>13. InOrder'
  BY <1>1 DEF InOrder
<1> QED BY <1>11, <1>12, <1>13 DEF Bounded

LEMMA EndIterationBounded ==
    ASSUME OnceInv, Bounded, EndIteration
    PROVE  Bounded'
<1>1. /\ phase = "optimize" /\ phase' \in {"optimize", "bodies"}
      /\ onceGlobals' = onceGlobals /\ module' = module
      /\ Functions' = Functions /\ todo' = Functions /\ sets' = newSets
      /\ \A f \in Functions : newSets'[f] = {}
      /\ phase' = "optimize" => last' = Count(newSets)
  BY DEF EndIteration, Functions
<1>2. ModuleKept'
  BY <1>1 DEF Bounded, ModuleKept
<1>3. last' <= MostFound' \/ phase' # "optimize"
  <2>1. PICK F, G, s : F = Functions /\ G = onceGlobals /\ s = newSets
    OBVIOUS
  <2>2. IsFiniteSet(F) /\ IsFiniteSet(G) /\ DOMAIN s = F /\ \A f \in F : s[f] \subseteq G
    BY <1>1, <2>1 DEF Bounded, ModuleKept, WithinGlobals, OnceInv, Shape
  <2>3. Count(s) <= Count([f \in F |-> G])
    BY <2>2, MostIsMost
  <2>4. MostFound' = Count([f \in F |-> G])
    BY <1>1, <2>1 DEF MostFound
  <2> QED BY <1>1, <2>1, <2>3, <2>4
<1>4. WithinGlobals'
  BY <1>1, <1>3 DEF Bounded, WithinGlobals
<1>5. InOrder'
  <2>1. PICK F, order : F = Functions /\ order = module.order
    OBVIOUS
  <2>2. /\ Len(order) \in Nat
        /\ F = {order[j] : j \in 1..Len(order)}
    BY <2>1, OrderIs DEF Bounded, ModuleKept
  <2>3. 1 \in 1..Len(order) + 1
    BY <2>2
  <2>4. todo' = From(module'.order, 1) /\ 1 \in 1..Len(module'.order) + 1
    BY <1>1, <2>1, <2>2, <2>3 DEF From
  <2> QED BY <2>4 DEF InOrder
<1> QED BY <1>2, <1>4, <1>5 DEF Bounded

\* The next body is one to do, and then one less is.
LEMMA BodyTaken ==
    ASSUME Bounded, OptimizeBody
    PROVE  /\ NextInOrder \in todo /\ todo' = todo \ {NextInOrder}
           /\ \E n \in 1..Len(module.order) + 1 : todo' = From(module.order, n)
<1>1. phase = "bodies" /\ todo # {} /\ todo' = todo \ {NextInOrder}
  BY DEF OptimizeBody
<1>2. PICK F, order, T, x : /\ F = Functions /\ order = module.order /\ T = todo
                            /\ x = NextInOrder
  OBVIOUS
<1>3. PICK n \in 1..Len(order) + 1 : T = From(order, n)
  BY <1>1, <1>2 DEF Bounded, InOrder
<1>4. /\ IsFiniteSet(F) /\ order \in SetToSeqs(F) /\ T # {}
      /\ x = order[Len(order) - Cardinality(T) + 1]
  BY <1>1, <1>2 DEF Bounded, ModuleKept, NextInOrder
<1>5. /\ x \in T
      /\ \E k \in 1..Len(order) + 1 : T \ {x} = From(order, k)
  BY <1>3, <1>4, NextTaken
<1> QED BY <1>1, <1>2, <1>5

LEMMA BodiesBounded ==
    ASSUME Bounded, OptimizeBody \/ Finish \/ UNCHANGED vars
    PROVE  Bounded'
<1>1. CASE OptimizeBody
  <2>1. /\ phase = "bodies" /\ phase' = "bodies" /\ Functions' = Functions
        /\ module' = module /\ onceGlobals' = onceGlobals
    BY <1>1 DEF OptimizeBody, Functions
  <2>2. InOrder'
    BY <1>1, <2>1, BodyTaken DEF InOrder
  <2> QED BY <2>1, <2>2 DEF Bounded, ModuleKept, WithinGlobals
<1>2. CASE Finish
  BY <1>2 DEF Finish, Functions, Bounded, ModuleKept, WithinGlobals, InOrder
<1>3. CASE UNCHANGED vars
  BY <1>3 DEF vars, Functions, Bounded, ModuleKept, WithinGlobals, InOrder,
              MostFound
<1> QED BY <1>1, <1>2, <1>3

LEMMA NextBounded ==
    ASSUME OnceInv, Bounded, [Next]_vars
    PROVE  Bounded'
<1>1. ASSUME NEW f \in todo, Scan(f) PROVE Bounded'
  BY <1>1, ScanBounded
<1>2. ASSUME NEW f \in todo, Optimize(f) PROVE Bounded'
  BY <1>2, OptimizeBounded
<1>3. CASE Combine
  BY <1>3, CombineBounded
<1>4. CASE EndIteration
  BY <1>4, EndIterationBounded
<1>5. CASE OptimizeBody \/ Finish \/ UNCHANGED vars
  BY <1>5, BodiesBounded
<1> QED BY <1>1, <1>2, <1>3, <1>4, <1>5 DEF Next

(* The counts that make the pass go on are bounded: an iteration never     *)
(* finds more than every once global in every function, and the bodies are *)
(* done in the order of the module.                                        *)
THEOREM IterationsAreBounded == Spec => []Bounded
<1>1. Init => Bounded
  BY BoundedInit
<1>2. OnceInv /\ Bounded /\ [Next]_vars => Bounded'
  BY NextBounded
<1> QED BY <1>1, <1>2, OnceInvHolds, PTL DEF Spec

LEMMA NextOnward ==
    ASSUME OnceInv, Bounded, [Next]_vars
    PROVE  [Onward]_vars
<1>1. ASSUME NEW f \in todo, Scan(f) \/ Optimize(f) PROVE Onward
  BY <1>1 DEF Scan, Optimize, Onward, Functions
<1>2. CASE Combine
  BY <1>2 DEF Combine, Onward, Phases
<1>3. CASE EndIteration
  <2>1. /\ phase = "optimize" /\ onceGlobals' = onceGlobals
        /\ Functions' = Functions
    BY <1>3 DEF EndIteration, Functions
  <2>2. CASE More(Count(newSets))
    <3>1. PICK F, s : F = Functions /\ s = newSets
      OBVIOUS
    <3>2. /\ IsFiniteSet(F) /\ DOMAIN s = F
          /\ \A f \in F : IsFiniteSet(s[f]) /\ s[f] \subseteq s[f]
      BY <3>1 DEF OnceInv, Shape
    <3>3. Count(s) \in Nat
      BY <3>2, CountMonotone
    <3>4. last \in Nat /\ last' = Count(s) /\ Count(s) > last /\ phase' = phase
      BY <1>3, <2>2, <3>1 DEF EndIteration, More, OnceInv, Shape
    <3>5. last < last'
      BY <3>3, <3>4
    <3> QED BY <2>1, <3>4, <3>5 DEF Onward
  <2>3. CASE ~More(Count(newSets))
    BY <1>3, <2>1, <2>3 DEF EndIteration, Onward, Phases
  <2> QED BY <2>2, <2>3
<1>4. CASE OptimizeBody
  <2>1. /\ phase' = phase /\ last' = last /\ onceGlobals' = onceGlobals
        /\ Functions' = Functions
    BY <1>4 DEF OptimizeBody, Functions
  <2>2. NextInOrder \in todo /\ todo' = todo \ {NextInOrder}
    BY <1>4, BodyTaken
  <2> QED BY <2>1, <2>2 DEF Onward
<1>5. CASE Finish
  BY <1>5 DEF Finish, Onward, Phases
<1> QED BY <1>1, <1>2, <1>3, <1>4, <1>5 DEF Next

(* No step of the pass goes in circles: it ends a phase, or an iteration   *)
(* that found more than the one before (OnceReduction.cpp:489), or a       *)
(* function that was still to do.  With the bounds of IterationsAreBounded *)
(* and finitely many functions there are finitely many of them, so         *)
(* Terminates needs no more than that steps are taken.                     *)
THEOREM PassGoesOn == Spec => [][Onward]_vars
<1>1. OnceInv /\ Bounded /\ [Next]_vars => [Onward]_vars
  BY NextOnward
<1> QED BY <1>1, OnceInvHolds, IterationsAreBounded, PTL DEF Spec
-----------------------------------------------------------------------------
(* The exits of once functions                                             *)

\* A once function with a global of its own, not one that is just idempotent.
Real(f) == onceFuncGlobals[f] \in DOMAIN module.init

Guarded(b, g) == OnceGlobal(b) = g /\ {"cond", "arms"} \subseteq DOMAIN b[1]

\* All the function does is to call itself.
CallOf(x, f) == IsCall(x) /\ x.func = f
OwnCall(b, f) == Len(b) = 3 /\ CallOf(b[3], f)

\* A function without exits calls a once function and does nothing else.
OnlyCalls ==
    \A f \in removedExitLogic :
        /\ Len(body[f]) = 3 /\ body[f][1] = Nop /\ body[f][2] = Nop
        /\ IsCall(body[f][3]) /\ onceFuncGlobals[body[f][3].func] # NoGlobal

\* Functions that call each other have not all lost their exits.
OneExits ==
    \A S \in SUBSET removedExitLogic :
        S # {} => \E f \in S : body[f][3].func \notin S

\* A function that keeps its exits has them, or does nothing at all.
OthersExit ==
    phase # "scan" =>
        \A f \in Functions \ removedExitLogic :
            Real(f) => OnceGlobal(body[f]) = onceFuncGlobals[f] \/ body[f] = <<Nop>>

ExitsKept == OnlyCalls /\ OneExits /\ OthersExit

\* What that rests on: guards survive the walks, and the walk of a once function
\* turns a call of the function itself into a nop.
GuardsKept ==
    /\ phase = "scan" =>
          /\ \A f \in Functions \ todo : onceFuncGlobals[f] = OnceGlobal(body[f])
          /\ \A f \in Functions : \A x \in Range(body[f]) :
                x.op = "if" => {"cond", "arms"} \subseteq DOMAIN x
    /\ phase = "optimize" =>
          \A f \in Functions : Real(f) => Guarded(body[f], onceFuncGlobals[f])
    /\ phase = "bodies" => \A f \in todo : IsBody(body[f], Functions)

NoOwnCalls ==
    /\ phase = "optimize" =>
          \A f \in Functions \ todo : Real(f) => ~OwnCall(body[f], f)
    /\ phase = "bodies" => \A f \in todo : Real(f) => ~OwnCall(body[f], f)

NotRemovedYet ==
    /\ phase \in {"scan", "optimize"} => removedExitLogic = {}
    /\ removedExitLogic \cap todo = {}
    /\ DOMAIN body = Functions /\ removedExitLogic \subseteq Functions

NamesKept ==
    /\ \A f \in module.idempotent : module.fake[f] \notin DOMAIN module.init
    /\ NoGlobal \notin DOMAIN module.init

ExitInv == NamesKept /\ NotRemovedYet /\ GuardsKept /\ NoOwnCalls /\ ExitsKept

LEMMA StraightEmpty ==
    ASSUME NEW w
    PROVE  Straight(<<>>, w) = [out |-> <<>>, written |-> w, live |-> TRUE]
<1>1. DOMAIN <<>> = 1..0 /\ 0 \in Nat
  OBVIOUS
<1>2. PICK a : /\ Runs("straight", [out |-> <<>>, written |-> w, live |-> TRUE], <<>>, 0, a)
               /\ Straight(<<>>, w) = a[0]
  BY <1>1, StraightRuns
<1> QED BY <1>2 DEF Runs

LEMMA StraightReturn ==
    ASSUME NEW w
    PROVE  Straight(<<Return>>, w) = [out |-> <<Return>>, written |-> w, live |-> FALSE]
<1>1. PICK b : b = <<Return>>
  OBVIOUS
<1>2. DOMAIN b = 1..1 /\ 1 \in Nat /\ b[1] = Return
  BY <1>1
<1>3. PICK base : base = [out |-> <<>>, written |-> w, live |-> TRUE]
  OBVIOUS
<1>4. PICK a : /\ Runs("straight", base, b, 1, a)
               /\ Straight(b, w) = a[1]
  BY <1>2, <1>3, StraightRuns
<1>5. a[0] = base
  BY <1>4 DEF Runs
<1>6. a[1] = Visit(base, Return)
  <2>1. 1 \in 1..1 /\ 1 - 1 = 0
    OBVIOUS
  <2>2. a[1] = Advance("straight", a[1 - 1], b[1])
    BY <1>4, <2>1 DEF Runs
  <2> QED BY <1>2, <1>5, <2>1, <2>2 DEF Advance
<1>7. Return.op = "return" /\ ~IsCall(Return)
  BY DEF Return, IsCall
<1>8. ~IsOnce(Return) /\ Writes(Return) = {}
  BY <1>7 DEF IsOnce, Writes
<1>9. base.live /\ base.out = <<>> /\ base.written = w
  BY <1>3
<1>10. Visit(base, Return) = [out |-> Append(<<>>, Return), written |-> w, live |-> FALSE]
  BY <1>7, <1>8, <1>9 DEF Visit
<1>11. Append(<<>>, Return) = <<Return>>
  OBVIOUS
<1> QED BY <1>1, <1>4, <1>6, <1>10, <1>11

Live(o, written) == [out |-> o, written |-> written, live |-> TRUE]

\* The if a once function begins with.
IsGuard(x, g) == /\ {"op", "cond", "arms"} \subseteq DOMAIN x
                 /\ x.op = "if" /\ x.cond = g /\ x.arms = <<<<Return>>, <<>>>>

\* The walk leaves a guard as it is, and then knows that the global is set.
LEMMA GuardWalked ==
    ASSUME NEW x, NEW g, IsGuard(x, g)
    PROVE  \E y : WalkItem(Live(<<>>, {}), x) = Live(<<y>>, {}) /\ IsGuard(y, g)
<1>1. PICK base : base = Live(<<>>, {})
  OBVIOUS
<1>2. base.live /\ base.out = <<>> /\ base.written = {}
  BY <1>1 DEF Live
<1>3. PICK s1, s2 : /\ s1 = Straight(x.arms[1], base.written)
                    /\ s2 = Straight(x.arms[2], base.written)
  OBVIOUS
<1>4. x.op = "if" /\ x.arms[1] = <<Return>> /\ x.arms[2] = <<>>
  BY DEF IsGuard
<1>5. /\ s1 = [out |-> <<Return>>, written |-> {}, live |-> FALSE]
      /\ s2 = [out |-> <<>>, written |-> {}, live |-> TRUE]
  BY <1>2, <1>3, <1>4, StraightEmpty, StraightReturn
<1>6. /\ s1.out = <<Return>> /\ s1.live = FALSE
      /\ s2.out = <<>> /\ s2.written = {} /\ s2.live = TRUE
  BY <1>5
<1>7. PICK y : y = [x EXCEPT !.arms = <<s1.out, s2.out>>]
  OBVIOUS
<1>8. AfterIf(base.written, s1, s2) = {}
  BY <1>6 DEF AfterIf
<1>9. (s1.live \/ s2.live) = TRUE
  BY <1>6
<1>10. WalkItem(base, x) = [out |-> Append(base.out, y),
                            written |-> AfterIf(base.written, s1, s2),
                            live |-> s1.live \/ s2.live]
  BY <1>2, <1>3, <1>4, <1>7 DEF WalkItem
<1>11. Append(base.out, y) = <<y>>
  BY <1>2
<1>12. WalkItem(base, x) = Live(<<y>>, {})
  BY <1>8, <1>9, <1>10, <1>11 DEF Live
<1>13. IsGuard(y, g)
  BY <1>6, <1>7 DEF IsGuard
<1> QED BY <1>1, <1>12, <1>13


\* A set of a global that is not known to be set yet stays.
LEMMA SetWalked ==
    ASSUME NEW o, NEW x, NEW g \in onceGlobals, x.op = "set", x.global = g
    PROVE  WalkItem(Live(o, {}), x) = Live(Append(o, x), {g})
<1>0. PICK acc : acc = Live(o, {})
  OBVIOUS
<1>1. acc.live /\ acc.out = o /\ acc.written = {}
  BY <1>0 DEF Live
<1>2. WalkItem(acc, x) = Visit(acc, x)
  BY DEF WalkItem
<1>3. Writes(x) = {g}
  BY DEF Writes
<1>4. acc.written \cup {g} = {g}
  BY <1>1
<1>5. ~(Writes(x) \subseteq acc.written)
  BY <1>1, <1>3
<1>6. Visit(acc, x) = [out |-> Append(acc.out, x), written |-> acc.written \cup {g},
                       live |-> TRUE]
  BY <1>1, <1>3, <1>5 DEF Visit
<1> QED BY <1>0, <1>1, <1>2, <1>4, <1>6 DEF Live

\* After that a call of a function with that global becomes a nop.
LEMMA CallWalked ==
    ASSUME NEW o, o \in Seq(Range(o)), Len(o) = 2, NEW x, "op" \in DOMAIN x,
           NEW f, NEW g, onceFuncGlobals[f] = g, g # NoGlobal
    PROVE  ~CallOf(WalkItem(Live(o, {g}), x).out[3], f)
<1>a. PICK acc : acc = Live(o, {g})
  OBVIOUS
<1>0. ASSUME NEW y PROVE Append(o, y)[3] = y
  <2>1. PICK p : p = Append(o, y)
    OBVIOUS
  <2>2. p[Len(o) + 1] = y
    BY <2>1, AppendIs
  <2>3. Len(o) + 1 = 3
    OBVIOUS
  <2> QED BY <2>1, <2>2, <2>3
<1>1. acc.live /\ acc.out = o /\ acc.written = {g}
  BY <1>a DEF Live
<1>2. CASE x.op = "if"
  <2>1. PICK y : y = [x EXCEPT !.arms = <<Straight(x.arms[1], acc.written).out,
                                          Straight(x.arms[2], acc.written).out>>]
    OBVIOUS
  <2>2. WalkItem(acc, x).out = Append(o, y)
    BY <1>1, <1>2, <2>1 DEF WalkItem
  <2>3. WalkItem(acc, x).out[3] = y
    BY <1>0, <2>2
  <2>4. "op" \in DOMAIN x => y.op = "if"
    BY <1>2, <2>1
  <2> QED BY <1>a, <2>3, <2>4 DEF IsCall, CallOf
<1>3. CASE x.op # "if"
  <2>1. WalkItem(acc, x) = Visit(acc, x)
    BY <1>3 DEF WalkItem
  <2>2. PICK y : y = IF IsOnce(x) /\ Writes(x) \subseteq acc.written THEN Nop ELSE x
    OBVIOUS
  <2>3. Visit(acc, x).out = Append(o, y)
    BY <1>1, <2>2 DEF Visit
  <2>4. WalkItem(acc, x).out[3] = y
    BY <1>0, <2>1, <2>3
  <2>5. CASE IsCall(x) /\ x.func = f
    <3>1. IsOnce(x)
      BY <2>5 DEF IsOnce
    <3>2. Writes(x) = {g}
      BY <2>5 DEF Writes, IsCall
    <3>3. y = Nop
      BY <1>1, <2>2, <3>1, <3>2
    <3> QED BY <1>a, <2>4, <3>3 DEF IsCall, CallOf, Nop
  <2>6. CASE ~(IsCall(x) /\ x.func = f)
    <3>1. y = x \/ y = Nop
      BY <2>2
    <3> QED BY <1>a, <2>4, <2>6, <3>1 DEF IsCall, CallOf, Nop
  <2> QED BY <2>5, <2>6
<1> QED BY <1>2, <1>3

\* What the walk of a once function leaves: its guard, and no call of itself
\* as all the rest.
LEMMA OnceWalked ==
    ASSUME NEW F, NEW b, IsBody(b, F), NEW g \in onceGlobals, g # NoGlobal,
           Guarded(b, g), NEW f, onceFuncGlobals[f] = g
    PROVE  Guarded(Walk(b).out, g) /\ ~OwnCall(Walk(b).out, f)
<1>1. PICK n \in Nat : n = Len(b) /\ DOMAIN b = 1..n
  BY DEF IsBody
<1>2. /\ n >= 2 /\ b[1].op = "if" /\ b[1].cond = g /\ g # Host
      /\ b[1].arms = <<<<Return>>, <<>>>>
      /\ b[2].op = "set" /\ b[2].global = g
      /\ {"cond", "arms"} \subseteq DOMAIN b[1]
  BY <1>1 DEF Guarded, OnceGlobal
<1>3. ASSUME NEW k \in 1..n PROVE "op" \in DOMAIN b[k]
  <2>1. b[k] \in Range(b)
    BY <1>1 DEF Range
  <2> QED BY <2>1 DEF IsBody
<1>4. PICK a : /\ Runs("ifs", [out |-> <<>>, written |-> {}, live |-> TRUE], b, n, a)
               /\ Walk(b) = a[n]
  BY <1>1, WalkRuns
<1>5. Runs("ifs", Live(<<>>, {}), b, n, a)
  BY <1>4 DEF Live
<1>6. ASSUME NEW k \in 1..n PROVE a[k] = WalkItem(a[k - 1], b[k])
  BY <1>5 DEF Runs, Advance
<1>7. a[0] = Live(<<>>, {})
  BY <1>5 DEF Runs
<1>8. \A k \in 0..n : /\ IsBody(a[k].out, F)
                      /\ Len(a[k].out) = k
                      /\ \A i \in 1..k : a[k].out[i] = a[i].out[i]
  BY <1>1, <1>4, WalkGrows
<1>9. PICK x1, x2 : x1 = b[1] /\ x2 = b[2]
  OBVIOUS
<1>10. 1 \in 1..n /\ 2 \in 1..n /\ 1 - 1 = 0 /\ 2 - 1 = 1
  BY <1>2
<1>11. PICK y : a[1] = Live(<<y>>, {}) /\ IsGuard(y, g)
  <2>1. IsGuard(x1, g)
    BY <1>2, <1>3, <1>9, <1>10 DEF IsGuard
  <2>2. a[1] = WalkItem(Live(<<>>, {}), x1)
    BY <1>6, <1>7, <1>9, <1>10
  <2> QED BY <2>1, <2>2, GuardWalked
<1>12. a[2] = Live(Append(<<y>>, x2), {g})
  <2>1. a[2] = WalkItem(Live(<<y>>, {}), x2)
    BY <1>6, <1>9, <1>10, <1>11
  <2>2. x2.op = "set" /\ x2.global = g
    BY <1>2, <1>9
  <2> QED BY <2>1, <2>2, SetWalked
<1>13. PICK out : out = Walk(b).out
  OBVIOUS
<1>14. out[1] = y /\ out[2] = x2 /\ Len(out) = n
  <2>1. n \in 0..n
    OBVIOUS
  <2>2. out[1] = a[1].out[1] /\ out[2] = a[2].out[2] /\ Len(out) = n
    BY <1>4, <1>8, <1>10, <1>13, <2>1
  <2>3. a[1].out[1] = y
    BY <1>11 DEF Live
  <2>4. PICK p : p = Append(<<y>>, x2)
    OBVIOUS
  <2>5. p[2] = x2
    BY <2>4
  <2>6. a[2].out = p
    BY <1>12, <2>4 DEF Live
  <2> QED BY <2>2, <2>3, <2>5, <2>6
<1>15. OnceGlobal(out) = g
  BY <1>2, <1>9, <1>11, <1>14 DEF OnceGlobal, IsGuard
<1>16. ASSUME n = 3 PROVE ~CallOf(out[3], f)
  <2>1. PICK o, x3 : o = a[2].out /\ x3 = b[3]
    OBVIOUS
  <2>2. 3 \in 1..n /\ 3 - 1 = 2 /\ 2 \in 0..n
    BY <1>16
  <2>3. o \in Seq(Range(o)) /\ Len(o) = 2
    BY <1>8, <2>1, <2>2 DEF IsBody
  <2>4. a[2] = Live(o, {g})
    BY <1>12, <2>1 DEF Live
  <2>5. "op" \in DOMAIN x3
    BY <1>3, <2>1, <2>2
  <2>6. ~CallOf(WalkItem(Live(o, {g}), x3).out[3], f)
    BY <2>3, <2>5, CallWalked
  <2>7. out = WalkItem(Live(o, {g}), x3).out
    BY <1>4, <1>6, <1>13, <1>16, <2>1, <2>2, <2>4
  <2> QED BY <2>6, <2>7
<1> QED BY <1>11, <1>13, <1>14, <1>15, <1>16 DEF Guarded, OwnCall, IsGuard

LEMMA ExitInit == Init => ExitInv
<1> SUFFICES ASSUME NEW m \in Modules, Start(m) PROVE ExitInv
  BY DEF Init
<1>1. /\ Functions = DOMAIN m.body /\ body = m.body /\ module = m
      /\ phase = "scan" /\ todo = DOMAIN m.body /\ removedExitLogic = {}
  BY DEF Start, Functions
<1>2. /\ Range(m.fake) \cap DOMAIN m.init = {} /\ NoGlobal \notin DOMAIN m.init
      /\ \A f \in DOMAIN m.body : \A x \in Range(m.body[f]) :
            x.op = "if" => {"cond", "arms"} \subseteq DOMAIN x
  BY NamesAssumption
<1>3. DOMAIN m.fake = m.idempotent
  BY ModulesAssumption
<1>4. NamesKept
  BY <1>1, <1>2, <1>3 DEF NamesKept, Range
<1>5. NotRemovedYet
  BY <1>1 DEF NotRemovedYet, Functions
<1>6. GuardsKept
  BY <1>1, <1>2 DEF GuardsKept
<1>7. NoOwnCalls
  BY <1>1 DEF NoOwnCalls
<1>8. OnlyCalls /\ OneExits /\ OthersExit
  BY <1>1 DEF OnlyCalls, OneExits, OthersExit
<1> QED BY <1>4, <1>5, <1>6, <1>7, <1>8 DEF ExitInv, ExitsKept

LEMMA ScanExits ==
    ASSUME OnceInv, ExitInv, NEW f \in todo, Scan(f)
    PROVE  ExitInv'
<1>1. /\ phase = "scan" /\ phase' = "scan" /\ body' = body /\ module' = module
      /\ Functions' = Functions /\ todo' = todo \ {f} /\ f \in Functions
      /\ removedExitLogic' = removedExitLogic /\ removedExitLogic = {}
      /\ DOMAIN onceFuncGlobals = Functions
      /\ onceFuncGlobals' = [onceFuncGlobals EXCEPT ![f] = OnceGlobal(body[f])]
  BY DEF Scan, Functions, ExitInv, NotRemovedYet, OnceInv, Shape
<1>2. NamesKept' /\ NotRemovedYet' /\ NoOwnCalls'
  BY <1>1 DEF ExitInv, NamesKept, NotRemovedYet, NoOwnCalls
<1>3. ASSUME NEW h \in Functions \ todo'
      PROVE  onceFuncGlobals'[h] = OnceGlobal(body[h])
  BY <1>1 DEF ExitInv, GuardsKept
<1>4. \A h : OnceGlobal(body[h])' = OnceGlobal(body[h])
  BY <1>1 DEF OnceGlobal
<1>5. GuardsKept'
  BY <1>1, <1>3, <1>4 DEF ExitInv, GuardsKept
<1>6. OnlyCalls' /\ OneExits' /\ OthersExit'
  BY <1>1 DEF OnlyCalls, OneExits, OthersExit
<1> QED BY <1>2, <1>5, <1>6 DEF ExitInv, ExitsKept

LEMMA CombineExits ==
    ASSUME OnceInv, ExitInv, Combine
    PROVE  ExitInv'
<1>1. /\ phase = "scan" /\ phase' \in {"optimize", "done"} /\ body' = body
      /\ module' = module /\ Functions' = Functions /\ todo = {}
      /\ todo' \in {{}, Functions} /\ (phase' = "optimize" => todo' = Functions)
      /\ removedExitLogic' = removedExitLogic /\ removedExitLogic = {}
  BY DEF Combine, Functions, ExitInv, NotRemovedYet
<1>2. NamesKept' /\ NotRemovedYet' /\ NoOwnCalls'
  BY <1>1 DEF ExitInv, NamesKept, NotRemovedYet, NoOwnCalls
<1>3. ASSUME NEW f \in Functions, onceFuncGlobals'[f] \in DOMAIN module.init
      PROVE  Guarded(body[f], onceFuncGlobals'[f])
  <2>1. onceFuncGlobals'[f] = Marked(f)
    BY DEF Combine
  <2>2. NoGlobal \notin DOMAIN module.init
    BY DEF ExitInv, NamesKept
  <2>3. Marked(f) = onceFuncGlobals[f] \/ Marked(f) \notin DOMAIN module.init
    BY <2>2 DEF Marked, ExitInv, NamesKept
  <2>4. onceFuncGlobals'[f] = onceFuncGlobals[f]
    BY <1>3, <2>1, <2>2, <2>3
  <2>5. onceFuncGlobals[f] = OnceGlobal(body[f])
    BY <1>1 DEF ExitInv, GuardsKept
  <2>6. OnceGlobal(body[f]) # NoGlobal
    BY <1>3, <2>2, <2>4, <2>5
  <2>7. Len(body[f]) >= 2 /\ body[f][1].op = "if"
    BY <2>6 DEF OnceGlobal
  <2>8. IsBody(body[f], Functions)
    BY <1>1 DEF OnceInv, Shape
  <2>9. body[f][1] \in Range(body[f])
    <3>1. body[f] \in Seq(Range(body[f]))
      BY <2>8 DEF IsBody
    <3>2. 1 \in DOMAIN body[f]
      BY <2>7, <3>1
    <3> QED BY <3>2 DEF Range
  <2>10. {"cond", "arms"} \subseteq DOMAIN body[f][1]
    BY <1>1, <2>7, <2>9 DEF ExitInv, GuardsKept
  <2> QED BY <2>4, <2>5, <2>10 DEF Guarded
<1>4. GuardsKept'
  BY <1>1, <1>3 DEF GuardsKept, Real, Guarded, OnceGlobal
<1>5. OnlyCalls' /\ OneExits'
  BY <1>1 DEF OnlyCalls, OneExits
<1>6. OthersExit'
  BY <1>1, <1>3 DEF OthersExit, Real, Guarded, OnceGlobal
<1> QED BY <1>2, <1>4, <1>5, <1>6 DEF ExitInv, ExitsKept

LEMMA OptimizeExits ==
    ASSUME OnceInv, ExitInv, NEW f \in todo, Optimize(f)
    PROVE  ExitInv'
<1>1. /\ phase = "optimize" /\ phase' = "optimize" /\ module' = module
      /\ Functions' = Functions /\ todo' = todo \ {f} /\ f \in Functions
      /\ removedExitLogic' = removedExitLogic /\ removedExitLogic = {}
      /\ onceFuncGlobals' = onceFuncGlobals /\ DOMAIN body = Functions
      /\ body' = [body EXCEPT ![f] = Walk(body[f]).out]
  BY DEF Optimize, Functions, ExitInv, NotRemovedYet, OnceInv, Shape
<1>2. NamesKept' /\ NotRemovedYet'
  BY <1>1 DEF ExitInv, NamesKept, NotRemovedYet
<1>3. /\ body'[f] = Walk(body[f]).out
      /\ \A h \in Functions \ {f} : body'[h] = body[h]
  BY <1>1
<1>4. ASSUME Real(f)
      PROVE  /\ Guarded(body'[f], onceFuncGlobals[f])
             /\ ~OwnCall(body'[f], f)
  <2>1. PICK F, b, g : F = Functions /\ b = body[f] /\ g = onceFuncGlobals[f]
    OBVIOUS
  <2>2. g # NoGlobal
    BY <1>4, <2>1 DEF Real, ExitInv, NamesKept
  <2>3. g \in onceGlobals
    BY <1>1, <2>1, <2>2 DEF OnceInv, GlobalsAreOnce
  <2>4. IsBody(b, F)
    BY <1>1, <2>1 DEF OnceInv, Shape
  <2>5. Guarded(b, g)
    BY <1>1, <1>4, <2>1 DEF ExitInv, GuardsKept
  <2>6. Guarded(Walk(b).out, g) /\ ~OwnCall(Walk(b).out, f)
    BY <2>1, <2>2, <2>3, <2>4, <2>5, OnceWalked
  <2> QED BY <1>3, <2>1, <2>6
<1>5. \A h : Real(h)' = Real(h)
  BY <1>1 DEF Real
<1>6. ASSUME NEW h \in Functions, Real(h)
      PROVE  Guarded(body'[h], onceFuncGlobals[h])
  BY <1>1, <1>3, <1>4, <1>6 DEF ExitInv, GuardsKept
<1>7. GuardsKept'
  BY <1>1, <1>5, <1>6 DEF GuardsKept
<1>8. ASSUME NEW h \in Functions \ todo', Real(h)
      PROVE  ~OwnCall(body'[h], h)
  BY <1>1, <1>3, <1>4, <1>8 DEF ExitInv, NoOwnCalls
<1>9. NoOwnCalls'
  BY <1>1, <1>5, <1>8 DEF NoOwnCalls
<1>10. OnlyCalls' /\ OneExits'
  BY <1>1 DEF OnlyCalls, OneExits
<1>11. OthersExit'
  BY <1>1, <1>5, <1>6 DEF OthersExit, Guarded
<1> QED BY <1>2, <1>7, <1>9, <1>10, <1>11 DEF ExitInv, ExitsKept

LEMMA EndIterationExits ==
    ASSUME OnceInv, ExitInv, EndIteration
    PROVE  ExitInv'
<1>1. /\ phase = "optimize" /\ phase' \in {"optimize", "bodies"} /\ body' = body
      /\ module' = module /\ Functions' = Functions /\ todo = {}
      /\ todo' = Functions /\ onceFuncGlobals' = onceFuncGlobals
      /\ removedExitLogic' = removedExitLogic /\ removedExitLogic = {}
  BY DEF EndIteration, Functions, ExitInv, NotRemovedYet
<1>2. NamesKept' /\ NotRemovedYet'
  BY <1>1 DEF ExitInv, NamesKept, NotRemovedYet
<1>3. \A f \in Functions : IsBody(body[f], Functions)
  BY <1>1 DEF OnceInv, Shape
<1>4. \A f : Real(f)' = Real(f)
  BY <1>1 DEF Real
<1>5. GuardsKept'
  BY <1>1, <1>3, <1>4 DEF ExitInv, GuardsKept
<1>6. NoOwnCalls'
  BY <1>1, <1>4 DEF ExitInv, NoOwnCalls
<1>7. OnlyCalls' /\ OneExits'
  BY <1>1 DEF OnlyCalls, OneExits
<1>8. OthersExit'
  BY <1>1, <1>4 DEF OthersExit, ExitInv, ExitsKept
<1> QED BY <1>2, <1>5, <1>6, <1>7, <1>8 DEF ExitInv, ExitsKept

\* A body of three items of which the first two become nops.
LEMMA GuardTaken ==
    ASSUME NEW F, NEW b, IsBody(b, F), Len(b) = 3,
           NEW c, c = [b EXCEPT ![1] = Nop, ![2] = Nop]
    PROVE  Len(c) = 3 /\ c[1] = Nop /\ c[2] = Nop /\ c[3] = b[3]
<1>1. PICK S : S = Range(b) \cup {Nop}
  OBVIOUS
<1>2. b \in Seq(S) /\ Nop \in S
  BY <1>1 DEF IsBody
<1>3. b \in [1..3 -> S]
  BY <1>2
<1>4. c = [i \in 1..3 |-> IF i \in {1, 2} THEN Nop ELSE b[i]]
  BY <1>3
<1>5. Len(c) = 3
  BY <1>4
<1> QED BY <1>4, <1>5

LEMMA BodyExits ==
    ASSUME OnceInv, ExitInv, Bounded, OptimizeBody
    PROVE  ExitInv'
<1>1. PICK f : f = NextInOrder
  OBVIOUS
<1>2. f \in todo /\ todo' = todo \ {f}
  BY <1>1, BodyTaken
<1>3. /\ phase = "bodies" /\ phase' = "bodies" /\ module' = module
      /\ onceFuncGlobals' = onceFuncGlobals
  BY DEF OptimizeBody
<1>4. /\ DOMAIN body = Functions /\ removedExitLogic \subseteq Functions
      /\ f \notin removedExitLogic /\ f \in Functions
      /\ removedExitLogic \cap todo = {}
  BY <1>2 DEF ExitInv, NotRemovedYet, OnceInv, Shape
<1>5. PICK b, c : b = body[f] /\ c = [b EXCEPT ![1] = Nop, ![2] = Nop]
  OBVIOUS
<1>6. IsBody(b, Functions) /\ (Real(f) => ~OwnCall(b, f))
  BY <1>2, <1>3, <1>5 DEF ExitInv, GuardsKept, NoOwnCalls
\* The step leaves the function as it is, empties it, or takes its exits.
<1>7. \/ UNCHANGED <<body, removedExitLogic>>
      \/ body' = [body EXCEPT ![f] = <<Nop>>] /\ removedExitLogic' = removedExitLogic
      \/ /\ Real(f) /\ CallsGuarded(f)
         /\ body' = [body EXCEPT ![f] = c]
         /\ removedExitLogic' = removedExitLogic \cup {f}
  <2>1. [body EXCEPT ![f][1] = Nop, ![f][2] = Nop] = [body EXCEPT ![f] = c]
    BY <1>4, <1>5
  <2> QED BY <1>1, <2>1 DEF OptimizeBody, Real
<1>8. /\ DOMAIN body' = Functions /\ Functions' = Functions
      /\ \A h \in Functions \ {f} : body'[h] = body[h]
      /\ \A h \in Functions \ {f} : h \in removedExitLogic' <=> h \in removedExitLogic
      /\ removedExitLogic' \subseteq removedExitLogic \cup {f}
  BY <1>4, <1>7 DEF Functions
<1>9. NamesKept'
  BY <1>3, <1>8 DEF ExitInv, NamesKept
<1>10. NotRemovedYet'
  BY <1>2, <1>3, <1>4, <1>8 DEF NotRemovedYet
<1>11. \A h : Real(h)' = Real(h)
  BY <1>3 DEF Real
<1>12. \A h \in todo' : h \in Functions \ {f} /\ h \in todo
  BY <1>2 DEF OnceInv, Shape
<1>13. GuardsKept'
  BY <1>3, <1>8, <1>12 DEF ExitInv, GuardsKept
<1>14. NoOwnCalls'
  BY <1>3, <1>8, <1>11, <1>12 DEF ExitInv, NoOwnCalls
<1>15. ASSUME f \in removedExitLogic'
       PROVE  /\ Len(body'[f]) = 3 /\ body'[f][1] = Nop /\ body'[f][2] = Nop
              /\ body'[f][3] = b[3] /\ IsCall(b[3])
              /\ onceFuncGlobals[b[3].func] # NoGlobal
              /\ b[3].func \notin removedExitLogic /\ b[3].func # f
  <2>1. Real(f) /\ CallsGuarded(f) /\ body' = [body EXCEPT ![f] = c]
    BY <1>4, <1>7, <1>15
  <2>2. /\ Len(b) = 3 /\ IsCall(b[3])
        /\ onceFuncGlobals[b[3].func] # NoGlobal
        /\ b[3].func \notin removedExitLogic
    BY <1>5, <2>1 DEF CallsGuarded
  <2>3. body'[f] = c
    BY <1>4, <2>1
  <2>4. Len(c) = 3 /\ c[1] = Nop /\ c[2] = Nop /\ c[3] = b[3]
    BY <1>5, <1>6, <2>2, GuardTaken
  <2>5. b[3].func # f
    BY <1>6, <2>1, <2>2 DEF OwnCall, CallOf
  <2> QED BY <2>2, <2>3, <2>4, <2>5
<1>16. OnlyCalls'
  <2> SUFFICES ASSUME NEW h \in removedExitLogic'
               PROVE  /\ Len(body'[h]) = 3 /\ body'[h][1] = Nop /\ body'[h][2] = Nop
                      /\ IsCall(body'[h][3])
                      /\ onceFuncGlobals[body'[h][3].func] # NoGlobal
    BY <1>3 DEF OnlyCalls, IsCall
  <2>1. CASE h = f
    BY <1>15, <2>1
  <2>2. CASE h # f
    <3>1. h \in removedExitLogic /\ body'[h] = body[h]
      BY <1>4, <1>8, <2>2
    <3> QED BY <3>1 DEF ExitInv, ExitsKept, OnlyCalls
  <2> QED BY <2>1, <2>2
<1>17. OneExits'
  <2> SUFFICES ASSUME NEW S \in SUBSET removedExitLogic', S # {}
               PROVE  \E h \in S : body'[h][3].func \notin S
    BY DEF OneExits
  <2>1. CASE f \in S
    <3>1. b[3].func \notin S /\ body'[f][3] = b[3]
      BY <1>8, <1>15, <2>1
    <3> QED BY <2>1, <3>1
  <2>2. CASE f \notin S
    <3>1. S \in SUBSET removedExitLogic
      BY <1>8, <2>2
    <3>2. PICK h \in S : body[h][3].func \notin S
      BY <3>1 DEF ExitInv, ExitsKept, OneExits
    <3>3. body'[h] = body[h]
      BY <1>4, <1>8, <2>2, <3>1
    <3> QED BY <3>2, <3>3
  <2> QED BY <2>1, <2>2
<1>18. OthersExit'
  <2> SUFFICES ASSUME NEW h \in Functions \ removedExitLogic', Real(h)
               PROVE  OnceGlobal(body'[h]) = onceFuncGlobals[h] \/ body'[h] = <<Nop>>
    BY <1>3, <1>8, <1>11 DEF OthersExit, OnceGlobal
  <2>1. h \notin removedExitLogic
    BY <1>7
  <2>2. OnceGlobal(body[h]) = onceFuncGlobals[h] \/ body[h] = <<Nop>>
    BY <1>3, <2>1 DEF ExitInv, ExitsKept, OthersExit
  <2>3. CASE body'[h] = body[h]
    BY <2>2, <2>3
  <2>4. CASE body'[h] # body[h]
    BY <1>4, <1>7, <1>8, <2>4
  <2> QED BY <2>3, <2>4
<1> QED BY <1>9, <1>10, <1>13, <1>14, <1>16, <1>17, <1>18 DEF ExitInv, ExitsKept

LEMMA NextExits ==
    ASSUME OnceInv, Bounded, ExitInv, [Next]_vars
    PROVE  ExitInv'
<1>1. ASSUME NEW f \in todo, Scan(f) PROVE ExitInv'
  BY <1>1, ScanExits
<1>2. ASSUME NEW f \in todo, Optimize(f) PROVE ExitInv'
  BY <1>2, OptimizeExits
<1>3. CASE Combine
  BY <1>3, CombineExits
<1>4. CASE EndIteration
  BY <1>4, EndIterationExits
<1>5. CASE OptimizeBody
  BY <1>5, BodyExits
<1>6. CASE Finish
  BY <1>6 DEF Finish, ExitInv, NamesKept, NotRemovedYet, GuardsKept, NoOwnCalls,
              ExitsKept, OnlyCalls, OneExits, OthersExit, Functions, Real, OnceGlobal
<1>7. CASE UNCHANGED vars
  BY <1>7 DEF vars, ExitInv, NamesKept, NotRemovedYet, GuardsKept, NoOwnCalls,
              ExitsKept, OnlyCalls, OneExits, OthersExit, Functions, Real, OnceGlobal,
              Guarded, OwnCall, CallOf, IsBody, IsCall
<1> QED BY <1>1, <1>2, <1>3, <1>4, <1>5, <1>6, <1>7 DEF Next

(* Of functions that lost their exits, called by one another or not, at    *)
(* least one calls a function that did not: "If A calls B and B calls A,   *)
(* then at least one must keep the early-exit logic" (optimizeOnceBodies,  *)
(* OnceReduction.cpp:592-597), for any number of functions in the circle,  *)
(* one included.  Every other once function with a global of its own still *)
(* begins with the test of it, or is empty.                                *)
THEOREM ExitsAreKept == Spec => []ExitsKept
<1>1. Init => ExitInv
  BY ExitInit
<1>2. OnceInv /\ Bounded /\ ExitInv /\ [Next]_vars => ExitInv'
  BY NextExits
<1>3. ExitInv => ExitsKept
  BY DEF ExitInv
<1> QED BY <1>1, <1>2, <1>3, OnceInvHolds, IterationsAreBounded, PTL DEF Spec
=============================================================================
