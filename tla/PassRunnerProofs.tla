-------------------------- MODULE PassRunnerProofs --------------------------
(***************************************************************************)
(* Safety of PassRunner for every number of workers, every pipeline and    *)
(* every module, and the refinement of PassOrder.                          *)
(***************************************************************************)
EXTENDS PassRunner, Integers, WellFoundedInduction, SequenceTheorems,
        FiniteSetTheorems, TLAPS

-----------------------------------------------------------------------------
(* The invariant *)

NumFunctions == Len(functions)

\* The pass of the pipeline that the stack begins after.
Base == at - 1 - Len(stack)

\* A worker that is at a function.
At(w) == worker[w].step \in {"pass", "after"}

\* The number of passes of the stack that a worker has run on its function.
Through(w) == IF worker[w].step = "pass" THEN worker[w].pass - 1 ELSE worker[w].pass

Types ==
    /\ debug \in BOOLEAN /\ passes \in Pipelines /\ functions \in Modules
    /\ at \in 1..Len(passes) + 1
    /\ pc \in {"run", "work", "done"}
    /\ nextFunction \in Nat
    /\ worker \in [Workers -> [step : {"claim", "pass", "after", "finished"},
                               func : 1..NumFunctions + 1, pass : Nat]]
    /\ log \in [DOMAIN functions -> Seq(PassesOf(passes))]

\* The stack holds the function-parallel passes before the current one.
StackInv ==
    /\ stack \in Seq(PassesOf(passes))
    /\ Base \in Nat
    /\ \A k \in DOMAIN stack : stack[k] = passes[Base + k] /\ stack[k].parallel
    /\ pc = "work" => stack # <<>>
    /\ pc = "done" => at > Len(passes) /\ stack = <<>>

\* In debug mode the main thread goes through the functions itself.
DebugInv ==
    debug => /\ pc # "work" /\ stack = <<>>
             /\ nextFunction <= NumFunctions
             /\ nextFunction # 0 => pc = "run" /\ AtParallel

\* A worker is at a function it has claimed and nobody else has; one that has
\* finished has seen the counter come to the end.
WorkersInv ==
    /\ \A w \in Workers : At(w) =>
          /\ pc = "work"
          /\ worker[w].func \in Defined /\ worker[w].func <= nextFunction
          /\ worker[w].pass \in DOMAIN stack
    /\ pc # "work" => \A w \in Workers : worker[w].step = "finished"
    /\ pc = "work" => \A w \in Workers :
          worker[w].step = "finished" => NumFunctions <= nextFunction
    /\ OneWorkerPerFunction

\* The counter goes past the end once for each worker that has finished.
FinishedWorkers == {w \in Workers : worker[w].step = "finished"}
Overshoot == nextFunction <= NumFunctions + Cardinality(FinishedWorkers)

\* A function has been through the passes for it up to a point that the counter
\* and the workers determine.
Upto(f, k) == log[f] = Selected(f, passes)[k]

Logged ==
    \A f \in Defined :
        /\ debug => Upto(f, IF f <= nextFunction THEN at ELSE at - 1)
        /\ ~debug /\ pc # "work" => Upto(f, Base)
        /\ pc = "work" =>
              /\ nextFunction < f => Upto(f, Base)
              /\ \A w \in Workers :
                    At(w) /\ worker[w].func = f => Upto(f, Base + Through(w))
              /\ f <= nextFunction /\ ~(\E w \in Workers : At(w) /\ worker[w].func = f) =>
                    Upto(f, at - 1)

PInv == Types /\ StackInv /\ DebugInv /\ WorkersInv /\ Overshoot /\ Logged

-----------------------------------------------------------------------------
(* Selected *)

\* Induction over the natural numbers, for a set in place of a predicate.
LEMMA SetInduction ==
  ASSUME NEW S, 0 \in S, \A n \in Nat : n \in S => n + 1 \in S
  PROVE  Nat \subseteq S
  <1> DEFINE T == Nat \ S
  <1>1. SUFFICES ASSUME T # {} PROVE FALSE
    OBVIOUS
  <1> DEFINE R == OpToRel(<, Nat)
  <1>2. IsWellFoundedOn(R, Nat)
    BY NatLessThanWellFounded
  <1>3. \A x, y \in Nat : y < x => <<y, x>> \in R
    BY DEF OpToRel
  <1> HIDE DEF R
  <1> HIDE DEF T
  <1>5. T \subseteq Nat
    BY DEF T
  <1>4. PICK x \in T : \A y \in T : ~(<<y, x>> \in R)
    BY <1>1, <1>2, <1>5, WFMin
  <1>6. x \in Nat /\ x # 0 /\ x \notin S
    BY DEF T
  <1>7. x - 1 \in Nat /\ x - 1 < x /\ (x - 1) + 1 = x
    BY <1>6
  <1>8. x - 1 \notin T
    BY <1>3, <1>4, <1>6, <1>7
  <1>9. x - 1 \in S
    BY <1>7, <1>8 DEF T
  <1> QED BY <1>6, <1>7, <1>9

\* Selected satisfies the equation that defines it.
LEMMA SelectedFacts ==
  ASSUME NEW f, NEW T, NEW p \in Seq(T)
  PROVE  /\ Selected(f, p) \in [0..Len(p) -> Seq(T)]
         /\ Selected(f, p)[0] = <<>>
         /\ \A k \in 1..Len(p) :
               Selected(f, p)[k] = IF IsFor(f, p[k])
                                   THEN Append(Selected(f, p)[k - 1], p[k])
                                   ELSE Selected(f, p)[k - 1]
  <1> DEFINE Of(g, k) == IF k = 0 THEN <<>>
                         ELSE IF IsFor(f, p[k]) THEN Append(g[k - 1], p[k])
                         ELSE g[k - 1]
             Solves(n, g) == g \in [0..n -> Seq(T)] /\ \A k \in 0..n : g[k] = Of(g, k)
             S == {n \in Nat : n <= Len(p) => \E g : Solves(n, g)}
  <1>1. 0 \in S
    <2>1. Solves(0, [k \in 0..0 |-> <<>>])
      OBVIOUS
    <2> QED BY <2>1
  <1>2. ASSUME NEW n \in Nat, n \in S
        PROVE  n + 1 \in S
    <2>1. ASSUME n + 1 <= Len(p)
          PROVE  \E g : Solves(n + 1, g)
      <3>2. n <= Len(p) /\ p[n + 1] \in T
        BY <2>1
      <3>3. PICK g : Solves(n, g)
        BY <1>2, <3>2
      <3> DEFINE h == [k \in 0..n + 1 |-> IF k <= n THEN g[k] ELSE Of(g, n + 1)]
      <3>4. Of(g, n + 1) \in Seq(T)
        BY <3>2, <3>3
      <3>5. h \in [0..n + 1 -> Seq(T)]
        BY <3>3, <3>4
      <3>6. ASSUME NEW k \in 0..n + 1
            PROVE  h[k] = Of(h, k)
        <4>1. CASE k <= n
          <5>1. h[k] = g[k]
            BY <4>1
          <5>2. k # 0 => h[k - 1] = g[k - 1]
            BY <4>1
          <5>3. g[k] = Of(g, k)
            BY <3>3, <4>1
          <5> HIDE DEF h
          <5> QED BY <5>1, <5>2, <5>3
        <4>2. CASE k = n + 1
          BY <4>2
        <4> QED BY <4>1, <4>2
      <3> QED BY <3>5, <3>6
    <2> HIDE DEF Solves
    <2> QED BY <2>1
  <1>3. PICK g : Solves(Len(p), g)
    <2> HIDE DEF S
    <2>1. Len(p) \in S
      BY <1>1, <1>2, SetInduction
    <2> QED BY <2>1 DEF S
  <1>4. g = [k \in 0..Len(p) |-> Of(g, k)]
    BY <1>3
  <1>5. Selected(f, p) = [k \in 0..Len(p) |-> Of(Selected(f, p), k)]
    BY <1>4 DEF Selected
  <1> DEFINE s == Selected(f, p)
             U == {k \in Nat : k <= Len(p) => s[k] \in Seq(T)}
  <1>6. \A k \in 0..Len(p) : s[k] = Of(s, k)
    BY <1>5
  <1>7. s = [k \in 0..Len(p) |-> s[k]]
    BY <1>5
  <1> HIDE DEF s
  <1>8. 0 \in U
    <2>1. s[0] = <<>>
      BY <1>6
    <2>2. <<>> \in Seq(T)
      BY EmptySeq
    <2>3. s[0] \in Seq(T)
      BY <2>1, <2>2
    <2> QED BY <2>3
  <1>9. ASSUME NEW n \in Nat, n \in U
        PROVE  n + 1 \in U
    <2>1. SUFFICES ASSUME n + 1 <= Len(p)
                   PROVE  s[n + 1] \in Seq(T)
      OBVIOUS
    <2>2. p[n + 1] \in T /\ s[n] \in Seq(T) /\ s[n + 1] = Of(s, n + 1) /\ (n + 1) - 1 = n
      BY <1>6, <1>9, <2>1
    <2> QED BY <2>2
  <1>10. \A k \in 0..Len(p) : s[k] \in Seq(T)
    <2> HIDE DEF U
    <2>1. Nat \subseteq U
      BY <1>8, <1>9, SetInduction
    <2> QED BY <2>1 DEF U
  <1>11. s \in [0..Len(p) -> Seq(T)]
    BY <1>7, <1>10
  <1>12. s[0] = <<>>
    BY <1>6
  <1>13. \A k \in 1..Len(p) :
            s[k] = IF IsFor(f, p[k]) THEN Append(s[k - 1], p[k]) ELSE s[k - 1]
    BY <1>6
  <1> QED BY <1>11, <1>12, <1>13 DEF s

\* The pass at k follows, in For(f), what was selected before it.
Follows(f, p, k) ==
  /\ Selected(f, p)[k] = Append(Selected(f, p)[k - 1], p[k])
  /\ Len(Selected(f, p)[k - 1]) < Len(Selected(f, p)[Len(p)])
  /\ Selected(f, p)[Len(p)][Len(Selected(f, p)[k - 1]) + 1] = p[k]

\* So it does when it is for f.
LEMMA SelectedNext ==
  ASSUME NEW f, NEW T, NEW p \in Seq(T), NEW k \in 1..Len(p), IsFor(f, p[k])
  PROVE  Follows(f, p, k)
  <1> DEFINE s == Selected(f, p)
             m == Len(s[k - 1])
             U == {j \in Nat : k + j <= Len(p) =>
                                  m < Len(s[k + j]) /\ s[k + j][m + 1] = p[k]}
  <1>1. s \in [0..Len(p) -> Seq(T)]
    BY SelectedFacts
  <1>2. \A j \in 1..Len(p) :
           s[j] = IF IsFor(f, p[j]) THEN Append(s[j - 1], p[j]) ELSE s[j - 1]
    BY SelectedFacts
  <1> HIDE DEF s
  <1>3. s[k - 1] \in Seq(T) /\ m \in Nat /\ p[k] \in T
    BY <1>1
  <1>4. s[k] = Append(s[k - 1], p[k])
    BY <1>2
  <1>5. Len(s[k]) = m + 1 /\ s[k][m + 1] = p[k]
    BY <1>3, <1>4
  <1> HIDE DEF m
  <1>6. 0 \in U
    BY <1>3, <1>5
  <1>7. ASSUME NEW j \in Nat, j \in U
        PROVE  j + 1 \in U
    <2>1. ASSUME k + (j + 1) <= Len(p)
          PROVE  m < Len(s[k + (j + 1)]) /\ s[k + (j + 1)][m + 1] = p[k]
      <3>1. k + j \in 0..Len(p) /\ k + (j + 1) \in 1..Len(p)
            /\ (k + (j + 1)) - 1 = k + j /\ p[k + (j + 1)] \in T
        BY <2>1
      <3>2. m < Len(s[k + j]) /\ s[k + j][m + 1] = p[k] /\ s[k + j] \in Seq(T)
        BY <1>1, <1>7, <3>1
      <3>3. CASE s[k + (j + 1)] = s[k + j]
        BY <3>2, <3>3
      <3>4. CASE s[k + (j + 1)] = Append(s[k + j], p[k + (j + 1)])
        BY <1>3, <3>1, <3>2, <3>4
      <3> QED BY <1>2, <3>1, <3>3, <3>4
    <2> QED BY <2>1
  <1>8. m < Len(s[Len(p)]) /\ s[Len(p)][m + 1] = p[k]
    <2> HIDE DEF U
    <2>1. Len(p) - k \in U
      BY <1>6, <1>7, SetInduction
    <2>2. k + (Len(p) - k) = Len(p)
      OBVIOUS
    <2> QED BY <2>1, <2>2 DEF U
  <1> QED BY <1>4, <1>8 DEF Follows, m, s

-----------------------------------------------------------------------------
(* What the assumptions give *)

LEMMA PipelineFacts ==
  ASSUME Types
  PROVE  /\ passes \in Seq(PassesOf(passes))
         /\ functions \in Seq({"defined", "imported"})
         /\ NumFunctions \in Nat /\ DOMAIN functions = 1..NumFunctions
         /\ Len(passes) \in Nat /\ DOMAIN passes = 1..Len(passes)
         /\ \A k \in 1..Len(passes) :
               passes[k] \in PassesOf(passes) /\ IsPass(passes[k])
  <1>1. /\ passes \in Seq(PassesOf(passes))
        /\ \A pass \in PassesOf(passes) : IsPass(pass)
    BY PipelinesAssumption DEF Types
  <1>2. functions \in Seq({"defined", "imported"})
    BY ModulesAssumption DEF Types
  <1>3. Len(passes) \in Nat /\ DOMAIN passes = 1..Len(passes)
    BY <1>1
  <1>4. NumFunctions \in Nat /\ DOMAIN functions = 1..NumFunctions
    BY <1>2 DEF NumFunctions
  <1>5. \A k \in 1..Len(passes) : passes[k] \in PassesOf(passes)
    BY <1>3 DEF PassesOf
  <1> QED BY <1>1, <1>2, <1>3, <1>4, <1>5

\* Running the pass at k on f brings its log from k - 1 to k.
LEMMA RunsOnNext ==
  ASSUME Types, NEW f \in Defined, NEW k \in 1..Len(passes),
         IsFor(f, passes[k]), Upto(f, k - 1),
         log'[f] = Append(log[f], passes[k])
  PROVE  /\ log'[f] = Selected(f, passes)[k]
         /\ log'[f] \in Seq(PassesOf(passes))
         /\ Len(log[f]) < Len(For(f)) /\ For(f)[Len(log[f]) + 1] = passes[k]
  <1>1. passes \in Seq(PassesOf(passes)) /\ Len(passes) \in Nat
    BY PipelineFacts
  <1>2. Follows(f, passes, k)
    BY <1>1, SelectedNext
  <1>3. Selected(f, passes) \in [0..Len(passes) -> Seq(PassesOf(passes))]
    BY <1>1, SelectedFacts
  <1> QED BY <1>2, <1>3 DEF Follows, Upto, For

\* A pass that is not for f leaves what is selected for it.
LEMMA SkipsNext ==
  ASSUME Types, NEW f \in Defined, NEW k \in 1..Len(passes),
         ~IsFor(f, passes[k])
  PROVE  Selected(f, passes)[k] = Selected(f, passes)[k - 1]
  BY PipelineFacts, SelectedFacts

\* For a function-parallel pass, to be for f is to run on it.
LEMMA RunsOnIsFor ==
  ASSUME NEW f, NEW pass, pass.parallel
  PROVE  RunsOn(pass, f) <=> IsFor(f, pass)
  BY DEF RunsOn, IsFor

\* Transform appends the pass to the logs of the functions in F.
LEMMA TransformLog ==
  ASSUME Types, NEW F \in SUBSET DOMAIN functions, NEW pass \in PassesOf(passes),
         Transform(pass, F)
  PROVE  /\ log' \in [DOMAIN functions -> Seq(PassesOf(passes))]
         /\ \A f \in DOMAIN functions :
               log'[f] = IF f \in F THEN Append(log[f], pass) ELSE log[f]
  BY DEF Types, Transform

-----------------------------------------------------------------------------
(* The initial states and the steps of the main thread *)

LEMMA InitInv ==
  ASSUME Init
  PROVE  PInv
  <1>1. passes \in Pipelines /\ functions \in Modules
    BY DEF Init
  <1>2. passes \in Seq(PassesOf(passes)) /\ functions \in Seq({"defined", "imported"})
    BY <1>1, PipelinesAssumption, ModulesAssumption
  <1>3. Len(passes) \in Nat /\ NumFunctions \in Nat /\ DOMAIN functions = 1..NumFunctions
    BY <1>2 DEF NumFunctions
  <1>4. Types
    BY <1>1, <1>3 DEF Types, Init, Idle
  <1>5. Base = 0 /\ \A w \in Workers : ~At(w)
    <2>1. Len(<<>>) = 0
      OBVIOUS
    <2>2. at = 1 /\ stack = <<>>
      BY DEF Init
    <2>3. Len(stack) = 0
      BY <2>1, <2>2, Zenon
    <2>4. at = 1
      BY <2>2
    <2>5. Base = 0
      BY <2>3, <2>4 DEF Base
    <2> QED BY <2>5 DEF Init, At, Idle
  <1>6. StackInv /\ DebugInv
    BY <1>3, <1>5 DEF StackInv, DebugInv, Init
  <1>7. WorkersInv
    BY <1>5 DEF WorkersInv, Init, Idle, OneWorkerPerFunction
  <1>8. Overshoot
    <2>1. FinishedWorkers = Workers
      BY DEF FinishedWorkers, Init, Idle
    <2>2. Cardinality(Workers) \in Nat
      BY WorkersAssumption, FS_CardinalityType
    <2> QED BY <1>3, <2>1, <2>2 DEF Overshoot, Init
  <1>9. Logged
    <2>1. ASSUME NEW f \in Defined
          PROVE  Upto(f, 0)
      BY <1>2, SelectedFacts DEF Upto, Init, Defined
    <2>2. \A f \in Defined : ~(f <= nextFunction)
      BY <1>3 DEF Defined, Init
    <2> QED BY <1>5, <2>1, <2>2 DEF Logged, Init
  <1> QED BY <1>4, <1>6, <1>7, <1>8, <1>9 DEF PInv

\* What only the logs of the functions and the points they have come to decide.
LEMMA LogKept ==
  ASSUME UNCHANGED <<runVars, log>>
  PROVE  \A f, k : Upto(f, k)' <=> Upto(f, k)
  BY DEF Upto, runVars, Selected

LEMMA WorkersKept ==
  ASSUME UNCHANGED worker
  PROVE  /\ \A w : (At(w)' <=> At(w)) /\ Through(w)' = Through(w)
         /\ FinishedWorkers' = FinishedWorkers
         /\ OneWorkerPerFunction' <=> OneWorkerPerFunction
  BY DEF At, Through, FinishedWorkers, OneWorkerPerFunction

LEMMA PushInv ==
  ASSUME PInv, Push
  PROVE  PInv'
  <1> USE DEF PInv
  <1>1. /\ pc = "run" /\ ~debug /\ at <= Len(passes) /\ passes[at].parallel
        /\ stack' = Append(stack, passes[at]) /\ at' = at + 1
        /\ UNCHANGED <<debug, passes, functions, pc, nextFunction, worker, log>>
    BY DEF Push, AtParallel, runVars, codeVars
  <1>2. Len(passes) \in Nat /\ at \in 1..Len(passes) /\ passes[at] \in PassesOf(passes)
    BY <1>1, PipelineFacts DEF Types
  <1>3. Types'
    BY <1>1, <1>2 DEF Types, NumFunctions
  <1>4. /\ stack' \in Seq(PassesOf(passes)) /\ Len(stack') = Len(stack) + 1
        /\ Len(stack) \in Nat
    BY <1>1, <1>2 DEF StackInv
  <1>5. Base' = Base /\ Base + Len(stack') = at
    BY <1>1, <1>2, <1>4 DEF Base
  <1>6. \A k \in DOMAIN stack' : stack'[k] = passes[Base + k] /\ stack'[k].parallel
    <2>1. ASSUME NEW k \in DOMAIN stack, k \in DOMAIN stack'
          PROVE  stack'[k] = stack[k]
      BY <1>1, <1>2, <2>1 DEF StackInv
    <2>2. stack'[Len(stack')] = passes[at]
      BY <1>1, <1>2 DEF StackInv
    <2>3. \A k \in DOMAIN stack' : k \in DOMAIN stack \/ k = Len(stack')
      BY <1>4 DEF StackInv
    <2> QED BY <1>1, <1>5, <2>1, <2>2, <2>3 DEF StackInv
  <1>7. StackInv'
    BY <1>1, <1>4, <1>5, <1>6 DEF StackInv
  <1>8. DebugInv' /\ WorkersInv' /\ Overshoot'
    BY <1>1, WorkersKept
       DEF DebugInv, WorkersInv, Overshoot, NumFunctions, Defined
  <1>9. Logged'
    BY <1>1, <1>5, LogKept DEF Logged, Defined, runVars
  <1> QED BY <1>3, <1>7, <1>8, <1>9

LEMMA FlushInv ==
  ASSUME PInv, Flush
  PROVE  PInv'
  <1> USE DEF PInv
  <1>1. /\ pc = "run" /\ ~debug /\ stack # <<>>
        /\ nextFunction' = 0 /\ pc' = "work"
        /\ worker' = [w \in Workers |-> [Idle EXCEPT !.step = "claim"]]
        /\ UNCHANGED <<debug, passes, functions, at, stack, log>>
    BY DEF Flush, runVars, codeVars
  <1>2. /\ NumFunctions \in Nat /\ DOMAIN functions = 1..NumFunctions
        /\ NumFunctions' = NumFunctions /\ Base' = Base
    BY <1>1, PipelineFacts DEF NumFunctions, Base
  <1>3. \A w \in Workers : worker'[w] = [step |-> "claim", func |-> 1, pass |-> 1]
    BY <1>1 DEF Idle
  <1>4. Types'
    <2>1. worker' \in [Workers -> [step : {"claim", "pass", "after", "finished"},
                                   func : 1..NumFunctions + 1, pass : Nat]]
      BY <1>1, <1>2 DEF Idle
    <2> QED BY <1>1, <1>2, <2>1 DEF Types
  <1>5. StackInv' /\ DebugInv'
    BY <1>1, <1>2 DEF StackInv, DebugInv
  <1>6. \A w \in Workers : ~At(w)'
    BY <1>3 DEF At
  <1>7. WorkersInv'
    BY <1>1, <1>3, <1>6 DEF WorkersInv, OneWorkerPerFunction, At
  <1>8. Overshoot'
    <2>1. FinishedWorkers' = {}
      BY <1>3 DEF FinishedWorkers
    <2> QED BY <1>1, <1>2, <2>1, FS_EmptySet DEF Overshoot
  <1>9. Logged'
    <2>1. \A f \in Defined' : f \in Defined /\ 0 < f /\ ~(f <= 0)
      BY <1>1, <1>2 DEF Defined
    <2>2. \A f \in Defined : Upto(f, Base)
      BY <1>1 DEF Logged
    <2>3. \A f, k : Upto(f, k)' <=> Upto(f, k)
      BY <1>1, LogKept DEF runVars
    <2> QED BY <1>1, <1>2, <1>6, <2>1, <2>2, <2>3 DEF Logged
  <1> QED BY <1>4, <1>5, <1>7, <1>8, <1>9

LEMMA FlushReturnsInv ==
  ASSUME PInv, FlushReturns
  PROVE  PInv'
  <1> USE DEF PInv
  <1>1. /\ pc = "work" /\ pc' = "run" /\ stack' = <<>>
        /\ \A w \in Workers : worker[w].step = "finished"
        /\ UNCHANGED <<debug, passes, functions, at, nextFunction, worker, log>>
    BY DEF FlushReturns, runVars, codeVars
  <1>2. Base' = at - 1 /\ at \in Nat \ {0} /\ Len(stack') = 0
    BY <1>1 DEF Base, Types
  <1>3. Types'
    BY <1>1 DEF Types, NumFunctions
  <1>4. StackInv' /\ DebugInv'
    BY <1>1, <1>2 DEF StackInv, DebugInv
  <1>5. WorkersInv' /\ Overshoot'
    BY <1>1, WorkersKept DEF WorkersInv, At, Overshoot, NumFunctions
  <1>6. ASSUME NEW f \in Defined
        PROVE  Upto(f, at - 1)
    <2>1. NumFunctions <= nextFunction
      BY <1>1, WorkersAssumption DEF WorkersInv
    <2>2. f <= nextFunction
      BY <2>1, PipelineFacts DEF Defined, Types
    <2> QED BY <1>1, <2>2 DEF Logged, At
  <1>7. Logged'
    BY <1>1, <1>2, <1>6, LogKept DEF Logged, Defined, runVars, DebugInv
  <1> QED BY <1>3, <1>4, <1>5, <1>7

LEMMA FinishInv ==
  ASSUME PInv, Finish
  PROVE  PInv'
  <1> USE DEF PInv
  <1>1. /\ pc = "run" /\ pc' = "done" /\ at > Len(passes) /\ stack = <<>>
        /\ UNCHANGED <<debug, passes, functions, at, stack, nextFunction, worker, log>>
    BY DEF Finish, runVars, codeVars
  <1>2. Base' = Base
    BY <1>1 DEF Base
  <1>3. Types' /\ StackInv'
    BY <1>1, <1>2 DEF Types, StackInv, NumFunctions
  <1>4. DebugInv'
    <2>1. ~AtParallel
      BY <1>1, PipelineFacts DEF Types, AtParallel
    <2> QED BY <1>1, <2>1 DEF DebugInv, NumFunctions
  <1>5. WorkersInv' /\ Overshoot'
    BY <1>1, WorkersKept DEF WorkersInv, Overshoot, NumFunctions
  <1>6. Logged'
    BY <1>1, <1>2, LogKept DEF Logged, Defined, runVars
  <1> QED BY <1>3, <1>4, <1>5, <1>6

LEMMA RunPassInv ==
  ASSUME PInv, RunPass
  PROVE  PInv'
  <1> USE DEF PInv
  <1>1. /\ pc = "run" /\ at <= Len(passes) /\ ~passes[at].parallel /\ stack = <<>>
        /\ at' = at + 1
        /\ UNCHANGED <<debug, passes, functions, stack, pc, nextFunction, worker>>
        /\ passes[at].skipped => log' = log
        /\ ~passes[at].skipped => Transform(passes[at], Defined)
    BY DEF RunPass, runVars, codeVars
  <1>2. /\ Len(passes) \in Nat /\ at \in 1..Len(passes)
        /\ passes[at] \in PassesOf(passes) /\ NumFunctions \in Nat
    BY <1>1, PipelineFacts DEF Types
  <1>3. Base = at - 1 /\ Base' = at
    <2>1. Len(<<>>) = 0
      OBVIOUS
    <2>2. Len(stack) = 0 /\ Len(stack') = 0
      BY <1>1, <2>1, Zenon
    <2> QED BY <1>1, <1>2, <2>2 DEF Base
  <1>4. ~passes[at].skipped =>
           /\ log' \in [DOMAIN functions -> Seq(PassesOf(passes))]
           /\ \A f \in Defined : log'[f] = Append(log[f], passes[at])
    BY <1>1, <1>2, TransformLog DEF Defined
  <1>5. Types'
    BY <1>1, <1>2, <1>4 DEF Types, NumFunctions
  <1>6. StackInv'
    BY <1>1, <1>2, <1>3 DEF StackInv
  <1>7. DebugInv' /\ nextFunction' = nextFunction /\ (debug => nextFunction = 0)
    BY <1>1 DEF DebugInv, AtParallel, NumFunctions
  <1>8. WorkersInv' /\ Overshoot'
    BY <1>1, WorkersKept DEF WorkersInv, Overshoot, NumFunctions, At
  <1>9. ASSUME NEW f \in Defined
        PROVE  f \in DOMAIN functions /\ Upto(f, at - 1) /\ ~(debug /\ f <= nextFunction)
    BY <1>1, <1>2, <1>3, <1>7, PipelineFacts DEF Logged, Defined
  <1>10. PICK k : k = at
    OBVIOUS
  <1>11. ASSUME NEW f \in Defined
         PROVE  Upto(f, k)'
    <2>1. IsFor(f, passes[k]) <=> ~passes[k].skipped
      BY <1>1, <1>10 DEF IsFor
    <2>2. CASE passes[k].skipped
      <3>1. Selected(f, passes)[k] = Selected(f, passes)[k - 1]
        BY <1>2, <1>10, <2>1, <2>2, SkipsNext
      <3>2. Upto(f, k)
        BY <1>9, <1>10, <3>1 DEF Upto
      <3> QED BY <1>1, <1>10, <2>2, <3>2, LogKept DEF runVars
    <2>3. CASE ~passes[k].skipped
      <3>1. log'[f] = Selected(f, passes)[k]
        BY <1>2, <1>4, <1>9, <1>10, <2>1, <2>3, RunsOnNext
      <3> QED BY <1>1, <3>1 DEF Upto, Selected
    <2> QED BY <2>2, <2>3
  <1>12. Logged'
    <2>1. Defined' = Defined
      BY <1>1 DEF Defined
    <2>2. at' - 1 = k /\ Base' = k
      BY <1>1, <1>2, <1>3, <1>10
    <2> QED BY <1>1, <1>9, <1>11, <2>1, <2>2 DEF Logged
  <1> QED BY <1>5, <1>6, <1>7, <1>8, <1>12

LEMMA FinishedCount ==
  /\ IsFiniteSet(FinishedWorkers) /\ Cardinality(FinishedWorkers) \in Nat
  /\ IsFiniteSet(FinishedWorkers') /\ Cardinality(FinishedWorkers') \in Nat
  <1>1. FinishedWorkers \subseteq Workers /\ FinishedWorkers' \subseteq Workers
    BY DEF FinishedWorkers
  <1> QED BY <1>1, WorkersAssumption, FS_Subset, FS_CardinalityType

LEMMA DebugParallelPassInv ==
  ASSUME PInv, DebugParallelPass
  PROVE  PInv'
  <1> USE DEF PInv
  <1>0. PICK f, pass, k : f = nextFunction + 1 /\ pass = passes[at] /\ k = at
    OBVIOUS
  <1>1. /\ pc = "run" /\ debug /\ at <= Len(passes) /\ pass.parallel
        /\ UNCHANGED <<debug, passes, functions, stack, pc, worker>>
        /\ f > NumFunctions => at' = at + 1 /\ nextFunction' = 0 /\ log' = log
        /\ ~(f > NumFunctions) =>
              /\ nextFunction' = f /\ at' = at
              /\ f \in Defined /\ RunsOn(pass, f) => Transform(pass, {f})
              /\ ~(f \in Defined /\ RunsOn(pass, f)) => log' = log
    BY <1>0 DEF DebugParallelPass, AtParallel, runVars, codeVars, NumFunctions
  <1>2. /\ Len(passes) \in Nat /\ at \in 1..Len(passes)
        /\ pass \in PassesOf(passes) /\ NumFunctions \in Nat
        /\ DOMAIN functions = 1..NumFunctions /\ nextFunction \in 0..NumFunctions
        /\ NumFunctions' = NumFunctions /\ Defined' = Defined
        /\ AtParallel
    BY <1>0, <1>1, PipelineFacts DEF Types, DebugInv, NumFunctions, Defined, AtParallel
  <1>3. stack = <<>> /\ \A w \in Workers : worker[w].step = "finished"
    BY <1>1 DEF DebugInv, WorkersInv
  <1>4. Base = at - 1 /\ Base' = at' - 1
    <2>1. Len(<<>>) = 0
      OBVIOUS
    <2>2. Len(stack) = 0 /\ Len(stack') = 0
      BY <1>1, <1>3, <2>1, Zenon
    <2>3. at' \in Nat
      BY <1>1, <1>2
    <2> QED BY <1>2, <2>2, <2>3 DEF Base
  <1>5. /\ f \in Nat \ {0} /\ f = nextFunction + 1
        /\ ~(f > NumFunctions) => f \in DOMAIN functions
    BY <1>0, <1>2
  <1>6. f \in Defined /\ RunsOn(pass, f) /\ ~(f > NumFunctions) =>
           /\ log' \in [DOMAIN functions -> Seq(PassesOf(passes))]
           /\ \A g \in Defined : log'[g] = IF g = f THEN Append(log[g], pass) ELSE log[g]
    <2>1. ASSUME f \in Defined, RunsOn(pass, f), ~(f > NumFunctions)
          PROVE  {f} \in SUBSET DOMAIN functions /\ Transform(pass, {f})
      BY <1>1, <1>5, <2>1
    <2>2. Defined \subseteq DOMAIN functions /\ Types
      BY DEF Defined
    <2> HIDE DEF PInv
    <2> QED BY <1>2, <2>1, <2>2, TransformLog
  <1>7. /\ log' \in [DOMAIN functions -> Seq(PassesOf(passes))]
        /\ at' \in 1..Len(passes) + 1 /\ nextFunction' \in 0..NumFunctions
    BY <1>1, <1>2, <1>5, <1>6 DEF Types
  <1>8. Types'
    BY <1>1, <1>2, <1>7 DEF Types
  <1>9. StackInv'
    <2>1. at' - 1 \in Nat
      <3>1. \A x \in 1..Len(passes) + 1 : x - 1 \in Nat
        BY <1>2
      <3> QED BY <1>7, <3>1, Zenon
    <2>2. DOMAIN stack = {}
      BY <1>3
    <2> QED BY <1>1, <1>4, <2>1, <2>2 DEF StackInv
  <1>10. DebugInv'
    BY <1>1, <1>2, <1>3, <1>7 DEF DebugInv, AtParallel
  <1>11. WorkersInv'
    BY <1>1, WorkersKept DEF WorkersInv, At
  <1>12. Overshoot'
    BY <1>2, <1>7, WorkersKept, FinishedCount, <1>1 DEF Overshoot
  <1>14. ASSUME NEW g \in Defined
         PROVE  /\ g \in 1..NumFunctions
                /\ g <= nextFunction => Upto(g, k)
                /\ ~(g <= nextFunction) => Upto(g, k - 1)
    BY <1>1, <1>2, <1>0 DEF Logged, Defined
  <1>15. CASE f > NumFunctions
    <2>1. \A g \in Defined : Upto(g, k)
      BY <1>2, <1>5, <1>14, <1>15
    <2>2. \A g \in Defined : Upto(g, k)'
      BY <1>1, <1>15, <2>1, LogKept DEF runVars
    <2>3. at' - 1 = k /\ nextFunction' = 0
      BY <1>1, <1>2, <1>0, <1>15
    <2>4. \A g \in Defined : ~(g <= 0)
      BY <1>14
    <2> QED BY <1>1, <1>2, <1>8, <1>9, <1>10, <1>11, <1>12, <2>2, <2>3, <2>4
            DEF Logged
  <1>16. CASE ~(f > NumFunctions)
    <2>1. nextFunction' = f /\ at' = k
      BY <1>1, <1>0, <1>16
    <2>2. ASSUME NEW g \in Defined, g # f
          PROVE  /\ g <= f => Upto(g, k)'
                 /\ ~(g <= f) => Upto(g, k - 1)'
      <3>1. log'[g] = log[g]
        BY <1>1, <1>6, <1>16, <2>2
      <3>2. g <= f <=> g <= nextFunction
        BY <1>2, <1>5, <1>14, <2>2
      <3> QED BY <1>1, <1>14, <3>1, <3>2 DEF Upto, Selected
    <2>3. ASSUME f \in Defined
          PROVE  Upto(f, k)'
      <3>1. Upto(f, k - 1) /\ f \in DOMAIN functions
        BY <1>2, <1>5, <1>14, <2>3 DEF Defined
      <3>2. RunsOn(pass, f) <=> IsFor(f, passes[k])
        BY <1>1, <1>0, RunsOnIsFor
      <3>3. CASE RunsOn(pass, f)
        <4>1. log'[f] = Append(log[f], passes[k])
          BY <1>6, <1>0, <1>16, <2>3, <3>3
        <4>2. log'[f] = Selected(f, passes)[k]
          BY <1>2, <1>0, <2>3, <3>1, <3>2, <3>3, <4>1, RunsOnNext
        <4> QED BY <1>1, <4>2 DEF Upto, Selected
      <3>4. CASE ~RunsOn(pass, f)
        <4>1. Selected(f, passes)[k] = Selected(f, passes)[k - 1]
          BY <1>2, <1>0, <2>3, <3>2, <3>4, SkipsNext
        <4>2. Upto(f, k) /\ log' = log
          BY <1>1, <1>16, <3>1, <3>4, <4>1 DEF Upto
        <4> QED BY <1>1, <4>2, LogKept DEF runVars
      <3> QED BY <3>3, <3>4
    <2>4. f <= f
      BY <1>5
    <2>5. Logged'
      BY <1>1, <1>2, <2>1, <2>2, <2>3, <2>4 DEF Logged
    <2> QED BY <1>8, <1>9, <1>10, <1>11, <1>12, <2>5
  <1> QED BY <1>15, <1>16

-----------------------------------------------------------------------------
(* The steps of a worker *)

\* A worker's step changes nobody else's part, and no pass is under way that is
\* not one of the pipeline's.
LEMMA WorkerFacts ==
  ASSUME PInv, pc = "work"
  PROVE  /\ ~debug
         /\ NumFunctions \in Nat /\ DOMAIN functions = 1..NumFunctions
         /\ Defined \subseteq 1..NumFunctions
         /\ Len(stack) \in Nat \ {0} /\ DOMAIN stack = 1..Len(stack)
         /\ Base \in Nat /\ at - 1 = Base + Len(stack)
         /\ \A k \in 1..Len(stack) :
               /\ Base + k \in 1..Len(passes) /\ (Base + k) - 1 = Base + (k - 1)
               /\ stack[k] = passes[Base + k] /\ stack[k].parallel
               /\ stack[k] \in PassesOf(passes)
  <1>1. /\ debug \in BOOLEAN /\ ~debug
        /\ NumFunctions \in Nat /\ DOMAIN functions = 1..NumFunctions
        /\ Defined \subseteq 1..NumFunctions
    BY PipelineFacts DEF PInv, Types, DebugInv, Defined
  <1>2. Len(stack) \in Nat \ {0} /\ DOMAIN stack = 1..Len(stack)
    BY EmptySeq DEF PInv, StackInv
  <1>3. Base \in Nat /\ at - 1 = Base + Len(stack) /\ at - 1 <= Len(passes)
        /\ Len(passes) \in Nat
    BY <1>2, PipelineFacts DEF PInv, Types, StackInv, Base
  <1>4. \A k \in 1..Len(stack) :
           Base + k \in 1..Len(passes) /\ (Base + k) - 1 = Base + (k - 1)
    <2> HIDE DEF Base
    <2>1. \A b, l, n \in Nat : \A k \in 1..l :
             b + l <= n => b + k \in 1..n /\ (b + k) - 1 = b + (k - 1)
      OBVIOUS
    <2>2. Base + Len(stack) <= Len(passes) /\ Len(stack) \in Nat
      BY <1>2, <1>3
    <2>3. Base \in Nat /\ Len(passes) \in Nat
      BY <1>3
    <2> QED BY <2>1, <2>2, <2>3, Zenon
  <1>5. \A k \in 1..Len(stack) :
           stack[k] = passes[Base + k] /\ stack[k].parallel /\ stack[k] \in PassesOf(passes)
    BY <1>2 DEF PInv, StackInv
  <1> QED BY <1>1, <1>2, <1>3, <1>4, <1>5

\* More workers may have finished after a step, and the counter is where it was.
LEMMA OvershootKept ==
  ASSUME Types, Types', Overshoot, UNCHANGED <<functions, nextFunction>>,
         FinishedWorkers \subseteq FinishedWorkers'
  PROVE  Overshoot'
  <1>1. IsFiniteSet(FinishedWorkers') /\ Cardinality(FinishedWorkers)' \in Nat
    BY FinishedCount
  <1>2. Cardinality(FinishedWorkers) <= Cardinality(FinishedWorkers')
    BY <1>1, FS_Subset
  <1>3. /\ Cardinality(FinishedWorkers) \in Nat
        /\ NumFunctions \in Nat /\ nextFunction \in Nat
    BY FinishedCount, PipelineFacts DEF Types
  <1> QED BY <1>1, <1>2, <1>3 DEF Overshoot, NumFunctions

\* A claim takes a worker to a function that needs work, lets it claim again, or
\* ends it.
LEMMA ClaimWorkers ==
  ASSUME PInv, NEW w \in Workers, Claim(w), NEW f, f = nextFunction + 1
  PROVE  /\ pc = "work" /\ worker[w].step = "claim" /\ nextFunction' = f
         /\ \/ /\ f \in Defined
               /\ worker' = [worker EXCEPT ![w] = [step |-> "pass", func |-> f, pass |-> 1]]
            \/ /\ f \notin Defined /\ f < NumFunctions
               /\ worker' = [worker EXCEPT ![w] = [step |-> "claim", func |-> 1, pass |-> 1]]
            \/ /\ f \notin Defined /\ NumFunctions <= f
               /\ worker' = [worker EXCEPT ![w] = [step |-> "finished", func |-> 1, pass |-> 1]]
         /\ \A v \in Workers : v # w => worker'[v] = worker[v]
         /\ \/ /\ f \in Defined
               /\ worker'[w] = [step |-> "pass", func |-> f, pass |-> 1]
            \/ f \notin Defined /\ f < NumFunctions /\ worker'[w].step = "claim"
            \/ f \notin Defined /\ NumFunctions <= f /\ worker'[w].step = "finished"
  <1> USE DEF PInv
  <1>1. /\ worker[w].step = "claim" /\ nextFunction' = f
        /\ UNCHANGED <<debug, passes, functions, at, stack, pc, log>>
    BY DEF Claim, FetchAdd, runVars, codeVars
  <1>2. pc = "work"
    BY <1>1 DEF WorkersInv
  <1>3. /\ ~debug /\ NumFunctions \in Nat /\ DOMAIN functions = 1..NumFunctions
        /\ nextFunction \in Nat /\ f \in Nat /\ Base' = Base /\ NumFunctions' = NumFunctions
        /\ Defined' = Defined /\ Defined \subseteq 1..NumFunctions
        /\ Len(stack) \in Nat \ {0} /\ DOMAIN stack = 1..Len(stack)
    BY <1>1, <1>2, WorkerFacts DEF Types, Base, NumFunctions, Defined
  <1>4. \/ /\ f \in Defined
           /\ worker' = [worker EXCEPT ![w] = [step |-> "pass", func |-> f, pass |-> 1]]
        \/ /\ f \notin Defined /\ f < NumFunctions
           /\ worker' = [worker EXCEPT ![w] = [step |-> "claim", func |-> 1, pass |-> 1]]
        \/ /\ f \notin Defined /\ NumFunctions <= f
           /\ worker' = [worker EXCEPT ![w] = [step |-> "finished", func |-> 1, pass |-> 1]]
    <2>0. worker' = [worker EXCEPT ![w] =
             CASE f > NumFunctions -> Idle
               [] f \in Defined -> [step |-> "pass", func |-> f, pass |-> 1]
               [] f <= NumFunctions /\ f \notin Defined -> AfterFunction(f)]
      BY Zenon DEF Claim, NumFunctions
    <2> HIDE DEF PInv
    <2>1. CASE f > NumFunctions
      <3>1. f \notin Defined /\ NumFunctions <= f /\ ~(f <= NumFunctions)
        BY <1>3, <2>1
      <3>2. worker' = [worker EXCEPT ![w] = Idle]
        BY <2>0, <2>1, <3>1
      <3> QED BY <3>1, <3>2 DEF Idle
    <2>2. CASE f \in Defined
      <3>1. ~(f > NumFunctions) /\ f <= NumFunctions
        BY <1>3, <2>2
      <3> QED BY <2>0, <2>2, <3>1
    <2>3. CASE f <= NumFunctions /\ f \notin Defined
      <3>1. ~(f > NumFunctions)
        BY <1>3, <2>3
      <3>2. worker' = [worker EXCEPT ![w] = AfterFunction(f)]
        BY <2>0, <2>3, <3>1
      <3>3. CASE f = NumFunctions
        <4>1. AfterFunction(f) = [step |-> "finished", func |-> 1, pass |-> 1]
          BY <3>3 DEF AfterFunction, Idle, NumFunctions
        <4> QED BY <1>3, <2>3, <3>2, <3>3, <4>1
      <3>4. CASE f # NumFunctions
        <4>1. AfterFunction(f) = [step |-> "claim", func |-> 1, pass |-> 1]
          BY <3>4 DEF AfterFunction, Idle, NumFunctions
        <4>2. f < NumFunctions
          BY <1>3, <2>3, <3>4
        <4> QED BY <2>3, <3>2, <4>1, <4>2
      <3> QED BY <3>3, <3>4
    <2> QED BY <1>3, <2>1, <2>2, <2>3
  <1>5. \A v \in Workers : v # w => worker'[v] = worker[v]
    BY <1>4 DEF Types
  <1>6. \/ /\ f \in Defined
           /\ worker'[w] = [step |-> "pass", func |-> f, pass |-> 1]
        \/ f \notin Defined /\ f < NumFunctions /\ worker'[w].step = "claim"
        \/ f \notin Defined /\ NumFunctions <= f /\ worker'[w].step = "finished"
    BY <1>3, <1>4 DEF Types
  <1> QED BY <1>1, <1>2, <1>4, <1>5, <1>6

LEMMA ClaimInv ==
  ASSUME PInv, NEW w \in Workers, Claim(w)
  PROVE  PInv'
  <1> USE DEF PInv
  <1>0. PICK f : f = nextFunction + 1
    OBVIOUS
  <1>1. /\ worker[w].step = "claim" /\ nextFunction' = f
        /\ UNCHANGED <<debug, passes, functions, at, stack, pc, log>>
    BY <1>0 DEF Claim, FetchAdd, runVars, codeVars
  <1>2. pc = "work"
    BY <1>1 DEF WorkersInv
  <1>3. /\ ~debug /\ NumFunctions \in Nat /\ DOMAIN functions = 1..NumFunctions
        /\ nextFunction \in Nat /\ f \in Nat /\ Base' = Base /\ NumFunctions' = NumFunctions
        /\ Defined' = Defined /\ Defined \subseteq 1..NumFunctions
        /\ Len(stack) \in Nat \ {0} /\ DOMAIN stack = 1..Len(stack)
    BY <1>0, <1>1, <1>2, WorkerFacts DEF Types, Base, NumFunctions, Defined
  <1>4. \/ /\ f \in Defined
           /\ worker' = [worker EXCEPT ![w] = [step |-> "pass", func |-> f, pass |-> 1]]
        \/ /\ f \notin Defined /\ f < NumFunctions
           /\ worker' = [worker EXCEPT ![w] = [step |-> "claim", func |-> 1, pass |-> 1]]
        \/ /\ f \notin Defined /\ NumFunctions <= f
           /\ worker' = [worker EXCEPT ![w] = [step |-> "finished", func |-> 1, pass |-> 1]]
    <2> HIDE DEF PInv
    <2> QED BY <1>0, ClaimWorkers
  <1>5. \A v \in Workers : v # w => worker'[v] = worker[v]
    <2> HIDE DEF PInv
    <2> QED BY <1>0, ClaimWorkers
  <1>6. \/ /\ f \in Defined
           /\ worker'[w] = [step |-> "pass", func |-> f, pass |-> 1]
        \/ f \notin Defined /\ f < NumFunctions /\ worker'[w].step = "claim"
        \/ f \notin Defined /\ NumFunctions <= f /\ worker'[w].step = "finished"
    <2> HIDE DEF PInv
    <2> QED BY <1>0, ClaimWorkers
  <1>7. worker' \in [Workers -> [step : {"claim", "pass", "after", "finished"},
                                 func : 1..NumFunctions + 1, pass : Nat]]
    <2>1. worker \in [Workers -> [step : {"claim", "pass", "after", "finished"},
                                  func : 1..NumFunctions + 1, pass : Nat]]
      BY DEF Types
    <2>2. f \in Defined => f \in 1..NumFunctions + 1
      BY <1>3
    <2>3. 1 \in 1..NumFunctions + 1
      BY <1>3
    <2> QED BY <1>4, <2>1, <2>2, <2>3
  <1>8. Types'
    BY <1>1, <1>3, <1>7 DEF Types
  <1>9. StackInv' /\ DebugInv'
    BY <1>1, <1>2, <1>3 DEF StackInv, DebugInv
  <1>10. \A v \in Workers : At(v) =>
            v # w /\ At(v)' /\ worker[v].func < f /\ worker[v].func \in Defined
    <2>1. \A n, m \in Nat : n <= m => n < m + 1
      OBVIOUS
    <2>2. Defined \subseteq Nat
      BY <1>3
    <2>3. \A v \in Workers : At(v) => v # w /\ At(v)'
      BY <1>1, <1>5 DEF At
    <2>4. \A v \in Workers : At(v) =>
             worker[v].func <= nextFunction /\ worker[v].func \in Defined
      BY DEF WorkersInv
    <2> QED BY <1>0, <1>3, <2>1, <2>2, <2>3, <2>4
  <1>11. \A v \in Workers : v # w => (At(v)' <=> At(v)) /\ Through(v)' = Through(v)
    BY <1>5 DEF At, Through
  <1>12. At(w)' => worker'[w].func = f /\ f \in Defined /\ worker'[w].pass = 1
                   /\ worker'[w].step = "pass"
    BY <1>6 DEF At
  <1>13. WorkersInv'
    <2>1. ASSUME NEW v \in Workers, At(v)'
          PROVE  /\ worker'[v].func \in Defined /\ worker'[v].func <= f
                 /\ worker'[v].pass \in DOMAIN stack
      <3>1. CASE v = w
        BY <1>3, <1>12, <2>1, <3>1
      <3>2. CASE v # w
        BY <1>3, <1>5, <1>10, <1>11, <2>1, <3>2 DEF WorkersInv
      <3> QED BY <3>1, <3>2
    <2>2. ASSUME NEW v \in Workers, worker'[v].step = "finished"
          PROVE  NumFunctions <= f
      <3>1. CASE v = w
        BY <1>6, <2>2, <3>1
      <3>2. CASE v # w
        BY <1>0, <1>2, <1>3, <1>5, <2>2, <3>2 DEF WorkersInv
      <3> QED BY <3>1, <3>2
    <2>3. ASSUME NEW u \in Workers, NEW v \in Workers, At(u)', At(v)',
                 worker'[u].func = worker'[v].func
          PROVE  u = v
      <3>1. CASE u = w \/ v = w
        <4>1. ASSUME NEW x \in Workers, x # w, At(x)'
              PROVE  worker'[x].func < f /\ worker'[x].func \in Nat
          <5>1. At(x) /\ worker'[x] = worker[x]
            BY <1>5, <1>11, <4>1
          <5>2. worker[x].func < f /\ worker[x].func \in Defined
            BY <1>10, <5>1
          <5>3. Defined \subseteq Nat /\ worker'[x].func = worker[x].func
            BY <1>3, <5>1
          <5> QED BY <5>2, <5>3
        <4> QED BY <1>3, <1>12, <2>3, <3>1, <4>1
      <3>2. CASE u # w /\ v # w
        BY <1>5, <1>11, <2>3, <3>2 DEF WorkersInv, OneWorkerPerFunction, At
      <3> QED BY <3>1, <3>2
    <2>4. OneWorkerPerFunction'
      BY <2>3 DEF OneWorkerPerFunction, At
    <2> QED BY <1>1, <1>2, <1>3, <2>1, <2>2, <2>4 DEF WorkersInv
  <1>14. Overshoot'
    <2>1. CASE f <= NumFunctions
      BY <1>1, <1>3, <1>8, <2>1, FinishedCount DEF Overshoot
    <2>2. CASE f > NumFunctions
      <3>1. FinishedWorkers' = FinishedWorkers \cup {w} /\ w \notin FinishedWorkers
        <4>1. worker'[w].step = "finished"
          BY <1>3, <1>6, <2>2
        <4> QED BY <1>1, <1>5, <4>1 DEF FinishedWorkers
      <3>2. /\ IsFiniteSet(FinishedWorkers) /\ Cardinality(FinishedWorkers) \in Nat
            /\ Cardinality(FinishedWorkers)' = Cardinality(FinishedWorkers) + 1
        BY <3>1, FinishedCount, FS_AddElement
      <3> QED BY <1>0, <1>1, <1>3, <3>2 DEF Overshoot
    <2> QED BY <1>3, <2>1, <2>2
  <1>15. ASSUME NEW g \in Defined
         PROVE  /\ f < g => Upto(g, Base)
                /\ \A v \in Workers :
                      At(v)' /\ worker'[v].func = g => Upto(g, Base + Through(v)')
                /\ g <= f /\ ~(\E v \in Workers : At(v)' /\ worker'[v].func = g) =>
                      Upto(g, at - 1)
    <2>1. g \in Nat
      BY <1>3
    <2>2. nextFunction < g => Upto(g, Base)
      BY <1>2 DEF Logged
    <2>3. ASSUME NEW v \in Workers, At(v)', worker'[v].func = g
          PROVE  Upto(g, Base + Through(v)')
      <3>1. CASE v = w
        <4>1. Through(v)' = 0
          BY <1>12, <2>3, <3>1 DEF Through
        <4>2. Base + Through(v)' = Base /\ nextFunction < g
          BY <1>0, <1>2, <1>3, <1>12, <2>3, <3>1, <4>1, WorkerFacts
        <4> QED BY <2>2, <4>2
      <3>2. CASE v # w
        BY <1>2, <1>5, <1>11, <2>3, <3>2 DEF Logged
      <3> QED BY <3>1, <3>2
    <2>4. ASSUME g <= f, ~(\E v \in Workers : At(v)' /\ worker'[v].func = g)
          PROVE  Upto(g, at - 1)
      <3>1. g # f
        BY <1>6, <2>4 DEF At
      <3>2. g <= nextFunction
        BY <1>0, <1>3, <2>1, <2>4, <3>1
      <3>3. ~(\E v \in Workers : At(v) /\ worker[v].func = g)
        BY <1>5, <1>10, <2>4
      <3> QED BY <1>2, <3>2, <3>3 DEF Logged
    <2> QED BY <1>0, <1>3, <2>1, <2>2, <2>3, <2>4
  <1>16. Logged'
    <2>1. \A g, k : Upto(g, k)' <=> Upto(g, k)
      BY <1>1, LogKept DEF runVars
    <2> QED BY <1>1, <1>2, <1>3, <1>15, <2>1 DEF Logged
  <1> QED BY <1>8, <1>9, <1>13, <1>14, <1>16

\* It goes on with the next pass of the stack, or ends the function.
LEMMA NextPassWorkers ==
  ASSUME PInv, NEW w \in Workers, At(w), NextPass(w),
         UNCHANGED <<runVars, at, stack, pc, nextFunction>>,
         NEW f, NEW p, f = worker[w].func, p = worker[w].pass
  PROVE  /\ pc = "work" /\ f \in Defined /\ p \in 1..Len(stack)
         /\ \/ /\ p < Len(stack)
               /\ worker' = [worker EXCEPT ![w] = [step |-> "pass", func |-> f, pass |-> p + 1]]
            \/ /\ p = Len(stack) /\ f < NumFunctions
               /\ worker' = [worker EXCEPT ![w] = [step |-> "claim", func |-> 1, pass |-> 1]]
            \/ /\ p = Len(stack) /\ f = NumFunctions
               /\ worker' = [worker EXCEPT ![w] = [step |-> "finished", func |-> 1, pass |-> 1]]
         /\ \A v \in Workers : v # w => worker'[v] = worker[v]
         /\ \/ /\ p < Len(stack) /\ worker'[w].step = "pass"
               /\ worker'[w].pass = p + 1 /\ worker'[w].func = f
            \/ p = Len(stack) /\ f < NumFunctions /\ worker'[w].step = "claim"
            \/ p = Len(stack) /\ f = NumFunctions /\ worker'[w].step = "finished"
  <1> USE DEF PInv
  <1>1. /\ pc = "work" /\ f \in Defined /\ f <= nextFunction /\ p \in DOMAIN stack
        /\ UNCHANGED <<debug, passes, functions, at, stack, pc, nextFunction>>
    BY DEF WorkersInv, runVars
  <1>2. /\ ~debug /\ NumFunctions \in Nat /\ DOMAIN functions = 1..NumFunctions
        /\ nextFunction \in Nat /\ Base' = Base /\ NumFunctions' = NumFunctions
        /\ Defined' = Defined /\ Defined \subseteq 1..NumFunctions
        /\ Len(stack) \in Nat \ {0} /\ DOMAIN stack = 1..Len(stack)
        /\ Base \in Nat /\ at - 1 = Base + Len(stack)
    BY <1>1, WorkerFacts DEF Types, Base, NumFunctions, Defined
  <1>3. worker' = [worker EXCEPT ![w] =
           IF p < Len(stack) THEN [step |-> "pass", func |-> f, pass |-> p + 1]
           ELSE AfterFunction(f)]
    BY Zenon DEF NextPass
  <1>4. \/ /\ p < Len(stack)
           /\ worker' = [worker EXCEPT ![w] = [step |-> "pass", func |-> f, pass |-> p + 1]]
        \/ /\ p = Len(stack) /\ f < NumFunctions
           /\ worker' = [worker EXCEPT ![w] = [step |-> "claim", func |-> 1, pass |-> 1]]
        \/ /\ p = Len(stack) /\ f = NumFunctions
           /\ worker' = [worker EXCEPT ![w] = [step |-> "finished", func |-> 1, pass |-> 1]]
    <2> HIDE DEF PInv
    <2>1. p \in 1..Len(stack) /\ f \in 1..NumFunctions
      BY <1>1, <1>2
    <2>2. CASE p < Len(stack)
      BY <1>3, <2>2
    <2>3. CASE ~(p < Len(stack))
      <3>1. worker' = [worker EXCEPT ![w] = AfterFunction(f)]
        BY <1>3, <2>3, Zenon
      <3>2. \A n \in Nat : \A x \in 1..n : ~(x < n) => x = n
        OBVIOUS
      <3>3. Len(stack) \in Nat
        BY <1>2
      <3>4. p = Len(stack) /\ worker' = [worker EXCEPT ![w] = AfterFunction(f)]
        BY <2>1, <2>3, <3>1, <3>2, <3>3, Zenon
      <3>5. CASE f = NumFunctions
        <4>1. AfterFunction(f) = [step |-> "finished", func |-> 1, pass |-> 1]
          BY <3>5 DEF AfterFunction, Idle, NumFunctions
        <4> QED BY <3>4, <3>5, <4>1
      <3>6. CASE f # NumFunctions
        <4>1. AfterFunction(f) = [step |-> "claim", func |-> 1, pass |-> 1]
          BY <3>6 DEF AfterFunction, Idle, NumFunctions
        <4>2. f < NumFunctions
          BY <1>2, <2>1, <3>6
        <4> QED BY <3>4, <4>1, <4>2
      <3> QED BY <3>5, <3>6
    <2> QED BY <2>2, <2>3
  <1>5. \A v \in Workers : v # w => worker'[v] = worker[v]
    BY <1>4 DEF Types
  <1>6. p \in 1..Len(stack) /\ f \in 1..NumFunctions
    BY <1>1, <1>2
  <1>7. \/ /\ p < Len(stack) /\ worker'[w].step = "pass"
           /\ worker'[w].pass = p + 1 /\ worker'[w].func = f
        \/ p = Len(stack) /\ f < NumFunctions /\ worker'[w].step = "claim"
        \/ p = Len(stack) /\ f = NumFunctions /\ worker'[w].step = "finished"
    BY <1>4 DEF Types
  <1> QED BY <1>1, <1>4, <1>5, <1>6, <1>7

\* A worker that has run the passes of the stack up to the one it is at goes on.
LEMMA NextPassInv ==
  ASSUME PInv, NEW w \in Workers, At(w), NextPass(w),
         Upto(worker[w].func, Base + worker[w].pass),
         UNCHANGED <<runVars, at, stack, pc, nextFunction, log>>
  PROVE  PInv'
  <1> USE DEF PInv
  <1>0. PICK f, p : f = worker[w].func /\ p = worker[w].pass
    OBVIOUS
  <1>1. /\ pc = "work" /\ f \in Defined /\ f <= nextFunction /\ p \in DOMAIN stack
        /\ UNCHANGED <<debug, passes, functions, at, stack, pc, log, nextFunction>>
    BY <1>0 DEF WorkersInv, runVars
  <1>2. /\ ~debug /\ NumFunctions \in Nat /\ DOMAIN functions = 1..NumFunctions
        /\ nextFunction \in Nat /\ Base' = Base /\ NumFunctions' = NumFunctions
        /\ Defined' = Defined /\ Defined \subseteq 1..NumFunctions
        /\ Len(stack) \in Nat \ {0} /\ DOMAIN stack = 1..Len(stack)
        /\ Base \in Nat /\ at - 1 = Base + Len(stack)
    BY <1>1, WorkerFacts DEF Types, Base, NumFunctions, Defined
  <1>4. \/ /\ p < Len(stack)
           /\ worker' = [worker EXCEPT ![w] = [step |-> "pass", func |-> f, pass |-> p + 1]]
        \/ /\ p = Len(stack) /\ f < NumFunctions
           /\ worker' = [worker EXCEPT ![w] = [step |-> "claim", func |-> 1, pass |-> 1]]
        \/ /\ p = Len(stack) /\ f = NumFunctions
           /\ worker' = [worker EXCEPT ![w] = [step |-> "finished", func |-> 1, pass |-> 1]]
    <2> HIDE DEF PInv
    <2> QED BY <1>0, NextPassWorkers
  <1>5. \A v \in Workers : v # w => worker'[v] = worker[v]
    <2> HIDE DEF PInv
    <2> QED BY <1>0, NextPassWorkers
  <1>6. p \in 1..Len(stack) /\ f \in 1..NumFunctions
    BY <1>1, <1>2
  <1>7. \/ /\ p < Len(stack) /\ worker'[w].step = "pass"
           /\ worker'[w].pass = p + 1 /\ worker'[w].func = f
        \/ p = Len(stack) /\ f < NumFunctions /\ worker'[w].step = "claim"
        \/ p = Len(stack) /\ f = NumFunctions /\ worker'[w].step = "finished"
    <2> HIDE DEF PInv
    <2> QED BY <1>0, NextPassWorkers
  <1>8. worker' \in [Workers -> [step : {"claim", "pass", "after", "finished"},
                                 func : 1..NumFunctions + 1, pass : Nat]]
    <2>1. worker \in [Workers -> [step : {"claim", "pass", "after", "finished"},
                                  func : 1..NumFunctions + 1, pass : Nat]]
      BY DEF Types
    <2>2. p + 1 \in Nat /\ 1 \in 1..NumFunctions + 1 /\ f \in 1..NumFunctions + 1
      BY <1>2, <1>6
    <2> DEFINE R == [step : {"claim", "pass", "after", "finished"},
                     func : 1..NumFunctions + 1, pass : Nat]
    <2>3. /\ [step |-> "pass", func |-> f, pass |-> p + 1] \in R
          /\ [step |-> "claim", func |-> 1, pass |-> 1] \in R
          /\ [step |-> "finished", func |-> 1, pass |-> 1] \in R
      BY <2>2
    <2> HIDE DEF R
    <2>4. \A r \in R : [worker EXCEPT ![w] = r] \in [Workers -> R]
      BY <2>1 DEF R
    <2>5. worker' \in [Workers -> R]
      BY <1>4, <2>3, <2>4
    <2> QED BY <2>5 DEF R
  <1>9. Types'
    BY <1>1, <1>2, <1>8 DEF Types
  <1>10. StackInv' /\ DebugInv'
    BY <1>1, <1>2 DEF StackInv, DebugInv
  <1>11. \A v \in Workers : v # w => (At(v)' <=> At(v)) /\ Through(v)' = Through(v)
    BY <1>5 DEF At, Through
  <1>12. At(w)' => /\ worker'[w].func = f /\ worker'[w].pass = p + 1
                   /\ p < Len(stack) /\ Through(w)' = p
    <2>1. At(w)' => /\ worker'[w].func = f /\ worker'[w].pass = p + 1
                    /\ p < Len(stack) /\ worker'[w].step = "pass"
      BY <1>7 DEF At
    <2>2. (p + 1) - 1 = p
      BY <1>6
    <2> QED BY <2>1, <2>2 DEF Through
  <1>13. WorkersInv'
    <2>1. ASSUME NEW v \in Workers, At(v)'
          PROVE  /\ At(v) /\ worker'[v].func = worker[v].func
                 /\ worker'[v].pass \in DOMAIN stack
      <3>1. CASE v = w
        BY <1>0, <1>2, <1>6, <1>12, <2>1, <3>1
      <3>2. CASE v # w
        BY <1>5, <1>11, <2>1, <3>2 DEF WorkersInv
      <3> QED BY <3>1, <3>2
    <2>2. ASSUME NEW v \in Workers, worker'[v].step = "finished"
          PROVE  NumFunctions <= nextFunction
      <3>1. CASE v = w
        BY <1>1, <1>7, <2>2, <3>1
      <3>2. CASE v # w
        BY <1>1, <1>5, <2>2, <3>2 DEF WorkersInv
      <3> QED BY <3>1, <3>2
    <2>3. OneWorkerPerFunction'
      BY <2>1 DEF WorkersInv, OneWorkerPerFunction, At
    <2> QED BY <1>1, <1>2, <2>1, <2>2, <2>3 DEF WorkersInv
  <1>14. Overshoot'
    <2>1. FinishedWorkers \subseteq FinishedWorkers'
      BY <1>5 DEF FinishedWorkers, At
    <2> QED BY <1>1, <1>9, <2>1, OvershootKept
  <1>15. ASSUME NEW g \in Defined
         PROVE  /\ nextFunction < g => Upto(g, Base)
                /\ \A v \in Workers :
                      At(v)' /\ worker'[v].func = g => Upto(g, Base + Through(v)')
                /\ g <= nextFunction
                      /\ ~(\E v \in Workers : At(v)' /\ worker'[v].func = g) =>
                      Upto(g, at - 1)
    <2>1. nextFunction < g => Upto(g, Base)
      BY <1>1 DEF Logged
    <2>2. ASSUME NEW v \in Workers, At(v)', worker'[v].func = g
          PROVE  Upto(g, Base + Through(v)')
      <3>1. CASE v = w
        BY <1>0, <1>12, <2>2, <3>1
      <3>2. CASE v # w
        BY <1>1, <1>5, <1>11, <2>2, <3>2 DEF Logged
      <3> QED BY <3>1, <3>2
    <2>3. ASSUME g <= nextFunction,
                 ~(\E v \in Workers : At(v)' /\ worker'[v].func = g)
          PROVE  Upto(g, at - 1)
      <3>1. CASE g = f
        <4>1. ~At(w)'
          BY <1>12, <2>3, <3>1
        <4>2. p = Len(stack)
          BY <1>7, <4>1 DEF At
        <4> QED BY <1>0, <1>2, <3>1, <4>2
      <3>2. CASE g # f
        <4>1. ~(\E v \in Workers : At(v) /\ worker[v].func = g)
          BY <1>0, <1>5, <1>11, <2>3, <3>2
        <4> QED BY <1>1, <2>3, <4>1 DEF Logged
      <3> QED BY <3>1, <3>2
    <2> QED BY <2>1, <2>2, <2>3
  <1>16. Logged'
    <2>1. \A g, k : Upto(g, k)' <=> Upto(g, k)
      BY <1>1, LogKept DEF runVars
    <2> QED BY <1>1, <1>2, <1>15, <2>1 DEF Logged
  <1> QED BY <1>9, <1>10, <1>13, <1>14, <1>16

LEMMA AfterPassInv ==
  ASSUME PInv, NEW w \in Workers, AfterPass(w)
  PROVE  PInv'
  <1>1. /\ worker[w].step = "after" /\ NextPass(w)
        /\ UNCHANGED <<runVars, at, stack, pc, nextFunction, log>>
    BY DEF AfterPass
  <1>2. At(w) /\ Through(w) = worker[w].pass
    BY <1>1 DEF At, Through
  <1>3. pc = "work" /\ worker[w].func \in Defined
    BY <1>2 DEF PInv, WorkersInv
  <1>4. Upto(worker[w].func, Base + worker[w].pass)
    BY <1>2, <1>3 DEF PInv, Logged
  <1> QED BY <1>1, <1>2, <1>4, NextPassInv

LEMMA RunPassOnFunctionInv ==
  ASSUME PInv, NEW w \in Workers, RunPassOnFunction(w)
  PROVE  PInv'
  <1> USE DEF PInv
  <1>0. PICK f, p, pass, k :
           f = worker[w].func /\ p = worker[w].pass /\ pass = stack[p] /\ k = Base + p
    OBVIOUS
  <1>1. /\ worker[w].step = "pass" /\ At(w) /\ Through(w) = p - 1
        /\ UNCHANGED <<debug, passes, functions, at, stack, pc, nextFunction>>
    BY <1>0 DEF RunPassOnFunction, At, Through, runVars
  <1>2. /\ pc = "work" /\ f \in Defined /\ f <= nextFunction /\ p \in DOMAIN stack
        /\ Upto(f, Base + (p - 1))
    BY <1>0, <1>1 DEF WorkersInv, Logged
  <1>3. /\ k \in 1..Len(passes) /\ Base + (p - 1) = k - 1
        /\ pass = passes[k] /\ pass.parallel /\ pass \in PassesOf(passes)
        /\ f \in DOMAIN functions
        /\ ~debug /\ NumFunctions \in Nat
        /\ Base' = Base /\ NumFunctions' = NumFunctions /\ Defined' = Defined
    BY <1>0, <1>1, <1>2, WorkerFacts DEF Base, NumFunctions, Defined
  <1>4. RunsOn(pass, f) <=> IsFor(f, passes[k])
    BY <1>3, RunsOnIsFor
  <1>5. CASE ~RunsOn(pass, f)
    <2>1. NextPass(w) /\ log' = log /\ UNCHANGED runVars
      BY <1>0, <1>5 DEF RunPassOnFunction
    <2>2. Upto(f, k)
      BY <1>2, <1>3, <1>4, <1>5, SkipsNext DEF Upto
    <2> HIDE DEF PInv
    <2> QED BY <1>0, <1>1, <2>1, <2>2, NextPassInv
  <1>6. CASE RunsOn(pass, f)
    <2>1. Transform(pass, {f}) /\ worker' = [worker EXCEPT ![w].step = "after"]
      BY <1>0, <1>6 DEF RunPassOnFunction
    <2>2. /\ log' \in [DOMAIN functions -> Seq(PassesOf(passes))]
          /\ \A g \in DOMAIN functions :
                log'[g] = IF g = f THEN Append(log[g], passes[k]) ELSE log[g]
      <3>1. {f} \in SUBSET DOMAIN functions /\ Types
        BY <1>3
      <3> HIDE DEF PInv
      <3> QED BY <1>3, <2>1, <3>1, TransformLog
    <2>3. log'[f] = Selected(f, passes)[k]
      BY <1>2, <1>3, <1>4, <1>6, <2>2, RunsOnNext
    <2>4. /\ Upto(f, k)'
          /\ \A g \in Defined : g # f => \A j : Upto(g, j)' <=> Upto(g, j)
      <3>1. \A g \in Defined : g # f => log'[g] = log[g]
        BY <2>2 DEF Defined
      <3> QED BY <1>1, <2>3, <3>1 DEF Upto, Selected
    <2>5. /\ worker'[w].step = "after" /\ worker'[w].func = f /\ worker'[w].pass = p
          /\ \A v \in Workers : v # w => worker'[v] = worker[v]
      BY <1>0, <2>1 DEF Types
    <2>6. Types'
      BY <1>1, <1>3, <2>1, <2>2 DEF Types
    <2>7. StackInv' /\ DebugInv'
      BY <1>1, <1>2, <1>3 DEF StackInv, DebugInv
    <2>8. /\ At(w)' /\ Through(w)' = p
          /\ \A v \in Workers : v # w => (At(v)' <=> At(v)) /\ Through(v)' = Through(v)
      BY <2>5 DEF At, Through
    <2>9. \A v \in Workers : /\ At(v)' <=> At(v)
                             /\ worker'[v].func = worker[v].func
                             /\ worker'[v].pass = worker[v].pass
                             /\ worker'[v].step = "finished" <=> worker[v].step = "finished"
      BY <1>0, <1>1, <2>5, <2>8
    <2>10. WorkersInv'
      <3>1. OneWorkerPerFunction'
        BY <2>9 DEF WorkersInv, OneWorkerPerFunction, At
      <3> QED BY <1>1, <1>3, <2>9, <3>1 DEF WorkersInv
    <2>11. Overshoot'
      <3>1. FinishedWorkers \subseteq FinishedWorkers'
        BY <2>9 DEF FinishedWorkers
      <3> QED BY <1>1, <2>6, <3>1, OvershootKept
    <2>12. ASSUME NEW g \in Defined
           PROVE  /\ nextFunction < g => Upto(g, Base)'
                  /\ \A v \in Workers :
                        At(v)' /\ worker'[v].func = g => Upto(g, Base + Through(v))'
                  /\ g <= nextFunction
                        /\ ~(\E v \in Workers : At(v)' /\ worker'[v].func = g) =>
                        Upto(g, at - 1)'
      <3>1. CASE g = f
        <4>1. \A v \in Workers : At(v) /\ worker[v].func = f => v = w
          BY <1>0, <1>1 DEF WorkersInv, OneWorkerPerFunction, At
        <4>2. Base' + Through(w)' = k
          BY <1>0, <1>3, <2>8
        <4>3. ~(nextFunction < f)
          BY <1>2, <1>3, PipelineFacts DEF Types
        <4>4. ASSUME NEW v \in Workers, At(v)', worker'[v].func = f
              PROVE  Upto(f, Base + Through(v))'
          <5>1. v = w
            BY <2>9, <4>1, <4>4
          <5> QED BY <2>4, <4>2, <5>1 DEF Upto
        <4>5. At(w)' /\ worker'[w].func = f
          BY <2>5, <2>8
        <4> QED BY <3>1, <4>3, <4>4, <4>5
      <3>2. CASE g # f
        <4>1. \A j : Upto(g, j)' <=> Upto(g, j)
          BY <2>4, <3>2
        <4>2. ASSUME NEW v \in Workers, At(v)', worker'[v].func = g
              PROVE  Upto(g, Base + Through(v))'
          <5>1. v # w
            BY <2>5, <3>2, <4>2
          <5>2. Upto(g, Base + Through(v)) /\ Through(v)' = Through(v)
            BY <1>2, <2>8, <2>9, <4>2, <5>1 DEF Logged
          <5> QED BY <1>3, <4>1, <5>2 DEF Upto
        <4>3. nextFunction < g => Upto(g, Base)'
          BY <1>2, <1>3, <4>1 DEF Logged, Upto
        <4>4. ASSUME g <= nextFunction,
                     ~(\E v \in Workers : At(v)' /\ worker'[v].func = g)
              PROVE  Upto(g, at - 1)'
          <5>1. Upto(g, at - 1)
            BY <1>2, <2>9, <4>4 DEF Logged
          <5> QED BY <1>1, <4>1, <5>1 DEF Upto
        <4> QED BY <4>2, <4>3, <4>4
      <3> QED BY <3>1, <3>2
    <2>13. Logged'
      BY <1>1, <1>2, <1>3, <2>12 DEF Logged
    <2> QED BY <2>6, <2>7, <2>10, <2>11, <2>13
  <1> QED BY <1>5, <1>6

-----------------------------------------------------------------------------
(* The theorems *)

LEMMA NextInv ==
  ASSUME PInv, [Next]_vars
  PROVE  PInv'
  <1>1. CASE Push
    BY <1>1, PushInv
  <1>2. CASE Flush
    BY <1>2, FlushInv
  <1>3. CASE FlushReturns
    BY <1>3, FlushReturnsInv
  <1>4. CASE RunPass
    BY <1>4, RunPassInv
  <1>5. CASE Finish
    BY <1>5, FinishInv
  <1>6. CASE DebugParallelPass
    BY <1>6, DebugParallelPassInv
  <1>7. ASSUME NEW w \in Workers, WorkerNext(w)
        PROVE  PInv'
    BY <1>7, ClaimInv, RunPassOnFunctionInv, AfterPassInv DEF WorkerNext
  <1>8. CASE UNCHANGED vars
    <2>1. /\ UNCHANGED <<debug, passes, functions, at, stack, pc, nextFunction>>
          /\ UNCHANGED <<worker, log>>
      BY <1>8 DEF vars, runVars, codeVars
    <2>2. Base' = Base /\ NumFunctions' = NumFunctions /\ Defined' = Defined
          /\ (AtParallel' <=> AtParallel)
      BY <2>1 DEF Base, NumFunctions, Defined, AtParallel
    <2>3. Types' /\ StackInv' /\ DebugInv' /\ WorkersInv' /\ Overshoot'
      BY <2>1, <2>2, WorkersKept
         DEF PInv, Types, StackInv, DebugInv, WorkersInv, Overshoot
    <2>4. Logged'
      <3>1. \A f, k : Upto(f, k)' <=> Upto(f, k)
        BY <2>1, LogKept DEF runVars
      <3> QED BY <2>1, <2>2, <3>1, WorkersKept DEF PInv, Logged
    <2> QED BY <2>3, <2>4 DEF PInv
  <1> QED BY <1>1, <1>2, <1>3, <1>4, <1>5, <1>6, <1>7, <1>8 DEF Next, MainNext, Done

\* The inductive invariant holds in every run.
THEOREM Invariance == Spec => []PInv
  <1> QED BY InitInv, NextInv, PTL DEF Spec

\* The stack is the part of the pipeline before the current pass, and the counter
\* goes past the last function at most once per worker.
THEOREM TypeCorrect == Spec => []TypeOK
  <1>1. ASSUME PInv
        PROVE  TypeOK
    <2>1. stack = SubSeq(passes, at - Len(stack), at - 1)
      <3>1. /\ passes \in Seq(PassesOf(passes)) /\ Len(passes) \in Nat
            /\ stack \in Seq(PassesOf(passes)) /\ Len(stack) \in Nat
            /\ at \in 1..Len(passes) + 1 /\ Base \in Nat
        BY <1>1, PipelineFacts DEF PInv, Types, StackInv
      <3>2. at - Len(stack) = Base + 1 /\ at - 1 = Base + Len(stack)
            /\ Base + Len(stack) <= Len(passes)
        BY <3>1 DEF Base
      <3> DEFINE part == SubSeq(passes, Base + 1, Base + Len(stack))
      <3>3. /\ part \in Seq(PassesOf(passes)) /\ Len(part) = Len(stack)
            /\ \A k \in 1..Len(stack) : part[k] = passes[Base + k]
        BY <3>1, <3>2
      <3>4. \A k \in 1..Len(stack) : part[k] = stack[k]
        BY <1>1, <3>1, <3>3 DEF PInv, StackInv
      <3> HIDE DEF part
      <3>5. part = stack
        BY <3>1, <3>3, <3>4, SeqEqual
      <3> QED BY <3>2, <3>5 DEF part
    <2>2. nextFunction \in 0..Len(functions) + Cardinality(Workers)
      <3>1. Cardinality(FinishedWorkers) <= Cardinality(Workers)
            /\ Cardinality(Workers) \in Nat
        BY WorkersAssumption, FS_Subset, FS_CardinalityType DEF FinishedWorkers
      <3> QED BY <1>1, <3>1, FinishedCount, PipelineFacts
              DEF PInv, Types, Overshoot, NumFunctions
    <2> QED BY <1>1, <2>1, <2>2 DEF PInv, Types, TypeOK, NumFunctions
  <1> QED BY <1>1, Invariance, PTL

\* No two workers are ever at the same function.
THEOREM FunctionsNotShared == Spec => []OneWorkerPerFunction
  <1>1. PInv => OneWorkerPerFunction
    BY DEF PInv, WorkersInv
  <1> QED BY <1>1, Invariance, PTL

-----------------------------------------------------------------------------
(* The refinement of PassOrder *)

\* A function-parallel pass is run on a function when it is due.
LEMMA ParallelPassDue ==
  ASSUME PInv, UNCHANGED runVars, NEW f \in Defined, NEW k \in 1..Len(passes),
         passes[k].parallel, RunsOn(passes[k], f), Upto(f, k - 1),
         Transform(passes[k], {f})
  PROVE  Order!ParallelPass(f)
  <1> DEFINE logs == [g \in Defined |-> log[g]]
  <1>1. /\ f \in DOMAIN functions /\ {f} \in SUBSET DOMAIN functions
        /\ passes[k] \in PassesOf(passes) /\ IsPass(passes[k]) /\ Types
    BY PipelineFacts DEF Defined, PInv
  <1>2. \A g \in DOMAIN functions :
           log'[g] = IF g \in {f} THEN Append(log[g], passes[k]) ELSE log[g]
    BY <1>1, TransformLog
  <1>3. Len(log[f]) < Len(For(f)) /\ For(f)[Len(log[f]) + 1] = passes[k]
    BY <1>1, <1>2, RunsOnIsFor, RunsOnNext
  <1>4. passes[k].parallel = TRUE
    BY <1>1 DEF IsPass
  <1>5. Order!Due(f, TRUE) /\ Order!Done(f) = Append(log[f], passes[k])
    BY <1>3, <1>4 DEF Order!Due, Order!Done
  <1>6. Defined' = Defined /\ Defined \subseteq DOMAIN functions
    BY DEF Defined, runVars
  <1>7. logs' = [logs EXCEPT ![f] = Append(log[f], passes[k])]
    BY <1>2, <1>6
  <1> QED BY <1>5, <1>7 DEF Order!ParallelPass

\* A module pass is run when it is due for all functions.
LEMMA ModulePassDue ==
  ASSUME PInv, RunPass, ~passes[at].skipped
  PROVE  Order!ModulePass
  <1> DEFINE logs == [g \in Defined |-> log[g]]
  <1>1. /\ at <= Len(passes) /\ ~passes[at].parallel /\ stack = <<>> /\ pc = "run"
        /\ Transform(passes[at], Defined) /\ UNCHANGED runVars
    BY DEF RunPass
  <1>2. /\ at \in 1..Len(passes) /\ passes[at] \in PassesOf(passes)
        /\ IsPass(passes[at]) /\ Types /\ Defined \in SUBSET DOMAIN functions
        /\ NumFunctions \in Nat /\ DOMAIN functions = 1..NumFunctions
    BY <1>1, PipelineFacts DEF PInv, Types, Defined
  <1>3. \A f \in DOMAIN functions :
           log'[f] = IF f \in Defined THEN Append(log[f], passes[at]) ELSE log[f]
    BY <1>1, <1>2, TransformLog
  <1>4. ASSUME NEW f \in Defined
        PROVE  Order!Due(f, FALSE) /\ Order!Done(f) = Append(log[f], passes[at])
    <2>1. Base = at - 1
      <3>1. Len(<<>>) = 0
        OBVIOUS
      <3>2. Len(stack) = 0
        BY <1>1, <3>1, Zenon
      <3> QED BY <1>2, <3>2 DEF Base
    <2>2. Upto(f, at - 1)
      <3>1. f \in 1..NumFunctions
        BY <1>2
      <3>2. debug => ~(f <= nextFunction)
        BY <1>1, <1>2, <3>1 DEF PInv, DebugInv, AtParallel
      <3> QED BY <1>1, <2>1, <3>2 DEF PInv, Logged
    <2>3. IsFor(f, passes[at])
      BY <1>1 DEF IsFor
    <2>4. Len(log[f]) < Len(For(f)) /\ For(f)[Len(log[f]) + 1] = passes[at]
      BY <1>2, <1>3, <2>2, <2>3, RunsOnNext
    <2>5. passes[at].parallel = FALSE
      BY <1>1, <1>2 DEF IsPass
    <2> QED BY <2>4, <2>5 DEF Order!Due, Order!Done
  <1>5. Defined' = Defined
    BY <1>1 DEF Defined, runVars
  <1>6. logs' = [f \in Defined |-> Append(log[f], passes[at])]
    BY <1>2, <1>3, <1>5
  <1>7. Order!Functions = Defined
    BY DEF Order!Functions
  <1> QED BY <1>4, <1>6, <1>7 DEF Order!ModulePass

\* Every step is one of the abstract specification or a stutter.
LEMMA StepRefines ==
  ASSUME PInv, [Next]_vars
  PROVE  [Order!Next]_Order!vars
  <1>1. UNCHANGED runVars
    BY DEF Next, MainNext, WorkerNext, Done, vars, Push, Flush, FlushReturns, RunPass,
           Finish, DebugParallelPass, Claim, RunPassOnFunction, AfterPass
  <1>2. Defined' = Defined /\ \A f : For(f)' = For(f)
    BY <1>1 DEF Defined, For, Selected, runVars
  <1>3. [f \in Defined |-> For(f)]' = [f \in Defined |-> For(f)]
    BY <1>2
  <1>4. ASSUME log' = log
        PROVE  UNCHANGED Order!vars
    BY <1>2, <1>3, <1>4 DEF Order!vars
  <1>5. CASE RunPass
    <2>1. CASE passes[at].skipped
      BY <1>4, <1>5, <2>1 DEF RunPass, codeVars
    <2>2. CASE ~passes[at].skipped
      BY <1>3, <1>5, <2>2, ModulePassDue DEF Order!Next
    <2> QED BY <2>1, <2>2
  <1>6. CASE DebugParallelPass
    <2>1. PICK f : f = nextFunction + 1
      OBVIOUS
    <2>2. CASE f <= Len(functions) /\ f \in Defined /\ RunsOn(passes[at], f)
      <3>1. /\ at \in 1..Len(passes) /\ passes[at].parallel /\ pc = "run" /\ debug
            /\ Transform(passes[at], {f})
            /\ ~(f <= nextFunction)
        BY <1>6, <2>1, <2>2, PipelineFacts
           DEF DebugParallelPass, AtParallel, PInv, Types, NumFunctions
      <3>2. Upto(f, at - 1)
        BY <2>2, <3>1 DEF PInv, Logged
      <3> QED BY <1>1, <1>3, <2>2, <3>1, <3>2, ParallelPassDue DEF Order!Next, Order!Functions
    <2>3. CASE ~(f <= Len(functions) /\ f \in Defined /\ RunsOn(passes[at], f))
      <3>1. Len(functions) \in Nat /\ f \in Nat
        BY <2>1, PipelineFacts DEF PInv, Types, NumFunctions
      <3>2. log' = log
        BY <1>6, <2>1, <2>3, <3>1 DEF DebugParallelPass, codeVars
      <3> QED BY <1>4, <3>2
    <2> QED BY <2>2, <2>3
  <1>7. ASSUME NEW w \in Workers, RunPassOnFunction(w)
        PROVE  [Order!Next]_Order!vars
    <2>1. PICK f, p, k : f = worker[w].func /\ p = worker[w].pass /\ k = Base + p
      OBVIOUS
    <2>2. /\ worker[w].step = "pass" /\ pc = "work" /\ f \in Defined
          /\ p \in DOMAIN stack /\ Upto(f, Base + (p - 1))
      BY <1>7, <2>1 DEF RunPassOnFunction, PInv, WorkersInv, Logged, At, Through
    <2>3. /\ k \in 1..Len(passes) /\ Base + (p - 1) = k - 1
          /\ stack[p] = passes[k] /\ stack[p].parallel
      BY <2>1, <2>2, WorkerFacts
    <2>4. CASE RunsOn(stack[p], f)
      <3>1. Transform(passes[k], {f})
        BY <1>7, <2>1, <2>3, <2>4 DEF RunPassOnFunction
      <3> QED BY <1>1, <1>3, <2>2, <2>3, <2>4, <3>1, ParallelPassDue
              DEF Order!Next, Order!Functions
    <2>5. CASE ~RunsOn(stack[p], f)
      <3>1. log' = log
        BY <1>7, <2>1, <2>5 DEF RunPassOnFunction
      <3> QED BY <1>4, <3>1
    <2> QED BY <2>4, <2>5
  <1>8. CASE Push \/ Flush \/ FlushReturns \/ Finish \/ UNCHANGED vars
    <2>1. log' = log
      BY <1>8 DEF Push, Flush, FlushReturns, Finish, codeVars, vars
    <2> QED BY <1>4, <2>1
  <1>9. ASSUME NEW w \in Workers, Claim(w) \/ AfterPass(w)
        PROVE  [Order!Next]_Order!vars
    <2>1. log' = log
      BY <1>9 DEF Claim, AfterPass, codeVars
    <2> QED BY <1>4, <2>1
  <1> QED BY <1>5, <1>6, <1>7, <1>8, <1>9 DEF Next, MainNext, WorkerNext, Done

\* Whatever the number of workers, each function and each module pass sees what
\* running the passes one by one would give.
THEOREM PassesInOrder == Spec => ImplementsPassOrder
  <1>1. Init => Order!Init
    <2>1. ASSUME Init
          PROVE  \A f \in Defined : log[f] = <<>>
      BY <2>1 DEF Init, Defined
    <2> QED BY <2>1 DEF Order!Init, Order!Functions
  <1>2. PInv /\ [Next]_vars => [Order!Next]_Order!vars
    BY StepRefines
  <1> QED BY <1>1, <1>2, Invariance, PTL DEF Spec, ImplementsPassOrder, Order!Spec

-----------------------------------------------------------------------------
(* The cached effects: the invariant *)

\* The passes that a function may have been through and another not.
Pending ==
    {pass \in PassesOf(passes) :
        /\ pass.addsEffects /\ ~pass.skipped
        /\ \/ pc = "work" /\ \E k \in DOMAIN stack : pass = stack[k]
           \/ debug /\ nextFunction # 0 /\ pass = passes[at]}

\* What is known of a function, or of the indirect calls.
Cached == (SUBSET PassesOf(passes)) \cup {Unknown}

EffectTypes ==
    /\ added \in [DOMAIN functions -> SUBSET PassesOf(passes)]
    /\ effects \in [DOMAIN functions -> Cached]
    /\ indirectCallEffects \in Cached
    /\ \A f \in DOMAIN functions : effects[f] # Unknown => f \in Defined

\* A pass that adds effects has dropped those of the functions it is through with.
Resets ==
    /\ debug =>
          \A f \in Defined : f <= nextFunction /\ passes[at] \in Pending =>
              effects[f] = Unknown
    /\ pc = "work" =>
          \A f \in Defined : \A k \in DOMAIN stack : stack[k] \in Pending =>
              /\ \A w \in Workers :
                    At(w) /\ worker[w].func = f /\ k < worker[w].pass =>
                        effects[f] = Unknown
              /\ f <= nextFunction /\ ~(\E w \in Workers : At(w) /\ worker[w].func = f) =>
                    effects[f] = Unknown

\* Whatever can be reached from F is defined and adds no more than X.
CoveredBy(F, X) ==
    \A g \in Closure(F, Enters) : g \in Defined /\ added[g] \subseteq X

\* A function-parallel pass of the pipeline adds effects.
ParallelAdders == \E k \in DOMAIN passes : passes[k].parallel /\ passes[k].addsEffects

CoverInv ==
    /\ \A f \in Defined :
          \/ effects[f] = Unknown
          \/ CoveredBy({f}, effects[f] \cup Pending)
          \/ ParallelAdders /\ Closure({f}, Enters) \cap IndirectCallers # {}
    /\ ~ParallelAdders /\ KnownIndirect =>
          CoveredBy(Referenced \cap DOMAIN functions, indirectCallEffects)

EInv == EffectTypes /\ Resets /\ CoverInv

-----------------------------------------------------------------------------
(* What can be reached *)

\* The closure holds F and is left by no edge.
LEMMA ClosureFacts ==
  ASSUME NEW edges, \A g \in DOMAIN functions : edges[g] \subseteq DOMAIN functions,
         NEW F, F \subseteq DOMAIN functions
  PROVE  /\ F \subseteq Closure(F, edges) /\ Closure(F, edges) \subseteq DOMAIN functions
         /\ \A g \in Closure(F, edges) : edges[g] \subseteq Closure(F, edges)
  BY DEF Closure

\* It is the least set that does.
LEMMA ClosureLeast ==
  ASSUME NEW edges, NEW F, NEW S \in SUBSET DOMAIN functions,
         F \subseteq S, \A g \in S : edges[g] \subseteq S
  PROVE  Closure(F, edges) \subseteq S
  BY DEF Closure

LEMMA EntersFacts ==
  \A g \in DOMAIN functions :
     /\ Enters[g] = Direct(g) \cup Indirect(g)
     /\ Enters[g] \subseteq DOMAIN functions
  BY DEF Enters, Direct, Indirect

\* What is reached from something reached is reached.
LEMMA ClosureTrans ==
  ASSUME NEW F, F \subseteq DOMAIN functions, NEW g \in Closure(F, Enters)
  PROVE  Closure({g}, Enters) \subseteq Closure(F, Enters)
  <1>1. /\ Closure(F, Enters) \in SUBSET DOMAIN functions
        /\ \A h \in Closure(F, Enters) : Enters[h] \subseteq Closure(F, Enters)
    BY ClosureFacts, EntersFacts
  <1> QED BY <1>1, ClosureLeast

LEMMA ClosureKept ==
  ASSUME UNCHANGED functions
  PROVE  \A F : Closure(F, Enters)' = Closure(F, Enters)
  BY DEF Closure, Enters, Direct, Indirect

\* Effects that cover what is reached cover it after a step that adds no others.
LEMMA CoveredKept ==
  ASSUME UNCHANGED functions, NEW F, NEW X, NEW Y, CoveredBy(F, X), X \subseteq Y,
         \A g \in Defined : added'[g] \subseteq added[g] \cup Y
  PROVE  CoveredBy(F, Y)'
  <1>1. Closure(F, Enters)' = Closure(F, Enters) /\ Defined' = Defined
    BY ClosureKept DEF Defined
  <1> QED BY <1>1 DEF CoveredBy

-----------------------------------------------------------------------------
(* The cached effects: steps that compute none *)

\* A step that drops effects, or lets passes add those that are pending.
LEMMA CoverStep ==
  ASSUME CoverInv, UNCHANGED <<passes, functions, indirectCallEffects>>,
         \A f \in Defined : \/ effects'[f] = Unknown
                            \/ effects'[f] = effects[f] /\ Pending \subseteq Pending',
         \A f \in Defined : added'[f] \subseteq added[f] \cup Pending',
         ParallelAdders \/ \A f \in Defined : added'[f] = added[f]
  PROVE  CoverInv'
  <1>1. Defined' = Defined /\ (ParallelAdders' <=> ParallelAdders)
        /\ \A F : Closure(F, Enters)' = Closure(F, Enters)
    BY ClosureKept DEF Defined, ParallelAdders
  <1>2. ASSUME NEW f \in Defined, effects'[f] # Unknown,
               ~(ParallelAdders /\ Closure({f}, Enters) \cap IndirectCallers # {})
        PROVE  CoveredBy({f}, effects[f] \cup Pending)'
    <2>1. /\ effects'[f] = effects[f] /\ Pending \subseteq Pending'
          /\ CoveredBy({f}, effects[f] \cup Pending)
      BY <1>2 DEF CoverInv
    <2>2. PICK X, Y : X = effects[f] \cup Pending /\ Y = effects'[f] \cup Pending'
      OBVIOUS
    <2>3. X \subseteq Y /\ \A g \in Defined : added'[g] \subseteq added[g] \cup Y
      BY <2>1, <2>2
    <2>4. CoveredBy({f}, Y)'
      BY <2>1, <2>2, <2>3, CoveredKept
    <2> QED BY <2>2, <2>4 DEF CoveredBy
  <1>3. ASSUME ~ParallelAdders, KnownIndirect
        PROVE  CoveredBy(Referenced \cap DOMAIN functions, indirectCallEffects)'
    <2>1. PICK F, X : F = Referenced \cap DOMAIN functions /\ X = indirectCallEffects
      OBVIOUS
    <2>2. CoveredBy(F, X) /\ \A g \in Defined : added'[g] \subseteq added[g] \cup X
      BY <1>3, <2>1 DEF CoverInv
    <2>3. CoveredBy(F, X)'
      BY <2>2, CoveredKept
    <2> QED BY <2>1, <2>3 DEF CoveredBy
  <1>4. KnownIndirect' <=> KnownIndirect
    BY DEF KnownIndirect
  <1> QED BY <1>1, <1>2, <1>3, <1>4 DEF CoverInv

\* What Transform adds.
LEMMA TransformAdded ==
  ASSUME EffectTypes, UNCHANGED <<passes, functions>>,
         NEW F \in SUBSET DOMAIN functions, NEW pass \in PassesOf(passes),
         Transform(pass, F)
  PROVE  /\ added' \in [DOMAIN functions -> SUBSET PassesOf(passes)]
         /\ \A f \in DOMAIN functions :
              \/ added'[f] = added[f]
              \/ /\ f \in F /\ pass.addsEffects
                 /\ added'[f] = added[f] \cup {pass}
  BY DEF EffectTypes, Transform

\* What handleAfterEffects drops.
LEMMA HandleAfterFacts ==
  ASSUME EffectTypes, UNCHANGED <<passes, functions>>,
         NEW f \in DOMAIN functions, NEW pass, HandleAfterEffects(pass, f)
  PROVE  /\ effects' \in [DOMAIN functions -> Cached]
         /\ \A g \in DOMAIN functions :
               effects'[g] = IF pass.addsEffects /\ g = f THEN Unknown ELSE effects[g]
         /\ indirectCallEffects' = indirectCallEffects
  BY DEF EffectTypes, HandleAfterEffects, Cached

-----------------------------------------------------------------------------
(* The cached effects: the initial states and the quiet steps *)

LEMMA InitEInv ==
  ASSUME Init
  PROVE  EInv
  <1>1. /\ added = [f \in DOMAIN functions |-> {}]
        /\ effects = [f \in DOMAIN functions |-> Unknown]
        /\ indirectCallEffects = Unknown /\ pc = "run" /\ nextFunction = 0
    BY DEF Init
  <1>2. EffectTypes
    BY <1>1 DEF EffectTypes, Cached
  <1>3. Pending = {} /\ Resets
    BY <1>1 DEF Pending, Resets
  <1>4. CoverInv
    BY <1>1 DEF CoverInv, KnownIndirect, Defined
  <1> QED BY <1>2, <1>3, <1>4 DEF EInv

\* Where no function-parallel pass is under way nothing is pending.
LEMMA NothingPending ==
  ASSUME pc # "work", debug => nextFunction = 0
  PROVE  Pending = {} /\ (DOMAIN functions \subseteq Nat \ {0} => Resets)
  <1>1. Pending = {}
    BY DEF Pending
  <1> QED BY <1>1 DEF Resets

\* A step that leaves code and effects alone, and nothing pending behind.
LEMMA QuietCover ==
  ASSUME EffectTypes, CoverInv, UNCHANGED <<passes, functions, codeVars>>,
         \/ Pending \subseteq Pending'
         \/ \A f \in Defined : effects[f] = Unknown
  PROVE  EffectTypes' /\ CoverInv'
  <1>1. /\ UNCHANGED <<passes, functions>>
        /\ UNCHANGED <<added, effects, indirectCallEffects>>
    BY DEF codeVars
  <1>2. EffectTypes'
    BY <1>1 DEF EffectTypes, Defined, Cached, PassesOf
  <1>3. CoverInv'
    BY <1>1, CoverStep
  <1> QED BY <1>2, <1>3

LEMMA PushEInv ==
  ASSUME PInv, EInv, Push
  PROVE  EInv'
  <1>1. /\ pc = "run" /\ ~debug
        /\ UNCHANGED <<debug, passes, functions, pc, nextFunction, codeVars>>
    BY DEF Push, runVars
  <1>2. Pending = {} /\ Resets'
    BY <1>1 DEF Pending, Resets
  <1> QED BY <1>1, <1>2, QuietCover DEF EInv

LEMMA FlushEInv ==
  ASSUME PInv, EInv, Flush
  PROVE  EInv'
  <1>1. /\ pc = "run" /\ ~debug /\ nextFunction' = 0
        /\ worker' = [w \in Workers |-> [Idle EXCEPT !.step = "claim"]]
        /\ UNCHANGED <<debug, passes, functions, codeVars>>
    BY DEF Flush, runVars
  <1>2. Pending = {}
    BY <1>1 DEF Pending
  <1>3. \A w \in Workers : ~At(w)'
    BY <1>1 DEF At, Idle
  <1>4. \A f \in Defined' : ~(f <= 0)
    BY <1>1, PipelineFacts DEF PInv, Types, Defined
  <1>5. Resets'
    BY <1>1, <1>3, <1>4 DEF Resets
  <1> QED BY <1>1, <1>2, <1>5, QuietCover DEF EInv

LEMMA FlushReturnsEInv ==
  ASSUME PInv, EInv, FlushReturns
  PROVE  EInv'
  <1>1. /\ pc = "work" /\ pc' = "run"
        /\ \A w \in Workers : worker[w].step = "finished"
        /\ UNCHANGED <<debug, passes, functions, nextFunction, codeVars>>
    BY DEF FlushReturns, runVars
  <1>2. ~debug /\ Pending' = {} /\ Resets'
    BY <1>1, WorkerFacts DEF Pending, Resets
  <1>3. NumFunctions <= nextFunction
    BY <1>1, WorkersAssumption DEF PInv, WorkersInv
  <1>4. \A f \in Defined : f <= nextFunction
    BY <1>1, <1>3, WorkerFacts DEF PInv, Types
  <1>5. \A w \in Workers : ~At(w)
    BY <1>1 DEF At
  <1>6. CASE Pending # {}
    <2>1. \E k \in DOMAIN stack : stack[k] \in Pending
      BY <1>1, <1>2, <1>6 DEF Pending
    <2>2. \A f \in Defined : effects[f] = Unknown
      BY <1>1, <1>4, <1>5, <2>1 DEF EInv, Resets
    <2> QED BY <1>1, <1>2, <2>2, QuietCover DEF EInv
  <1>7. CASE Pending = {}
    BY <1>1, <1>2, <1>7, QuietCover DEF EInv
  <1> QED BY <1>6, <1>7

LEMMA FinishEInv ==
  ASSUME PInv, EInv, Finish
  PROVE  EInv'
  <1>1. /\ pc = "run" /\ pc' = "done"
        /\ UNCHANGED <<debug, passes, at, functions, nextFunction, codeVars>>
    BY DEF Finish, runVars
  <1>2. Pending' = Pending /\ Resets'
    BY <1>1 DEF Pending, Resets, EInv, PassesOf, Defined, codeVars
  <1> QED BY <1>1, <1>2, QuietCover DEF EInv

-----------------------------------------------------------------------------
(* The cached effects: the workers *)

\* The worker's next function is one that nobody has been through.
LEMMA ClaimEInv ==
  ASSUME PInv, EInv, NEW w \in Workers, Claim(w)
  PROVE  EInv'
  <1>0. PICK f : f = nextFunction + 1
    OBVIOUS
  <1>1. /\ pc = "work" /\ worker[w].step = "claim" /\ nextFunction' = f
        /\ \/ /\ f \in Defined
              /\ worker' = [worker EXCEPT ![w] = [step |-> "pass", func |-> f, pass |-> 1]]
           \/ /\ f \notin Defined
              /\ worker' = [worker EXCEPT ![w] = [step |-> "claim", func |-> 1, pass |-> 1]]
           \/ /\ f \notin Defined
              /\ worker' = [worker EXCEPT ![w] = [step |-> "finished", func |-> 1, pass |-> 1]]
        /\ \A v \in Workers : v # w => worker'[v] = worker[v]
    BY <1>0, ClaimWorkers
  <1>2. /\ UNCHANGED <<debug, passes, at, functions, stack, pc, codeVars>>
        /\ ~debug /\ Pending' = Pending /\ Defined' = Defined
    BY <1>1, WorkerFacts DEF Claim, runVars, Pending, PassesOf, Defined
  <1>3. worker \in [Workers -> [step : {"claim", "pass", "after", "finished"},
                                func : 1..NumFunctions + 1, pass : Nat]]
    BY DEF PInv, Types
  <1>4. \/ /\ f \in Defined /\ At(w)' /\ worker'[w].func = f /\ worker'[w].pass = 1
        \/ f \notin Defined /\ ~At(w)'
    BY <1>1, <1>3 DEF At
  <1>5. ~At(w) /\ \A v \in Workers : v # w => (At(v)' <=> At(v))
    BY <1>1 DEF At
  <1>6. \A g \in Defined : g <= nextFunction' => g <= nextFunction \/ g = f
    BY <1>0, <1>1, WorkerFacts DEF PInv, Types
  <1>7. DOMAIN stack \subseteq Nat \ {0}
    BY <1>1, WorkerFacts
  <1>8. ASSUME NEW g \in Defined, NEW k \in DOMAIN stack, stack[k] \in Pending
        PROVE  /\ \A v \in Workers :
                     At(v)' /\ worker'[v].func = g /\ k < worker'[v].pass =>
                         effects[g] = Unknown
               /\ g <= nextFunction' /\ ~(\E v \in Workers : At(v)' /\ worker'[v].func = g) =>
                     effects[g] = Unknown
    <2>1. ASSUME NEW v \in Workers, At(v)', worker'[v].func = g, k < worker'[v].pass
          PROVE  effects[g] = Unknown
      <3>1. CASE v = w
        BY <1>4, <1>7, <2>1, <3>1
      <3>2. CASE v # w
        BY <1>1, <1>5, <1>8, <2>1, <3>2 DEF EInv, Resets
      <3> QED BY <3>1, <3>2
    <2>2. ASSUME g <= nextFunction', ~(\E v \in Workers : At(v)' /\ worker'[v].func = g)
          PROVE  effects[g] = Unknown
      <3>1. g # f /\ g <= nextFunction
        BY <1>4, <1>6, <2>2
      <3>2. ~(\E v \in Workers : At(v) /\ worker[v].func = g)
        BY <1>1, <1>5, <2>2
      <3> QED BY <1>1, <1>8, <3>1, <3>2 DEF EInv, Resets
    <2> QED BY <2>1, <2>2
  <1>9. Resets'
    BY <1>2, <1>8 DEF Resets, codeVars
  <1> QED BY <1>2, <1>9, QuietCover DEF EInv

\* A worker that goes on has dropped what the pass it is through with may add to.
LEMMA NextPassResets ==
  ASSUME PInv, Resets, NEW w \in Workers, At(w), NextPass(w),
         UNCHANGED <<runVars, at, stack, pc, nextFunction>>,
         \A g \in Defined : effects'[g] \in {effects[g], Unknown},
         \A k \in DOMAIN stack :
            /\ k < worker[w].pass \/ k = worker[w].pass
            /\ stack[k] \in Pending
            => effects'[worker[w].func] = Unknown
  PROVE  Resets'
  <1>0. PICK f, p : f = worker[w].func /\ p = worker[w].pass
    OBVIOUS
  <1>1. /\ pc = "work" /\ f \in Defined /\ p \in 1..Len(stack)
        /\ \A v \in Workers : v # w => worker'[v] = worker[v]
        /\ \/ /\ worker'[w].step = "pass"
              /\ worker'[w].pass = p + 1 /\ worker'[w].func = f
           \/ p = Len(stack) /\ worker'[w].step \in {"claim", "finished"}
    BY <1>0, NextPassWorkers
  <1>4. pc = "work"
    BY <1>1
  <1>2. /\ UNCHANGED <<debug, passes, functions, at, stack, pc, nextFunction>>
        /\ ~debug /\ Pending' = Pending /\ Defined' = Defined
    BY <1>4, WorkerFacts DEF runVars, Pending, PassesOf, Defined
  <1>5. /\ \A k \in DOMAIN stack : k < p + 1 => k < p \/ k = p
        /\ p = Len(stack) => \A k \in DOMAIN stack : k < p \/ k = p
    <2>1. /\ \A n \in Nat : \A k, q \in 1..n : k < q + 1 => k < q \/ k = q
          /\ \A n \in Nat : \A k \in 1..n : k < n \/ k = n
      OBVIOUS
    <2>2. DOMAIN stack = 1..Len(stack) /\ Len(stack) \in Nat
      BY <1>4, WorkerFacts
    <2> QED BY <1>1, <2>1, <2>2, Zenon
  <1>3. \A v \in Workers : v # w => (At(v)' <=> At(v)) /\ worker'[v] = worker[v]
    BY <1>1 DEF At
  <1>6. ASSUME NEW g \in Defined, NEW k \in DOMAIN stack, stack[k] \in Pending
        PROVE  /\ \A v \in Workers :
                     At(v)' /\ worker'[v].func = g /\ k < worker'[v].pass =>
                         effects'[g] = Unknown
               /\ g <= nextFunction /\ ~(\E v \in Workers : At(v)' /\ worker'[v].func = g) =>
                     effects'[g] = Unknown
    <2>1. ASSUME NEW v \in Workers, At(v)', worker'[v].func = g, k < worker'[v].pass
          PROVE  effects'[g] = Unknown
      <3>1. CASE v = w
        <4>1. worker'[w].pass = p + 1 /\ g = f
          BY <1>1, <2>1, <3>1 DEF At
        <4>2. k < p \/ k = p
          BY <1>5, <2>1, <3>1, <4>1
        <4> QED BY <1>0, <1>6, <4>1, <4>2
      <3>2. CASE v # w
        <4>1. effects[g] = Unknown
          BY <1>1, <1>3, <1>6, <2>1, <3>2 DEF Resets
        <4> QED BY <4>1
      <3> QED BY <3>1, <3>2
    <2>2. ASSUME g <= nextFunction, ~(\E v \in Workers : At(v)' /\ worker'[v].func = g)
          PROVE  effects'[g] = Unknown
      <3>1. CASE g = f
        <4>1. ~At(w)'
          BY <1>1, <2>2, <3>1 DEF At
        <4>2. k < p \/ k = p
          BY <1>1, <1>5, <4>1 DEF At
        <4> QED BY <1>0, <1>6, <3>1, <4>2
      <3>2. CASE g # f
        <4>1. ~(\E v \in Workers : At(v) /\ worker[v].func = g)
          BY <1>0, <1>3, <2>2, <3>2
        <4>2. effects[g] = Unknown
          BY <1>1, <1>6, <2>2, <4>1 DEF Resets
        <4> QED BY <4>2
      <3> QED BY <3>1, <3>2
    <2> QED BY <2>1, <2>2
  <1> QED BY <1>2, <1>6 DEF Resets

LEMMA RunPassOnFunctionEInv ==
  ASSUME PInv, EInv, NEW w \in Workers, RunPassOnFunction(w)
  PROVE  EInv'
  <1>0. PICK f, p, pass : f = worker[w].func /\ p = worker[w].pass /\ pass = stack[p]
    OBVIOUS
  <1>1. /\ worker[w].step = "pass" /\ At(w)
        /\ UNCHANGED <<runVars, at, stack, pc, nextFunction>>
        /\ UNCHANGED <<debug, passes, functions, effects, indirectCallEffects>>
    BY DEF RunPassOnFunction, At, runVars
  <1>2. pc = "work" /\ f \in Defined /\ p \in DOMAIN stack
    BY <1>0, <1>1 DEF PInv, WorkersInv
  <1>3. /\ ~debug /\ Pending' = Pending /\ Defined' = Defined
        /\ f \in DOMAIN functions
    BY <1>1, <1>2, WorkerFacts DEF Pending, PassesOf, Defined
  <1>4. /\ p \in 1..Len(stack) /\ pass \in PassesOf(passes) /\ pass.parallel
        /\ Base + p \in DOMAIN passes /\ pass = passes[Base + p]
    BY <1>0, <1>2, WorkerFacts, PipelineFacts DEF PInv
  <1>5. CASE RunsOn(pass, f)
    <2>1. Transform(pass, {f}) /\ worker' = [worker EXCEPT ![w].step = "after"]
      BY <1>0, <1>5 DEF RunPassOnFunction
    <2>2. /\ added' \in [DOMAIN functions -> SUBSET PassesOf(passes)]
          /\ \A g \in DOMAIN functions :
                \/ added'[g] = added[g]
                \/ pass.addsEffects /\ added'[g] = added[g] \cup {pass}
      <3>1. PICK F : F = {f} /\ F \in SUBSET DOMAIN functions
        BY <1>3
      <3>2. EffectTypes /\ Transform(pass, F) /\ UNCHANGED <<passes, functions>>
        BY <1>1, <2>1, <3>1 DEF EInv
      <3>3. pass \in PassesOf(passes) /\ F \in SUBSET DOMAIN functions
        BY <1>4, <3>1
      <3>4. added' \in [DOMAIN functions -> SUBSET PassesOf(passes)]
        BY <3>2, <3>3, TransformAdded
      <3>5. \A g \in DOMAIN functions :
                \/ added'[g] = added[g]
                \/ pass.addsEffects /\ added'[g] = added[g] \cup {pass}
        BY <3>2, <3>3, TransformAdded
      <3> QED BY <3>4, <3>5
    <2>3. EffectTypes'
      BY <1>1, <2>2 DEF EInv, EffectTypes, Defined, Cached, PassesOf
    <2>4. \A v \in Workers : /\ At(v)' <=> At(v)
                             /\ worker'[v].func = worker[v].func
                             /\ worker'[v].pass = worker[v].pass
      BY <1>1, <2>1 DEF PInv, Types, At
    <2>5. Resets'
      BY <1>1, <1>2, <1>3, <2>4 DEF EInv, Resets
    <2>6. pass.addsEffects => pass \in Pending /\ ParallelAdders
      BY <1>0, <1>2, <1>4, <1>5 DEF Pending, ParallelAdders, RunsOn
    <2>7. CoverInv'
      BY <1>1, <1>3, <2>2, <2>6, CoverStep DEF EInv, Defined
    <2> QED BY <2>3, <2>5, <2>7 DEF EInv
  <1>6. CASE ~RunsOn(pass, f)
    <2>1. NextPass(w) /\ UNCHANGED <<passes, functions, codeVars>>
      BY <1>0, <1>1, <1>6 DEF RunPassOnFunction, codeVars
    <2>2. stack[p] \notin Pending
      <3>1. IsPass(pass)
        BY <1>4, PipelinesAssumption DEF PInv, Types
      <3>2. pass.addsEffects => f \in pass.relevant
        BY <1>3, <1>4, <3>1 DEF IsPass, PInv, Types
      <3> QED BY <1>0, <1>6, <3>2 DEF Pending, RunsOn
    <2>3. \A k \in DOMAIN stack : k < p /\ stack[k] \in Pending => effects[f] = Unknown
      BY <1>0, <1>1, <1>2 DEF EInv, Resets
    <2>4. Resets'
      BY <1>0, <1>1, <2>1, <2>2, <2>3, NextPassResets DEF EInv
    <2> QED BY <1>3, <2>1, <2>4, QuietCover DEF EInv
  <1> QED BY <1>5, <1>6

LEMMA AfterPassEInv ==
  ASSUME PInv, EInv, NEW w \in Workers, AfterPass(w)
  PROVE  EInv'
  <1>0. PICK f, p, pass : f = worker[w].func /\ p = worker[w].pass /\ pass = stack[p]
    OBVIOUS
  <1>1. /\ worker[w].step = "after" /\ At(w) /\ NextPass(w)
        /\ HandleAfterEffects(pass, f)
        /\ UNCHANGED <<runVars, at, stack, pc, nextFunction>>
        /\ UNCHANGED <<debug, passes, functions, added>>
    BY <1>0 DEF AfterPass, At, runVars
  <1>2. pc = "work" /\ f \in Defined /\ p \in DOMAIN stack
    BY <1>0, <1>1 DEF PInv, WorkersInv
  <1>3. /\ ~debug /\ Pending' = Pending /\ Defined' = Defined
        /\ f \in DOMAIN functions
    BY <1>1, <1>2, WorkerFacts DEF Pending, PassesOf, Defined
  <1>4. /\ effects' \in [DOMAIN functions -> Cached]
        /\ \A g \in DOMAIN functions :
              effects'[g] = IF pass.addsEffects /\ g = f THEN Unknown ELSE effects[g]
        /\ indirectCallEffects' = indirectCallEffects
    BY <1>1, <1>3, HandleAfterFacts DEF EInv
  <1>5. EffectTypes'
    BY <1>1, <1>4 DEF EInv, EffectTypes, Defined, Cached, PassesOf
  <1>6. \A g \in Defined : effects'[g] = effects[g] \/ effects'[g] = Unknown
    BY <1>4 DEF Defined
  <1>7. Resets'
    <2>1. \A k \in DOMAIN stack : k < p /\ stack[k] \in Pending => effects[f] = Unknown
      BY <1>0, <1>1, <1>2 DEF EInv, Resets
    <2>2. stack[p] \in Pending => effects'[f] = Unknown
      BY <1>0, <1>3, <1>4 DEF Pending
    <2>3. \A k \in DOMAIN stack : (k < p \/ k = p) /\ stack[k] \in Pending =>
             effects'[f] = Unknown
      BY <1>2, <1>6, <2>1, <2>2
    <2> QED BY <1>0, <1>1, <1>6, <2>3, NextPassResets DEF EInv
  <1>8. CoverInv'
    BY <1>1, <1>3, <1>4, <1>6, CoverStep DEF EInv
  <1> QED BY <1>5, <1>7, <1>8 DEF EInv

-----------------------------------------------------------------------------
(* The cached effects: debug mode *)

LEMMA DebugParallelPassEInv ==
  ASSUME PInv, EInv, DebugParallelPass
  PROVE  EInv'
  <1>0. PICK f, pass : f = nextFunction + 1 /\ pass = passes[at]
    OBVIOUS
  <1>1. /\ pc = "run" /\ debug /\ at <= Len(passes) /\ pass.parallel
        /\ UNCHANGED <<debug, passes, functions, pc>>
        /\ f > NumFunctions => at' = at + 1 /\ nextFunction' = 0 /\ UNCHANGED codeVars
        /\ ~(f > NumFunctions) => nextFunction' = f /\ at' = at
    BY <1>0 DEF DebugParallelPass, AtParallel, runVars, NumFunctions
  <1>2. /\ at \in DOMAIN passes /\ pass \in PassesOf(passes) /\ IsPass(pass)
        /\ NumFunctions \in Nat /\ DOMAIN functions = 1..NumFunctions
        /\ Defined \subseteq 1..NumFunctions /\ Defined' = Defined
        /\ nextFunction \in 0..NumFunctions
    BY <1>0, <1>1, PipelineFacts DEF PInv, Types, DebugInv, Defined
  <1>3. CASE f > NumFunctions
    <2>1. Pending' = {} /\ Resets'
      BY <1>1, <1>2, <1>3 DEF Pending, Resets
    <2>2. \A g \in Defined : g <= nextFunction
      BY <1>0, <1>2, <1>3
    <2>3. CASE pass \in Pending
      BY <1>0, <1>1, <1>3, <2>1, <2>2, <2>3, QuietCover DEF EInv, Resets
    <2>4. CASE pass \notin Pending
      <3>1. Pending = {}
        BY <1>0, <1>1, <2>4 DEF Pending
      <3> QED BY <1>1, <1>3, <2>1, <3>1, QuietCover DEF EInv
    <2> QED BY <2>3, <2>4
  <1>4. CASE ~(f > NumFunctions)
    <2>1. /\ nextFunction' = f /\ f # 0 /\ passes'[at'] = pass
          /\ \A g \in Defined :
                g <= f /\ g # f => g <= nextFunction /\ nextFunction # 0
      <3>1. nextFunction' = f /\ passes'[at'] = pass /\ f \in Nat /\ f # 0
        BY <1>0, <1>1, <1>2, <1>4
      <3>2. \A g \in 1..NumFunctions :
                g <= f /\ g # f => g <= nextFunction /\ nextFunction # 0
        BY <1>0, <1>2
      <3> QED BY <1>2, <3>1, <3>2
    <2>2. Pending \subseteq Pending' /\ Pending' \subseteq {pass}
      BY <1>0, <1>1, <1>2, <1>4, <2>1 DEF Pending, PassesOf
    <2>3. pass \in Pending' => pass.addsEffects /\ ~pass.skipped
      BY DEF Pending
    <2>4. \A g \in Defined : g # f /\ g <= f /\ pass \in Pending' => effects[g] = Unknown
      <3>1. pass \in Pending' /\ nextFunction # 0 => pass \in Pending
        BY <1>0, <1>1, <1>2, <2>3 DEF Pending
      <3> QED BY <1>0, <1>1, <2>1, <3>1 DEF EInv, Resets
    <2>5. CASE f \in Defined /\ RunsOn(pass, f)
      <3>1. Transform(pass, {f}) /\ HandleAfterEffects(pass, f)
        BY <1>0, <1>4, <2>5 DEF DebugParallelPass, NumFunctions
      <3>2. PICK F : F = {f} /\ F \in SUBSET DOMAIN functions
        BY <2>5 DEF Defined
      <3>3. EffectTypes /\ Transform(pass, F) /\ UNCHANGED <<passes, functions>>
            /\ f \in DOMAIN functions
        BY <1>1, <2>5, <3>1, <3>2 DEF EInv, Defined
      <3>4. added' \in [DOMAIN functions -> SUBSET PassesOf(passes)]
        BY <1>2, <3>2, <3>3, TransformAdded
      <3>5. \A g \in DOMAIN functions :
                \/ added'[g] = added[g]
                \/ pass.addsEffects /\ added'[g] = added[g] \cup {pass}
        BY <1>2, <3>2, <3>3, TransformAdded
      <3>6. /\ effects' \in [DOMAIN functions -> Cached]
            /\ \A g \in DOMAIN functions :
                  effects'[g] = IF pass.addsEffects /\ g = f THEN Unknown ELSE effects[g]
            /\ indirectCallEffects' = indirectCallEffects
        BY <3>1, <3>3, HandleAfterFacts
      <3>7. EffectTypes'
        BY <1>1, <3>4, <3>6 DEF EInv, EffectTypes, Defined, Cached, PassesOf
      <3>8. \A g \in Defined : effects'[g] = effects[g] \/ effects'[g] = Unknown
        BY <3>6 DEF Defined
      <3>9. pass \in Pending' => effects'[f] = Unknown
        BY <2>3, <3>3, <3>6
      <3>10. Resets'
        <4>1. \A g \in Defined : g <= f /\ pass \in Pending' => effects'[g] = Unknown
          BY <2>4, <3>8, <3>9
        <4> QED BY <1>1, <1>2, <2>1, <4>1 DEF Resets
      <3>11. pass.addsEffects => pass \in Pending' /\ ParallelAdders
        BY <1>0, <1>1, <1>2, <2>1, <2>5 DEF Pending, ParallelAdders, RunsOn, PassesOf
      <3>12. CoverInv'
        <4>1. \A g \in Defined : added'[g] \subseteq added[g] \cup Pending'
          BY <3>5, <3>11 DEF Defined
        <4>2. ParallelAdders \/ \A g \in Defined : added'[g] = added[g]
          BY <3>5, <3>11 DEF Defined
        <4> QED BY <1>1, <2>2, <3>6, <3>8, <4>1, <4>2, CoverStep DEF EInv
      <3> QED BY <3>7, <3>10, <3>12 DEF EInv
    <2>6. CASE ~(f \in Defined /\ RunsOn(pass, f))
      <3>1. UNCHANGED <<passes, functions, codeVars>> /\ effects' = effects
        BY <1>0, <1>1, <1>4, <2>6 DEF DebugParallelPass, NumFunctions, codeVars
      <3>2. f \in Defined => pass \notin Pending'
        <4>1. f \in Defined /\ pass.addsEffects => f \in pass.relevant
          BY <1>1, <1>2 DEF IsPass, PInv, Types, Defined
        <4> QED BY <2>3, <2>6, <4>1 DEF RunsOn
      <3>3. \A g \in Defined : g <= f /\ pass \in Pending' => effects[g] = Unknown
        BY <2>4, <3>2
      <3>4. Resets'
        BY <1>1, <1>2, <2>1, <3>1, <3>3 DEF Resets
      <3> QED BY <2>2, <3>1, <3>4, QuietCover DEF EInv
    <2> QED BY <2>5, <2>6
  <1> QED BY <1>3, <1>4

-----------------------------------------------------------------------------
(* The cached effects: computing them *)

LEMMA CallGraphFacts ==
  \A h \in DOMAIN functions :
     /\ CallGraph[h] \subseteq DOMAIN functions
     /\ LooksThrough(h) => Direct(h) \subseteq CallGraph[h]
     /\ LooksThrough(h) /\ ~KnownIndirect => Indirect(h) \subseteq CallGraph[h]
  BY EntersFacts DEF CallGraph, Direct

\* Known effects that are propagated hold those of every body the call graph leads
\* to, and those of the calls that are not looked through.
LEMMA PropagatedFacts ==
  ASSUME NEW F, F \subseteq DOMAIN functions, NEW X, X = Propagated(F), X # Unknown
  PROVE  \A h \in Closure(F, CallGraph) :
            /\ h \in Defined /\ added[h] \subseteq X
            /\ \A g \in Direct(h) : effects[g] # Unknown => effects[g] \subseteq X
            /\ h \in IndirectCallers /\ KnownIndirect => indirectCallEffects \subseteq X
  <1>1. \A h \in Closure(F, CallGraph) : BodyEffects(h) # Unknown /\ BodyEffects(h) \subseteq X
    BY DEF Propagated, Merge
  <1>2. SUFFICES ASSUME NEW h \in Closure(F, CallGraph)
                 PROVE  /\ h \in Defined /\ added[h] \subseteq X
                        /\ \A g \in Direct(h) : effects[g] # Unknown => effects[g] \subseteq X
                        /\ h \in IndirectCallers /\ KnownIndirect =>
                              indirectCallEffects \subseteq X
    OBVIOUS
  <1> DEFINE known == {effects[g] : g \in Direct(h)} \cup
                      IF h \in IndirectCallers THEN {indirectCallEffects} ELSE {}
  <1>3. h \in Defined
    BY <1>1 DEF BodyEffects
  <1>4. BodyEffects(h) = added[h] \cup UNION (known \ {Unknown})
    BY <1>3 DEF BodyEffects
  <1>5. \A E \in known : E # Unknown => E \subseteq X
    BY <1>1, <1>4
  <1>6. added[h] \subseteq X
    BY <1>1, <1>4
  <1>7. \A g \in Direct(h) : effects[g] \in known
    OBVIOUS
  <1>8. h \in IndirectCallers => indirectCallEffects \in known
    OBVIOUS
  <1> HIDE DEF known
  <1> QED BY <1>3, <1>5, <1>6, <1>7, <1>8 DEF KnownIndirect

LEMMA PropagatedTypes ==
  ASSUME EffectTypes, NEW F, F \subseteq DOMAIN functions
  PROVE  /\ Propagated(F) \in Cached
         /\ \A f \in F : Propagated(F) # Unknown => f \in Defined
  <1>1. Closure(F, CallGraph) \subseteq DOMAIN functions /\ F \subseteq Closure(F, CallGraph)
    BY CallGraphFacts, ClosureFacts
  <1>2. ASSUME NEW h \in DOMAIN functions
        PROVE  BodyEffects(h) \in Cached
    <2> DEFINE known == {effects[g] : g \in Direct(h)} \cup
                        IF h \in IndirectCallers THEN {indirectCallEffects} ELSE {}
    <2>1. \A E \in known : E \in Cached
      BY DEF EffectTypes, Direct
    <2>2. BodyEffects(h) \in {added[h] \cup UNION (known \ {Unknown}), Unknown}
      BY DEF BodyEffects
    <2> HIDE DEF known
    <2>3. UNION (known \ {Unknown}) \subseteq PassesOf(passes)
      BY <2>1 DEF Cached
    <2>4. added[h] \subseteq PassesOf(passes)
      BY DEF EffectTypes
    <2> QED BY <2>2, <2>3, <2>4 DEF Cached
  <1>3. Propagated(F) \in Cached
    <2> DEFINE S == {BodyEffects(h) : h \in Closure(F, CallGraph)}
    <2>1. \A E \in S : E \in Cached
      BY <1>1, <1>2
    <2>2. Propagated(F) = IF Unknown \in S THEN Unknown ELSE UNION S
      BY DEF Propagated, Merge
    <2> HIDE DEF S
    <2>3. Unknown \notin S => UNION S \subseteq PassesOf(passes)
      BY <2>1 DEF Cached
    <2> QED BY <2>2, <2>3 DEF Cached
  <1> QED BY <1>1, <1>3, PropagatedFacts

\* What covers the functions reached from F covers those reached from any of them.
LEMMA CoveredSubset ==
  ASSUME NEW F, F \subseteq DOMAIN functions, NEW X, NEW Y, X \subseteq Y,
         CoveredBy(F, X), NEW g \in Closure(F, Enters)
  PROVE  CoveredBy({g}, Y)
  BY ClosureTrans DEF CoveredBy

\* Computed effects cover all that can be reached: what the call graph leads to by
\* the bodies there, the rest by the caches that end the search.
LEMMA ComputedCovers ==
  ASSUME EffectTypes, CoverInv, Pending = {},
         NEW F, F \subseteq DOMAIN functions, NEW X, X = Propagated(F), X # Unknown,
         ~(ParallelAdders /\ Closure(F, Enters) \cap IndirectCallers # {})
  PROVE  CoveredBy(F, X)
  <1> DEFINE R == Closure(F, CallGraph)
             A == Closure(F, Enters)
             Z == {h \in A : h \in R \/ CoveredBy({h}, X)}
  <1>1. /\ F \subseteq R /\ R \subseteq DOMAIN functions
        /\ \A h \in R : CallGraph[h] \subseteq R
    BY CallGraphFacts, ClosureFacts
  <1>2. /\ F \subseteq A /\ A \subseteq DOMAIN functions
        /\ \A h \in A : Enters[h] \subseteq A
    BY EntersFacts, ClosureFacts
  <1>3. \A h \in R :
           /\ h \in Defined /\ added[h] \subseteq X
           /\ \A g \in Direct(h) : effects[g] # Unknown => effects[g] \subseteq X
           /\ h \in IndirectCallers /\ KnownIndirect => indirectCallEffects \subseteq X
    BY PropagatedFacts
  <1>4. \A g \in DOMAIN functions : g \in Closure({g}, Enters)
    BY EntersFacts, ClosureFacts
  <1>5. ASSUME NEW h \in Z, NEW g \in Enters[h]
        PROVE  g \in Z
    <2>1. g \in A /\ g \in DOMAIN functions
      BY <1>2
    <2>2. CASE CoveredBy({h}, X)
      <3>1. /\ {h} \subseteq DOMAIN functions /\ g \in Closure({h}, Enters)
        <4>1. {h} \subseteq DOMAIN functions
          BY <1>2
        <4>2. h \in Closure({h}, Enters) /\ Enters[h] \subseteq Closure({h}, Enters)
          BY <4>1, EntersFacts, ClosureFacts
        <4> QED BY <4>1, <4>2
      <3> QED BY <2>1, <2>2, <3>1, CoveredSubset
    <2>3. CASE h \in R /\ g \in Direct(h)
      <3>1. CASE LooksThrough(h)
        BY <1>1, <2>1, <2>3, <3>1, CallGraphFacts
      <3>2. CASE ~LooksThrough(h)
        <4>1. effects[g] # Unknown /\ effects[g] \subseteq X /\ g \in Defined
          BY <1>3, <2>1, <2>3, <3>2 DEF LooksThrough, EffectTypes
        <4>2. Closure({g}, Enters) \subseteq A
          BY <2>1, ClosureTrans
        <4>3. CoveredBy({g}, effects[g] \cup Pending)
          BY <4>1, <4>2 DEF CoverInv
        <4>4. CoveredBy({g}, X)
          BY <4>1, <4>3 DEF CoveredBy
        <4> QED BY <2>1, <4>4
      <3> QED BY <3>1, <3>2
    <2>4. CASE h \in R /\ g \in Indirect(h)
      <3>1. h \in IndirectCallers /\ g \in Referenced \cap DOMAIN functions
        BY <2>4 DEF Indirect
      <3>2. ~ParallelAdders
        BY <3>1
      <3>3. CASE ~KnownIndirect
        <4>1. LooksThrough(h)
          BY <3>1, <3>3 DEF LooksThrough
        <4> QED BY <1>1, <2>1, <2>4, <3>3, <4>1, CallGraphFacts
      <3>4. CASE KnownIndirect
        <4>1. PICK C : C = Referenced \cap DOMAIN functions
          OBVIOUS
        <4>2. CoveredBy(C, indirectCallEffects) /\ indirectCallEffects \subseteq X
          BY <1>3, <2>4, <3>1, <3>2, <3>4, <4>1 DEF CoverInv
        <4>3. C \subseteq DOMAIN functions /\ g \in Closure(C, Enters)
          BY <3>1, <4>1, EntersFacts, ClosureFacts
        <4>4. CoveredBy({g}, X)
          BY <4>2, <4>3, CoveredSubset
        <4> QED BY <2>1, <4>4
      <3> QED BY <3>3, <3>4
    <2>5. g \in Direct(h) \/ g \in Indirect(h)
      BY <1>2, EntersFacts
    <2> QED BY <2>2, <2>3, <2>4, <2>5
  <1>6. A \subseteq Z
    <2>1. Z \in SUBSET DOMAIN functions /\ F \subseteq Z
      BY <1>1, <1>2
    <2> HIDE DEF Z
    <2> QED BY <1>5, <2>1, ClosureLeast
  <1>7. ASSUME NEW h \in A
        PROVE  h \in Defined /\ added[h] \subseteq X
    <2>1. h \in R \/ CoveredBy({h}, X)
      BY <1>6
    <2> QED BY <1>2, <1>3, <1>4, <2>1 DEF CoveredBy
  <1> QED BY <1>7 DEF CoveredBy

LEMMA ComputeEffectsCover ==
  ASSUME EffectTypes, CoverInv, Pending = {}, ComputeEffects,
         UNCHANGED <<passes, functions, added>>
  PROVE  EffectTypes' /\ CoverInv'
  <1>1. /\ DOMAIN effects = DOMAIN functions
        /\ effects' = [f \in DOMAIN functions |-> Propagated({f})]
        /\ indirectCallEffects' \in {Propagated(Referenced \cap DOMAIN functions), Unknown}
    BY DEF EffectTypes, ComputeEffects
  <1>2. \A f \in DOMAIN functions :
           /\ effects'[f] \in Cached
           /\ effects'[f] # Unknown => f \in Defined
    <2>1. ASSUME NEW f \in DOMAIN functions
          PROVE  Propagated({f}) \in Cached /\ (Propagated({f}) # Unknown => f \in Defined)
      <3>1. PICK F : F = {f} /\ F \subseteq DOMAIN functions
        OBVIOUS
      <3>2. Propagated(F) \in Cached /\ (Propagated(F) # Unknown => f \in Defined)
        BY <3>1, PropagatedTypes
      <3> QED BY <3>1, <3>2
    <2> QED BY <1>1, <2>1
  <1>3. indirectCallEffects' \in Cached
    <2>1. PICK F : F = Referenced \cap DOMAIN functions
      OBVIOUS
    <2>2. Propagated(F) \in Cached /\ Unknown \in Cached
      BY <2>1, PropagatedTypes DEF Cached
    <2> QED BY <1>1, <2>1, <2>2
  <1>4. EffectTypes'
    BY <1>1, <1>2, <1>3 DEF EffectTypes, Cached, PassesOf, Defined
  <1>5. Defined' = Defined /\ (ParallelAdders' <=> ParallelAdders)
        /\ \A F : Closure(F, Enters)' = Closure(F, Enters)
    BY ClosureKept DEF Defined, ParallelAdders
  <1>6. ASSUME NEW F, F \subseteq DOMAIN functions, NEW X, NEW Y,
               X = Propagated(F), X # Unknown, X \subseteq Y,
               ~(ParallelAdders /\ Closure(F, Enters) \cap IndirectCallers # {})
        PROVE  CoveredBy(F, Y)'
    <2>1. CoveredBy(F, X)
      BY <1>6, ComputedCovers
    <2> QED BY <1>6, <2>1, CoveredKept
  <1>7. ASSUME NEW f \in Defined, effects'[f] # Unknown,
               ~(ParallelAdders /\ Closure({f}, Enters) \cap IndirectCallers # {})
        PROVE  CoveredBy({f}, effects[f] \cup Pending)'
    <2>1. PICK F, X, Y : /\ F = {f} /\ F \subseteq DOMAIN functions
                         /\ X = Propagated(F) /\ Y = effects'[f] \cup Pending'
      BY DEF Defined
    <2>2. effects'[f] = X /\ X # Unknown /\ X \subseteq Y
      BY <1>1, <1>7, <2>1
    <2>3. CoveredBy(F, Y)'
      BY <1>6, <1>7, <2>1, <2>2
    <2> QED BY <2>1, <2>3 DEF CoveredBy
  <1>8. ASSUME ~ParallelAdders, indirectCallEffects' # Unknown
        PROVE  CoveredBy(Referenced \cap DOMAIN functions, indirectCallEffects)'
    <2>1. PICK F, X : F = Referenced \cap DOMAIN functions /\ X = Propagated(F)
      OBVIOUS
    <2>2. indirectCallEffects' = X /\ X # Unknown
      BY <1>1, <1>8, <2>1
    <2>3. CoveredBy(F, X)'
      BY <1>6, <1>8, <2>1, <2>2
    <2> QED BY <2>1, <2>2, <2>3 DEF CoveredBy
  <1>9. KnownIndirect' <=> indirectCallEffects' # Unknown
    BY DEF KnownIndirect
  <1> QED BY <1>4, <1>5, <1>7, <1>8, <1>9 DEF CoverInv

LEMMA RunPassEInv ==
  ASSUME PInv, EInv, RunPass
  PROVE  EInv'
  <1>0. PICK pass : pass = passes[at]
    OBVIOUS
  <1>1. /\ pc = "run" /\ at <= Len(passes) /\ ~pass.parallel
        /\ UNCHANGED <<debug, passes, functions, stack, pc, nextFunction>>
        /\ pass.skipped => UNCHANGED codeVars
        /\ ~pass.skipped => /\ Transform(pass, Defined)
                            /\ IF pass.computesEffects THEN ComputeEffects
                               ELSE HandleAllAfterEffects(pass)
    BY <1>0 DEF RunPass, runVars
  <1>2. /\ pass \in PassesOf(passes) /\ IsPass(pass)
        /\ debug => nextFunction = 0
        /\ DOMAIN functions \subseteq Nat \ {0} /\ Defined' = Defined
    BY <1>0, <1>1, PipelineFacts DEF PInv, Types, DebugInv, AtParallel, Defined
  <1>3. Pending = {}
    BY <1>1, <1>2, NothingPending
  <1>4. Resets'
    <2>1. pc' # "work" /\ (debug' => \A f \in Defined' : ~(f <= nextFunction'))
      BY <1>1, <1>2 DEF Defined
    <2> QED BY <2>1 DEF Resets
  <1>5. CASE pass.skipped
    BY <1>1, <1>3, <1>4, <1>5, QuietCover DEF EInv
  <1>6. CASE ~pass.skipped
    <2>1. /\ added' \in [DOMAIN functions -> SUBSET PassesOf(passes)]
          /\ \A f \in DOMAIN functions : added'[f] = added[f] \/ pass.addsEffects
      <3>1. PICK F : F = Defined /\ F \in SUBSET DOMAIN functions
        BY DEF Defined
      <3>2. EffectTypes /\ Transform(pass, F) /\ UNCHANGED <<passes, functions>>
        BY <1>1, <1>6, <3>1 DEF EInv
      <3>3. added' \in [DOMAIN functions -> SUBSET PassesOf(passes)]
        BY <1>2, <3>1, <3>2, TransformAdded
      <3>4. \A f \in DOMAIN functions : added'[f] = added[f] \/ pass.addsEffects
        BY <1>2, <3>1, <3>2, TransformAdded
      <3> QED BY <3>3, <3>4
    <2>2. added \in [DOMAIN functions -> SUBSET PassesOf(passes)]
      BY DEF EInv, EffectTypes
    <2>3. CASE pass.computesEffects
      <3>1. ComputeEffects /\ ~pass.addsEffects
        BY <1>1, <1>2, <1>6, <2>3 DEF IsPass
      <3>2. added' = added
        BY <2>1, <2>2, <3>1
      <3> QED BY <1>1, <1>3, <1>4, <3>1, <3>2, ComputeEffectsCover DEF EInv
    <2>4. CASE ~pass.computesEffects /\ pass.addsEffects
      <3>1. /\ effects' = [f \in DOMAIN functions |-> Unknown]
            /\ indirectCallEffects' = Unknown
        BY <1>1, <1>6, <2>4 DEF HandleAllAfterEffects, EInv, EffectTypes
      <3>2. EffectTypes'
        BY <1>1, <2>1, <3>1 DEF EffectTypes, Cached, PassesOf
      <3>3. CoverInv'
        BY <1>1, <3>1 DEF CoverInv, KnownIndirect, Defined
      <3> QED BY <1>4, <3>2, <3>3 DEF EInv
    <2>5. CASE ~pass.computesEffects /\ ~pass.addsEffects
      <3>1. UNCHANGED <<effects, indirectCallEffects>>
        BY <1>1, <1>6, <2>5 DEF HandleAllAfterEffects
      <3>2. added' = added
        BY <2>1, <2>2, <2>5
      <3>3. EffectTypes'
        BY <1>1, <3>1, <3>2 DEF EInv, EffectTypes, Defined, Cached, PassesOf
      <3>4. CoverInv'
        BY <1>1, <1>3, <3>1, <3>2, CoverStep DEF EInv
      <3> QED BY <1>4, <3>3, <3>4 DEF EInv
    <2> QED BY <2>3, <2>4, <2>5
  <1> QED BY <1>5, <1>6

-----------------------------------------------------------------------------
(* The cached effects: the theorem *)

LEMMA NextEInv ==
  ASSUME PInv, EInv, [Next]_vars
  PROVE  EInv'
  <1>1. CASE Push
    BY <1>1, PushEInv
  <1>2. CASE Flush
    BY <1>2, FlushEInv
  <1>3. CASE FlushReturns
    BY <1>3, FlushReturnsEInv
  <1>4. CASE RunPass
    BY <1>4, RunPassEInv
  <1>5. CASE Finish
    BY <1>5, FinishEInv
  <1>6. CASE DebugParallelPass
    BY <1>6, DebugParallelPassEInv
  <1>7. ASSUME NEW w \in Workers, WorkerNext(w)
        PROVE  EInv'
    BY <1>7, ClaimEInv, RunPassOnFunctionEInv, AfterPassEInv DEF WorkerNext
  <1>8. CASE UNCHANGED vars
    <2>1. /\ UNCHANGED <<debug, passes, functions, at, stack, pc, nextFunction>>
          /\ UNCHANGED worker /\ UNCHANGED codeVars
          /\ UNCHANGED <<added, effects, indirectCallEffects>>
      BY <1>8 DEF vars, runVars, codeVars
    <2>2. Pending' = Pending /\ Defined' = Defined /\ \A w \in Workers : At(w)' <=> At(w)
      BY <2>1 DEF Pending, PassesOf, Defined, At
    <2>3. Resets'
      BY <2>1, <2>2 DEF EInv, Resets
    <2> QED BY <2>1, <2>2, <2>3, QuietCover DEF EInv
  <1> QED BY <1>1, <1>2, <1>3, <1>4, <1>5, <1>6, <1>7, <1>8 DEF Next, MainNext, Done

\* What covers the functions that can be reached from F covers the effects of a call.
LEMMA CoversEffectsOf ==
  ASSUME PInv, EInv, NEW F, NEW X, CoveredBy(F, X)
  PROVE  EffectsOf(F) # Unknown /\ EffectsOf(F) \subseteq X
  <1> DEFINE S == {IF f \in Defined THEN added[f] ELSE Unknown : f \in Closure(F, Enters)}
  <1>1. \A E \in S : E \subseteq X /\ E \subseteq PassesOf(passes) /\ E # Unknown
    <2>1. \A E \in SUBSET PassesOf(passes) : E # Unknown
      BY PipelinesAssumption DEF PInv, Types
    <2>2. \A f \in Closure(F, Enters) :
             f \in Defined /\ added[f] \subseteq X /\ added[f] \in SUBSET PassesOf(passes)
      BY DEF CoveredBy, EInv, EffectTypes, Defined
    <2> QED BY <2>1, <2>2
  <1>2. EffectsOf(F) = IF Unknown \in S THEN Unknown ELSE UNION S
    BY DEF EffectsOf, Merge
  <1> HIDE DEF S
  <1>3. EffectsOf(F) = UNION S
    BY <1>1, <1>2
  <1>4. UNION S \subseteq X /\ UNION S \in SUBSET PassesOf(passes)
    BY <1>1
  <1>5. UNION S # Unknown
    BY <1>4, PipelinesAssumption DEF PInv, Types
  <1> QED BY <1>3, <1>4, <1>5

\* Between passes the effects cached for a function hold those of everything it may
\* execute, whatever passes, threads and computations of effects came before.
THEOREM CachedEffectsCover == Spec => []EffectsCover
  <1>1. Init => PInv /\ EInv
    BY InitInv, InitEInv
  <1>2. PInv /\ EInv /\ [Next]_vars => PInv' /\ EInv'
    BY NextInv, NextEInv
  <1>3. PInv /\ EInv => EffectsCover
    <2>1. SUFFICES ASSUME PInv, EInv, BetweenPasses, NEW f \in Defined,
                          effects[f] # Unknown,
                          ~(ParallelAdders /\ Closure({f}, Enters) \cap IndirectCallers # {})
                   PROVE  EffectsOf({f}) # Unknown /\ EffectsOf({f}) \subseteq effects[f]
      BY DEF EffectsCover, ParallelAdders
    <2>2. Pending = {}
      BY <2>1, NothingPending DEF BetweenPasses
    <2>3. CoveredBy({f}, effects[f])
      BY <2>1, <2>2 DEF EInv, CoverInv, CoveredBy
    <2> QED BY <2>1, <2>3, CoversEffectsOf
  <1> QED BY <1>1, <1>2, <1>3, PTL DEF Spec

\* Those of the indirect calls do too, unless a function-parallel pass adds effects
\* and leaves them stale: that pass is the only way IndirectEffectsCover can fail.
THEOREM IndirectCachesCover == Spec => [](~ParallelAdders => IndirectEffectsCover)
  <1>1. Init => PInv /\ EInv
    BY InitInv, InitEInv
  <1>2. PInv /\ EInv /\ [Next]_vars => PInv' /\ EInv'
    BY NextInv, NextEInv
  <1>3. PInv /\ EInv => (~ParallelAdders => IndirectEffectsCover)
    <2>1. SUFFICES ASSUME PInv, EInv, ~ParallelAdders, KnownIndirect,
                          NEW F, F = Referenced \cap DOMAIN functions
                   PROVE  /\ EffectsOf(F) # Unknown
                          /\ EffectsOf(F) \subseteq indirectCallEffects
      BY DEF IndirectEffectsCover, KnownIndirect
    <2>2. CoveredBy(F, indirectCallEffects)
      BY <2>1 DEF EInv, CoverInv
    <2> QED BY <2>1, <2>2, CoversEffectsOf
  <1> QED BY <1>1, <1>2, <1>3, PTL DEF Spec

-----------------------------------------------------------------------------
(* The end of a run                                                        *)

\* What AllPassesRun says of the state in which run() ends: no pass is left out
\* and none is left on the stack.
THEOREM EndsWithAllPasses == Spec => [](pc = "done" => AllThrough)
  <1>1. PInv => (pc = "done" => AllThrough)
    <2> SUFFICES ASSUME PInv, pc = "done", NEW f \in Defined
                 PROVE  log[f] = For(f)
      BY DEF AllThrough
    <2>1. /\ at = Len(passes) + 1 /\ stack = <<>> /\ Len(passes) \in Nat
          /\ debug \in BOOLEAN
      BY PipelineFacts DEF PInv, Types, StackInv
    <2>2. Base = Len(passes) /\ at - 1 = Len(passes)
      <3>1. Len(<<>>) = 0
        OBVIOUS
      <3>2. Len(stack) = 0
        BY <2>1, <3>1, Zenon
      <3> QED BY <2>1, <3>2 DEF Base
    <2>3. Upto(f, Len(passes))
      <3>1. CASE debug
        <4>1. nextFunction = 0
          BY <3>1 DEF PInv, DebugInv
        <4>2. f \in 1..NumFunctions
          BY PipelineFacts DEF PInv, Defined
        <4>3. ~(f <= nextFunction)
          BY <4>1, <4>2, PipelineFacts DEF PInv
        <4> QED BY <2>2, <3>1, <4>3 DEF PInv, Logged
      <3>2. CASE ~debug
        BY <2>2, <3>2 DEF PInv, Logged
      <3> QED BY <3>1, <3>2
    <2> QED BY <2>3 DEF Upto, For
  <1> QED BY <1>1, Invariance, PTL

\* Where the main thread is between two passes of the pipeline: there is a stack
\* to flush, it is being flushed, it is empty, all is done.
Stage == IF pc = "done" THEN 3 ELSE IF pc = "work" THEN 1
         ELSE IF stack = <<>> THEN 2 ELSE 0

\* How many steps a worker has left on its function.
Left(w) ==
    IF worker[w].step = "pass" THEN 2 * (Len(stack) - worker[w].pass) + 2
    ELSE IF worker[w].step = "after" THEN 2 * (Len(stack) - worker[w].pass) + 1
    ELSE 0

\* Every step gets the run further: the next pass, the next stage, the next
\* function, or one worker on its function.
Onward ==
    \/ at < at'
    \/ at' = at /\ Stage < Stage'
    \/ UNCHANGED <<at, pc, stack>> /\ nextFunction < nextFunction'
    \/ /\ UNCHANGED <<at, pc, stack, nextFunction>>
       /\ \E w \in Workers :
             Left(w)' < Left(w) /\ \A v \in Workers \ {w} : Left(v)' = Left(v)

\* How far any of them goes.
Bounded ==
    /\ at \in 1..Len(passes) + 1 /\ Stage \in 0..3
    /\ nextFunction \in 0..Len(functions) + Cardinality(Workers)
    /\ \A w \in Workers : Left(w) \in 0..2 * Len(stack)

LEMMA RunBounded ==
  ASSUME PInv, TypeOK
  PROVE  Bounded
  <1>1. ASSUME NEW w \in Workers
        PROVE  Left(w) \in 0..2 * Len(stack)
    <2>1. Len(stack) \in Nat /\ DOMAIN stack = 1..Len(stack)
      BY LenProperties DEF PInv, StackInv
    <2>2. CASE At(w)
      <3>1. PICK p : p = worker[w].pass
        OBVIOUS
      <3>2. p \in 1..Len(stack)
        BY <2>1, <2>2, <3>1 DEF PInv, WorkersInv
      <3>3. \/ Left(w) = 2 * (Len(stack) - p) + 2
            \/ Left(w) = 2 * (Len(stack) - p) + 1
        BY <2>2, <3>1 DEF Left, At
      <3> QED BY <2>1, <3>2, <3>3
    <2>3. CASE ~At(w)
      BY <2>1, <2>3 DEF Left, At
    <2> QED BY <2>2, <2>3
  <1>2. Stage \in 0..3
    BY DEF Stage
  <1> QED BY <1>1, <1>2 DEF Bounded, TypeOK

\* The run never goes on for ever: see RunGoesOn.
THEOREM RunIsBounded == Spec => []Bounded
  <1>1. PInv /\ TypeOK => Bounded
    BY RunBounded
  <1> QED BY <1>1, Invariance, TypeCorrect, PTL

\* A worker that goes on to the next pass, or is through with the function.
LEMMA NextPassOnward ==
  ASSUME PInv, NEW w \in Workers, At(w), NextPass(w),
         UNCHANGED <<at, pc, stack, nextFunction>>
  PROVE  Onward
  <1>1. PICK p : p = worker[w].pass
    OBVIOUS
  <1>2. Len(stack) \in Nat /\ p \in 1..Len(stack)
    BY <1>1, LenProperties DEF PInv, StackInv, WorkersInv
  <1>3. Left(w) = 2 * (Len(stack) - p) + 2 \/ Left(w) = 2 * (Len(stack) - p) + 1
    BY <1>1 DEF Left, At
  <1>4. w \in DOMAIN worker
    BY DEF PInv, Types
  <1>5. \A v \in Workers \ {w} : worker'[v] = worker[v]
    BY DEF NextPass
  <1>6. \A v \in Workers \ {w} : Left(v)' = Left(v)
    BY <1>5 DEF Left
  <1>7. CASE p < Len(stack)
    <2>1. worker'[w] = [step |-> "pass", func |-> worker[w].func, pass |-> p + 1]
      BY <1>1, <1>4, <1>7 DEF NextPass
    <2>2. Left(w)' = 2 * (Len(stack) - (p + 1)) + 2
      BY <2>1 DEF Left
    <2>3. Left(w)' < Left(w)
      <3> HIDE DEF Left
      <3> QED BY <1>2, <1>3, <2>2
    <2> QED BY <1>6, <2>3 DEF Onward
  <1>8. CASE ~(p < Len(stack))
    <2>1. worker'[w] = AfterFunction(worker[w].func)
      BY <1>1, <1>4, <1>8 DEF NextPass
    <2>2. worker'[w].step \in {"claim", "finished"}
      BY <2>1 DEF AfterFunction, Idle
    <2>3. Left(w)' = 0
      BY <2>2 DEF Left
    <2>4. Left(w)' < Left(w)
      BY <1>2, <1>3, <2>3
    <2> QED BY <1>6, <2>4 DEF Onward
  <1> QED BY <1>7, <1>8

LEMMA NextOnward ==
  ASSUME PInv, [Next]_vars
  PROVE  Onward \/ UNCHANGED vars
  <1>0. at \in Nat /\ nextFunction \in Nat /\ pc \in {"run", "work", "done"}
    BY PipelineFacts DEF PInv, Types
  <1>1. CASE Push
    BY <1>0, <1>1 DEF Push, Onward
  <1>2. CASE RunPass
    BY <1>0, <1>2 DEF RunPass, Onward
  <1>3. CASE Flush
    <2>1. at' = at /\ pc = "run" /\ stack # <<>> /\ pc' = "work"
      BY <1>3 DEF Flush
    <2>2. Stage = 0 /\ Stage' = 1
      BY <2>1 DEF Stage
    <2> QED BY <2>1, <2>2 DEF Onward
  <1>4. CASE FlushReturns
    <2>1. at' = at /\ pc = "work" /\ stack' = <<>> /\ pc' = "run"
      BY <1>4 DEF FlushReturns
    <2>2. Stage = 1 /\ Stage' = 2
      BY <2>1 DEF Stage
    <2> QED BY <2>1, <2>2 DEF Onward
  <1>5. CASE Finish
    <2>1. at' = at /\ pc = "run" /\ stack = <<>> /\ pc' = "done"
      BY <1>5 DEF Finish
    <2>2. Stage = 2 /\ Stage' = 3
      BY <2>1 DEF Stage
    <2> QED BY <2>1, <2>2 DEF Onward
  <1>6. CASE DebugParallelPass
    <2>1. UNCHANGED <<pc, stack>>
      BY <1>6 DEF DebugParallelPass
    <2>2. at' = at + 1 \/ (at' = at /\ nextFunction' = nextFunction + 1)
      BY <1>6 DEF DebugParallelPass
    <2> QED BY <1>0, <2>1, <2>2 DEF Onward
  <1>7. ASSUME NEW w \in Workers, Claim(w)
        PROVE  Onward
    BY <1>0, <1>7 DEF Claim, FetchAdd, Onward
  <1>8. ASSUME NEW w \in Workers, RunPassOnFunction(w)
        PROVE  Onward
    <2>1. UNCHANGED <<at, pc, stack, nextFunction>> /\ worker[w].step = "pass" /\ At(w)
      BY <1>8 DEF RunPassOnFunction, At
    <2>2. CASE NextPass(w)
      BY <2>1, <2>2, NextPassOnward
    <2>3. CASE worker' = [worker EXCEPT ![w].step = "after"]
      <3>1. w \in DOMAIN worker
        BY DEF PInv, Types
      <3>2. /\ worker'[w].step = "after" /\ worker'[w].pass = worker[w].pass
            /\ \A v \in Workers \ {w} : worker'[v] = worker[v]
        BY <2>3, <3>1 DEF PInv, Types
      <3>3. \A v \in Workers \ {w} : Left(v)' = Left(v)
        BY <2>1, <3>2 DEF Left
      <3>4. PICK p : p = worker[w].pass
        OBVIOUS
      <3>5. Left(w) = 2 * (Len(stack) - p) + 2 /\ Left(w)' = 2 * (Len(stack) - p) + 1
        BY <2>1, <3>2, <3>4 DEF Left
      <3>6. p \in Nat /\ Len(stack) \in Nat
        BY <3>4, LenProperties DEF PInv, Types, StackInv
      <3>7. Left(w)' < Left(w)
        <4> HIDE DEF Left
        <4> QED BY <3>5, <3>6
      <3> QED BY <2>1, <3>3, <3>7 DEF Onward
    <2> QED BY <1>8, <2>2, <2>3 DEF RunPassOnFunction
  <1>9. ASSUME NEW w \in Workers, AfterPass(w)
        PROVE  Onward
    <2>1. UNCHANGED <<at, pc, stack, nextFunction>> /\ At(w) /\ NextPass(w)
      BY <1>9 DEF AfterPass, At
    <2> QED BY <2>1, NextPassOnward
  <1>10. CASE UNCHANGED vars
    BY <1>10
  <1> QED BY <1>1, <1>2, <1>3, <1>4, <1>5, <1>6, <1>7, <1>8, <1>9, <1>10
          DEF Next, MainNext, WorkerNext, Done

\* The rest of AllPassesRun but for fairness: every step of any thread gets the
\* run further, and by RunIsBounded there are only so many of them.
THEOREM RunGoesOn == Spec => [][Onward]_vars
  <1>1. PInv /\ [Next]_vars => [Onward]_vars
    BY NextOnward
  <1> QED BY <1>1, Invariance, PTL DEF Spec
=============================================================================
