-------------------------- MODULE ThreadPoolProofs --------------------------
(***************************************************************************)
(* Safety of ThreadPool for every set of clients, number of cores, set of  *)
(* helpers whose creation may fail, and length of the tasks, and the       *)
(* refinement of WorkPool.                                                 *)
(***************************************************************************)
EXTENDS ThreadPool, FiniteSetTheorems, TLAPS

\* A helper has something to do or to report.
Busy(w) == step[w] \in {"check", "task", "notify"} \/ doWork[w] > 0

\* The helpers that ready must count while a client waits for all of them.
Reported == {w \in 1..threads : ~Busy(w)}

Destroying(c) == pc[c] \in {"clear", "join"}

\* Who holds which mutex at which program point.
Locks ==
    \A c \in Clients :
        /\ creationMutex = c => /\ ~pool
                                /\ \/ pc[c] \in {"initialize", "spawn"}
                                   \/ Destroying(c) \/ InWait(c)
        /\ workMutex = c => pool /\ (pc[c] \in {"reset", "hand"} \/ InWait(c))
        /\ threadMutex = c => pc[c] \in {"spawn", "hand", "wait", "clear", "join"}
        /\ pc[c] \in {"initialize", "spawn"} => creationMutex = c
        /\ pc[c] \in {"reset", "hand"} => workMutex = c
        /\ InWait(c) => c \in {creationMutex, workMutex}
        /\ pc[c] \in {"spawn", "hand", "wait"} => threadMutex = c
        /\ pc[c] \in {"work", "sequential", "lock"} => pool
        /\ Destroying(c) =>
              IF pool THEN threadMutex # c /\ \A d \in Clients \ {c} : pc[d] = "idle"
                      ELSE creationMutex = c /\ threadMutex = c
        /\ pc[c] = "exited" =>
              ~pool /\ \A d \in Clients \ {c} : pc[d] = "idle"

\* The client's local variables.
Calls ==
    /\ running <=> workMutex # NoOne
    /\ threads <= num
    /\ \A c \in Clients :
        /\ pc[c] = "spawn" => i[c] = threads + 1
        /\ pc[c] = "hand" => i[c] <= threads + 1
        /\ pc[c] = "join" => i[c] <= threads
        /\ pc[c] \in {"lock", "reset", "hand"} =>
              doWorkers[c] \in [1..threads -> 1..MaxTasks]
        /\ pc[c] = "sequential" => doWorkers[c] \in [{1} -> 1..MaxTasks]

\* What each helper may be doing.
HelpersInv ==
    \A w \in Helpers :
        /\ step[w] = "task" => doWork[w] > 0
        /\ step[w] \in {"notify", "waiting", "none", "exit"} => doWork[w] = 0
        /\ w > threads => step[w] \in {"none", "exit"}
        /\ w <= threads => step[w] # "none"
        /\ doWork[w] > 0 => workMutex # NoOne
        /\ step[w] = "waiting" => ~done[w]
        /\ step[w] = "exit" => done[w]
        /\ done[w] => threads = 0 \/ \E c \in Clients : Destroying(c)
        /\ step[w] = "none" => ~done[w]

\* No helper exists before the pool is created, or after it is destroyed.
Fresh ==
    /\ ~pool /\ creationMutex = NoOne =>
          /\ threads = 0
          /\ \/ ready = 0 /\ \A w \in Helpers : step[w] = "none"
             \/ \E c \in Clients : pc[c] = "exited"
    /\ \A c \in Clients :
        /\ pc[c] = "initialize" => threads = 0 /\ ready = 0
        /\ pc[c] \in {"initialize", "spawn"} =>
              \A w \in Helpers : w > threads => step[w] = "none"
        /\ Destroying(c) =>
              \A w \in 1..threads : w < i[c] => step[w] = "exit"

\* How many helpers have reported, and which.
Count ==
    /\ \A c \in Clients :
        /\ pc[c] = "spawn" => ready = 0 /\ \A w \in 1..threads : Busy(w)
        /\ pc[c] = "hand" =>
              /\ ready = 0
              /\ \A w \in 1..threads : Busy(w) <=> w < i[c]
        /\ InWait(c) => ready = Cardinality(Reported)
        /\ Destroying(c) /\ pool =>
              \A w \in 1..threads : ~Busy(w) \/ (step[w] = "check" /\ done[w])
        /\ Destroying(c) /\ ~pool => ready = 0
    /\ pool /\ (\A c \in Clients : ~(pc[c] = "hand" \/ InWait(c) \/ Destroying(c)))
          => ready = threads /\ \A w \in 1..threads : ~Busy(w)

IInv == TypeOK /\ Locks /\ Calls /\ HelpersInv /\ Fresh /\ Count

-----------------------------------------------------------------------------
(* Facts used by several actions *)

\* A helper without a task holds a value of the type of closures.
LEMMA NoClosures == <<>> \in Closures
  <1>1. <<>> \in [1..0 -> 1..MaxTasks]
    BY SMT
  <1> QED BY <1>1, NumCoresAssumption DEF Closures

\* The helpers are finitely many, so those that reported can be counted.
LEMMA ReportedFinite ==
  ASSUME TypeOK
  PROVE  /\ IsFiniteSet(Reported) /\ IsFiniteSet(1..threads)
         /\ Cardinality(1..threads) = threads
  <1>1. threads \in Nat
    BY NumCoresAssumption DEF TypeOK
  <1>2. IsFiniteSet(1..threads) /\ Cardinality(1..threads) = threads
    BY <1>1, FS_Interval, SMT
  <1> QED BY <1>2, FS_Subset DEF Reported

\* If the count has reached the number of helpers, every helper has reported.
LEMMA AllReported ==
  ASSUME TypeOK, Cardinality(Reported) = threads
  PROVE  Reported = 1..threads
  BY ReportedFinite, FS_Subset DEF Reported

\* As long as one has not, the count is smaller.
LEMMA NotReported ==
  ASSUME TypeOK, NEW w \in 1..threads, Busy(w)
  PROVE  Cardinality(Reported) \in Nat /\ Cardinality(Reported) < threads
  <1>1. Reported \subseteq 1..threads /\ Reported # 1..threads
    BY DEF Reported
  <1>2. IsFiniteSet(Reported) /\ IsFiniteSet(1..threads)
    BY ReportedFinite
  <1>3. Cardinality(Reported) \in Nat
    BY <1>2, FS_CardinalityType
  <1>4. Cardinality(Reported) <= Cardinality(1..threads)
    BY <1>1, <1>2, FS_Subset
  <1>5. Cardinality(Reported) # Cardinality(1..threads)
    BY <1>1, <1>2, FS_Subset
  <1>6. Cardinality(1..threads) = threads /\ threads \in Nat
    BY ReportedFinite, NumCoresAssumption DEF TypeOK
  <1> QED BY <1>3, <1>4, <1>5, <1>6, SMT

\* A helper that reports finds threadMutex free only while a client waits.
LEMMA NotifyWhen ==
  ASSUME IInv, NEW w \in Helpers, step[w] = "notify", threadMutex = NoOne
  PROVE  \E d \in Clients : InWait(d)
  <1>1. w \in 1..threads /\ Busy(w)
    BY SMT DEF IInv, TypeOK, HelpersInv, Helpers, Busy
  <1>2. CASE pool
    BY <1>1, <1>2, ClientsAssumption, SMTT(30) DEF IInv, Count, Locks,
       Destroying, InWait
  <1>3. CASE ~pool
    BY <1>1, <1>3, ClientsAssumption, SMTT(30)
    DEF IInv, TypeOK, Fresh, Locks, Destroying, InWait
  <1> QED BY <1>2, <1>3

\* No helper is told to end while clients create or use helpers.
LEMMA NoneDone ==
  ASSUME IInv, NEW c \in Clients, pc[c] \in {"spawn", "hand"} \/ InWait(c)
  PROVE  \A w \in 1..threads : ~done[w]
  <1>1. \A d \in Clients : ~Destroying(d)
    BY ClientsAssumption, SMTT(30) DEF IInv, Locks, Destroying, InWait
  <1> QED BY <1>1, NumCoresAssumption, SMTT(30) DEF IInv, TypeOK, HelpersInv,
             Helpers

\* While exit() destroys the helpers nobody is in work().
LEMMA NobodyWorks ==
  ASSUME IInv, pool, NEW c \in Clients, Destroying(c)
  PROVE  workMutex = NoOne
  <1>1. ASSUME NEW d \in Clients, workMutex = d PROVE FALSE
    <2>1. pc[d] \in {"reset", "hand", "wait", "blocked", "resume"}
      BY <1>1 DEF IInv, Locks, InWait
    <2>2. d = c \/ pc[d] = "idle"
      BY DEF IInv, Locks
    <2> QED BY <2>1, <2>2 DEF Destroying
  <1> QED BY <1>1 DEF IInv, TypeOK

-----------------------------------------------------------------------------
(* Every action preserves the inductive invariant *)

\* A helper that looks at `done' and doWork under its mutex (threads.cpp:90-101)
\* keeps the invariant.
LEMMA CheckInv ==
  ASSUME IInv, NEW w \in Helpers, Check(w)
  PROVE  IInv'
  <1> USE ClientsAssumption, NumCoresAssumption, MaxTasksAssumption,
          CoreCountsAssumption
      DEF Helpers, Goto, vars, mutexes, poolVars, helperVars, clientVars,
          Check
  <1>1. TypeOK'
    BY SMTT(20) DEF IInv, TypeOK, Locks, Calls, HelpersInv, ClientPC, HelperPC
  <1>2. Locks'
    BY SMTT(20) DEF IInv, Locks, TypeOK, Calls, InWait, Destroying
  <1>3. Calls'
    BY SMTT(20) DEF IInv, Calls, TypeOK, Locks, Fresh, InWait, Destroying
  <1>4. HelpersInv'
    BY SMTT(20) DEF IInv, HelpersInv, TypeOK, Locks, Calls, Fresh, Count,
       InWait, Destroying, Busy
  <1>5. Fresh'
    BY SMTT(20) DEF IInv, Fresh, TypeOK, Locks, Calls, HelpersInv, Count,
       InWait, Destroying
  <1>6. Count'
    <2>1. ASSUME NEW d \in Clients, pc[d] \in {"spawn", "hand"} \/ InWait(d)
          PROVE  w \in 1..threads /\ ~done[w]
      BY <2>1, NoneDone, SMTT(30) DEF IInv, TypeOK, HelpersInv
    <2>2. ASSUME NEW d \in Clients, InWait(d) PROVE Reported' = Reported
      BY <2>1, <2>2, SMTT(30) DEF IInv, TypeOK, HelpersInv, Calls, Reported,
         Busy
    <2>3. ASSUME w \in 1..threads, ~done[w]
          PROVE  \A v \in 1..threads : Busy(v)' <=> Busy(v)
      BY <2>3, SMTT(30) DEF IInv, TypeOK, HelpersInv, Calls, Busy
    <2>4. ASSUME NEW d \in Clients, Destroying(d), pool, NEW v \in 1..threads
          PROVE  (~Busy(v) \/ (step[v] = "check" /\ done[v]))'
      <3>1. workMutex = NoOne
        BY <2>4, NobodyWorks
      <3>2. \A u \in Helpers : doWork[u] = 0
        BY <3>1, SMT DEF IInv, TypeOK, HelpersInv
      <3>3. ~Busy(v) \/ (step[v] = "check" /\ done[v])
        BY <2>4 DEF IInv, Count
      <3>4. v \in Helpers
        BY <2>4, SMT DEF IInv, TypeOK
      <3> QED BY <3>2, <3>3, <3>4, SMTT(30) DEF IInv, TypeOK, Busy
    <2>5. ASSUME pool, \A d \in Clients :
                  ~(pc[d] = "hand" \/ InWait(d) \/ Destroying(d))
          PROVE  \A v \in 1..threads : ~Busy(v)'
      BY <2>5, SMTT(30) DEF IInv, TypeOK, Locks, Calls, HelpersInv, Fresh,
         InWait, Destroying, Busy, Count
    <2> QED
      BY <2>1, <2>2, <2>3, <2>4, <2>5, SMTT(30) DEF IInv, Count, InWait,
         Destroying
  <1> QED BY <1>1, <1>2, <1>3, <1>4, <1>5, <1>6 DEF IInv

\* So does one that calls its closure, whether that answers More or Finished.
LEMMA RunTaskInv ==
  ASSUME IInv, NEW w \in Helpers, RunTask(w)
  PROVE  IInv'
  <1> USE ClientsAssumption, NumCoresAssumption, MaxTasksAssumption,
          CoreCountsAssumption
      DEF Helpers, Goto, vars, mutexes, poolVars, helperVars, clientVars,
          RunTask
  <1>1. TypeOK'
    BY SMTT(20) DEF IInv, TypeOK, HelperPC, HelpersInv
  <1>2. Locks'
    BY SMTT(20) DEF IInv, Locks, TypeOK, Calls, InWait, Destroying
  <1>3. Calls'
    BY SMTT(20) DEF IInv, Calls, TypeOK, Locks, Fresh, InWait, Destroying
  <1>4. HelpersInv'
    BY SMTT(20) DEF IInv, HelpersInv, TypeOK, Locks, Calls, Fresh, Count,
       InWait, Destroying, Busy
  <1>5. Fresh'
    BY SMTT(20) DEF IInv, Fresh, TypeOK, Locks, Calls, HelpersInv, Count,
       InWait, Destroying
  <1>6. Count'
    <2>1. w \in 1..threads /\ Busy(w) /\ Busy(w)'
      BY SMTT(20) DEF IInv, TypeOK, HelpersInv, Calls, Busy
    <2>2. \A v \in 1..threads : Busy(v)' <=> Busy(v)
      BY <2>1, SMTT(20) DEF IInv, TypeOK, Calls, Busy
    <2>3. Reported' = Reported
      BY <2>2 DEF Reported
    <2> QED BY <2>1, <2>2, <2>3, SMTT(30) DEF IInv, Count, InWait, Destroying,
               HelpersInv
  <1> QED BY <1>1, <1>2, <1>3, <1>4, <1>5, <1>6 DEF IInv

\* A helper reports under threadMutex, which counts it exactly once; the last
\* one wakes the client that waits.
LEMMA NotifyInv ==
  ASSUME IInv, NEW w \in Helpers, Notify(w)
  PROVE  IInv'
  <1> USE ClientsAssumption, NumCoresAssumption, MaxTasksAssumption,
          CoreCountsAssumption
      DEF Helpers, Goto, vars, mutexes, poolVars, helperVars, clientVars,
          Notify
  <1>1. TypeOK'
    <2>1. PICK d \in Clients : InWait(d)
      BY NotifyWhen DEF InWait
    <2>2. ready = Cardinality(Reported)
      BY <2>1 DEF IInv, Count
    <2>3. w \in 1..threads /\ Busy(w)
      BY SMTT(20) DEF IInv, TypeOK, HelpersInv, Busy
    <2>4. ready < threads
      BY <2>2, <2>3, NotReported DEF IInv
    <2> QED BY <2>4, SMTT(20) DEF IInv, TypeOK, HelperPC, ClientPC, Calls
  <1>2. Locks'
    BY SMTT(20) DEF IInv, Locks, TypeOK, Calls, InWait, Destroying
  <1>3. Calls'
    BY SMTT(20) DEF IInv, Calls, TypeOK, Locks, Fresh, InWait, Destroying
  <1>4. HelpersInv'
    BY SMTT(20) DEF IInv, HelpersInv, TypeOK, Locks, Calls, Fresh, Count,
       InWait, Destroying, Busy
  <1>5. Fresh'
    BY SMTT(20) DEF IInv, Fresh, TypeOK, Locks, Calls, HelpersInv, Count,
       InWait, Destroying
  <1>6. Count'
    <2>1. PICK d \in Clients : InWait(d)
      BY NotifyWhen
    <2>2. w \in 1..threads /\ Busy(w) /\ ~Busy(w)'
      BY SMTT(20) DEF IInv, TypeOK, HelpersInv, Busy
    <2>3. \A v \in 1..threads : v # w => (Busy(v)' <=> Busy(v))
      BY SMTT(20) DEF IInv, TypeOK, Calls, Busy
    <2>4. Reported' = Reported \cup {w} /\ w \notin Reported
      BY <2>2, <2>3, SMTT(20) DEF Reported
    <2>5. Cardinality(Reported') = Cardinality(Reported) + 1
      <3>1. IsFiniteSet(Reported)
        BY ReportedFinite DEF IInv
      <3> HIDE DEF Notify
      <3> QED BY <2>4, <3>1, FS_AddElement
    <2>6. \A e \in Clients : InWait(e)' <=> InWait(e)
      BY SMTT(20) DEF IInv, TypeOK, InWait
    <2>7. \A e \in Clients : Destroying(e) => ~pool
      BY <2>1, SMTT(20) DEF IInv, Locks, Destroying, InWait
    <2>8. \A e \in Clients : /\ pc[e] = "spawn" <=> pc'[e] = "spawn"
                             /\ pc[e] = "hand" <=> pc'[e] = "hand"
                             /\ Destroying(e) <=> Destroying(e)'
      BY SMTT(20) DEF IInv, TypeOK, Destroying
    <2>9. \A e \in Clients : pc[e] \notin {"spawn", "hand"} /\ (Destroying(e) => pool)
      BY SMTT(20) DEF IInv, Locks
    <2> QED BY <2>1, <2>5, <2>6, <2>7, <2>8, <2>9, SMTT(30) DEF IInv, Count,
               TypeOK
  <1> QED BY <1>1, <1>2, <1>3, <1>4, <1>5, <1>6 DEF IInv

\* A helper waits only if it has reported and nothing was handed over since.
LEMMA ParkInv ==
  ASSUME IInv, NEW w \in Helpers, Park(w)
  PROVE  IInv'
  <1> USE ClientsAssumption, NumCoresAssumption, MaxTasksAssumption,
          CoreCountsAssumption
      DEF Helpers, Goto, vars, mutexes, poolVars, helperVars, clientVars,
          Park
  <1>1. TypeOK'
    BY SMTT(20) DEF IInv, TypeOK, Locks, Calls, HelpersInv, ClientPC, HelperPC
  <1>2. Locks'
    BY SMTT(20) DEF IInv, Locks, TypeOK, Calls, InWait, Destroying
  <1>3. Calls'
    BY SMTT(20) DEF IInv, Calls, TypeOK, Locks, Fresh, InWait, Destroying
  <1>4. HelpersInv'
    BY SMTT(20) DEF IInv, HelpersInv, TypeOK, Locks, Calls, Fresh, Count,
       InWait, Destroying, Busy
  <1>5. Fresh'
    BY SMTT(20) DEF IInv, Fresh, TypeOK, Locks, Calls, HelpersInv, Count,
       InWait, Destroying
  <1>6. Count'
    <2>1. ASSUME NEW d \in Clients, pc[d] \in {"spawn", "hand"} \/ InWait(d)
          PROVE  w \in 1..threads /\ ~done[w]
      BY <2>1, NoneDone, SMTT(30) DEF IInv, TypeOK, HelpersInv
    <2>2. ASSUME NEW d \in Clients, InWait(d) PROVE Reported' = Reported
      BY <2>1, <2>2, SMTT(30) DEF IInv, TypeOK, HelpersInv, Calls, Reported,
         Busy
    <2>3. ASSUME w \in 1..threads, ~done[w]
          PROVE  \A v \in 1..threads : Busy(v)' <=> Busy(v)
      BY <2>3, SMTT(30) DEF IInv, TypeOK, HelpersInv, Calls, Busy
    <2>4. ASSUME NEW d \in Clients, Destroying(d), pool, NEW v \in 1..threads
          PROVE  (~Busy(v) \/ (step[v] = "check" /\ done[v]))'
      <3>1. workMutex = NoOne
        BY <2>4, NobodyWorks
      <3>2. \A u \in Helpers : doWork[u] = 0
        BY <3>1, SMT DEF IInv, TypeOK, HelpersInv
      <3>3. ~Busy(v) \/ (step[v] = "check" /\ done[v])
        BY <2>4 DEF IInv, Count
      <3>4. v \in Helpers
        BY <2>4, SMT DEF IInv, TypeOK
      <3> QED BY <3>2, <3>3, <3>4, SMTT(30) DEF IInv, TypeOK, Busy
    <2>5. ASSUME pool, \A d \in Clients :
                  ~(pc[d] = "hand" \/ InWait(d) \/ Destroying(d))
          PROVE  \A v \in 1..threads : ~Busy(v)'
      BY <2>5, SMTT(30) DEF IInv, TypeOK, Locks, Calls, HelpersInv, Fresh,
         InWait, Destroying, Busy, Count
    <2> QED
      BY <2>1, <2>2, <2>3, <2>4, <2>5, SMTT(30) DEF IInv, Count, InWait,
         Destroying
  <1> QED BY <1>1, <1>2, <1>3, <1>4, <1>5, <1>6 DEF IInv

\* A client that enters the pool, from the thread that calls ThreadPool::get.
LEMMA CallInv ==
  ASSUME IInv, NEW c \in Clients, Call(c)
  PROVE  IInv'
  <1> USE ClientsAssumption, NumCoresAssumption, MaxTasksAssumption,
          CoreCountsAssumption
      DEF Helpers, Goto, vars, mutexes, poolVars, helperVars, clientVars,
          Call
  <1>1. TypeOK'
    BY SMTT(20) DEF IInv, TypeOK, Locks, Calls, HelpersInv, ClientPC, HelperPC
  <1>2. Locks'
    BY SMTT(20) DEF IInv, Locks, TypeOK, Calls, InWait, Destroying
  <1>3. Calls'
    BY SMTT(20) DEF IInv, Calls, TypeOK, Locks, Fresh, InWait, Destroying
  <1>4. HelpersInv'
    BY SMTT(20) DEF IInv, HelpersInv, TypeOK, Locks, Calls, Fresh, Count,
       InWait, Destroying, Busy
  <1>5. Fresh'
    BY SMTT(20) DEF IInv, Fresh, TypeOK, Locks, Calls, HelpersInv, Count,
       InWait, Destroying
  <1>6. Count'
    <2>1. Reported' = Reported
      BY SMTT(20) DEF Reported, IInv, TypeOK, Locks, Calls, HelpersInv, Fresh,
         InWait, Destroying, Busy
    <2> QED BY <2>1, SMTT(20) DEF Count, IInv, TypeOK, Locks, Calls,
               HelpersInv, Fresh, InWait, Destroying, Busy
  <1> QED BY <1>1, <1>2, <1>3, <1>4, <1>5, <1>6 DEF IInv

\* get() finds the pool, or creates it under creationMutex.
LEMMA GetInv ==
  ASSUME IInv, NEW c \in Clients, Get(c)
  PROVE  IInv'
  <1> USE ClientsAssumption, NumCoresAssumption, MaxTasksAssumption,
          CoreCountsAssumption
      DEF Helpers, Goto, vars, mutexes, poolVars, helperVars, clientVars,
          Get
  <1>1. TypeOK'
    <2>1. pool' \in BOOLEAN /\ running' \in BOOLEAN
      BY DEF IInv, TypeOK
    <2>2. CASE pool
      <3>1. pc' = [pc EXCEPT ![c] = "work"]
        BY <2>2
      <3>2. pc' \in [Clients -> ClientPC]
        BY <3>1 DEF IInv, TypeOK, ClientPC
      <3> QED BY <2>1, <2>2, <3>2 DEF IInv, TypeOK
    <2>3. CASE ~pool
      <3>1. num' \in 0..NumCores
        BY <2>3
      <3>2. creationMutex' \in Clients \cup {NoOne}
        BY <2>3
      <3>3. pc' = [pc EXCEPT ![c] = "initialize"]
        BY <2>3
      <3>4. pc' \in [Clients -> ClientPC]
        BY <3>3 DEF IInv, TypeOK, ClientPC
      <3> QED BY <2>1, <2>3, <3>1, <3>2, <3>4 DEF IInv, TypeOK
    <2> QED BY <2>2, <2>3
  <1>2. Locks'
    BY SMTT(20) DEF IInv, Locks, TypeOK, Calls, InWait, Destroying
  <1>3. Calls'
    <2>1. CASE pool
      BY <2>1, SMTT(30) DEF IInv, Calls, TypeOK, Locks, Fresh, InWait,
         Destroying
    <2>2. CASE ~pool
      <3>1. num' \in 0..NumCores /\ threads = 0 /\ threads' = threads
        BY <2>2 DEF IInv, Fresh
      <3>2. threads' <= num'
        BY <3>1, SMT
      <3> QED
        BY <2>2, <3>2, SMTT(30) DEF IInv, Calls, TypeOK, Locks, Fresh, InWait,
           Destroying
    <2> QED BY <2>1, <2>2
  <1>4. HelpersInv'
    <2>1. CASE pool
      BY <2>1, SMTT(30) DEF IInv, HelpersInv, TypeOK, Destroying, Locks
    <2>2. CASE ~pool
      BY <2>2, SMTT(30) DEF IInv, HelpersInv, TypeOK, Destroying, Locks
    <2> QED BY <2>1, <2>2
  <1>5. Fresh'
    BY SMTT(20) DEF IInv, Fresh, TypeOK, Locks, Calls, HelpersInv, Count,
       InWait, Destroying
  <1>6. Count'
    <2>1. Reported' = Reported
      BY SMTT(20) DEF Reported, IInv, TypeOK, Locks, Calls, HelpersInv, Fresh,
         InWait, Destroying, Busy
    <2> QED BY <2>1, SMTT(20) DEF Count, IInv, TypeOK, Locks, Calls,
               HelpersInv, Fresh, InWait, Destroying, Busy
  <1> QED BY <1>1, <1>2, <1>3, <1>4, <1>5, <1>6 DEF IInv

\* initialize() with one core starts no helper and returns.
LEMMA InitializeOneCoreInv ==
  ASSUME IInv, NEW c \in Clients, InitializeOneCore(c)
  PROVE  IInv'
  <1> USE ClientsAssumption, NumCoresAssumption, MaxTasksAssumption,
          CoreCountsAssumption
      DEF Helpers, Goto, vars, mutexes, poolVars, helperVars, clientVars,
          InitializeOneCore, Publish
  <1>1. TypeOK'
    BY SMTT(20) DEF IInv, TypeOK, Locks, Calls, HelpersInv, ClientPC, HelperPC
  <1>2. Locks'
    BY SMTT(20) DEF IInv, Locks, TypeOK, Calls, InWait, Destroying
  <1>3. Calls'
    BY SMTT(20) DEF IInv, Calls, TypeOK, Locks, Fresh, InWait, Destroying
  <1>4. HelpersInv'
    BY SMTT(20) DEF IInv, HelpersInv, TypeOK, Locks, Calls, Fresh, Count,
       InWait, Destroying, Busy
  <1>5. Fresh'
    BY SMTT(20) DEF IInv, Fresh, TypeOK, Locks, Calls, HelpersInv, Count,
       InWait, Destroying
  <1>6. Count'
    <2>1. Reported' = Reported
      BY SMTT(20) DEF Reported, IInv, TypeOK, Locks, Calls, HelpersInv, Fresh,
         InWait, Destroying, Busy
    <2> QED BY <2>1, SMTT(20) DEF Count, IInv, TypeOK, Locks, Calls,
               HelpersInv, Fresh, InWait, Destroying, Busy
  <1> QED BY <1>1, <1>2, <1>3, <1>4, <1>5, <1>6 DEF IInv

\* initialize() with several cores resets the count and takes threadMutex.
LEMMA InitializeInv ==
  ASSUME IInv, NEW c \in Clients, Initialize(c)
  PROVE  IInv'
  <1> USE ClientsAssumption, NumCoresAssumption, MaxTasksAssumption,
          CoreCountsAssumption
      DEF Helpers, Goto, vars, mutexes, poolVars, helperVars, clientVars,
          Initialize
  <1>1. TypeOK'
    BY SMTT(20) DEF IInv, TypeOK, Locks, Calls, HelpersInv, ClientPC, HelperPC
  <1>2. Locks'
    BY SMTT(20) DEF IInv, Locks, TypeOK, Calls, InWait, Destroying
  <1>3. Calls'
    BY SMTT(20) DEF IInv, Calls, TypeOK, Locks, Fresh, InWait, Destroying
  <1>4. HelpersInv'
    BY SMTT(20) DEF IInv, HelpersInv, TypeOK, Locks, Calls, Fresh, Count,
       InWait, Destroying, Busy
  <1>5. Fresh'
    BY SMTT(20) DEF IInv, Fresh, TypeOK, Locks, Calls, HelpersInv, Count,
       InWait, Destroying
  <1>6. Count'
    <2>1. Reported' = Reported
      BY SMTT(20) DEF Reported, IInv, TypeOK, Locks, Calls, HelpersInv, Fresh,
         InWait, Destroying, Busy
    <2> QED BY <2>1, SMTT(20) DEF Count, IInv, TypeOK, Locks, Calls,
               HelpersInv, Fresh, InWait, Destroying, Busy
  <1> QED BY <1>1, <1>2, <1>3, <1>4, <1>5, <1>6 DEF IInv

\* Every helper started is busy until it has reported itself.
LEMMA SpawnInv ==
  ASSUME IInv, NEW c \in Clients, Spawn(c)
  PROVE  IInv'
  <1> USE ClientsAssumption, NumCoresAssumption, MaxTasksAssumption,
          CoreCountsAssumption
      DEF Helpers, Goto, vars, mutexes, poolVars, helperVars, clientVars,
          Spawn
  <1>1. TypeOK'
    <2>1. CASE i[c] <= num
      <3>1. pool' \in BOOLEAN /\ running' \in BOOLEAN
        BY DEF IInv, TypeOK
      <3>2. threads' \in 0..NumCores /\ i[c] \in Helpers /\ i[c] + 1 \in 1..NumCores + 1
        BY <2>1, SMT DEF IInv, TypeOK, Calls
      <3>3. step' \in [Helpers -> HelperPC]
        BY <2>1 DEF IInv, TypeOK, HelperPC
      <3>4. i' \in [Clients -> 1..NumCores + 1]
        BY <2>1, <3>2 DEF IInv, TypeOK
      <3> QED BY <2>1, <3>1, <3>2, <3>3, <3>4 DEF IInv, TypeOK
    <2>2. CASE ~(i[c] <= num)
      BY <2>2, SMTT(30) DEF IInv, TypeOK, ClientPC, HelperPC, Calls
    <2> QED BY <2>1, <2>2
  <1>2. Locks'
    BY SMTT(20) DEF IInv, Locks, TypeOK, Calls, InWait, Destroying
  <1>3. Calls'
    BY SMTT(20) DEF IInv, Calls, TypeOK, Locks, Fresh, InWait, Destroying
  <1>4. HelpersInv'
    BY SMTT(20) DEF IInv, HelpersInv, TypeOK, Locks, Calls, Fresh, Count,
       InWait, Destroying, Busy
  <1>5. Fresh'
    BY SMTT(20) DEF IInv, Fresh, TypeOK, Locks, Calls, HelpersInv, Count,
       InWait, Destroying
  <1>6. Count'
    <2>1. CASE i[c] <= num
      <3>1. \A w \in 1..threads' : Busy(w)'
        BY <2>1, SMTT(30) DEF IInv, TypeOK, Calls, Busy, Count
      <3>2. \A d \in Clients : InWait(d) => d = c
        BY SMTT(30) DEF IInv, Locks, InWait
      <3> QED BY <2>1, <3>1, <3>2, SMTT(30) DEF Count, IInv, TypeOK, Locks,
                 Calls, HelpersInv, Fresh, InWait, Destroying, Busy
    <2>2. CASE ~(i[c] <= num)
      <3>1. Reported' = {}
        <4>1. \A w \in 1..threads : Busy(w)
          BY DEF IInv, Count
        <4>2. UNCHANGED <<threads, step, doWork>>
          BY <2>2
        <4> QED BY <4>1, <4>2 DEF Reported, Busy
      <3>2. Cardinality(Reported') = 0
        BY <3>1, FS_EmptySet
      <3> QED BY <2>2, <3>2, SMTT(30) DEF Count, IInv, TypeOK, Locks, Calls,
                 HelpersInv, Fresh, InWait, Destroying, Busy
    <2> QED BY <2>1, <2>2
  <1> QED BY <1>1, <1>2, <1>3, <1>4, <1>5, <1>6 DEF IInv

\* A thread that cannot be started leaves the pool with the helpers so far.
LEMMA SpawnFailsInv ==
  ASSUME IInv, NEW c \in Clients, SpawnFails(c)
  PROVE  IInv'
  <1> USE ClientsAssumption, NumCoresAssumption, MaxTasksAssumption,
          CoreCountsAssumption
      DEF Helpers, Goto, vars, mutexes, poolVars, helperVars, clientVars,
          SpawnFails
  <1>1. TypeOK'
    BY SMTT(20) DEF IInv, TypeOK, Locks, Calls, HelpersInv, ClientPC, HelperPC
  <1>2. Locks'
    BY SMTT(20) DEF IInv, Locks, TypeOK, Calls, InWait, Destroying
  <1>3. Calls'
    BY SMTT(20) DEF IInv, Calls, TypeOK, Locks, Fresh, InWait, Destroying
  <1>4. HelpersInv'
    BY SMTT(20) DEF IInv, HelpersInv, TypeOK, Locks, Calls, Fresh, Count,
       InWait, Destroying, Busy
  <1>5. Fresh'
    BY SMTT(20) DEF IInv, Fresh, TypeOK, Locks, Calls, HelpersInv, Count,
       InWait, Destroying
  <1>6. Count'
    <2>1. Reported' = Reported
      BY SMTT(20) DEF Reported, IInv, TypeOK, Locks, Calls, HelpersInv, Fresh,
         InWait, Destroying, Busy
    <2> QED BY <2>1, SMTT(20) DEF Count, IInv, TypeOK, Locks, Calls,
               HelpersInv, Fresh, InWait, Destroying, Busy
  <1> QED BY <1>1, <1>2, <1>3, <1>4, <1>5, <1>6 DEF IInv

\* exit() destroys the pool when no call of work() is left.
LEMMA DestroyInv ==
  ASSUME IInv, NEW c \in Clients, Destroy(c)
  PROVE  IInv'
  <1> USE ClientsAssumption, NumCoresAssumption, MaxTasksAssumption,
          CoreCountsAssumption
      DEF Helpers, Goto, vars, mutexes, poolVars, helperVars, clientVars,
          Destroy
  <1>1. TypeOK'
    BY SMTT(20) DEF IInv, TypeOK, Locks, Calls, HelpersInv, ClientPC, HelperPC
  <1>2. Locks'
    BY SMTT(20) DEF IInv, Locks, TypeOK, Calls, InWait, Destroying
  <1>3. Calls'
    BY SMTT(20) DEF IInv, Calls, TypeOK, Locks, Fresh, InWait, Destroying
  <1>4. HelpersInv'
    BY SMTT(20) DEF IInv, HelpersInv, TypeOK, Locks, Calls, Fresh, Count,
       InWait, Destroying, Busy
  <1>5. Fresh'
    BY SMTT(20) DEF IInv, Fresh, TypeOK, Locks, Calls, HelpersInv, Count,
       InWait, Destroying
  <1>6. Count'
    <2>1. Reported' = Reported
      BY SMTT(20) DEF Reported, IInv, TypeOK, Locks, Calls, HelpersInv, Fresh,
         InWait, Destroying, Busy
    <2> QED BY <2>1, SMTT(20) DEF Count, IInv, TypeOK, Locks, Calls,
               HelpersInv, Fresh, InWait, Destroying, Busy
  <1> QED BY <1>1, <1>2, <1>3, <1>4, <1>5, <1>6 DEF IInv

\* A helper is told to end only when it has nothing to do or to report.
LEMMA DestroyThreadInv ==
  ASSUME IInv, NEW c \in Clients, DestroyThread(c)
  PROVE  IInv'
  <1> USE ClientsAssumption, NumCoresAssumption, MaxTasksAssumption,
          CoreCountsAssumption
      DEF Helpers, Goto, vars, mutexes, poolVars, helperVars, clientVars,
          DestroyThread, SignalHelper
  <1>1. TypeOK'
    BY SMTT(20) DEF IInv, TypeOK, Locks, Calls, HelpersInv, ClientPC, HelperPC
  <1>2. Locks'
    BY SMTT(20) DEF IInv, Locks, TypeOK, Calls, InWait, Destroying
  <1>3. Calls'
    BY SMTT(20) DEF IInv, Calls, TypeOK, Locks, Fresh, InWait, Destroying
  <1>4. HelpersInv'
    BY SMTT(20) DEF IInv, HelpersInv, TypeOK, Locks, Calls, Fresh, Count,
       InWait, Destroying, Busy
  <1>5. Fresh'
    BY SMTT(20) DEF IInv, Fresh, TypeOK, Locks, Calls, HelpersInv, Count,
       InWait, Destroying
  <1>6. Count'
    <2>1. \A d \in Clients : ~InWait(d)' /\ pc'[d] \notin {"spawn", "hand"}
      BY SMTT(30) DEF IInv, Locks, InWait, TypeOK, Destroying
    <2> QED BY <2>1, SMTT(30) DEF Count, IInv, TypeOK, Locks, Calls,
               HelpersInv, Fresh, InWait, Destroying, Busy
  <1> QED BY <1>1, <1>2, <1>3, <1>4, <1>5, <1>6 DEF IInv

\* join() of a helper returns once that one has ended.
LEMMA JoinInv ==
  ASSUME IInv, NEW c \in Clients, Join(c)
  PROVE  IInv'
  <1> USE ClientsAssumption, NumCoresAssumption, MaxTasksAssumption,
          CoreCountsAssumption
      DEF Helpers, Goto, vars, mutexes, poolVars, helperVars, clientVars,
          Join
  <1>1. TypeOK'
    BY SMTT(20) DEF IInv, TypeOK, Locks, Calls, HelpersInv, ClientPC, HelperPC
  <1>2. Locks'
    BY SMTT(20) DEF IInv, Locks, TypeOK, Calls, InWait, Destroying
  <1>3. Calls'
    BY SMTT(20) DEF IInv, Calls, TypeOK, Locks, Fresh, InWait, Destroying
  <1>4. HelpersInv'
    BY SMTT(20) DEF IInv, HelpersInv, TypeOK, Locks, Calls, Fresh, Count,
       InWait, Destroying, Busy
  <1>5. Fresh'
    BY SMTT(20) DEF IInv, Fresh, TypeOK, Locks, Calls, HelpersInv, Count,
       InWait, Destroying
  <1>6. Count'
    <2>1. Reported' = Reported
      BY SMTT(20) DEF Reported, IInv, TypeOK, Locks, Calls, HelpersInv, Fresh,
         InWait, Destroying, Busy
    <2> QED BY <2>1, SMTT(20) DEF Count, IInv, TypeOK, Locks, Calls,
               HelpersInv, Fresh, InWait, Destroying, Busy
  <1> QED BY <1>1, <1>2, <1>3, <1>4, <1>5, <1>6 DEF IInv

\* When all helpers have ended the destructor, or the fallback, is through.
LEMMA ClearDoneInv ==
  ASSUME IInv, NEW c \in Clients, ClearDone(c)
  PROVE  IInv'
  <1> USE ClientsAssumption, NumCoresAssumption, MaxTasksAssumption,
          CoreCountsAssumption
      DEF Helpers, Goto, vars, mutexes, poolVars, helperVars, clientVars,
          ClearDone, Publish
  <1>1. TypeOK'
    <2>1. CASE creationMutex = c
      BY <2>1, SMTT(30) DEF IInv, TypeOK, ClientPC
    <2>2. CASE creationMutex # c
      <3>1. pool' \in BOOLEAN /\ running' \in BOOLEAN
        BY <2>2 DEF IInv, TypeOK
      <3>2. pc' \in [Clients -> ClientPC]
        BY <2>2 DEF IInv, TypeOK, ClientPC
      <3> QED BY <2>2, <3>1, <3>2, SMT DEF IInv, TypeOK
    <2> QED BY <2>1, <2>2
  <1>2. Locks'
    <2>1. CASE creationMutex = c
      BY <2>1, SMTT(30) DEF IInv, Locks, TypeOK, Calls, InWait, Destroying
    <2>2. CASE creationMutex # c
      <3>1. pool /\ workMutex = NoOne
        BY <2>2, NobodyWorks DEF IInv, Locks, Destroying
      <3>2. \A d \in Clients : d # c => pc[d] = "idle" /\ pc'[d] = "idle"
        BY <2>2, <3>1 DEF IInv, Locks, Destroying, TypeOK
      <3>3. creationMutex' = NoOne /\ workMutex' = NoOne /\ threadMutex' = NoOne
        <4>1. creationMutex = NoOne
          BY <3>1 DEF IInv, Locks, TypeOK
        <4>2. \A d \in Clients : d # c => threadMutex # d
          BY <3>2 DEF IInv, Locks
        <4>3. threadMutex # c
          BY <3>1 DEF IInv, Locks, Destroying
        <4> QED BY <2>2, <3>1, <4>1, <4>2, <4>3 DEF IInv, TypeOK
      <3>4. pc'[c] = "exited" /\ ~pool'
        BY <2>2 DEF IInv, TypeOK
      <3> QED BY <3>2, <3>3, <3>4, SMTT(30) DEF Locks, InWait, Destroying
    <2> QED BY <2>1, <2>2
  <1>3. Calls'
    BY SMTT(20) DEF IInv, Calls, TypeOK, Locks, Fresh, InWait, Destroying
  <1>4. HelpersInv'
    BY SMTT(20) DEF IInv, HelpersInv, TypeOK, Locks, Calls, Fresh, Count,
       InWait, Destroying, Busy
  <1>5. Fresh'
    <2>1. CASE creationMutex = c
      BY <2>1, SMTT(30) DEF IInv, Fresh, Locks, TypeOK, Destroying
    <2>2. CASE creationMutex # c
      <3>1. \A d \in Clients : d # c => pc[d] = "idle"
        BY <2>2, SMTT(30) DEF IInv, Locks, Destroying
      <3> QED BY <2>2, <3>1, SMTT(30) DEF IInv, Fresh, TypeOK, Destroying
    <2> QED BY <2>1, <2>2
  <1>6. Count'
    <2>1. \A d \in Clients : ~InWait(d)' /\ pc'[d] \notin {"spawn", "hand"}
              /\ ~(Destroying(d)' /\ pool')
      BY SMTT(30) DEF IInv, Locks, InWait, TypeOK, Destroying
    <2>2. \A d \in Clients : Destroying(d)' => ready = 0
      BY SMTT(30) DEF IInv, Locks, Count, TypeOK, Destroying
    <2>3. pool' => ready = 0
      BY SMTT(30) DEF IInv, Locks, Count, TypeOK, Destroying
    <2> QED BY <2>1, <2>2, <2>3, SMTT(30) DEF Count
  <1> QED BY <1>1, <1>2, <1>3, <1>4, <1>5, <1>6 DEF IInv

\* work() takes the sequential path or goes for workMutex.
LEMMA WorkInv ==
  ASSUME IInv, NEW c \in Clients, Work(c)
  PROVE  IInv'
  <1> USE ClientsAssumption, NumCoresAssumption, MaxTasksAssumption,
          CoreCountsAssumption
      DEF Helpers, Goto, vars, mutexes, poolVars, helperVars, clientVars,
          Work, Size
  <1>1. TypeOK'
    <2>1. PICK closures \in [1..Size -> 1..MaxTasks] :
             doWorkers' = [doWorkers EXCEPT ![c] = closures]
      OBVIOUS
    <2>2. Size \in 0..NumCores + 1
      BY SMTT(30) DEF IInv, TypeOK
    <2>3. closures \in Closures
      BY <2>1, <2>2 DEF Closures
    <2> HIDE DEF Size
    <2> QED BY <2>1, <2>3, SMTT(30) DEF IInv, TypeOK, ClientPC
  <1>2. Locks'
    BY SMTT(20) DEF IInv, Locks, TypeOK, Calls, InWait, Destroying
  <1>3. Calls'
    BY SMTT(20) DEF IInv, Calls, TypeOK, Locks, Fresh, InWait, Destroying
  <1>4. HelpersInv'
    <2>1. \A d \in Clients : Destroying(d)' <=> Destroying(d)
      BY SMTT(30) DEF IInv, TypeOK, Destroying
    <2> QED BY <2>1, SMTT(30) DEF IInv, HelpersInv
  <1>5. Fresh'
    BY SMTT(20) DEF IInv, Fresh, TypeOK, Locks, Calls, HelpersInv, Count,
       InWait, Destroying
  <1>6. Count'
    <2>1. Reported' = Reported
      BY SMTT(20) DEF Reported, IInv, TypeOK, Locks, Calls, HelpersInv, Fresh,
         InWait, Destroying, Busy
    <2> QED BY <2>1, SMTT(20) DEF Count, IInv, TypeOK, Locks, Calls,
               HelpersInv, Fresh, InWait, Destroying, Busy
  <1> QED BY <1>1, <1>2, <1>3, <1>4, <1>5, <1>6 DEF IInv

\* The sequential path touches nothing that the helpers share.
LEMMA RunSequentiallyInv ==
  ASSUME IInv, NEW c \in Clients, RunSequentially(c)
  PROVE  IInv'
  <1> USE ClientsAssumption, NumCoresAssumption, MaxTasksAssumption,
          CoreCountsAssumption
      DEF Helpers, Goto, vars, mutexes, poolVars, helperVars, clientVars,
          RunSequentially
  <1>1. TypeOK'
    <2>1. CASE doWorkers[c][1] > 1
      <3>1. doWorkers'[c] \in [1..1 -> 1..MaxTasks]
                /\ doWorkers' = [doWorkers EXCEPT ![c] = doWorkers'[c]]
        BY <2>1, 1..1 = {1}, SMTT(30) DEF IInv, TypeOK, Calls
      <3>2. doWorkers'[c] \in Closures
        BY <3>1, 1 \in 0..NumCores + 1 DEF Closures
      <3>3. doWorkers' \in [Clients -> Closures]
        BY <3>1, <3>2 DEF IInv, TypeOK
      <3> QED BY <2>1, <3>3 DEF IInv, TypeOK
    <2>2. CASE ~(doWorkers[c][1] > 1)
      <3>1. doWorkers' \in [Clients -> Closures]
        BY <2>2, NoClosures DEF IInv, TypeOK
      <3>2. pc' \in [Clients -> ClientPC]
        BY <2>2 DEF IInv, TypeOK, ClientPC
      <3> QED BY <2>2, <3>1, <3>2 DEF IInv, TypeOK
    <2> QED BY <2>1, <2>2
  <1>2. Locks'
    BY SMTT(20) DEF IInv, Locks, TypeOK, Calls, InWait, Destroying
  <1>3. Calls'
    <2>1. CASE doWorkers[c][1] > 1
      <3>1. doWorkers'[c] \in [{1} -> 1..MaxTasks]
        BY <2>1, SMT DEF IInv, Calls, TypeOK
      <3>2. \A d \in Clients : d # c => doWorkers'[d] = doWorkers[d]
        BY <2>1 DEF IInv, TypeOK
      <3> QED BY <2>1, <3>1, <3>2, SMTT(30) DEF IInv, Calls
    <2>2. CASE ~(doWorkers[c][1] > 1)
      BY <2>2, SMTT(30) DEF IInv, Calls, TypeOK
    <2> QED BY <2>1, <2>2
  <1>4. HelpersInv'
    BY SMTT(20) DEF IInv, HelpersInv, TypeOK, Locks, Calls, Fresh, Count,
       InWait, Destroying, Busy
  <1>5. Fresh'
    BY SMTT(20) DEF IInv, Fresh, TypeOK, Locks, Calls, HelpersInv, Count,
       InWait, Destroying
  <1>6. Count'
    <2>1. Reported' = Reported
      BY SMTT(20) DEF Reported, IInv, TypeOK, Locks, Calls, HelpersInv, Fresh,
         InWait, Destroying, Busy
    <2> QED BY <2>1, SMTT(20) DEF Count, IInv, TypeOK, Locks, Calls,
               HelpersInv, Fresh, InWait, Destroying, Busy
  <1> QED BY <1>1, <1>2, <1>3, <1>4, <1>5, <1>6 DEF IInv

\* workMutex is taken only when no other call is running.
LEMMA LockWorkInv ==
  ASSUME IInv, NEW c \in Clients, LockWork(c)
  PROVE  IInv'
  <1> USE ClientsAssumption, NumCoresAssumption, MaxTasksAssumption,
          CoreCountsAssumption
      DEF Helpers, Goto, vars, mutexes, poolVars, helperVars, clientVars,
          LockWork
  <1>1. TypeOK'
    BY SMTT(20) DEF IInv, TypeOK, Locks, Calls, HelpersInv, ClientPC, HelperPC
  <1>2. Locks'
    BY SMTT(20) DEF IInv, Locks, TypeOK, Calls, InWait, Destroying
  <1>3. Calls'
    BY SMTT(20) DEF IInv, Calls, TypeOK, Locks, Fresh, InWait, Destroying
  <1>4. HelpersInv'
    BY SMTT(20) DEF IInv, HelpersInv, TypeOK, Locks, Calls, Fresh, Count,
       InWait, Destroying, Busy
  <1>5. Fresh'
    BY SMTT(20) DEF IInv, Fresh, TypeOK, Locks, Calls, HelpersInv, Count,
       InWait, Destroying
  <1>6. Count'
    <2>1. Reported' = Reported
      BY SMTT(20) DEF Reported, IInv, TypeOK, Locks, Calls, HelpersInv, Fresh,
         InWait, Destroying, Busy
    <2> QED BY <2>1, SMTT(20) DEF Count, IInv, TypeOK, Locks, Calls,
               HelpersInv, Fresh, InWait, Destroying, Busy
  <1> QED BY <1>1, <1>2, <1>3, <1>4, <1>5, <1>6 DEF IInv

\* The count is reset with no helper busy, under threadMutex.
LEMMA ResetInv ==
  ASSUME IInv, NEW c \in Clients, Reset(c)
  PROVE  IInv'
  <1> USE ClientsAssumption, NumCoresAssumption, MaxTasksAssumption,
          CoreCountsAssumption
      DEF Helpers, Goto, vars, mutexes, poolVars, helperVars, clientVars,
          Reset
  <1>1. TypeOK'
    BY SMTT(20) DEF IInv, TypeOK, Locks, Calls, HelpersInv, ClientPC, HelperPC
  <1>2. Locks'
    BY SMTT(20) DEF IInv, Locks, TypeOK, Calls, InWait, Destroying
  <1>3. Calls'
    BY SMTT(20) DEF IInv, Calls, TypeOK, Locks, Fresh, InWait, Destroying
  <1>4. HelpersInv'
    <2>1. \A d \in Clients : Destroying(d) => Destroying(d)'
      BY DEF IInv, TypeOK, Destroying
    <2> QED BY <2>1 DEF IInv, HelpersInv
  <1>5. Fresh'
    BY SMTT(20) DEF IInv, Fresh, TypeOK, Locks, Calls, HelpersInv, Count,
       InWait, Destroying
  <1>6. Count'
    <2>1. Reported' = Reported
      BY SMTT(20) DEF Reported, IInv, TypeOK, Locks, Calls, HelpersInv, Fresh,
         InWait, Destroying, Busy
    <2> QED BY <2>1, SMTT(20) DEF Count, IInv, TypeOK, Locks, Calls,
               HelpersInv, Fresh, InWait, Destroying, Busy
  <1> QED BY <1>1, <1>2, <1>3, <1>4, <1>5, <1>6 DEF IInv

\* Handing a closure over makes exactly that helper busy.
LEMMA HandInv ==
  ASSUME IInv, NEW c \in Clients, Hand(c)
  PROVE  IInv'
  <1> USE ClientsAssumption, NumCoresAssumption, MaxTasksAssumption,
          CoreCountsAssumption
      DEF Helpers, Goto, vars, mutexes, poolVars, helperVars, clientVars,
          Hand, SignalHelper
  <1>1. TypeOK'
    <2>1. pool' \in BOOLEAN /\ running' \in BOOLEAN
      BY DEF IInv, TypeOK
    <2>2. CASE i[c] <= threads
      <3>1. i[c] \in Helpers /\ i[c] \in 1..threads /\ i[c] + 1 \in 1..NumCores + 1
        BY <2>2, SMT DEF IInv, TypeOK
      <3>2. doWorkers[c][i[c]] \in 0..MaxTasks
        <4>1. doWorkers[c][i[c]] \in 1..MaxTasks
          BY <3>1 DEF IInv, Calls
        <4> QED BY <4>1, SMT
      <3>3. doWork' \in [Helpers -> 0..MaxTasks]
        BY <2>2, <3>1, <3>2 DEF IInv, TypeOK
      <3>4. step' \in [Helpers -> HelperPC]
        <4>1. "check" \in HelperPC
          BY DEF HelperPC
        <4>2. step' = [step EXCEPT ![i[c]] = IF @ = "waiting" THEN "check" ELSE @]
          BY <2>2
        <4> HIDE DEF Hand, SignalHelper
        <4> QED BY <3>1, <4>1, <4>2 DEF IInv, TypeOK
      <3>5. i' \in [Clients -> 1..NumCores + 1]
        BY <2>2, <3>1 DEF IInv, TypeOK
      <3> QED BY <2>1, <2>2, <3>3, <3>4, <3>5 DEF IInv, TypeOK
    <2>3. CASE ~(i[c] <= threads)
      <3>1. pc' \in [Clients -> ClientPC]
        BY <2>3 DEF IInv, TypeOK, ClientPC
      <3> QED BY <2>1, <2>3, <3>1 DEF IInv, TypeOK
    <2> QED BY <2>2, <2>3
  <1>2. Locks'
    BY SMTT(20) DEF IInv, Locks, TypeOK, Calls, InWait, Destroying
  <1>3. Calls'
    BY SMTT(20) DEF IInv, Calls, TypeOK, Locks, Fresh, InWait, Destroying
  <1>4. HelpersInv'
    <2>0. \A d \in Clients : Destroying(d) => Destroying(d)'
      BY DEF IInv, TypeOK, Destroying
    <2>1. CASE i[c] <= threads
      <3>1. PICK k, n : k = i[c] /\ n = doWorkers[c][i[c]]
        OBVIOUS
      <3>2. k \in Helpers /\ k \in 1..threads /\ step[k] # "task"
        BY <2>1, <3>1, SMT DEF IInv, TypeOK
      <3>3. n \in 1..MaxTasks
        BY <3>1, <3>2 DEF IInv, Calls
      <3>4. workMutex # NoOne /\ workMutex' = workMutex
        BY DEF IInv, Locks
      <3>5. ~done[k]
        BY <3>2, NoneDone
      <3>6. /\ doWork' = [doWork EXCEPT ![k] = n] /\ done' = done
            /\ step' = [step EXCEPT ![k] = IF @ = "waiting" THEN "check" ELSE @]
            /\ threads' = threads
        BY <2>1, <3>1
      <3>7. step \in [Helpers -> HelperPC] /\ doWork \in [Helpers -> 0..MaxTasks]
        BY DEF IInv, TypeOK
      <3>8. step[k] \in {"park", "waiting"}
        <4>1. ~Busy(k)
          BY <3>1, <3>2, SMT DEF IInv, TypeOK, Count
        <4>2. step[k] # "exit" /\ step[k] # "none"
          BY <3>2, <3>5 DEF IInv, HelpersInv
        <4> QED BY <3>2, <3>7, <4>1, <4>2 DEF Busy, HelperPC
      <3>9. step'[k] \in {"park", "check"} /\ doWork'[k] > 0
        BY <3>2, <3>3, <3>6, <3>7, <3>8, MaxTasksAssumption, SMT
      <3>10. ASSUME NEW w \in Helpers, w # k
             PROVE  step'[w] = step[w] /\ doWork'[w] = doWork[w]
        BY <3>6, <3>7, <3>10
      <3> HIDE DEF Hand, SignalHelper
      <3> QED BY <2>0, <3>2, <3>4, <3>5, <3>6, <3>9, <3>10 DEF IInv, HelpersInv
    <2>2. CASE ~(i[c] <= threads)
      BY <2>0, <2>2 DEF IInv, HelpersInv
    <2> QED BY <2>1, <2>2
  <1>5. Fresh'
    <2>1. CASE i[c] <= threads
      BY <2>1, SMTT(30) DEF IInv, Fresh, TypeOK, Locks, Destroying
    <2>2. CASE ~(i[c] <= threads)
      BY <2>2, SMTT(30) DEF IInv, Fresh, TypeOK, Locks, Destroying
    <2> QED BY <2>1, <2>2
  <1>6. Count'
    <2>1. CASE i[c] <= threads
      <3>1. \A w \in 1..threads : Busy(w)' <=> w < i'[c]
        <4>1. i[c] \in 1..threads /\ i[c] \in Helpers /\ i'[c] = i[c] + 1
          BY <2>1, SMT DEF IInv, TypeOK
        <4>2. doWork' = [doWork EXCEPT ![i[c]] = doWorkers[c][i[c]]]
          BY <2>1
        <4>3. ASSUME NEW w \in 1..threads, w = i[c]
              PROVE  Busy(w)'
          <5>1. doWork'[w] \in 1..MaxTasks
            BY <4>1, <4>2, <4>3 DEF IInv, TypeOK, Calls
          <5> QED BY <5>1, SMT DEF Busy
        <4>4. ASSUME NEW w \in 1..threads, w # i[c]
              PROVE  Busy(w)' <=> w < i[c]
          <5>1. Busy(w) <=> w < i[c]
            BY DEF IInv, Count
          <5>2. doWork'[w] = doWork[w] /\ step'[w] = step[w]
            BY <2>1, <4>4, SMT DEF IInv, TypeOK
          <5> QED BY <5>1, <5>2 DEF Busy
        <4>5. ASSUME NEW w \in 1..threads
              PROVE  w < i'[c] <=> w < i[c] \/ w = i[c]
          BY <4>1, SMT
        <4> QED BY <4>3, <4>4, <4>5
      <3>2. \A d \in Clients : d # c => ~InWait(d) /\ pc[d] # "hand"
                /\ ~Destroying(d) /\ pc[d] # "spawn"
        BY SMTT(30) DEF IInv, Locks, InWait, Destroying
      <3> QED BY <2>1, <3>1, <3>2, SMTT(30) DEF IInv, Count, InWait,
                 Destroying, Locks, TypeOK
    <2>2. CASE ~(i[c] <= threads)
      <3>1. Reported' = {}
        <4>1. \A w \in 1..threads : Busy(w) <=> w < i[c]
          BY DEF IInv, Count
        <4>2. \A w \in 1..threads : w < i[c]
          BY <2>2, SMT DEF IInv, TypeOK
        <4>3. UNCHANGED <<threads, step, doWork>>
          BY <2>2
        <4> QED BY <4>1, <4>2, <4>3 DEF Reported, Busy
      <3>2. Cardinality(Reported') = 0
        BY <3>1, FS_EmptySet
      <3>3. \A d \in Clients : d # c => ~InWait(d) /\ pc[d] # "hand"
                /\ ~Destroying(d) /\ pc[d] # "spawn"
        BY SMTT(30) DEF IInv, Locks, InWait, Destroying
      <3> QED BY <2>2, <3>2, <3>3, SMTT(30) DEF IInv, Count, InWait,
                 Destroying, Locks, TypeOK
    <2> QED BY <2>1, <2>2
  <1> QED BY <1>1, <1>2, <1>3, <1>4, <1>5, <1>6 DEF IInv

\* A client starts to wait while some helper has not reported.
LEMMA BlockInv ==
  ASSUME IInv, NEW c \in Clients, Block(c)
  PROVE  IInv'
  <1> USE ClientsAssumption, NumCoresAssumption, MaxTasksAssumption,
          CoreCountsAssumption
      DEF Helpers, Goto, vars, mutexes, poolVars, helperVars, clientVars,
          Block, AreThreadsReady
  <1>1. TypeOK'
    BY SMTT(20) DEF IInv, TypeOK, Locks, Calls, HelpersInv, ClientPC, HelperPC
  <1>2. Locks'
    BY SMTT(20) DEF IInv, Locks, TypeOK, Calls, InWait, Destroying
  <1>3. Calls'
    BY SMTT(20) DEF IInv, Calls, TypeOK, Locks, Fresh, InWait, Destroying
  <1>4. HelpersInv'
    BY SMTT(20) DEF IInv, HelpersInv, TypeOK, Locks, Calls, Fresh, Count,
       InWait, Destroying, Busy
  <1>5. Fresh'
    BY SMTT(20) DEF IInv, Fresh, TypeOK, Locks, Calls, HelpersInv, Count,
       InWait, Destroying
  <1>6. Count'
    <2>1. Reported' = Reported
      BY SMTT(20) DEF Reported, IInv, TypeOK, Locks, Calls, HelpersInv, Fresh,
         InWait, Destroying, Busy
    <2> QED BY <2>1, SMTT(20) DEF Count, IInv, TypeOK, Locks, Calls,
               HelpersInv, Fresh, InWait, Destroying, Busy
  <1> QED BY <1>1, <1>2, <1>3, <1>4, <1>5, <1>6 DEF IInv

\* A spurious wakeup of the waiting client changes no count.
LEMMA WakeSpuriouslyInv ==
  ASSUME IInv, NEW c \in Clients, WakeSpuriously(c)
  PROVE  IInv'
  <1> USE ClientsAssumption, NumCoresAssumption, MaxTasksAssumption,
          CoreCountsAssumption
      DEF Helpers, Goto, vars, mutexes, poolVars, helperVars, clientVars,
          WakeSpuriously
  <1>1. TypeOK'
    BY SMTT(20) DEF IInv, TypeOK, Locks, Calls, HelpersInv, ClientPC, HelperPC
  <1>2. Locks'
    BY SMTT(20) DEF IInv, Locks, TypeOK, Calls, InWait, Destroying
  <1>3. Calls'
    BY SMTT(20) DEF IInv, Calls, TypeOK, Locks, Fresh, InWait, Destroying
  <1>4. HelpersInv'
    BY SMTT(20) DEF IInv, HelpersInv, TypeOK, Locks, Calls, Fresh, Count,
       InWait, Destroying, Busy
  <1>5. Fresh'
    BY SMTT(20) DEF IInv, Fresh, TypeOK, Locks, Calls, HelpersInv, Count,
       InWait, Destroying
  <1>6. Count'
    <2>1. Reported' = Reported
      BY SMTT(20) DEF Reported, IInv, TypeOK, Locks, Calls, HelpersInv, Fresh,
         InWait, Destroying, Busy
    <2> QED BY <2>1, SMTT(20) DEF Count, IInv, TypeOK, Locks, Calls,
               HelpersInv, Fresh, InWait, Destroying, Busy
  <1> QED BY <1>1, <1>2, <1>3, <1>4, <1>5, <1>6 DEF IInv

\* The client takes threadMutex again and looks at the count.
LEMMA ResumeInv ==
  ASSUME IInv, NEW c \in Clients, Resume(c)
  PROVE  IInv'
  <1> USE ClientsAssumption, NumCoresAssumption, MaxTasksAssumption,
          CoreCountsAssumption
      DEF Helpers, Goto, vars, mutexes, poolVars, helperVars, clientVars,
          Resume
  <1>1. TypeOK'
    BY SMTT(20) DEF IInv, TypeOK, Locks, Calls, HelpersInv, ClientPC, HelperPC
  <1>2. Locks'
    BY SMTT(20) DEF IInv, Locks, TypeOK, Calls, InWait, Destroying
  <1>3. Calls'
    BY SMTT(20) DEF IInv, Calls, TypeOK, Locks, Fresh, InWait, Destroying
  <1>4. HelpersInv'
    BY SMTT(20) DEF IInv, HelpersInv, TypeOK, Locks, Calls, Fresh, Count,
       InWait, Destroying, Busy
  <1>5. Fresh'
    BY SMTT(20) DEF IInv, Fresh, TypeOK, Locks, Calls, HelpersInv, Count,
       InWait, Destroying
  <1>6. Count'
    <2>1. Reported' = Reported
      BY SMTT(20) DEF Reported, IInv, TypeOK, Locks, Calls, HelpersInv, Fresh,
         InWait, Destroying, Busy
    <2> QED BY <2>1, SMTT(20) DEF Count, IInv, TypeOK, Locks, Calls,
               HelpersInv, Fresh, InWait, Destroying, Busy
  <1> QED BY <1>1, <1>2, <1>3, <1>4, <1>5, <1>6 DEF IInv

\* initialize() returns with every helper reported.
LEMMA InitializeReturnsInv ==
  ASSUME IInv, NEW c \in Clients, InitializeReturns(c)
  PROVE  IInv'
  <1> USE ClientsAssumption, NumCoresAssumption, MaxTasksAssumption,
          CoreCountsAssumption
      DEF Helpers, Goto, vars, mutexes, poolVars, helperVars, clientVars,
          InitializeReturns, Publish, AreThreadsReady
  <1>1. TypeOK'
    BY SMTT(20) DEF IInv, TypeOK, Locks, Calls, HelpersInv, ClientPC, HelperPC
  <1>2. Locks'
    BY SMTT(20) DEF IInv, Locks, TypeOK, Calls, InWait, Destroying
  <1>3. Calls'
    BY SMTT(20) DEF IInv, Calls, TypeOK, Locks, Fresh, InWait, Destroying
  <1>4. HelpersInv'
    BY SMTT(20) DEF IInv, HelpersInv, TypeOK, Locks, Calls, Fresh, Count,
       InWait, Destroying, Busy
  <1>5. Fresh'
    BY SMTT(20) DEF IInv, Fresh, TypeOK, Locks, Calls, HelpersInv, Count,
       InWait, Destroying
  <1>6. Count'
    <2>1. \A w \in 1..threads : ~Busy(w)
      <3>1. ready = Cardinality(Reported)
        BY DEF IInv, Count, InWait
      <3>2. Reported = 1..threads
        BY <3>1, AllReported DEF IInv
      <3> QED BY <3>2 DEF Reported
    <2>2. \A d \in Clients : d # c => ~InWait(d) /\ pc[d] # "hand"
              /\ ~Destroying(d) /\ pc[d] # "spawn"
      BY SMTT(30) DEF IInv, Locks, InWait, Destroying
    <2> QED BY <2>1, <2>2, SMTT(30) DEF IInv, Count, InWait, Destroying,
               TypeOK, Busy
  <1> QED BY <1>1, <1>2, <1>3, <1>4, <1>5, <1>6 DEF IInv

\* work() returns with every helper reported and without a closure.
LEMMA WorkReturnsInv ==
  ASSUME IInv, NEW c \in Clients, WorkReturns(c)
  PROVE  IInv'
  <1> USE ClientsAssumption, NumCoresAssumption, MaxTasksAssumption,
          CoreCountsAssumption
      DEF Helpers, Goto, vars, mutexes, poolVars, helperVars, clientVars,
          WorkReturns, AreThreadsReady
  <1>1. TypeOK'
    <2>1. doWorkers' \in [Clients -> Closures]
      BY NoClosures DEF IInv, TypeOK
    <2>2. pool' \in BOOLEAN /\ running' \in BOOLEAN
      BY DEF IInv, TypeOK
    <2>3. pc' \in [Clients -> ClientPC]
      BY DEF IInv, TypeOK, ClientPC
    <2> QED BY <2>1, <2>2, <2>3 DEF IInv, TypeOK
  <1>2. Locks'
    BY SMTT(20) DEF IInv, Locks, TypeOK, Calls, InWait, Destroying
  <1>3. Calls'
    BY SMTT(20) DEF IInv, Calls, TypeOK, Locks, Fresh, InWait, Destroying
  <1>4. HelpersInv'
    <2>1. \A w \in 1..threads : ~Busy(w)
      <3>1. ready = Cardinality(Reported)
        BY DEF IInv, Count, InWait
      <3>2. Reported = 1..threads
        BY <3>1, AllReported DEF IInv
      <3> QED BY <3>2 DEF Reported
    <2>2. \A w \in Helpers : doWork[w] = 0
      BY <2>1, SMTT(20) DEF IInv, TypeOK, HelpersInv, Busy
    <2>3. \A d \in Clients : Destroying(d)' <=> Destroying(d)
      BY SMTT(30) DEF IInv, TypeOK, Destroying
    <2> QED BY <2>2, <2>3, SMTT(30) DEF IInv, HelpersInv
  <1>5. Fresh'
    BY SMTT(20) DEF IInv, Fresh, TypeOK, Locks, Calls, HelpersInv, Count,
       InWait, Destroying
  <1>6. Count'
    <2>1. \A w \in 1..threads : ~Busy(w)
      <3>1. ready = Cardinality(Reported)
        BY DEF IInv, Count, InWait
      <3>2. Reported = 1..threads
        BY <3>1, AllReported DEF IInv
      <3> QED BY <3>2 DEF Reported
    <2>2. \A d \in Clients : d # c => ~InWait(d) /\ pc[d] # "hand"
              /\ ~Destroying(d) /\ pc[d] # "spawn"
      BY SMTT(30) DEF IInv, Locks, InWait, Destroying
    <2> QED BY <2>1, <2>2, SMTT(30) DEF IInv, Count, InWait, Destroying,
               TypeOK, Busy
  <1> QED BY <1>1, <1>2, <1>3, <1>4, <1>5, <1>6 DEF IInv
-----------------------------------------------------------------------------
(* Theorems *)

\* Before the first call there is no pool and no helper.
LEMMA InitInv == Init => IInv
  <1> SUFFICES ASSUME Init PROVE IInv
    OBVIOUS
  <1> USE ClientsAssumption, NumCoresAssumption, MaxTasksAssumption
      DEF Helpers, Init
  <1>1. TypeOK
    <2>1. doWorkers \in [Clients -> Closures]
      BY NoClosures
    <2>2. pool \in BOOLEAN /\ running \in BOOLEAN
      OBVIOUS
    <2> QED BY <2>1, <2>2, SMT DEF TypeOK, ClientPC, HelperPC
  <1>2. Locks /\ Calls /\ HelpersInv /\ Fresh /\ Count
    BY SMTT(20) DEF Locks, Calls, HelpersInv, Fresh, Count, InWait, Destroying
  <1> QED BY <1>1, <1>2 DEF IInv

\* Every step of a client or helper keeps the invariant.
LEMMA NextInv == IInv /\ [Next]_vars => IInv'
  <1> SUFFICES ASSUME IInv, [Next]_vars PROVE IInv'
    OBVIOUS
  <1>1. ASSUME NEW w \in Helpers, HelperNext(w) PROVE IInv'
    BY <1>1, CheckInv, RunTaskInv, NotifyInv, ParkInv DEF HelperNext
  <1>2. ASSUME NEW c \in Clients, ClientStep(c) PROVE IInv'
    BY <1>2, GetInv, InitializeOneCoreInv, InitializeInv, SpawnInv,
       DestroyThreadInv, JoinInv, ClearDoneInv, WorkInv, RunSequentiallyInv,
       LockWorkInv, ResetInv, HandInv, BlockInv, ResumeInv,
       InitializeReturnsInv, WorkReturnsInv
    DEF ClientStep
  <1>3. ASSUME NEW c \in Clients, ClientNext(c) PROVE IInv'
    BY <1>2, <1>3, CallInv, SpawnFailsInv, DestroyInv, WakeSpuriouslyInv
    DEF ClientNext
  <1>4. CASE UNCHANGED vars
    <2> USE <1>4 DEF vars, mutexes, poolVars, helperVars, clientVars
    <2>1. \A w \in Helpers : Busy(w)' <=> Busy(w)
      BY DEF Busy
    <2>2. Reported' = Reported
      BY <2>1 DEF Reported, Busy
    <2>3. (TypeOK /\ Locks /\ Calls /\ HelpersInv /\ Fresh)'
      BY DEF IInv, TypeOK, Locks, Calls, HelpersInv, Fresh, InWait, Destroying
    <2>4. Count'
      BY <2>2 DEF IInv, Count, InWait, Destroying, Busy
    <2> QED BY <2>3, <2>4 DEF IInv
  <1> QED BY <1>1, <1>3, <1>4 DEF Next, Exited

\* Through every interleaving of clients and helpers, locks are held where the
\* code holds them and the count is that of the helpers that have reported.
THEOREM InductiveInvariant == Spec => []IInv
  BY InitInv, NextInv, PTL DEF Spec

\* Every variable keeps its type; in particular ready never exceeds the number
\* of helpers, so the count that areThreadsReady() compares cannot overshoot.
THEOREM TypeCorrect == Spec => []TypeOK
  <1>1. IInv => TypeOK
    BY DEF IInv
  <1> QED BY <1>1, InductiveInvariant, PTL

\* ThreadPool::work returns only when every closure it handed out has answered
\* Finished: outside work() no helper holds a closure.
THEOREM WorkBlocksUntilDone == Spec => []WorkBlocks
  <1>1. IInv => WorkBlocks
    BY NumCoresAssumption, MaxTasksAssumption, SMT
    DEF IInv, TypeOK, HelpersInv, WorkBlocks, Helpers
  <1> QED BY <1>1, InductiveInvariant, PTL

\* The assertions of threads.cpp never fire.
THEOREM AssertionsNeverFire == Spec => []AssertionsHold
  <1>1. ASSUME IInv, NEW c \in Clients, pc[c] \in {"lock", "reset"}
        PROVE  Len(doWorkers[c]) = threads
    BY <1>1, NumCoresAssumption, SMT DEF IInv, TypeOK, Calls
  <1>2. ASSUME IInv, NEW c \in Clients, pc[c] = "reset"
        PROVE  ready = threads
    <2>1. \A d \in Clients : ~(pc[d] = "hand" \/ InWait(d) \/ Destroying(d))
      BY <1>2, ClientsAssumption, SMT DEF IInv, Locks, InWait, Destroying
    <2> QED BY <1>2, <2>1, ClientsAssumption, SMT DEF IInv, Locks, Count
  <1>3. ASSUME IInv, NEW c \in Clients, pc[c] = "spawn"
        PROVE  ~running
    BY <1>3, ClientsAssumption, SMT DEF IInv, TypeOK, Locks, Calls
  <1>4. IInv => AssertionsHold
    BY <1>1, <1>2, <1>3 DEF AssertionsHold, IInv, Calls
  <1> QED BY <1>4, InductiveInvariant, PTL

\* No wakeup of a helper is lost.
THEOREM WakeupsReachHelpers == Spec => []NoLostWakeup
  <1>1. IInv => NoLostWakeup
    BY DEF IInv, HelpersInv, NoLostWakeup
  <1> QED BY <1>1, InductiveInvariant, PTL

\* The pool's condition variable never has two waiters.
THEOREM AtMostOneWaiter == Spec => []OneWaiter
  <1>1. IInv => OneWaiter
    BY ClientsAssumption, SMT DEF IInv, Locks, InWait, OneWaiter
  <1> QED BY <1>1, InductiveInvariant, PTL

-----------------------------------------------------------------------------
(* The refinement of WorkPool *)

\* Inside work(), on the way to the helpers or waiting for them.
Working(c) == pc[c] \in {"lock", "reset", "hand"} \/ (InWait(c) /\ workMutex = c)

\* A client has closures just while it is in work(), one for each helper; and
\* there are no helpers, or two at least.
Own ==
    /\ pool => threads # 1
    /\ \A c \in Clients :
        /\ pc[c] = "spawn" => num # 1
        /\ InWait(c) /\ creationMutex = c => threads # 1
        /\ Working(c) => threads # 0 /\ doWorkers[c] \in [1..threads -> 1..MaxTasks]
        /\ ~Working(c) /\ pc[c] # "sequential" => doWorkers[c] = <<>>

RInv == IInv /\ Own

\* A step seen by the promise as no step.
LEMMA TodoSame ==
  ASSUME doWorkers' = doWorkers,
         \A c \in Clients : \A w \in DOMAIN doWorkers[c] :
            /\ Handed(c, w)' <=> Handed(c, w)
            /\ Handed(c, w) => doWork'[w] = doWork[w]
  PROVE  todo' = todo
  BY DEF todo

-----------------------------------------------------------------------------
(* The steps of a helper *)

LEMMA HelperOwn ==
  ASSUME RInv, NEW w \in Helpers, HelperNext(w)
  PROVE  /\ Own'
         /\ mutexes' = mutexes /\ doWorkers' = doWorkers
         /\ \A c \in Clients : \A v : Handed(c, v)' <=> Handed(c, v)
  <1>1. /\ mutexes' = mutexes /\ doWorkers' = doWorkers /\ i' = i
        /\ pool' = pool /\ num' = num /\ threads' = threads
    BY DEF HelperNext, Check, RunTask, Notify, Park, mutexes, poolVars, clientVars
  <1>2. \A c \in Clients :
           pc'[c] = pc[c] \/ (pc[c] = "blocked" /\ pc'[c] = "resume")
    <2>1. CASE Notify(w)
      BY <2>1 DEF Notify, Goto, RInv, IInv, TypeOK
    <2>2. CASE ~Notify(w)
      BY <2>2 DEF HelperNext, Check, RunTask, Park, clientVars
    <2> QED BY <2>1, <2>2
  <1>3. \A c \in Clients : /\ InWait(c)' <=> InWait(c)
                           /\ Working(c)' <=> Working(c)
                           /\ \A v : Handed(c, v)' <=> Handed(c, v)
    BY <1>1, <1>2 DEF InWait, Working, Handed, mutexes
  <1>4. Own'
    BY <1>1, <1>2, <1>3 DEF RInv, Own, mutexes
  <1> QED BY <1>1, <1>3, <1>4

\* A helper has a task only after the client that owns the helpers handed it.
LEMMA TaskHanded ==
  ASSUME RInv, NEW w \in Helpers, step[w] = "task"
  PROVE  \E c \in Clients :
            /\ workMutex = c /\ Working(c) /\ Handed(c, w)
            /\ w \in 1..threads /\ doWork[w] > 0
  <1>1. doWork[w] > 0 /\ workMutex # NoOne /\ w \in 1..threads
    <2>1. HelpersInv /\ threads \in Nat /\ w \in Nat \ {0} /\ doWork[w] \in Nat
      BY NumCoresAssumption, MaxTasksAssumption DEF RInv, IInv, TypeOK, Helpers
    <2>2. doWork[w] > 0 /\ workMutex # NoOne /\ ~(w > threads)
      BY <2>1 DEF HelpersInv
    <2> QED BY <2>1, <2>2
  <1>2. PICK c \in Clients : workMutex = c
    BY <1>1 DEF RInv, IInv, TypeOK
  <1>3. pool /\ (pc[c] \in {"reset", "hand"} \/ InWait(c))
    BY <1>2 DEF RInv, IInv, Locks
  <1>4. pc[c] # "reset"
    <2>1. ASSUME pc[c] = "reset"
          PROVE  \A d \in Clients : ~(pc[d] = "hand" \/ InWait(d) \/ Destroying(d))
      BY <1>2, <1>3, <2>1, ClientsAssumption, SMT
         DEF RInv, IInv, Locks, InWait, Destroying
    <2>2. Busy(w)
      BY DEF Busy
    <2> QED BY <1>1, <1>3, <2>1, <2>2 DEF RInv, IInv, Count
  <1>5. pc[c] = "hand" => w < i[c]
    BY <1>1 DEF RInv, IInv, Count, Busy
  <1> QED BY <1>1, <1>2, <1>3, <1>4, <1>5 DEF Working, Handed

LEMMA HelperRefines ==
  ASSUME RInv, NEW w \in Helpers, HelperNext(w)
  PROVE  Own' /\ [Promise!Next]_<<workMutex, todo>>
  <1>1. /\ Own' /\ mutexes' = mutexes /\ doWorkers' = doWorkers
        /\ \A c \in Clients : \A v : Handed(c, v)' <=> Handed(c, v)
    BY HelperOwn
  <1>2. CASE ~RunTask(w)
    <2>1. doWork' = doWork
      BY <1>2 DEF HelperNext, Check, Notify, Park
    <2> QED BY <1>1, <2>1, TodoSame DEF mutexes
  <1>3. CASE RunTask(w)
    <2>1. /\ step[w] = "task" /\ doWork'[w] = doWork[w] - 1
          /\ \A v : v # w => doWork'[v] = doWork[v]
      BY <1>3 DEF RunTask, RInv, IInv, TypeOK
    <2>2. PICK c \in Clients :
             /\ workMutex = c /\ Working(c) /\ Handed(c, w)
             /\ w \in 1..threads /\ doWork[w] > 0
      BY <2>1, TaskHanded
    <2>3. \A d \in Clients : \A v : Handed(d, v) => d = c
      BY <2>2 DEF Handed, RInv, IInv, Locks
    <2>4. threads # 0 /\ threads # 1 /\ threads \in Nat
          /\ doWorkers[c] \in [1..threads -> 1..MaxTasks]
      BY <2>2, NumCoresAssumption DEF RInv, Own, IInv, Locks, TypeOK
    <2>5. Len(todo[c]) = threads /\ DOMAIN todo[c] = 1..threads
      BY <2>4 DEF todo
    <2>6. todo[c][w] = doWork[w]
      BY <2>2, <2>4 DEF todo
    <2>7. todo' = [todo EXCEPT ![c][w] = @ - 1]
      <3>1. ASSUME NEW d \in Clients, d # c
            PROVE  todo'[d] = todo[d]
        BY <1>1, <2>3, <3>1 DEF todo
      <3>2. todo'[c] = [todo[c] EXCEPT ![w] = @ - 1]
        BY <1>1, <2>1, <2>2, <2>4, <2>6 DEF todo
      <3>3. todo = [d \in Clients |-> todo[d]] /\ todo' = [d \in Clients |-> todo'[d]]
        BY DEF todo
      <3> QED BY <3>1, <3>2, <3>3
    <2>8. Promise!CallTask(c, w)
      BY <1>1, <2>2, <2>5, <2>6, <2>7 DEF Promise!CallTask, mutexes
    <2>9. w \in DOMAIN todo[c]
      BY <2>2, <2>5
    <2>10. Promise!Next
      BY <2>8, <2>9 DEF Promise!Next
    <2> QED BY <1>1, <2>10
  <1> QED BY <1>1, <1>2, <1>3

-----------------------------------------------------------------------------
(* The steps of a client *)

\* A client's step leaves the other clients where they are.
LEMMA ClientLocal ==
  ASSUME RInv, NEW c \in Clients, ClientNext(c), NEW d \in Clients \ {c}
  PROVE  /\ pc'[d] = pc[d] /\ i'[d] = i[d] /\ doWorkers'[d] = doWorkers[d]
         /\ workMutex' = d <=> workMutex = d
         /\ creationMutex' = d <=> creationMutex = d
         /\ InWait(d)' <=> InWait(d)
         /\ Working(d)' <=> Working(d)
         /\ \A v : Handed(d, v)' <=> Handed(d, v)
  <1>1. pc'[d] = pc[d] /\ i'[d] = i[d] /\ doWorkers'[d] = doWorkers[d]
    BY DEF ClientNext, ClientStep, Call, Get, InitializeOneCore, Initialize, Spawn,
       SpawnFails, Destroy, DestroyThread, Join, ClearDone, Work, RunSequentially,
       LockWork, Reset, Hand, Block, WakeSpuriously, Resume, InitializeReturns,
       WorkReturns, Publish, Goto, RInv, IInv, TypeOK, mutexes, poolVars,
       helperVars, clientVars
  <1>2. workMutex' = d <=> workMutex = d
    BY ClientsAssumption
    DEF ClientNext, ClientStep, Call, Get, InitializeOneCore, Initialize, Spawn,
       SpawnFails, Destroy, DestroyThread, Join, ClearDone, Work, RunSequentially,
       LockWork, Reset, Hand, Block, WakeSpuriously, Resume, InitializeReturns,
       WorkReturns, Publish, mutexes
  <1>3. creationMutex' = d <=> creationMutex = d
    <2>1. pc[c] = "initialize" => creationMutex = c
      BY DEF RInv, IInv, Locks
    <2> QED BY <2>1, ClientsAssumption
    DEF ClientNext, ClientStep, Call, Get, InitializeOneCore, Initialize, Spawn,
       SpawnFails, Destroy, DestroyThread, Join, ClearDone, Work, RunSequentially,
       LockWork, Reset, Hand, Block, WakeSpuriously, Resume, InitializeReturns,
       WorkReturns, Publish, mutexes
  <1> QED BY <1>1, <1>2, <1>3 DEF InWait, Working, Handed

\* The number of helpers stays while anyone needs it.
LEMMA ThreadsStay ==
  ASSUME RInv, NEW c \in Clients, ClientNext(c)
  PROVE  /\ threads' = threads \/ ((pc[c] = "spawn" \/ (pc[c] = "clear" /\ threads' = 0))
                                   /\ \A d \in Clients : ~Working(d))
         /\ num' = num \/ (\A d \in Clients : creationMutex # d)
  <1>1. threads' = threads \/ Spawn(c) \/ ClearDone(c)
    BY DEF ClientNext, ClientStep, Call, Get, InitializeOneCore, Initialize,
       SpawnFails, Destroy, DestroyThread, Join, Work, RunSequentially,
       LockWork, Reset, Hand, Block, WakeSpuriously, Resume, InitializeReturns,
       WorkReturns, poolVars
  <1>2. num' = num \/ Get(c)
    BY DEF ClientNext, ClientStep, Call, InitializeOneCore, Initialize, Spawn,
       SpawnFails, Destroy, DestroyThread, Join, ClearDone, Work, RunSequentially,
       LockWork, Reset, Hand, Block, WakeSpuriously, Resume, InitializeReturns,
       WorkReturns, poolVars
  <1>3. \A d \in Clients : Working(d) => pool
    BY DEF Working, RInv, IInv, Locks
  <1>4. pc[c] = "spawn" => ~pool
    BY DEF RInv, IInv, Locks
  <1>5. pc[c] = "clear" /\ pool => \A d \in Clients : ~Working(d)
    <2>1. ASSUME pc[c] = "clear", pool, NEW d \in Clients
          PROVE  pc[d] \in {"idle", "clear"}
      BY <2>1 DEF RInv, IInv, Locks, Destroying
    <2> QED BY <2>1 DEF Working, InWait
  <1>6. Spawn(c) => pc[c] = "spawn"
    BY DEF Spawn
  <1>7. ClearDone(c) => pc[c] = "clear" /\ threads' = 0
    BY DEF ClearDone
  <1>8. ASSUME Get(c), num' # num
        PROVE  \A d \in Clients : creationMutex # d
    BY <1>8, ClientsAssumption DEF Get
  <1> QED BY <1>1, <1>2, <1>3, <1>4, <1>5, <1>6, <1>7, <1>8

\* What has to be shown of Own is about the client that takes the step.
LEMMA ClientOwn ==
  ASSUME RInv, NEW c \in Clients, ClientNext(c),
         pool' => threads' # 1,
         pc'[c] = "spawn" => num' # 1,
         InWait(c)' /\ creationMutex' = c => threads' # 1,
         Working(c)' => /\ threads' # 0
                        /\ doWorkers'[c] \in [1..threads' -> 1..MaxTasks],
         ~Working(c)' /\ pc'[c] # "sequential" => doWorkers'[c] = <<>>
  PROVE  Own'
  <1>1. ASSUME NEW d \in Clients, d # c
        PROVE  /\ pc'[d] = "spawn" => num' # 1
               /\ InWait(d)' /\ creationMutex' = d => threads' # 1
               /\ Working(d)' => /\ threads' # 0
                                 /\ doWorkers'[d] \in [1..threads' -> 1..MaxTasks]
               /\ ~Working(d)' /\ pc'[d] # "sequential" => doWorkers'[d] = <<>>
    <2>1. /\ pc'[d] = pc[d] /\ doWorkers'[d] = doWorkers[d]
          /\ creationMutex' = d <=> creationMutex = d
          /\ InWait(d)' <=> InWait(d)
          /\ Working(d)' <=> Working(d)
      BY <1>1, ClientLocal
    <2>2. pc[d] = "spawn" => creationMutex = d
      BY DEF RInv, IInv, Locks
    <2>3. InWait(d) /\ creationMutex = d => threads' = threads \/ threads' = 0
      <3>1. ASSUME InWait(d), creationMutex = d, pc[c] = "spawn"
            PROVE  FALSE
        BY <1>1, <3>1 DEF RInv, IInv, Locks
      <3> QED BY <3>1, ThreadsStay
    <2>4. Working(d) => threads' = threads
      BY ThreadsStay
    <2>5. num' = num \/ creationMutex # d
      BY ThreadsStay
    <2> QED BY <2>1, <2>2, <2>3, <2>4, <2>5 DEF RInv, Own
  <1> QED BY <1>1 DEF Own

LEMMA ClientSame ==
  ASSUME RInv, NEW c \in Clients, ClientNext(c),
         doWork' = doWork, doWorkers' = doWorkers,
         \A w \in DOMAIN doWorkers[c] : Handed(c, w)' <=> Handed(c, w)
  PROVE  todo' = todo
  <1>1. ASSUME NEW d \in Clients, NEW w \in DOMAIN doWorkers[d]
        PROVE  Handed(d, w)' <=> Handed(d, w)
    <2>1. CASE d = c
      BY <2>1
    <2>2. CASE d # c
      BY <2>2, ClientLocal
    <2> QED BY <2>1, <2>2
  <1> QED BY <1>1, TodoSame

Refines == [Promise!Next]_<<workMutex, todo>>

\* get(), initialize() and exit(): the client has no closures.
LEMMA OutsideRefines ==
  ASSUME RInv, NEW c \in Clients,
         \/ Call(c) \/ Get(c) \/ InitializeOneCore(c) \/ Initialize(c) \/ Spawn(c)
         \/ SpawnFails(c) \/ Destroy(c) \/ DestroyThread(c) \/ Join(c)
         \/ ClearDone(c) \/ InitializeReturns(c)
  PROVE  Own' /\ Refines
  <1>1. /\ workMutex' = workMutex /\ doWork' = doWork /\ doWorkers' = doWorkers
    BY DEF Call, Get, InitializeOneCore, Initialize, Spawn, SpawnFails, Destroy,
       DestroyThread, Join, ClearDone, InitializeReturns, Publish, mutexes,
       helperVars, clientVars
  <1>2. ClientNext(c)
    BY DEF ClientNext, ClientStep
  <1>3. ~Working(c) /\ pc[c] # "sequential"
    BY ClientsAssumption DEF Call, Get, InitializeOneCore, Initialize, Spawn,
       SpawnFails, Destroy, DestroyThread, Join, ClearDone, InitializeReturns,
       Working, InWait, RInv, IInv, Locks
  <1>4. pc'[c] \in {"get", "work", "initialize", "spawn", "wait", "clear", "join",
                    "exited"}
        /\ (pc'[c] = "wait" => pc[c] = "spawn")
    BY DEF Call, Get, InitializeOneCore, Initialize, Spawn, SpawnFails, Destroy,
       DestroyThread, Join, ClearDone, InitializeReturns, Publish, Goto,
       RInv, IInv, TypeOK
  <1>5. pc[c] = "spawn" => workMutex # c
    BY DEF RInv, IInv, Locks
  <1>6. ~Working(c)' /\ pc'[c] # "sequential"
    BY <1>1, <1>4, <1>5 DEF Working, InWait
  <1>7. doWorkers[c] = <<>>
    BY <1>3 DEF RInv, Own
  <1>8. DOMAIN doWorkers[c] = {}
    BY <1>7, SMT
  <1>9. todo' = todo
    BY <1>1, <1>2, <1>8, ClientSame
  <1>10. pool' => threads' # 1
    <2>1. CASE InitializeOneCore(c)
      BY <2>1 DEF InitializeOneCore, RInv, IInv, Fresh
    <2>2. CASE ClearDone(c)
      BY <2>2 DEF ClearDone
    <2>3. CASE InitializeReturns(c)
      BY <2>3 DEF InitializeReturns, RInv, Own, InWait
    <2>4. CASE Spawn(c)
      BY <2>4 DEF Spawn, RInv, IInv, Locks
    <2> QED BY <2>1, <2>2, <2>3, <2>4
            DEF Call, Get, Initialize, SpawnFails, Destroy, DestroyThread, Join,
                RInv, Own, poolVars
  <1>11. pc'[c] = "spawn" => num' # 1
    <2>1. CASE Initialize(c)
      BY <2>1 DEF Initialize
    <2>2. CASE Spawn(c)
      BY <2>2 DEF Spawn, RInv, Own
    <2>3. CASE ~Initialize(c) /\ ~Spawn(c)
      BY <2>3 DEF Call, Get, InitializeOneCore, SpawnFails, Destroy,
         DestroyThread, Join, ClearDone, InitializeReturns, Publish, Goto,
         RInv, IInv, TypeOK
    <2> QED BY <2>1, <2>2, <2>3
  <1>12. InWait(c)' => threads' # 1
    <2>1. ASSUME InWait(c)'
          PROVE  Spawn(c) /\ pc[c] = "spawn" /\ pc'[c] = "wait"
      <3>1. pc'[c] = "wait"
        BY <1>4, <2>1 DEF InWait
      <3>2. Spawn(c)
        BY <3>1 DEF Call, Get, InitializeOneCore, Initialize, SpawnFails, Destroy,
           DestroyThread, Join, ClearDone, InitializeReturns, Publish, Goto,
           RInv, IInv, TypeOK
      <3> QED BY <1>4, <3>1, <3>2
    <2>2. ASSUME Spawn(c), pc'[c] = "wait", pc[c] = "spawn"
          PROVE  threads' # 1
      <3>1. ~(i[c] <= num) /\ threads' = threads
        BY <2>2 DEF Spawn
      <3>2. i[c] = threads + 1 /\ threads <= num /\ num # 1
        BY <2>2 DEF RInv, Own, IInv, Calls
      <3>3. num \in Nat /\ threads \in Nat
        BY NumCoresAssumption DEF RInv, IInv, TypeOK
      <3> QED BY <3>1, <3>2, <3>3
    <2> QED BY <2>1, <2>2
  <1>13. Own'
    BY <1>1, <1>2, <1>6, <1>7, <1>10, <1>11, <1>12, ClientOwn
  <1> QED BY <1>1, <1>9, <1>13 DEF Refines

\* Waiting for the helpers.
LEMMA WaitRefines ==
  ASSUME RInv, NEW c \in Clients, Block(c) \/ WakeSpuriously(c) \/ Resume(c)
  PROVE  Own' /\ Refines
  <1>1. /\ workMutex' = workMutex /\ doWork' = doWork /\ doWorkers' = doWorkers
        /\ creationMutex' = creationMutex /\ pool' = pool /\ num' = num
        /\ threads' = threads
    BY DEF Block, WakeSpuriously, Resume, mutexes, poolVars, helperVars
  <1>2. ClientNext(c)
    BY DEF ClientNext, ClientStep
  <1>3. InWait(c) /\ InWait(c)' /\ pc'[c] # "spawn" /\ pc'[c] # "hand" /\ pc[c] # "hand"
    BY DEF Block, WakeSpuriously, Resume, Goto, InWait, RInv, IInv, TypeOK
  <1>4. \A w : Handed(c, w)' <=> Handed(c, w)
    BY <1>1, <1>3 DEF Handed
  <1>5. todo' = todo
    BY <1>1, <1>2, <1>4, ClientSame
  <1>6. Working(c)' <=> Working(c)
    BY <1>1, <1>3 DEF Working, InWait
  <1>7. pc[c] # "sequential"
    BY <1>3 DEF InWait
  <1>8. Own'
    BY <1>1, <1>2, <1>3, <1>6, <1>7, ClientOwn DEF RInv, Own
  <1> QED BY <1>1, <1>5, <1>8 DEF Refines

LEMMA WorkRefines ==
  ASSUME RInv, NEW c \in Clients, Work(c)
  PROVE  Own' /\ Refines
  <1>1. /\ workMutex' = workMutex /\ doWork' = doWork
        /\ creationMutex' = creationMutex /\ pool' = pool /\ num' = num
        /\ threads' = threads /\ pc[c] = "work"
    BY DEF Work, mutexes, poolVars, helperVars
  <1>2. ClientNext(c)
    BY DEF ClientNext, ClientStep
  <1>3. PICK closures \in [1..Size -> 1..MaxTasks] :
           doWorkers' = [doWorkers EXCEPT ![c] = closures]
    BY DEF Work
  <1>4. doWorkers'[c] = closures /\ \A d \in Clients \ {c} : doWorkers'[d] = doWorkers[d]
    BY <1>3 DEF RInv, IInv, TypeOK
  <1>5. pool /\ threads \in Nat /\ threads # 1 /\ doWorkers[c] = <<>>
    <2>1. ~Working(c)
      BY <1>1 DEF Working, InWait
    <2>2. pool
      BY <1>1 DEF RInv, IInv, Locks
    <2>3. threads \in Nat
      BY NumCoresAssumption DEF RInv, IInv, TypeOK
    <2> QED BY <1>1, <2>1, <2>2, <2>3 DEF RInv, Own
  <1>6. pc'[c] = IF threads = 0 THEN "sequential" ELSE "lock"
    BY DEF Work, Goto, RInv, IInv, TypeOK
  <1>7. Own'
    BY <1>1, <1>2, <1>4, <1>5, <1>6, ClientOwn DEF Working, InWait, RInv, Own, Size
  <1>8. Promise!Begin(c)
    <2>1. todo[c] = <<>>
      <3>1. DOMAIN doWorkers[c] = {}
        BY <1>5, SMT
      <3>2. todo[c] = [w \in {} |-> doWorkers[c][w]]
        BY <3>1 DEF todo
      <3> QED BY <3>2, SMT
    <2>2. Size \in Promise!Sizes
      BY <1>5 DEF RInv, IInv, TypeOK, Size, Promise!Sizes
    <2>3. todo'[c] = closures
      <3>1. \A w : ~Handed(c, w)'
        BY <1>6 DEF Handed, InWait
      <3> QED BY <1>4, <3>1 DEF todo
    <2>4. ASSUME NEW d \in Clients, d # c
          PROVE  todo'[d] = todo[d]
      BY <1>1, <1>2, <1>4, <2>4, ClientLocal DEF todo
    <2>5. todo = [d \in Clients |-> todo[d]] /\ todo' = [d \in Clients |-> todo'[d]]
      BY DEF todo
    <2>6. todo' = [todo EXCEPT ![c] = closures]
      BY <2>3, <2>4, <2>5
    <2> QED BY <1>1, <2>1, <2>2, <2>6 DEF Promise!Begin
  <1> QED BY <1>7, <1>8 DEF Refines, Promise!Next

LEMMA SequentialRefines ==
  ASSUME RInv, NEW c \in Clients, RunSequentially(c)
  PROVE  Own' /\ Refines
  <1>1. /\ workMutex' = workMutex /\ doWork' = doWork
        /\ creationMutex' = creationMutex /\ pool' = pool /\ num' = num
        /\ threads' = threads /\ pc[c] = "sequential"
    BY DEF RunSequentially, mutexes, poolVars, helperVars
  <1>2. ClientNext(c)
    BY DEF ClientNext, ClientStep
  <1>3. doWorkers[c] \in [{1} -> 1..MaxTasks] /\ doWorkers \in [Clients -> Closures]
    BY <1>1 DEF RInv, IInv, Calls, TypeOK
  <1>4. /\ \A d \in Clients \ {c} : doWorkers'[d] = doWorkers[d]
        /\ pc' \in [Clients -> ClientPC]
        /\ pc'[c] \in {"sequential", "idle"}
    BY <1>1 DEF RunSequentially, Goto, RInv, IInv, TypeOK, ClientPC
  <1>5. (\A w : ~Handed(c, w)) /\ (\A w : ~Handed(c, w)')
    BY <1>1, <1>4 DEF Handed, InWait
  <1>6. todo[c] = doWorkers[c] /\ todo'[c] = doWorkers'[c]
    <2>1. DOMAIN doWorkers[c] = {1} /\ doWorkers[c] = [w \in {1} |-> doWorkers[c][w]]
      BY <1>3
    <2>2. todo[c] = doWorkers[c]
      BY <1>5, <2>1 DEF todo
    <2>3. doWorkers'[c] = [w \in DOMAIN doWorkers'[c] |-> doWorkers'[c][w]]
      BY <1>3, SMT DEF RunSequentially
    <2>4. todo'[c] = doWorkers'[c]
      BY <1>5, <2>3 DEF todo
    <2> QED BY <2>2, <2>4
  <1>7. ASSUME NEW d \in Clients, d # c
        PROVE  todo'[d] = todo[d]
    BY <1>1, <1>2, <1>4, <1>7, ClientLocal DEF todo
  <1>8. todo = [d \in Clients |-> todo[d]] /\ todo' = [d \in Clients |-> todo'[d]]
    BY DEF todo
  <1>9. Len(todo[c]) = 1 /\ todo[c][1] \in 1..MaxTasks /\ DOMAIN todo[c] = {1}
    <2>1. doWorkers[c] \in [1..1 -> 1..MaxTasks]
      BY <1>3, SMT
    <2> QED BY <1>6, <2>1
  <1>10. CASE doWorkers[c][1] > 1
    <2>1. doWorkers' = [doWorkers EXCEPT ![c][1] = @ - 1] /\ pc' = pc
      BY <1>10 DEF RunSequentially
    <2>2. doWorkers'[c] = [doWorkers[c] EXCEPT ![1] = @ - 1]
      BY <1>3, <2>1
    <2>3. todo'[c] = [todo[c] EXCEPT ![1] = @ - 1]
      BY <1>6, <2>2
    <2>4. todo' = [todo EXCEPT ![c][1] = @ - 1]
      BY <1>7, <1>8, <2>3
    <2>5. Promise!CallTask(c, 1)
      BY <1>1, <1>9, <2>4 DEF Promise!CallTask
    <2>6. Promise!Next
      BY <1>9, <2>5 DEF Promise!Next
    <2>7. Own'
      BY <1>1, <1>2, <2>1, ClientOwn DEF RInv, Own, Working, InWait
    <2> QED BY <2>6, <2>7 DEF Refines
  <1>11. CASE ~(doWorkers[c][1] > 1)
    <2>1. doWorkers' = [doWorkers EXCEPT ![c] = <<>>] /\ pc' = [pc EXCEPT ![c] = "idle"]
      BY <1>11 DEF RunSequentially, Goto
    <2>2. doWorkers'[c] = <<>> /\ pc'[c] = "idle"
      BY <1>3, <2>1 DEF RInv, IInv, TypeOK
    <2>3. todo' = [todo EXCEPT ![c] = <<>>]
      BY <1>6, <1>7, <1>8, <2>2
    <2>4. todo[c][1] = 1 /\ todo[c] # <<>>
      BY <1>6, <1>9, <1>11, MaxTasksAssumption, SMT
    <2>5. Promise!Return(c)
      BY <1>1, <1>9, <2>3, <2>4 DEF Promise!Return
    <2>6. Promise!Next
      BY <2>5 DEF Promise!Next
    <2>7. Own'
      BY <1>1, <1>2, <2>2, ClientOwn DEF RInv, Own, Working, InWait
    <2> QED BY <2>6, <2>7 DEF Refines
  <1> QED BY <1>10, <1>11

LEMMA LockRefines ==
  ASSUME RInv, NEW c \in Clients, LockWork(c)
  PROVE  Own' /\ Refines
  <1>1. /\ workMutex = NoOne /\ workMutex' = c /\ doWork' = doWork
        /\ doWorkers' = doWorkers /\ creationMutex' = creationMutex
        /\ pool' = pool /\ num' = num /\ threads' = threads
        /\ pc[c] = "lock" /\ pc'[c] = "reset"
    BY DEF LockWork, Goto, helperVars, RInv, IInv, TypeOK
  <1>2. ClientNext(c)
    BY DEF ClientNext, ClientStep
  <1>3. (\A w : ~Handed(c, w)) /\ (\A w : ~Handed(c, w)')
    BY <1>1 DEF Handed, InWait
  <1>4. todo' = todo
    BY <1>1, <1>2, <1>3, ClientSame
  <1>5. pool /\ Working(c)
    BY <1>1 DEF RInv, IInv, Locks, Working
  <1>6. Own'
    BY <1>1, <1>2, <1>5, ClientOwn DEF RInv, Own, Working, InWait
  <1>7. Len(todo[c]) > 1
    <2>1. threads \in Nat /\ threads > 1 /\ doWorkers[c] \in [1..threads -> 1..MaxTasks]
      BY <1>5, NumCoresAssumption DEF RInv, IInv, TypeOK, Own
    <2> QED BY <2>1 DEF todo
  <1>8. Promise!Acquire(c)
    BY <1>1, <1>4, <1>7 DEF Promise!Acquire
  <1> QED BY <1>6, <1>8 DEF Refines, Promise!Next

LEMMA ResetRefines ==
  ASSUME RInv, NEW c \in Clients, Reset(c)
  PROVE  Own' /\ Refines
  <1>1. /\ workMutex' = workMutex /\ doWork' = doWork
        /\ doWorkers' = doWorkers /\ creationMutex' = creationMutex
        /\ pool' = pool /\ num' = num /\ threads' = threads
        /\ pc[c] = "reset" /\ pc'[c] = "hand" /\ i'[c] = 1
    BY DEF Reset, Goto, helperVars, RInv, IInv, TypeOK
  <1>2. ClientNext(c)
    BY DEF ClientNext, ClientStep
  <1>3. Working(c) /\ threads \in Nat
    BY <1>1, NumCoresAssumption DEF Working, RInv, IInv, TypeOK
  <1>4. DOMAIN doWorkers[c] = 1..threads
    BY <1>3 DEF RInv, Own
  <1>5. \A w \in 1..threads : Handed(c, w)' <=> Handed(c, w)
    BY <1>1, <1>3 DEF Handed, InWait
  <1>6. todo' = todo
    BY <1>1, <1>2, <1>4, <1>5, ClientSame
  <1>7. Own'
    BY <1>1, <1>2, <1>3, ClientOwn DEF RInv, Own, Working, InWait
  <1> QED BY <1>1, <1>6, <1>7 DEF Refines

\* Handing over a closure moves it; the promise sees nothing.
LEMMA HandRefines ==
  ASSUME RInv, NEW c \in Clients, Hand(c)
  PROVE  Own' /\ Refines
  <1>1. /\ workMutex' = workMutex /\ doWorkers' = doWorkers
        /\ creationMutex' = creationMutex
        /\ pool' = pool /\ num' = num /\ threads' = threads
        /\ pc[c] = "hand"
    BY DEF Hand, mutexes, poolVars
  <1>2. ClientNext(c)
    BY DEF ClientNext, ClientStep
  <1>3. Working(c) /\ threads \in Nat /\ i[c] \in Nat /\ workMutex = c /\ pool
    BY <1>1, NumCoresAssumption DEF Working, RInv, IInv, TypeOK, Locks
  <1>4. doWorkers[c] \in [1..threads -> 1..MaxTasks]
    BY <1>3 DEF RInv, Own
  <1>5. pc'[c] \in {"hand", "wait"}
    BY <1>1 DEF Hand, Goto, RInv, IInv, TypeOK
  <1>6. Working(c)'
    BY <1>1, <1>3, <1>5 DEF Working, InWait
  <1>7. Own'
    BY <1>1, <1>2, <1>3, <1>5, <1>6, ClientOwn DEF RInv, Own, Working, InWait
  <1>8. ASSUME NEW d \in Clients, d # c
        PROVE  todo'[d] = todo[d]
    <2>1. \A w : ~Handed(d, w)
      BY <1>3, <1>8 DEF Handed, RInv, IInv, Locks
    <2>2. \A w : ~Handed(d, w)'
      BY <1>2, <1>8, <2>1, ClientLocal
    <2> QED BY <1>1, <2>1, <2>2 DEF todo
  <1>9. CASE i[c] <= threads
    <2>1. /\ doWork' = [doWork EXCEPT ![i[c]] = doWorkers[c][i[c]]]
          /\ i' = [i EXCEPT ![c] = @ + 1] /\ pc' = pc
      BY <1>9 DEF Hand
    <2>2. /\ i'[c] = i[c] + 1 /\ i[c] \in 1..threads /\ threads <= NumCores
          /\ doWork'[i[c]] = doWorkers[c][i[c]]
          /\ \A w \in 1..threads : w # i[c] => doWork'[w] = doWork[w]
      BY <1>9, <2>1, NumCoresAssumption DEF RInv, IInv, TypeOK, Helpers
    <2>3. /\ \A w \in 1..threads : Handed(c, w) <=> w < i[c]
          /\ \A w \in 1..threads : Handed(c, w)' <=> w < i[c] + 1
      BY <1>1, <2>1, <2>2 DEF Handed, InWait
    <2>4. todo'[c] = todo[c]
      <3>1. DOMAIN doWorkers[c] = 1..threads
        BY <1>4
      <3>2. ASSUME NEW w \in 1..threads
            PROVE  (IF Handed(c, w)' THEN doWork'[w] ELSE doWorkers[c][w]) =
                   (IF Handed(c, w) THEN doWork[w] ELSE doWorkers[c][w])
        BY <1>3, <2>2, <2>3
      <3> QED BY <1>1, <3>1, <3>2 DEF todo
    <2> QED BY <1>1, <1>7, <1>8, <2>4 DEF Refines, todo
  <1>10. CASE ~(i[c] <= threads)
    <2>1. doWork' = doWork /\ i' = i /\ pc'[c] = "wait"
      BY <1>10 DEF Hand, Goto, RInv, IInv, TypeOK
    <2>2. \A w \in 1..threads : Handed(c, w)' /\ Handed(c, w)
      BY <1>1, <1>3, <1>10, <2>1 DEF Handed, InWait
    <2>3. todo' = todo
      BY <1>1, <1>2, <1>4, <2>1, <2>2, ClientSame
    <2> QED BY <1>1, <1>7, <2>3 DEF Refines
  <1> QED BY <1>9, <1>10

\* All helpers have reported, so every closure has answered Finished.
LEMMA ReturnRefines ==
  ASSUME RInv, NEW c \in Clients, WorkReturns(c)
  PROVE  Own' /\ Refines
  <1>1. /\ workMutex = c /\ workMutex' = NoOne /\ doWork' = doWork
        /\ creationMutex' = creationMutex /\ pool' = pool /\ num' = num
        /\ threads' = threads /\ pc[c] = "wait" /\ InWait(c)
        /\ ready = threads
    BY DEF WorkReturns, helperVars, InWait, AreThreadsReady
  <1>2. ClientNext(c)
    BY DEF ClientNext, ClientStep
  <1>3. /\ doWorkers' = [doWorkers EXCEPT ![c] = <<>>] /\ doWorkers'[c] = <<>>
        /\ \A d \in Clients \ {c} : doWorkers'[d] = doWorkers[d]
        /\ pc'[c] = "idle"
    BY DEF WorkReturns, Goto, RInv, IInv, TypeOK
  <1>4. Working(c) /\ pool /\ threads \in Nat
    BY <1>1, NumCoresAssumption DEF Working, RInv, IInv, Locks, TypeOK
  <1>5. threads > 1 /\ doWorkers[c] \in [1..threads -> 1..MaxTasks]
    BY <1>4 DEF RInv, Own
  <1>6. Own'
    BY <1>1, <1>2, <1>3, <1>4, ClientOwn DEF RInv, Own, Working, InWait
  <1>7. \A w \in 1..threads : doWork[w] = 0
    <2>1. TypeOK /\ Cardinality(Reported) = threads
      BY <1>1 DEF RInv, IInv, Count
    <2>2. Reported = 1..threads
      BY <2>1, AllReported
    <2>3. 1..threads \subseteq Helpers
      BY <2>1, NumCoresAssumption DEF TypeOK, Helpers
    <2>4. \A w \in 1..threads : doWork[w] \in Nat /\ ~(doWork[w] > 0)
      BY <2>1, <2>2, <2>3, MaxTasksAssumption DEF Reported, Busy, TypeOK
    <2> QED BY <2>4
  <1>8. \A w : Handed(c, w)
    BY <1>1 DEF Handed
  <1>9. /\ DOMAIN todo[c] = 1..threads /\ Len(todo[c]) = threads
        /\ \A w \in 1..threads : todo[c][w] = 0
    BY <1>4, <1>5, <1>7, <1>8 DEF todo
  <1>10. todo[c] # <<>>
    BY <1>4, <1>5, <1>9, SMT
  <1>11. todo'[c] = <<>>
    <2>1. DOMAIN doWorkers'[c] = {}
      BY <1>3, SMT
    <2>2. todo'[c] = [w \in {} |-> doWorkers'[c][w]]
      BY <2>1 DEF todo
    <2> QED BY <2>2, SMT
  <1>12. ASSUME NEW d \in Clients, d # c
         PROVE  todo'[d] = todo[d]
    BY <1>1, <1>2, <1>3, <1>12, ClientLocal DEF todo
  <1>13. todo = [d \in Clients |-> todo[d]] /\ todo' = [d \in Clients |-> todo'[d]]
    BY DEF todo
  <1>14. todo' = [todo EXCEPT ![c] = <<>>]
    BY <1>11, <1>12, <1>13
  <1>15. Promise!Return(c)
    BY <1>1, <1>4, <1>5, <1>9, <1>10, <1>14 DEF Promise!Return
  <1> QED BY <1>6, <1>15 DEF Refines, Promise!Next

-----------------------------------------------------------------------------
(* The refinement *)

LEMMA OwnInit == Init => Own /\ Promise!Init
  <1> SUFFICES ASSUME Init PROVE Own /\ Promise!Init
    OBVIOUS
  <1>1. Own
    BY DEF Init, Own, Working, InWait
  <1>2. todo = [c \in Clients |-> <<>>]
    <2>1. ASSUME NEW c \in Clients
          PROVE  todo[c] = <<>>
      <3>1. DOMAIN doWorkers[c] = {}
        BY SMT DEF Init
      <3>2. todo[c] = [w \in {} |-> doWorkers[c][w]]
        BY <3>1 DEF todo
      <3> QED BY <3>2, SMT
    <2>2. todo = [c \in Clients |-> todo[c]]
      BY DEF todo
    <2> QED BY <2>1, <2>2
  <1> QED BY <1>1, <1>2 DEF Init, Promise!Init

LEMMA StepRefines == RInv /\ [Next]_vars => Own' /\ Refines
  <1> SUFFICES ASSUME RInv, [Next]_vars PROVE Own' /\ Refines
    OBVIOUS
  <1>1. CASE \E w \in Helpers : HelperNext(w)
    BY <1>1, HelperRefines DEF Refines
  <1>2. ASSUME NEW c \in Clients, ClientNext(c)
        PROVE  Own' /\ Refines
    BY <1>2, OutsideRefines, WaitRefines, WorkRefines, SequentialRefines,
       LockRefines, ResetRefines, HandRefines, ReturnRefines
       DEF ClientNext, ClientStep
  <1>3. CASE UNCHANGED vars
    <2>1. Own'
      BY <1>3 DEF vars, mutexes, poolVars, clientVars, RInv, Own, Working, InWait
    <2>2. todo' = todo /\ workMutex' = workMutex
      BY <1>3 DEF vars, mutexes, helperVars, clientVars, todo, Handed, InWait
    <2> QED BY <2>1, <2>2 DEF Refines
  <1> QED BY <1>1, <1>2, <1>3 DEF Next, Exited

\* The pool's mutexes, condition variables and counters implement work() as
\* threads.h promises it: helpers serve one call at a time, every closure is
\* called until it answers Finished, and only then does the call return.
THEOREM PoolImplementsPromise == Spec => ImplementsWorkPool
  <1>1. RInv /\ [Next]_vars => RInv'
    BY NextInv, StepRefines DEF RInv
  <1>2. Init => RInv
    BY InitInv, OwnInit DEF RInv
  <1>3. RInv /\ [Next]_vars => [Promise!Next]_Promise!vars
    BY StepRefines DEF Refines, Promise!vars
  <1>4. Init => Promise!Init
    BY OwnInit
  <1> QED BY <1>1, <1>2, <1>3, <1>4, PTL
          DEF Spec, ImplementsWorkPool, Promise!Spec

-----------------------------------------------------------------------------
(* Nobody waits for everybody *)

\* Helper w can take a step: what the actions of HelperNext ask for.
HelperCan(w) ==
    \/ step[w] \in {"check", "task", "park"}
    \/ step[w] = "notify" /\ threadMutex = NoOne

\* Client c can take a step inside its call: what those of ClientStep ask for.
ClientCan(c) ==
    \/ pc[c] = "get" /\ creationMutex = NoOne
    \/ pc[c] = "initialize" /\ (num = 1 \/ threadMutex = NoOne)
    \/ pc[c] \in {"spawn", "work", "sequential"}
    \/ pc[c] = "clear" /\ (i[c] <= threads => step[i[c]] # "task")
    \/ pc[c] = "join" /\ step[i[c]] = "exit"
    \/ pc[c] = "lock" /\ workMutex = NoOne
    \/ pc[c] \in {"reset", "resume"} /\ threadMutex = NoOne
    \/ pc[c] = "hand" /\ (i[c] <= threads => step[i[c]] # "task")
    \/ pc[c] = "wait" /\ (AreThreadsReady => c \in {creationMutex, workMutex})

SomebodyCan == \/ \E w \in Helpers : HelperCan(w)
               \/ \E c \in Clients : ClientCan(c)

\* A client that destroys helpers inside initialize(): one has started before
\* the creation of another failed.
Stranded == \E c \in Clients : Destroying(c) /\ ~pool /\ threads > 0

NoDeadlock ==
    (\E c \in Clients : pc[c] \notin {"idle", "exited"}) /\ ~Stranded => SomebodyCan

\* Who sleeps still has a helper to wait for; who joins has told its helper.
Waits ==
    \A c \in Clients :
        /\ pc[c] = "blocked" => ~AreThreadsReady
        /\ pc[c] = "join" => done[i[c]]

LEMMA HelperWaits ==
  ASSUME IInv, Waits, NEW w \in Helpers, HelperNext(w)
  PROVE  Waits'
  <1>1. CASE Notify(w)
    <2>1. /\ i' = i /\ done' = done
          /\ \A c \in Clients : pc'[c] = "join" => pc[c] = "join"
      BY <1>1 DEF Notify, Goto, IInv, TypeOK
    <2>2. \A c \in Clients : pc'[c] # "blocked"
      <3>1. \A c, d \in Clients : pc[c] = "blocked" /\ pc[d] = "blocked" => c = d
        BY ClientsAssumption, SMT DEF IInv, Locks, InWait
      <3> QED BY <1>1, <3>1 DEF Notify, Goto, IInv, TypeOK
    <2> QED BY <2>1, <2>2 DEF Waits
  <1>2. CASE Check(w) \/ RunTask(w) \/ Park(w)
    BY <1>2 DEF Check, RunTask, Park, Waits, AreThreadsReady, poolVars, clientVars
  <1> QED BY <1>1, <1>2 DEF HelperNext

\* A thread that changes the count, or the helpers, holds a mutex that whoever
\* waits for them would have to hold.
LEMMA ClientWaits ==
  ASSUME IInv, Waits, NEW c \in Clients, ClientNext(c)
  PROVE  Waits'
  <1> USE DEF Goto
  <1>1. /\ pc \in [Clients -> ClientPC] /\ i \in [Clients -> 1..NumCores + 1]
        /\ done \in [Helpers -> BOOLEAN]
    BY DEF IInv, TypeOK
  <1>2. CASE Call(c) \/ Get(c) \/ InitializeOneCore(c) \/ SpawnFails(c) \/ Destroy(c)
             \/ Work(c) \/ RunSequentially(c) \/ LockWork(c) \/ Hand(c)
             \/ WakeSpuriously(c) \/ Resume(c) \/ InitializeReturns(c)
             \/ WorkReturns(c)
    <2>1. ready' = ready /\ threads' = threads /\ done' = done
      BY <1>2 DEF Call, Get, InitializeOneCore, SpawnFails, Destroy, Work,
         RunSequentially, LockWork, Hand, WakeSpuriously, Resume,
         InitializeReturns, WorkReturns, Publish, poolVars, helperVars
    <2>2. ASSUME NEW d \in Clients, pc'[d] \in {"blocked", "join"}
          PROVE  d # c /\ pc'[d] = pc[d] /\ i'[d] = i[d]
      <3>1. CASE d = c
        BY <1>1, <1>2, <2>2, <3>1 DEF Call, Get, InitializeOneCore, SpawnFails,
           Destroy, Work, RunSequentially, LockWork, Hand, WakeSpuriously, Resume,
           InitializeReturns, WorkReturns, Publish
      <3>2. CASE d # c
        BY <1>1, <1>2, <3>2 DEF Call, Get, InitializeOneCore, SpawnFails,
           Destroy, Work, RunSequentially, LockWork, Hand, WakeSpuriously, Resume,
           InitializeReturns, WorkReturns, Publish, clientVars
      <3> QED BY <3>1, <3>2
    <2> QED BY <2>1, <2>2 DEF Waits, AreThreadsReady
  <1>3. CASE Initialize(c) \/ Spawn(c) \/ Reset(c) \/ ClearDone(c)
    <2>1. done' = done /\ \A d \in Clients : d # c => pc'[d] = pc[d] /\ i'[d] = i[d]
      BY <1>1, <1>3 DEF Initialize, Spawn, Reset, ClearDone, Publish, helperVars
    <2>2. pc'[c] \notin {"blocked", "join"}
      BY <1>1, <1>3 DEF Initialize, Spawn, Reset, ClearDone, Publish
    <2>3. pc[c] \in {"initialize", "spawn", "reset", "clear"}
      BY <1>3 DEF Initialize, Spawn, Reset, ClearDone
    <2>4. \A d \in Clients : d # c => pc[d] # "blocked"
      BY <2>3, ClientsAssumption, SMT DEF IInv, Locks, InWait, Destroying
    <2> QED BY <2>1, <2>2, <2>4 DEF Waits
  <1>4. CASE DestroyThread(c)
    <2>1. /\ ready' = ready /\ threads' = threads /\ i' = i /\ i[c] <= threads
          /\ done' = [done EXCEPT ![i[c]] = TRUE] /\ pc' = [pc EXCEPT ![c] = "join"]
      BY <1>4 DEF DestroyThread, poolVars
    <2>2. i[c] \in Helpers
      BY <1>1, <2>1, NumCoresAssumption, SMT DEF IInv, TypeOK, Helpers
    <2>3. \A w \in Helpers : done[w] => done'[w]
      BY <1>1, <2>1
    <2>4. \A d \in Clients : pc[d] = "join" => i[d] \in Helpers
      BY <1>1, NumCoresAssumption, SMT DEF IInv, TypeOK, Calls, Helpers
    <2> QED BY <1>1, <2>1, <2>2, <2>3, <2>4 DEF Waits, AreThreadsReady
  <1>5. CASE Join(c) \/ Block(c)
    <2>1. ready' = ready /\ threads' = threads /\ done' = done
      BY <1>5 DEF Join, Block, poolVars, helperVars
    <2>2. \A d \in Clients : d # c => pc'[d] = pc[d] /\ i'[d] = i[d]
      BY <1>1, <1>5 DEF Join, Block
    <2>3. pc'[c] # "join" /\ (pc'[c] = "blocked" => ~AreThreadsReady)
      BY <1>1, <1>5 DEF Join, Block
    <2> QED BY <2>1, <2>2, <2>3 DEF Waits, AreThreadsReady
  <1> QED BY <1>2, <1>3, <1>4, <1>5 DEF ClientNext, ClientStep

LEMMA WaitsHold == Spec => []Waits
  <1>1. Init => Waits
    BY DEF Init, Waits
  <1>2. ASSUME IInv, Waits, [Next]_vars PROVE Waits'
    <2>1. CASE UNCHANGED vars
      BY <1>2, <2>1 DEF vars, Waits, AreThreadsReady, poolVars, helperVars, clientVars
    <2> QED BY <1>2, <2>1, HelperWaits, ClientWaits DEF Next, Exited
  <1> QED BY <1>1, <1>2, InductiveInvariant, PTL DEF Spec

\* While a helper has not reported, it or the client it waits for can step.
LEMMA BusyCan ==
  ASSUME IInv, threadMutex = NoOne, NEW w \in Helpers, Busy(w)
  PROVE  HelperCan(w)
  BY NumCoresAssumption, SMT DEF IInv, TypeOK, HelpersInv, Busy, HelperCan, HelperPC

\* As the count says so, not all have reported while a client sleeps.
LEMMA SleeperCan ==
  ASSUME IInv, Waits, threadMutex = NoOne, NEW c \in Clients, pc[c] = "blocked"
  PROVE  SomebodyCan
  <1>1. ready = Cardinality(Reported) /\ ready # threads
    BY DEF IInv, Count, InWait, Waits, AreThreadsReady
  <1>2. PICK w \in 1..threads : Busy(w)
    <2>1. SUFFICES ASSUME \A w \in 1..threads : ~Busy(w) PROVE FALSE
      OBVIOUS
    <2>2. Reported = 1..threads
      BY <2>1 DEF Reported
    <2> QED BY <1>1, <2>2, ReportedFinite DEF IInv
  <1>3. w \in Helpers
    BY NumCoresAssumption, SMT DEF IInv, TypeOK, Helpers
  <1> QED BY <1>2, <1>3, BusyCan DEF SomebodyCan

\* Who holds the mutex of a call, when threadMutex is free, gets on.
LEMMA OwnerCan ==
  ASSUME IInv, Waits, threadMutex = NoOne, NEW c \in Clients,
         c \in {creationMutex, workMutex}
  PROVE  SomebodyCan
  <1>1. pc[c] \in {"initialize", "reset", "resume", "blocked"}
    BY ClientsAssumption, SMT DEF IInv, Locks, InWait, Destroying
  <1>2. CASE pc[c] = "blocked"
    BY <1>2, SleeperCan
  <1>3. CASE pc[c] # "blocked"
    BY <1>1, <1>3 DEF ClientCan, SomebodyCan
  <1> QED BY <1>2, <1>3

\* Who holds threadMutex does not need it to get on.
LEMMA HolderCan ==
  ASSUME IInv, ~Stranded, NEW c \in Clients, threadMutex = c
  PROVE  SomebodyCan
  <1>1. pc[c] \in {"spawn", "hand", "wait", "clear", "join"}
    BY DEF IInv, Locks
  <1>2. CASE pc[c] = "spawn"
    BY <1>2 DEF ClientCan, SomebodyCan
  <1>3. CASE pc[c] = "wait"
    BY <1>3 DEF ClientCan, SomebodyCan, IInv, Locks, InWait
  <1>4. CASE pc[c] \in {"clear", "join"}
    <2>1. ~pool /\ threads = 0
      <3>1. Destroying(c) /\ ~pool
        BY <1>4 DEF Destroying, IInv, Locks
      <3>2. ~(threads > 0) /\ threads \in Nat
        BY <3>1, NumCoresAssumption, SMT DEF Stranded, IInv, TypeOK
      <3> QED BY <3>1, <3>2
    <2>2. i[c] > threads
      BY <2>1, NumCoresAssumption, SMT DEF IInv, TypeOK
    <2>3. pc[c] = "clear"
      BY <1>4, <2>1, <2>2, NumCoresAssumption, SMT DEF IInv, TypeOK, Calls
    <2>4. ~(i[c] <= threads)
      BY <2>1, NumCoresAssumption, SMT DEF IInv, TypeOK
    <2> QED BY <2>3, <2>4 DEF ClientCan, SomebodyCan
  <1>5. CASE pc[c] = "hand"
    <2>1. CASE i[c] <= threads /\ step[i[c]] = "task"
      <3>1. i[c] \in Helpers
        BY <2>1, NumCoresAssumption, SMT DEF IInv, TypeOK, Helpers
      <3> QED BY <2>1, <3>1 DEF HelperCan, SomebodyCan
    <2>2. CASE ~(i[c] <= threads /\ step[i[c]] = "task")
      BY <1>5, <2>2 DEF ClientCan, SomebodyCan
    <2> QED BY <2>1, <2>2
  <1> QED BY <1>1, <1>2, <1>3, <1>4, <1>5

\* At exit nobody holds threadMutex: the helper reports, and then ends.
LEMMA DestroyerCan ==
  ASSUME IInv, Waits, threadMutex = NoOne, NEW c \in Clients, Destroying(c)
  PROVE  SomebodyCan
  <1>1. CASE i[c] <= threads
    <2>1. i[c] \in Helpers
      BY <1>1, NumCoresAssumption, SMT DEF IInv, TypeOK, Helpers
    <2>2. CASE HelperCan(i[c])
      BY <2>1, <2>2 DEF SomebodyCan
    <2>3. CASE ~HelperCan(i[c])
      <3>1. step[i[c]] \in {"waiting", "exit", "none"}
        BY <2>1, <2>3 DEF HelperCan, IInv, TypeOK, HelperPC
      <3>2. step[i[c]] # "none"
        BY <1>1, <2>1 DEF IInv, HelpersInv
      <3>3. CASE pc[c] = "clear"
        BY <3>1, <3>3 DEF ClientCan, SomebodyCan
      <3>4. CASE pc[c] = "join"
        <4>1. step[i[c]] # "waiting"
          BY <2>1, <3>4 DEF IInv, HelpersInv, Waits
        <4> QED BY <3>1, <3>2, <3>4, <4>1 DEF ClientCan, SomebodyCan
      <3> QED BY <3>3, <3>4 DEF Destroying
    <2> QED BY <2>2, <2>3
  <1>2. CASE ~(i[c] <= threads)
    <2>1. pc[c] = "clear"
      BY <1>2 DEF Destroying, IInv, Calls
    <2> QED BY <1>2, <2>1 DEF ClientCan, SomebodyCan
  <1> QED BY <1>1, <1>2

\* A call is never stuck: whenever some thread is inside get(), work() or the
\* destruction of the pool, that thread, another one or a helper can take a
\* step of its call or of mainLoop.  The one exception is the code's: a helper
\* that has started is joined by initialize(), which holds threadMutex
\* (threads.cpp:145).
THEOREM SomebodyGoesOn == Spec => []NoDeadlock
  <1>1. ASSUME IInv, Waits PROVE NoDeadlock
    <2> SUFFICES ASSUME NEW c \in Clients, pc[c] \notin {"idle", "exited"}, ~Stranded
                 PROVE  SomebodyCan
      BY DEF NoDeadlock
    <2>1. CASE threadMutex # NoOne
      <3>1. threadMutex \in Clients
        BY <1>1, <2>1 DEF IInv, TypeOK
      <3> QED BY <1>1, <3>1, HolderCan
    <2>2. CASE threadMutex = NoOne /\ c \in {creationMutex, workMutex}
      BY <1>1, <2>2, OwnerCan
    <2>3. CASE threadMutex = NoOne /\ c \notin {creationMutex, workMutex}
      <3>1. pc[c] \in {"get", "work", "sequential", "lock", "clear", "join"}
        BY <1>1, <2>3, SMT DEF IInv, TypeOK, Locks, InWait, ClientPC
      <3>2. CASE pc[c] \in {"work", "sequential"}
        BY <3>2 DEF ClientCan, SomebodyCan
      <3>3. CASE pc[c] = "get"
        <4>1. CASE creationMutex = NoOne
          BY <3>3, <4>1 DEF ClientCan, SomebodyCan
        <4>2. CASE creationMutex # NoOne
          <5>1. creationMutex \in Clients
            BY <1>1, <4>2 DEF IInv, TypeOK
          <5> QED BY <1>1, <2>3, <5>1, OwnerCan
        <4> QED BY <4>1, <4>2
      <3>4. CASE pc[c] = "lock"
        <4>1. CASE workMutex = NoOne
          BY <3>4, <4>1 DEF ClientCan, SomebodyCan
        <4>2. CASE workMutex # NoOne
          <5>1. workMutex \in Clients
            BY <1>1, <4>2 DEF IInv, TypeOK
          <5> QED BY <1>1, <2>3, <5>1, OwnerCan
        <4> QED BY <4>1, <4>2
      <3>5. CASE pc[c] \in {"clear", "join"}
        BY <1>1, <2>3, <3>5, DestroyerCan DEF Destroying
      <3> QED BY <3>1, <3>2, <3>3, <3>4, <3>5
    <2> QED BY <2>1, <2>2, <2>3
  <1> QED BY <1>1, InductiveInvariant, WaitsHold, PTL

LEMMA StrandedNext ==
  ASSUME MayFailAt \subseteq {1}, IInv, ~Stranded, [Next]_vars
  PROVE  ~Stranded'
  <1> SUFFICES ASSUME NEW c \in Clients, Destroying(c)', ~pool', threads' > 0
               PROVE  FALSE
    BY DEF Stranded
  <1> USE DEF Goto, Destroying
  <1>1. pc \in [Clients -> ClientPC] /\ threads \in Nat
    BY NumCoresAssumption, SMT DEF IInv, TypeOK
  <1>2. ~(threads > 0) => threads = 0
    BY <1>1
  <1>3. ~(Destroying(c) /\ ~pool /\ threads > 0)
    BY DEF Stranded
  <1>4. CASE UNCHANGED vars
    BY <1>3, <1>4 DEF vars, poolVars, clientVars
  <1>5. ASSUME NEW w \in Helpers, HelperNext(w) PROVE FALSE
    <2>1. pool' = pool /\ threads' = threads
      BY <1>5 DEF HelperNext, Check, RunTask, Notify, Park, poolVars
    <2>2. Destroying(c)
      BY <1>1, <1>5 DEF HelperNext, Check, RunTask, Notify, Park, clientVars
    <2> QED BY <1>3, <2>1, <2>2
  <1>6. ASSUME NEW d \in Clients, SpawnFails(d) PROVE FALSE
    <2>1. pool' = pool /\ threads' = threads /\ i[d] = 1
      BY <1>6 DEF SpawnFails, poolVars
    <2>2. i[d] = threads + 1
      BY <1>6 DEF SpawnFails, IInv, Calls
    <2>3. threads = 0
      BY <1>1, <2>1, <2>2
    <2> QED BY <2>1, <2>3
  <1>7. ASSUME NEW d \in Clients, Spawn(d) PROVE FALSE
    <2>1. pool' = pool /\ d # c /\ pc[d] = "spawn" /\ Destroying(c)
      BY <1>1, <1>7 DEF Spawn
    <2>2. creationMutex = c /\ creationMutex = d
      BY <1>7, <2>1 DEF Spawn, IInv, Locks
    <2> QED BY <2>1, <2>2
  <1>8. ASSUME NEW d \in Clients, ClearDone(d) PROVE FALSE
    BY <1>8 DEF ClearDone
  <1>9. ASSUME NEW d \in Clients,
               \/ Call(d) \/ Get(d) \/ InitializeOneCore(d) \/ Initialize(d)
               \/ DestroyThread(d) \/ Join(d) \/ Destroy(d)
               \/ Work(d) \/ RunSequentially(d) \/ LockWork(d) \/ Reset(d) \/ Hand(d)
               \/ Block(d) \/ Resume(d) \/ InitializeReturns(d) \/ WorkReturns(d)
               \/ WakeSpuriously(d)
        PROVE  FALSE
    <2>1. threads' = threads /\ (pool' = pool \/ pool' = TRUE)
      BY <1>9 DEF Call, Get, InitializeOneCore, Initialize, DestroyThread, Join,
         Destroy, Work, RunSequentially, LockWork, Reset, Hand, Block, Resume,
         InitializeReturns, WorkReturns, WakeSpuriously, Publish, poolVars
    <2>2. Destroying(c) \/ Destroy(d)
      BY <1>1, <1>9 DEF Call, Get, InitializeOneCore, Initialize, DestroyThread, Join,
         Work, RunSequentially, LockWork, Reset, Hand, Block, Resume,
         InitializeReturns, WorkReturns, WakeSpuriously, Publish
    <2>3. ~Destroy(d)
      BY <2>1 DEF Destroy, poolVars
    <2> QED BY <1>3, <2>1, <2>2, <2>3
  <1> QED BY <1>4, <1>5, <1>6, <1>7, <1>8, <1>9 DEF Next, ClientNext, ClientStep, Exited

\* The exception needs the second or a later helper to fail to start: then it
\* is threads.clear() that has helpers to join.
THEOREM StrandedByFailure ==
  ASSUME MayFailAt \subseteq {1}
  PROVE  Spec => []~Stranded
  <1>1. Init => ~Stranded
    BY DEF Init, Stranded, Destroying
  <1>2. IInv /\ ~Stranded /\ [Next]_vars => ~Stranded'
    BY StrandedNext
  <1> QED BY <1>1, <1>2, InductiveInvariant, PTL DEF Spec
=============================================================================
