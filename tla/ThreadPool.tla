----------------------------- MODULE ThreadPool -----------------------------
(***************************************************************************)
(* Binaryen's helper threads (src/src/support/threads.h and threads.cpp)   *)
(* at the level of their mutexes and condition variables.                  *)
(*                                                                         *)
(* Clients are the threads that call ThreadPool::get() and                 *)
(* ThreadPool::work(): the main thread of a tool, or several threads of a  *)
(* process that uses the C API.  Helper i is threads[i-1] of the code.     *)
(*                                                                         *)
(* Grain.  One action is the code between two points at which a thread may *)
(* block.  A helper's own mutex is held across a step only while it runs   *)
(* tasks (step[w] = "task"), so no variable stands for it.  A client's     *)
(* `resume' to a condition variable means reacquiring its mutex.           *)
(***************************************************************************)
EXTENDS Naturals, Sequences, FiniteSets

CONSTANTS
    Clients,      \* the threads that use the pool
    NoOne,        \* "nobody holds this mutex"
    NumCores,     \* bound: the most cores ThreadPool::getNumCores() may report
    CoreCounts,   \* what getNumCores() may return; BINARYEN_CORES can be 0
    MayFailAt,    \* the helpers whose std::thread constructor may throw
    MaxTasks      \* bound: doWorkers[i] answers More fewer than MaxTasks times

ASSUME ClientsAssumption  == NoOne \notin Clients
ASSUME NumCoresAssumption == NumCores \in Nat
ASSUME CoreCountsAssumption == CoreCounts \subseteq 0..NumCores
ASSUME SomeCoreCountAssumption == CoreCounts # {}
ASSUME MayFailAssumption  == MayFailAt \subseteq 1..NumCores
ASSUME MaxTasksAssumption == MaxTasks \in Nat \ {0}

Helpers == 1..NumCores

VARIABLES
    creationMutex, workMutex, threadMutex,  \* who holds each static mutex
    pool,       \* has ThreadPool::get() published the pool?
    num,        \* the argument of ThreadPool::initialize
    threads,    \* threads.size(): helpers 1..threads exist
    running,    \* ThreadPool::running
    ready,      \* ThreadPool::ready
    doWork,     \* doWork[w]: tasks left in the helper's closure, 0 is nullptr
    done,       \* done[w]: Thread::done
    step,       \* step[w]: where helper w is in Thread::mainLoop
    pc,         \* pc[c]: where client c is
    i,          \* i[c]: index of the client's current loop over threads
    doWorkers   \* doWorkers[c]: the closures of the client's call

clientVars == <<pc, i, doWorkers>>
helperVars == <<doWork, done, step>>
mutexes    == <<creationMutex, workMutex, threadMutex>>
poolVars   == <<pool, num, threads, running, ready>>
vars       == <<mutexes, poolVars, helperVars, clientVars>>

ClientPC == {"idle", "get", "initialize", "spawn", "clear", "join", "work",
             "sequential", "lock", "reset", "hand", "wait", "blocked",
             "resume", "exited"}
HelperPC == {"none", "check", "task", "notify", "park", "waiting", "exit"}

Init ==
    /\ creationMutex = NoOne /\ workMutex = NoOne /\ threadMutex = NoOne
    /\ pool = FALSE /\ num = 0 /\ threads = 0 /\ running = FALSE /\ ready = 0
    /\ doWork = [w \in Helpers |-> 0]
    /\ done = [w \in Helpers |-> FALSE]
    /\ step = [w \in Helpers |-> "none"]
    /\ pc = [c \in Clients |-> "idle"]
    /\ i = [c \in Clients |-> 1]
    /\ doWorkers = [c \in Clients |-> <<>>]

Goto(c, label) == pc' = [pc EXCEPT ![c] = label]

-----------------------------------------------------------------------------
(* Thread *)

\* Mutant: the wakeup is forgotten.
SignalNobody(w) == UNCHANGED step

\* condition.notify_one() on a helper's condition variable.
SignalHelper(w) ==
    step' = [step EXCEPT ![w] = IF @ = "waiting" THEN "check" ELSE @]

\* mainLoop, first block: start the closure, leave, or go on to report.
Check(w) ==
    /\ step[w] = "check"
    /\ step' = [step EXCEPT ![w] = IF doWork[w] > 0 THEN "task"
                                   ELSE IF done[w] THEN "exit"
                                   ELSE "notify"]
    /\ UNCHANGED <<mutexes, poolVars, doWork, done, clientVars>>

\* Mutant: the answer More is taken for Finished.
RunOneTask(w) ==
    /\ step[w] = "task"
    /\ doWork' = [doWork EXCEPT ![w] = 0]
    /\ step' = [step EXCEPT ![w] = "notify"]
    /\ UNCHANGED <<mutexes, poolVars, done, clientVars>>

\* One call of doWork(): More, or Finished and the closure is dropped.
RunTask(w) ==
    /\ step[w] = "task"
    /\ doWork' = [doWork EXCEPT ![w] = @ - 1]
    /\ step' = [step EXCEPT ![w] = IF doWork[w] = 1 THEN "notify" ELSE @]
    /\ UNCHANGED <<mutexes, poolVars, done, clientVars>>

\* ThreadPool::notifyThreadIsReady.  With nobody blocked, notify_one is lost.
Notify(w) ==
    /\ step[w] = "notify"
    /\ threadMutex = NoOne
    /\ ready' = ready + 1
    /\ step' = [step EXCEPT ![w] = "park"]
    /\ \/ \E c \in Clients : pc[c] = "blocked" /\ Goto(c, "resume")
       \/ (\A c \in Clients : pc[c] # "blocked") /\ UNCHANGED pc
    /\ UNCHANGED <<mutexes, pool, num, threads, running, doWork, done, i, doWorkers>>

\* Mutants: the helper waits without looking, or does not wait at all.
ParkBlindly(w) ==
    /\ step[w] = "park"
    /\ step' = [step EXCEPT ![w] = "waiting"]
    /\ UNCHANGED <<mutexes, poolVars, doWork, done, clientVars>>

ParkNever(w) ==
    /\ step[w] = "park"
    /\ step' = [step EXCEPT ![w] = "check"]
    /\ UNCHANGED <<mutexes, poolVars, doWork, done, clientVars>>

\* mainLoop, second block: wait, unless work or the end came in the meantime.
Park(w) ==
    /\ step[w] = "park"
    /\ step' = [step EXCEPT ![w] =
                  IF ~done[w] /\ doWork[w] = 0 THEN "waiting" ELSE "check"]
    /\ UNCHANGED <<mutexes, poolVars, doWork, done, clientVars>>

-----------------------------------------------------------------------------
(* ThreadPool::get and ThreadPool::initialize *)

\* A client needs the pool.  Static destructors run after the last use.
Call(c) ==
    /\ pc[c] = "idle"
    /\ \A d \in Clients :
          pc[d] # "exited" /\ (pool => pc[d] \notin {"clear", "join"})
    /\ Goto(c, "get")
    /\ UNCHANGED <<mutexes, poolVars, helperVars, i, doWorkers>>

Get(c) ==
    /\ pc[c] = "get"
    /\ creationMutex = NoOne
    /\ IF pool THEN Goto(c, "work") /\ UNCHANGED <<creationMutex, num>>
               ELSE /\ Goto(c, "initialize")
                    /\ creationMutex' = c
                    /\ num' \in CoreCounts
    /\ UNCHANGED <<workMutex, threadMutex, pool, threads, running, ready,
                   helperVars, i, doWorkers>>

\* get() assigns the finished pool to the global and returns it.
Publish(c) ==
    /\ pool' = TRUE
    /\ creationMutex' = NoOne
    /\ threadMutex' = NoOne
    /\ Goto(c, "work")

InitializeOneCore(c) ==
    /\ pc[c] = "initialize"
    /\ num = 1
    /\ Publish(c)
    /\ UNCHANGED <<workMutex, num, threads, running, ready, helperVars, i, doWorkers>>

Initialize(c) ==
    /\ pc[c] = "initialize"
    /\ num # 1
    /\ threadMutex = NoOne
    /\ threadMutex' = c
    /\ ready' = 0
    /\ i' = [i EXCEPT ![c] = 1]
    /\ Goto(c, "spawn")
    /\ UNCHANGED <<creationMutex, workMutex, pool, num, threads, running, helperVars,
                   doWorkers>>

\* threads.emplace_back(std::make_unique<Thread>(this)), or the end of the loop.
Spawn(c) ==
    /\ pc[c] = "spawn"
    /\ IF i[c] <= num
       THEN /\ threads' = threads + 1
            /\ step' = [step EXCEPT ![i[c]] = "check"]
            /\ i' = [i EXCEPT ![c] = @ + 1]
            /\ UNCHANGED pc
       ELSE /\ Goto(c, "wait")
            /\ UNCHANGED <<threads, step, i>>
    /\ UNCHANGED <<mutexes, pool, num, running, ready, doWork, done, doWorkers>>

\* The constructor of helper i[c] throws std::system_error: threads.clear().
SpawnFails(c) ==
    /\ pc[c] = "spawn"
    /\ i[c] \in MayFailAt /\ i[c] <= num
    /\ i' = [i EXCEPT ![c] = 1]
    /\ Goto(c, "clear")
    /\ UNCHANGED <<mutexes, poolVars, helperVars, doWorkers>>

-----------------------------------------------------------------------------
(* Destruction of the helpers, one after the other *)

\* exit(): the static unique_ptr deletes the pool; threadMutex is not held.
Destroy(c) ==
    /\ pool
    /\ \A d \in Clients : pc[d] = "idle"
    /\ i' = [i EXCEPT ![c] = 1]
    /\ Goto(c, "clear")
    /\ UNCHANGED <<mutexes, poolVars, helperVars, doWorkers>>

\* Thread::~Thread up to the join.
DestroyThread(c) ==
    /\ pc[c] = "clear"
    /\ i[c] <= threads
    /\ step[i[c]] # "task"
    /\ done' = [done EXCEPT ![i[c]] = TRUE]
    /\ SignalHelper(i[c])
    /\ Goto(c, "join")
    /\ UNCHANGED <<mutexes, poolVars, doWork, i, doWorkers>>

Join(c) ==
    /\ pc[c] = "join"
    /\ step[i[c]] = "exit"
    /\ i' = [i EXCEPT ![c] = @ + 1]
    /\ Goto(c, "clear")
    /\ UNCHANGED <<mutexes, poolVars, helperVars, doWorkers>>

\* threads is empty: initialize() falls back to one thread, or the pool is gone.
ClearDone(c) ==
    /\ pc[c] = "clear"
    /\ i[c] > threads
    /\ threads' = 0
    /\ IF creationMutex = c
       THEN Publish(c)
       ELSE /\ pool' = FALSE
            /\ Goto(c, "exited")
            /\ UNCHANGED <<creationMutex, threadMutex>>
    /\ UNCHANGED <<workMutex, num, running, ready, helperVars, i, doWorkers>>

-----------------------------------------------------------------------------
(* ThreadPool::work *)

Size == IF threads = 0 THEN 1 ELSE threads

\* The caller built Size closures; without helpers it will run the first one.
Work(c) ==
    /\ pc[c] = "work"
    /\ \E closures \in [1..Size -> 1..MaxTasks] :
          doWorkers' = [doWorkers EXCEPT ![c] = closures]
    /\ Goto(c, IF threads = 0 THEN "sequential" ELSE "lock")
    /\ UNCHANGED <<mutexes, poolVars, helperVars, i>>

RunSequentially(c) ==
    /\ pc[c] = "sequential"
    /\ IF doWorkers[c][1] > 1
       THEN doWorkers' = [doWorkers EXCEPT ![c][1] = @ - 1] /\ UNCHANGED pc
       ELSE doWorkers' = [doWorkers EXCEPT ![c] = <<>>] /\ Goto(c, "idle")
    /\ UNCHANGED <<mutexes, poolVars, helperVars, i>>

\* Mutant: work() does not lock workMutex.
EnterWork(c) ==
    /\ pc[c] = "lock"
    /\ workMutex' = c
    /\ running' = TRUE
    /\ Goto(c, "reset")
    /\ UNCHANGED <<creationMutex, threadMutex, pool, num, threads, ready, helperVars,
                   i, doWorkers>>

LockWork(c) ==
    /\ pc[c] = "lock"
    /\ workMutex = NoOne
    /\ workMutex' = c
    /\ running' = TRUE
    /\ Goto(c, "reset")
    /\ UNCHANGED <<creationMutex, threadMutex, pool, num, threads, ready, helperVars,
                   i, doWorkers>>

\* Lock threadMutex and resetThreadsAreReady().
Reset(c) ==
    /\ pc[c] = "reset"
    /\ threadMutex = NoOne
    /\ threadMutex' = c
    /\ ready' = 0
    /\ i' = [i EXCEPT ![c] = 1]
    /\ Goto(c, "hand")
    /\ UNCHANGED <<creationMutex, workMutex, pool, num, threads, running, helperVars,
                   doWorkers>>

\* threads[i]->work(doWorkers[i]), or the end of the loop.
Hand(c) ==
    /\ pc[c] = "hand"
    /\ IF i[c] <= threads
       THEN /\ step[i[c]] # "task"
            /\ doWork' = [doWork EXCEPT ![i[c]] = doWorkers[c][i[c]]]
            /\ SignalHelper(i[c])
            /\ i' = [i EXCEPT ![c] = @ + 1]
            /\ UNCHANGED pc
       ELSE /\ Goto(c, "wait")
            /\ UNCHANGED <<doWork, step, i>>
    /\ UNCHANGED <<mutexes, poolVars, done, doWorkers>>

-----------------------------------------------------------------------------
(* condition.wait(lock, areThreadsReady), in initialize() and in work() *)

\* Mutant: one helper too few.
AreThreadsAlmostReady == ready + 1 >= threads

AreThreadsReady == ready = threads

Block(c) ==
    /\ pc[c] = "wait"
    /\ ~AreThreadsReady
    /\ threadMutex' = NoOne
    /\ Goto(c, "blocked")
    /\ UNCHANGED <<creationMutex, workMutex, poolVars, helperVars, i, doWorkers>>

\* A condition variable may wake its waiter for no reason.
WakeSpuriously(c) ==
    /\ pc[c] = "blocked"
    /\ Goto(c, "resume")
    /\ UNCHANGED <<mutexes, poolVars, helperVars, i, doWorkers>>

Resume(c) ==
    /\ pc[c] = "resume"
    /\ threadMutex = NoOne
    /\ threadMutex' = c
    /\ Goto(c, "wait")
    /\ UNCHANGED <<creationMutex, workMutex, poolVars, helperVars, i, doWorkers>>

InitializeReturns(c) ==
    /\ pc[c] = "wait"
    /\ creationMutex = c
    /\ AreThreadsReady
    /\ Publish(c)
    /\ UNCHANGED <<workMutex, num, threads, running, ready, helperVars, i, doWorkers>>

\* Mutant: running is not reset.
WorkReturnsRunning(c) ==
    /\ pc[c] = "wait"
    /\ workMutex = c
    /\ AreThreadsReady
    /\ threadMutex' = NoOne
    /\ workMutex' = NoOne
    /\ doWorkers' = [doWorkers EXCEPT ![c] = <<>>]
    /\ Goto(c, "idle")
    /\ UNCHANGED <<creationMutex, pool, num, threads, running, ready, helperVars, i>>

WorkReturns(c) ==
    /\ pc[c] = "wait"
    /\ workMutex = c
    /\ AreThreadsReady
    /\ running' = FALSE
    /\ threadMutex' = NoOne
    /\ workMutex' = NoOne
    /\ doWorkers' = [doWorkers EXCEPT ![c] = <<>>]
    /\ Goto(c, "idle")
    /\ UNCHANGED <<creationMutex, pool, num, threads, ready, helperVars, i>>

-----------------------------------------------------------------------------

HelperNext(w) == Check(w) \/ RunTask(w) \/ Notify(w) \/ Park(w)

\* What a client does once it has called get(), or exit() has begun.
ClientStep(c) ==
    \/ Get(c) \/ InitializeOneCore(c) \/ Initialize(c) \/ Spawn(c)
    \/ DestroyThread(c) \/ Join(c) \/ ClearDone(c)
    \/ Work(c) \/ RunSequentially(c) \/ LockWork(c) \/ Reset(c) \/ Hand(c)
    \/ Block(c) \/ Resume(c) \/ InitializeReturns(c) \/ WorkReturns(c)

ClientNext(c) ==
    ClientStep(c) \/ Call(c) \/ SpawnFails(c) \/ Destroy(c) \/ WakeSpuriously(c)

\* The process has ended.
Exited ==
    /\ \E c \in Clients : pc[c] = "exited"
    /\ UNCHANGED vars

Next ==
    \/ \E w \in Helpers : HelperNext(w)
    \/ \E c \in Clients : ClientNext(c)
    \/ Exited

Spec == Init /\ [][Next]_vars

\* The operating system runs every thread that can run, and wakes the waiter
\* of a condition variable for no reason only finitely often.
Fairness ==
    /\ \A w \in Helpers : WF_vars(HelperNext(w))
    /\ \A c \in Clients : WF_vars(ClientStep(c))
    /\ <>[][\A c \in Clients : ~WakeSpuriously(c)]_vars

FairSpec == Spec /\ Fairness

-----------------------------------------------------------------------------
(* Properties *)

InWait(c) == pc[c] \in {"wait", "blocked", "resume"}

Closures == UNION {[1..n -> 1..MaxTasks] : n \in 0..NumCores + 1}

\* The variables hold values the C++ types and the bound allow.
TypeOK ==
    /\ creationMutex \in Clients \cup {NoOne}
    /\ workMutex \in Clients \cup {NoOne}
    /\ threadMutex \in Clients \cup {NoOne}
    /\ pool \in BOOLEAN /\ running \in BOOLEAN
    /\ num \in 0..NumCores /\ threads \in 0..NumCores /\ ready \in 0..NumCores
    /\ doWork \in [Helpers -> 0..MaxTasks]
    /\ done \in [Helpers -> BOOLEAN]
    /\ step \in [Helpers -> HelperPC]
    /\ pc \in [Clients -> ClientPC]
    /\ i \in [Clients -> 1..NumCores + 1]
    /\ doWorkers \in [Clients -> Closures]

\* "This method blocks until all tasks are complete" (threads.h:101-102): when
\* nobody is in work(), no helper still owns a closure or runs one.
WorkBlocks ==
    workMutex = NoOne =>
        \A w \in Helpers : doWork[w] = 0 /\ step[w] # "task"

\* The assertions of threads.cpp: the constructor's (64), work()'s on the size
\* of its argument and on running (216, 217), and the one on the count of ready
\* helpers that resetThreadsAreReady() finds (250).
AssertionsHold ==
    /\ \A c \in Clients :
          /\ pc[c] = "spawn" => ~running
          /\ pc[c] \in {"lock", "reset"} => Len(doWorkers[c]) = threads
          /\ pc[c] = "reset" => ready = threads
    /\ workMutex = NoOne => ~running

\* A helper asleep on its condition variable has nothing to do and has not been
\* told to end: the notify_one() of Thread::work and ~Thread is never lost.
NoLostWakeup ==
    \A w \in Helpers : step[w] = "waiting" => doWork[w] = 0 /\ ~done[w]

\* notifyThreadIsReady() wakes one waiter of the pool's condition variable: there
\* is never a second one that the wakeup should have reached.
OneWaiter ==
    \A c, d \in Clients : pc[c] = "blocked" /\ pc[d] = "blocked" => c = d

\* Every get() returns, every work() that got workMutex returns, and exit()
\* joins every helper.
CallsReturn ==
    \A c \in Clients :
        /\ pc[c] = "get" ~> pc[c] \in {"lock", "sequential"}
        /\ pc[c] = "reset" ~> pc[c] = "idle"
        /\ pc[c] = "join" ~> pc[c] \in {"work", "exited"}

\* "failed to create a thread - don't use multithreading, as if num cores == 1"
\* (threads.cpp:142-143): after a failure get() returns a pool without helpers.
StartFailureFallsBack ==
    \A c \in Clients :
        pc[c] = "clear" /\ creationMutex = c ~> pool /\ threads = 0

-----------------------------------------------------------------------------
(* The promise of ThreadPool::work, see WorkPool *)

Handed(c, w) == \/ pc[c] = "hand" /\ w < i[c]
                \/ InWait(c) /\ workMutex = c

todo ==
    [c \in Clients |->
        [w \in DOMAIN doWorkers[c] |->
            IF Handed(c, w) THEN doWork[w] ELSE doWorkers[c][w]]]

Promise == INSTANCE WorkPool WITH owner <- workMutex, todo <- todo

\* The pool implements its abstract specification: each task of a call is run
\* once, by the call that owns the helpers, and before the call returns.
ImplementsWorkPool == Promise!Spec
=============================================================================
