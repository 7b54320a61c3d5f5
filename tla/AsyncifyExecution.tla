-------------------------- MODULE AsyncifyExecution --------------------------
(***************************************************************************)
(* An asyncified module and its host.  The host runs fibers, each a call   *)
(* of the export with an asyncify stack of its own; they share the state   *)
(* and the data pointer of the module.  When the program calls an import   *)
(* the host has no answer for yet, the host unwinds the stack, lets other  *)
(* fibers run, and rewinds when it has the answer                          *)
(* (src/src/passes/Asyncify.cpp, the protocol of :189-197).                *)
(***************************************************************************)
EXTENDS Asyncify

CONSTANTS
    Modules,
    Export,         \* the function the host calls, with the fiber as argument
    Waiting,        \* imports whose answers the host may not have yet
    Fibers,
    Answers,
    MaxAnswers,     \* bound: answers given to a fiber
    Room,           \* words of memory a stack can run into
    StackEnds       \* where the stacks end

VARIABLES
    module,     \* as it was before the pass
    code,       \* the bodies after it
    state,      \* __asyncify_state
    data,       \* __asyncify_data: the fiber whose stack it points at
    stack,      \* stack[f]: its memory, and the number of words on it
    stackEnd,
    fiber       \* fiber[f]: where the host is with it, the answers given,
                \* what it was seen to do and its result

NoFiber == -1

vars == <<module, code, state, data, stack, stackEnd, fiber>>

-----------------------------------------------------------------------------
(***************************************************************************)
(* Execution.  e.control says how a statement ended: go on, br (to         *)
(* e.target), return (e.value), unwind, trap, or stop: the original module *)
(* is run up to the call where the asyncified one waits.                   *)
(***************************************************************************)
Get(e, x) == IF x \in DOMAIN e.locals THEN e.locals[x] ELSE 0
Put(e, x, v) ==
    IF x = NoLocal THEN e ELSE [e EXCEPT !.locals = (x :> v) @@ @]
Passes(e, t) ==
    CASE t[1] = "state" -> e.state = t[2]
      [] t[1] = "local" -> Get(e, t[2]) # 0
      [] t[1] = "zero" -> Get(e, t[2]) = 0
      [] t[1] = "index" -> Get(e, RewindIndex) = t[2]
      [] t[1] = "changed" -> Get(e, t[2]) # e.state

\* Mutant: the last word of the stack is not to be used.
AtEnd(pos, end) == pos >= end

PastEnd(pos, end) == pos > end

Verified(e) ==
    IF PastEnd(e.stack[e.data].pos, e.end) THEN [e EXCEPT !.control = "trap"] ELSE e

StartUnwind(e) == Verified([e EXCEPT !.state = "unwinding", !.data = e.fiber])
StopUnwind(e) == Verified([e EXCEPT !.state = "normal"])
StartRewind(e) == Verified([e EXCEPT !.state = "rewinding", !.data = e.fiber])
StopRewind(e) == Verified([e EXCEPT !.state = "normal"])

Peek(e) == e.stack[e.data].words[e.stack[e.data].pos + 1]
Move(e, by) == [e EXCEPT !.stack[e.data].pos = @ + by]
Poke(e, at, v) == [e EXCEPT !.stack[e.data].words[e.stack[e.data].pos + at] = v]

PopIndex(e) == LET e1 == Move(e, -1) IN Put(e1, RewindIndex, Peek(e1))
PushIndex(e) == Move(Poke(e, 1, Get(e, UnwindIndex)), 1)

\* Mutant: what is loaded stays on the stack.
LoadWithoutPop(e, saved) ==
    LET s == e.stack[e.data]
    IN  FoldLeft(LAMBDA acc, i : Put(acc, saved[i], s.words[s.pos - Len(saved) + i]),
                 e, [i \in DOMAIN saved |-> i])

Load(e, saved) ==
    LET e1 == Move(e, -Len(saved))
        s == e1.stack[e1.data]
    IN  FoldLeft(LAMBDA acc, i : Put(acc, saved[i], s.words[s.pos + i]),
                 e1, [i \in DOMAIN saved |-> i])
Save(e, saved) ==
    Move(FoldLeft(LAMBDA acc, i : Poke(acc, i, Get(acc, saved[i])),
                  e, [i \in DOMAIN saved |-> i]), Len(saved))

Seen(e, call) == [e EXCEPT !.log = Append(@, call)]
GiveAnswer(e) == [e EXCEPT !.value = Head(e.script), !.script = Tail(@)]

\* A call that is resumed has been seen.
Import(e, call) ==
    IF call[1] \notin Waiting THEN Seen(e, call)
    ELSE IF e.state = "rewinding"
    THEN GiveAnswer(StopRewind(IF Last(e.log) = call THEN e ELSE Seen(e, call)))
    ELSE IF e.script # <<>> THEN GiveAnswer(Seen(e, call))
    ELSE IF e.original THEN [Seen(e, call) EXCEPT !.control = "stop"]
    ELSE StartUnwind([Seen(e, call) EXCEPT !.value = 0])

RECURSIVE Execute(_, _, _)
Invoke(bodies, f, args, e) ==
    IF f \notin DOMAIN bodies THEN Import(e, <<f, args>>)
    ELSE LET r == Execute(bodies, bodies[f],
                          [e EXCEPT !.locals = args, !.value = 0,
                                    !.frames = Append(@, f)])
         IN  IF r.control \in {"trap", "stop"} THEN r
             ELSE [r EXCEPT !.control = "go", !.locals = e.locals,
                            !.frames = e.frames]

Branched(e, label) == e.control = "br" /\ e.target = label

Perform(bodies, s, e) ==
    CASE s.op = "set" -> Put(e, s.local, s.value)
      [] s.op = "copy" -> Put(e, s.local, Get(e, s.from))
      [] s.op = "test" ->
            Put(e, s.local, IF \E t \in s.cond : Passes(e, t) THEN 1 ELSE 0)
      [] s.op \in {"call", "call_indirect"} ->
            LET r == Invoke(bodies, s.target, [i \in DOMAIN s.args |-> Get(e, s.args[i])], e)
            IN  IF r.control = "go" THEN Put(r, s.local, r.value) ELSE r
      [] s.op = "return" -> [e EXCEPT !.control = "return", !.value = Get(e, s.local)]
      [] s.op = "br" -> [e EXCEPT !.control = "br", !.target = s.label]
      [] s.op = "block" ->
            LET r == Execute(bodies, s.arms[1], e)
            IN  IF Branched(r, s.label) THEN [r EXCEPT !.control = "go"] ELSE r
      [] s.op = "loop" ->
            LET r == Execute(bodies, s.arms[1], e)
            IN  IF Branched(r, s.label)
                THEN Execute(bodies, <<s>>, [r EXCEPT !.control = "go"]) ELSE r
      [] s.op = "if" ->
            IF \E t \in s.cond : Passes(e, t) THEN Execute(bodies, s.arms[1], e)
            ELSE IF Len(s.arms) = 2 THEN Execute(bodies, s.arms[2], e) ELSE e
      [] s.op = "unwind" ->
            [Put(e, UnwindIndex, s.index) EXCEPT !.control = "unwind"]
      [] s.op = "unwind_block" ->
            LET r == Execute(bodies, s.arms[1], e)
            IN  IF r.control = "unwind" THEN [r EXCEPT !.control = "go"]
                ELSE IF r.control = "go" THEN [r EXCEPT !.control = "return", !.value = 0]
                ELSE r
      [] s.op = "pop_index" -> PopIndex(e)
      [] s.op = "push_index" -> PushIndex(e)
      [] s.op = "load" -> Load(e, s.locals)
      [] s.op = "save" -> Save(e, s.locals)
      [] s.op = "note_state" -> Put(e, OldState, e.state)
      [] s.op = "unreachable" -> [e EXCEPT !.control = "trap"]

Execute(bodies, list, e) ==
    IF list = <<>> \/ e.control # "go" THEN e
    ELSE Execute(bodies, Tail(list), Perform(bodies, Head(list), e))

\* The host calls into the module for a fiber, with these answers at hand.
Enter(f, script) ==
    [locals |-> <<>>, control |-> "go", target |-> "", value |-> 0, frames |-> <<>>,
     state |-> state, data |-> data, stack |-> stack, end |-> stackEnd,
     fiber |-> f, script |-> script, log |-> fiber[f].log, original |-> FALSE]

\* What the original module does with the answers the fiber was given.
Original(f) ==
    Invoke(module.body, Export, <<f>>,
           [Enter(f, fiber[f].answers) EXCEPT
                !.state = "normal", !.log = <<>>, !.original = TRUE])
-----------------------------------------------------------------------------
Start(m, end) ==
    /\ module = m
    /\ code = Asyncified(m)
    /\ state = "normal"
    /\ data = NoFiber
    /\ stack = [f \in Fibers |-> [pos |-> 0, words |-> [i \in 1..Room |-> 0]]]
    /\ stackEnd = end
    /\ fiber = [f \in Fibers |->
                    [at |-> "idle", answers |-> <<>>, log |-> <<>>, value |-> 0]]

Init == \E m \in Modules, end \in StackEnds : Start(m, end)

Apply(e, f, at, script) ==
    /\ state' = e.state
    /\ data' = e.data
    /\ stack' = e.stack
    /\ fiber' = [fiber EXCEPT ![f] =
                    [at |-> IF e.control = "trap" THEN "trapped" ELSE at,
                     answers |-> @.answers \o script, log |-> e.log, value |-> e.value]]
    /\ UNCHANGED <<module, code, stackEnd>>

NoTrap == \A f \in Fibers : fiber[f].at # "trapped"

Scripts(f) == UNION {[1..n -> Answers] : n \in 0..(MaxAnswers - Len(fiber[f].answers))}

\* The host answers until it runs out of answers, then the program waits.
CallExport(f) ==
    /\ <<state, fiber[f].at>> \in {<<"normal", "idle">>, <<"rewinding", "rewinding">>}
    /\ \E script \in Scripts(f) :
          LET e == Invoke(code, Export, <<f>>, Enter(f, script))
          IN  /\ script # <<>> \/ fiber[f].at = "idle"
              /\ e.script = <<>>
              /\ Apply(e, f, IF e.state = "unwinding" THEN "unwound" ELSE "done", script)

HostStopsUnwind(f) ==
    /\ state = "unwinding"
    /\ fiber[f].at = "unwound"
    /\ Apply(StopUnwind(Enter(f, <<>>)), f, "waiting", <<>>)

HostStartsRewind(f) ==
    /\ state = "normal"
    /\ fiber[f].at = "waiting"
    /\ Len(fiber[f].answers) < MaxAnswers
    /\ Apply(StartRewind(Enter(f, <<>>)), f, "rewinding", <<>>)

Next ==
    /\ NoTrap
    /\ \E f \in Fibers : CallExport(f) \/ HostStopsUnwind(f) \/ HostStartsRewind(f)

Spec == Init /\ [][Next]_vars
-----------------------------------------------------------------------------
(* Whatever is on the stack, a fiber that waits has been seen to do what   *)
(* the original program does up to that call, and one that is done         *)
(* everything it does, with its result: code is neither repeated nor       *)
(* skipped by rewinding, and locals and conditions are those from before.  *)
SameAsOriginal ==
    \A f \in Fibers :
        LET o == Original(f)
        IN  /\ fiber[f].at \in {"waiting", "done"} => fiber[f].log = o.log
            /\ fiber[f].at = "waiting" => o.control = "stop"
            /\ fiber[f].at = "done" => o.control = "go" /\ fiber[f].value = o.value

(* Each frame takes off the stack what it put there, so that fibers may    *)
(* wait many times; a stack is only ever used up to its end.               *)
StackBalanced ==
    \A f \in Fibers :
        /\ fiber[f].at \in {"idle", "done"} => stack[f].pos = 0
        /\ fiber[f].at \in {"waiting", "rewinding"} => stack[f].pos \in 1..stackEnd

(* The module traps only for one of two reasons: more was saved than the   *)
(* stack can hold, or there was a function on the stack that the lists     *)
(* keep from being instrumented; with the assertions on, this never passes *)
(* for a fiber that waits.                                                 *)
TrapsForAReason ==
    \A f \in Fibers :
        LET uninstrumented == ToSet(Original(f).frames) \ NeedsInstrumentation(module)
        IN  /\ fiber[f].at = "trapped" =>
                  \/ stack[f].pos > stackEnd
                  \/ module.options.asserts /\ uninstrumented # {}
            /\ fiber[f].at = "waiting" => uninstrumented = {}
=============================================================================
