------------------------------ MODULE Asyncify ------------------------------
(***************************************************************************)
(* The transformation that lets a program pause inside a call of the host  *)
(* and resume there later (src/src/passes/Asyncify.cpp): which functions   *)
(* need it, how their control flow is rewritten so that the stack can be   *)
(* unwound and rewound, and which locals each of them saves.               *)
(*                                                                         *)
(* Bodies are flat IR: sequences of statements, where the operands of a    *)
(* statement are locals and its arms are sequences again.  A condition is  *)
(* a set of tests and holds when one of them does.  Locals are numbers.    *)
(***************************************************************************)
EXTENDS Integers, SequencesExt

NoLocal == 0
FakeLocal == -1         \* takes the result of a call that may have unwound
RewindIndex == -2       \* the index of the call to rewind into
UnwindIndex == -3       \* the index of the call that unwound
OldState == -4
FirstTemp == 10         \* functions have fewer locals of their own

Normal == <<"state", "normal">>
Unwinding == <<"state", "unwinding">>
Rewinding == <<"state", "rewinding">>
Local(x) == <<"local", x>>
Zero(x) == <<"zero", x>>
CallIndex(i) == <<"index", i>>
StateChanged == <<"changed", OldState>>

Do(op) == [op |-> op, arms |-> <<>>]
Set(x, v) == [op |-> "set", local |-> x, value |-> v, arms |-> <<>>]
Copy(x, y) == [op |-> "copy", local |-> x, from |-> y, arms |-> <<>>]
Test(x, cond) == [op |-> "test", local |-> x, cond |-> cond, arms |-> <<>>]
Call(f, args, x) ==
    [op |-> "call", target |-> f, args |-> args, local |-> x, arms |-> <<>>]
CallIndirect(f, args, x) == [Call(f, args, x) EXCEPT !.op = "call_indirect"]
Return(x) == [op |-> "return", local |-> x, arms |-> <<>>]
Br(label) == [op |-> "br", label |-> label, arms |-> <<>>]
Block(label, body) == [op |-> "block", label |-> label, arms |-> <<body>>]
Loop(label, body) == [op |-> "loop", label |-> label, arms |-> <<body>>]
If(cond, body) == [op |-> "if", cond |-> cond, arms |-> <<body>>]
IfElse(cond, body1, body2) == [op |-> "if", cond |-> cond, arms |-> <<body1, body2>>]

\* A statement and those in its arms.
RECURSIVE Nested(_)
NestedIn(list) == UNION {Nested(s) : s \in ToSet(list)}
Nested(s) == {s} \cup UNION {NestedIn(arm) : arm \in ToSet(s.arms)}

RECURSIVE Size(_)
SizeOf(list) == FoldLeft(LAMBDA n, s : n + Size(s), 0, list)
Size(s) == FoldLeft(LAMBDA n, arm : n + SizeOf(arm), 1, s.arms)

-----------------------------------------------------------------------------
(***************************************************************************)
(* ModuleAnalyzer.  A module is its bodies (of the functions that are not  *)
(* imports), what they return, and the options: the imports that may       *)
(* change the state, whether indirect calls may, the remove, add and only  *)
(* lists, whether the add list is propagated, and whether to add asserts.  *)
(***************************************************************************)
Functions(m) == DOMAIN m.body

IsIndirect(s) == s.op = "call_indirect"
Calls(body) == {s \in NestedIn(body) : s.op = "call" \/ IsIndirect(s)}
Callees(body) == {s.target : s \in {c \in Calls(body) : ~IsIndirect(c)}}

\* The scan, and then the remove list.
Scanned(m) ==
    (m.options.imports \cup
        {f \in Functions(m) : m.options.indirect /\ \E s \in Calls(m.body[f]) : IsIndirect(s)})
    \ m.options.remove

\* propagateBack, along direct calls.
RECURSIVE PropagateBack(_, _)
PropagateBack(m, changing) ==
    LET callers == {f \in Functions(m) \ (changing \cup m.options.remove) :
                        Callees(m.body[f]) \cap changing # {}}
    IN  IF callers = {} THEN changing ELSE PropagateBack(m, changing \cup callers)

CanChangeState(m) ==
    LET early == IF m.options.propagate THEN m.options.add ELSE {}
        found == PropagateBack(m, Scanned(m) \cup early)
    IN  m.options.add \cup
        IF m.options.only = {} THEN found
        ELSE (found \ Functions(m)) \cup m.options.only

\* The functions that are instrumented, and the calls in them that are.
NeedsInstrumentation(m) == CanChangeState(m) \cap Functions(m)

Sites(m, f) ==
    {s \in Calls(m.body[f]) :
        IF IsIndirect(s) THEN m.options.indirect \/ f \in m.options.add \cup m.options.only
        ELSE s.target \in CanChangeState(m)}

-----------------------------------------------------------------------------
(***************************************************************************)
(* AsyncifyFlow: rewinding goes forward through the body and skips what    *)
(* does not lead to the call to resume.  The index of a call is its place  *)
(* in the body; p is the place of what is processed.                       *)
(***************************************************************************)
Changes(s, sites) == Nested(s) \cap sites # {}

MaybeSkip(list) == If({Normal}, list)

\* The result must not reach its local if it is a fake one.
CallSupport(s, p) ==
    LET keep == s.local # NoLocal
    IN  If({Normal, CallIndex(p)},
           << [s EXCEPT !.local = IF keep THEN FakeLocal ELSE NoLocal],
              IfElse({Unwinding},
                     << [op |-> "unwind", index |-> p, arms |-> <<>>] >>,
                     IF keep THEN << Copy(s.local, FakeLocal) >> ELSE <<>>) >>)

ConditionTemp(p) == FirstTemp + p

\* Mutant: the second arm looks at the condition again, which the first may change.
ArmsWithoutTemp(cond, p, arm1, arm2) ==
    << If(cond \cup {Rewinding}, arm1),
       If({Zero(x) : x \in {t[2] : t \in cond}} \cup {Rewinding}, arm2) >>

\* Both arms are passed when rewinding.
LinearArms(cond, p, arm1, arm2) ==
    << MaybeSkip(<< Test(ConditionTemp(p), cond) >>),
       If({Local(ConditionTemp(p)), Rewinding}, arm1),
       If({Zero(ConditionTemp(p)), Rewinding}, arm2) >>

\* The statements from the i-th on that no state change interrupts.
Clump(list, i, sites) ==
    LET ends == {j \in i..Len(list) : j = Len(list) \/ Changes(list[j + 1], sites)}
    IN  SubSeq(list, i, Min(ends))

RECURSIVE Process(_, _, _)
ProcessList(list, p, sites) ==
    FlattenSeq([i \in DOMAIN list |->
        IF Changes(list[i], sites)
        THEN Process(list[i], p + 1 + SizeOf(SubSeq(list, 1, i - 1)), sites)
        ELSE IF i > 1 /\ ~Changes(list[i - 1], sites) THEN <<>>
        ELSE << MaybeSkip(Clump(list, i, sites)) >>])

Process(s, p, sites) ==
    CASE s.op \in {"call", "call_indirect"} -> << CallSupport(s, p) >>
      [] s.op \in {"block", "loop"} ->
            << [s EXCEPT !.arms = <<ProcessList(@[1], p, sites)>>] >>
      [] s.op = "if" /\ Len(s.arms) = 1 ->
            << If(s.cond \cup {Rewinding}, ProcessList(s.arms[1], p, sites)) >>
      [] s.op = "if" /\ Len(s.arms) = 2 ->
            LinearArms(s.cond, p, ProcessList(s.arms[1], p, sites),
                       ProcessList(s.arms[2], p + SizeOf(s.arms[1]), sites))

Flow(body, sites) ==
    << If({Rewinding}, << Do("pop_index") >>) >> \o ProcessList(body, 0, sites)

-----------------------------------------------------------------------------
(***************************************************************************)
(* AsyncifyLocals: what is live where a call may unwind is saved after     *)
(* unwinding and loaded before rewinding.  acc.live is what is live after  *)
(* a list, labels[l] what is live at the target of branches to l.          *)
(***************************************************************************)
LocalsOf(tests) == {t[2] : t \in {u \in tests : u[1] \in {"local", "zero"}}}

Reads(s) == CASE s.op \in {"call", "call_indirect"} -> ToSet(s.args)
              [] s.op \in {"if", "test"} -> LocalsOf(s.cond)
              [] s.op = "copy" -> {s.from} \ {FakeLocal}
              [] s.op = "return" -> {s.local} \ {NoLocal}
              [] OTHER -> {}
Writes(s) == IF s.op \in {"set", "copy", "test", "call", "call_indirect"}
             THEN {s.local} ELSE {}

HasCallIndex(s) == s.op = "if" /\ \E t \in s.cond : t[1] = "index"

RECURSIVE Liveness(_, _, _)
LiveBefore(s, acc, labels) ==
    LET inside(i, targets) == Liveness(s.arms[i], acc, targets @@ labels)
    IN  CASE s.op = "block" -> inside(1, s.label :> acc.live)
          [] s.op = "loop" -> inside(1, s.label :> inside(1, s.label :> {}).live)
          [] s.op = "br" -> [acc EXCEPT !.live = labels[s.label]]
          [] s.op = "return" -> [acc EXCEPT !.live = Reads(s)]
          [] s.op = "if" ->
                LET one == inside(1, <<>>)
                    two == IF Len(s.arms) = 2 THEN inside(2, <<>>) ELSE acc
                    live == Reads(s) \cup one.live \cup two.live
                IN  [live |-> live,
                     relevant |-> one.relevant \cup two.relevant \cup
                                  IF HasCallIndex(s) THEN live ELSE {}]
          [] OTHER -> [acc EXCEPT !.live = (@ \ Writes(s)) \cup Reads(s)]

Liveness(list, acc, labels) ==
    IF list = <<>> THEN acc
    ELSE Liveness(Front(list), LiveBefore(Last(list), acc, labels), labels)

RelevantLiveLocals(body) ==
    SetToSortSeq(Liveness(body, [live |-> {}, relevant |-> {}], <<>>).relevant, <)

\* A body that unwinds leaves it for the statements after it, any other returns.
Instrument(body, sites) ==
    LET flow == Flow(body, sites)
        saved == RelevantLiveLocals(flow)
    IN  << If({Rewinding}, << [op |-> "load", locals |-> saved, arms |-> <<>>] >>),
           [op |-> "unwind_block", arms |-> << flow >>],
           Do("push_index"),
           [op |-> "save", locals |-> saved, arms |-> <<>>],
           Return(NoLocal) >>

\* AsyncifyAssertInNonInstrumented: no call may come back in another state.
RECURSIVE AssertAround(_)
AssertAround(list) ==
    FlattenSeq([i \in DOMAIN list |->
        LET s == [list[i] EXCEPT !.arms = [j \in DOMAIN @ |-> AssertAround(@[j])]]
        IN  IF s.op \in {"call", "call_indirect"}
            THEN << s, If({StateChanged}, << Do("unreachable") >>) >>
            ELSE << s >>])

\* The bodies the pass leaves.
Asyncified(m) ==
    [f \in Functions(m) |->
        IF f \in NeedsInstrumentation(m) THEN Instrument(m.body[f], Sites(m, f))
        ELSE IF m.options.asserts THEN << Do("note_state") >> \o AssertAround(m.body[f])
        ELSE m.body[f]]
=============================================================================
