---------------------------- MODULE OnceExecution ----------------------------
(***************************************************************************)
(* What a module does, before and after OnceReduction: the host calls      *)
(* exported functions in any order, decides the ifs that are its own, and  *)
(* may call back from any effect.                                          *)
(***************************************************************************)
EXTENDS OnceReduction

CONSTANTS
    No,             \* the host's answer that calls nothing back
    MaxScript,      \* bound: calls by the host
    MaxAnswers,     \* bound: answers other than No come among the first ones
    Fuel            \* bound: calls inside one call by the host

\* s.out: normal, returned from the function, or stuck when out of fuel.
Spend(s) == [s EXCEPT !.answers = IF @ = <<>> THEN @ ELSE Tail(@)]
Answer(s) == IF s.answers = <<>> THEN No ELSE Head(s.answers)
Log(s, x) == [s EXCEPT !.log = Append(@, x)]

RECURSIVE Execute(_, _, _)
Enter(b, f, s) ==
    IF s.fuel = 0 THEN [s EXCEPT !.out = "stuck"]
    ELSE LET r == Execute(b, b[f], [s EXCEPT !.fuel = @ - 1])
         IN  IF r.out = "returned" THEN [r EXCEPT !.out = "normal"] ELSE r

Perform(b, x, s) ==
    CASE x.op = "nop" -> s
      [] x.op = "set" -> [s EXCEPT !.globals[x.global] = x.value]
      [] x.op = "get" -> Log(s, <<x.global, s.globals[x.global]>>)
      [] x.op = "effect" ->
            LET r == Log(Spend(s), <<x.name>>)
            IN  IF Answer(s) = No THEN r ELSE Enter(b, Answer(s), r)
      [] x.op = "if" ->
            IF x.cond = Host
            THEN Execute(b, x.arms[IF Answer(s) = No THEN 2 ELSE 1], Spend(s))
            ELSE Execute(b, x.arms[IF s.globals[x.cond] = 0 THEN 2 ELSE 1], s)
      [] x.op = "return" -> [s EXCEPT !.out = "returned"]
      [] x.op = "call" -> Enter(b, x.func, s)
      [] x.op = "return_call" ->
            LET r == Enter(b, x.func, s)
            IN  IF r.out = "normal" THEN [r EXCEPT !.out = "returned"] ELSE r

Execute(b, items, s) ==
    IF items = <<>> \/ s.out # "normal" THEN s
    ELSE Execute(b, Tail(items), Perform(b, Head(items), s))

\* The host sees the effects, and the globals that are not private.
CallFromHost(b, s, f, fuel) ==
    LET r == Enter(b, f, [s EXCEPT !.fuel = fuel])
    IN  Log(r, [g \in DOMAIN module.init \ module.private |-> r.globals[g]])

Behaviour(b, script, answers, fuel) ==
    FoldLeft(LAMBDA s, f : CallFromHost(b, s, f, fuel),
             [globals |-> module.init, log |-> <<>>, answers |-> answers,
              fuel |-> fuel, out |-> "normal"],
             script)
-----------------------------------------------------------------------------
(* After the pass the host sees what it saw before, whatever it calls and  *)
(* answers, and no call that came to an end fails to do so: every call     *)
(* removed was one that would do nothing, and once functions that call     *)
(* each other keep enough of their exits.  (Without its exit a function    *)
(* may call others once more each time, so the module is given more fuel.) *)
(* Not so if idempotent functions share a fake global: then a call of one  *)
(* may be removed because another has run.                                 *)
SameBehaviour ==
    phase = "done" /\ IsInjective(module.fake) =>
        \A script \in [1..MaxScript -> module.exported] :
        \A answers \in [1..MaxAnswers -> {No} \cup module.exported] :
            LET before == Behaviour(module.body, script, answers, Fuel)
                after == Behaviour(body, script, answers,
                                   Fuel * (1 + Cardinality(Functions)))
            IN  before.out # "stuck" => after.out # "stuck" /\ after.log = before.log
=============================================================================
