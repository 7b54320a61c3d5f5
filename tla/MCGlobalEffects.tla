-------------------------- MODULE MCGlobalEffects --------------------------
(* GlobalEffects on functions f and g, an import i, and types A :> B :> C. *)
EXTENDS GlobalEffects

MCEffects == {"trap", "throws", "writes", ReturnThrow}

Function(name, type, calls, indirect) ==
    [imported |-> FALSE, exact |-> TRUE, type |-> type, referenced |-> FALSE,
     effects |-> IF name = "f" THEN {"writes"} ELSE {"throws"},
     calls |-> calls, indirect |-> indirect, returns |-> {}, otherCalls |-> FALSE]

Import(type, exact) ==
    [Function("f", type, {}, {}) EXCEPT !.imported = TRUE, !.exact = exact,
                                        !.effects = {}]

Module(closed, f, g, i, referenced) ==
    LET func == [n \in {"f", "g", "i"} |->
                    CASE n = "f" -> f [] n = "g" -> g [] n = "i" -> i]
    IN  [closed |-> closed,
         super |-> [t \in {"A", "B", "C"} |->
                       CASE t = "A" -> None [] t = "B" -> "A" [] t = "C" -> "B"],
         func |-> [n \in DOMAIN func |->
                     [func[n] EXCEPT !.referenced = n \in referenced]]]

\* Every graph of direct calls; an indirect call matters in an open world.
Direct ==
    {Module(FALSE, Function("f", "A", F, T), Function("g", "A", G, {}),
            Import("A", TRUE), {"f", "g", "i"}) :
        F, G \in SUBSET {"f", "g", "i"}, T \in {{}, {"A"}}}

\* Indirect calls of every type, with direct ones.
Indirect ==
    {Module(TRUE, Function("f", "A", F, T), Function("g", u, {}, U),
            Import("B", exact), referenced) :
        F \in {{}, {"g"}}, T \in {{"A"}, {"B"}, {"C"}}, u \in {"A", "C"},
        U \in {{}, {"B"}}, exact \in BOOLEAN,
        referenced \in SUBSET {"f", "g", "i"}}

Other == {Module(TRUE, [Function("f", "A", {"g"}, {}) EXCEPT !.otherCalls = oc],
                 Function("g", "B", {}, {"C"}), Import("B", TRUE), {}) :
             oc \in BOOLEAN}

\* The same with return calls in place of the calls of one function.
Returning(m, n) ==
    [m EXCEPT !.func[n].returns = m.func[n].calls \cup m.func[n].indirect]

\* An indirect return call beside an indirect call.
Mixed ==
    {Module(TRUE, [Function("f", v, {}, {"B", "C"}) EXCEPT !.returns = {t}],
            Function("g", u, {}, {}), Import("B", TRUE), referenced) :
        v \in {"A", "C"}, u \in {"B", "C"}, t \in {"B", "C"},
        referenced \in SUBSET {"f", "g", "i"}}

MCModules ==
    Direct \cup Indirect \cup Other \cup Mixed
    \cup {Returning(m, "f") : m \in Direct \cup Indirect}
    \cup {Returning(m, "g") : m \in Indirect}

\* Nothing is cached in the usual case; else a part of the module is new.
MCKnown == {{}, {"g"}, {"f", "B"}, {"f", "g", "A", "C"}}
MCInputs == {<<"f", "g", "i">>, <<"i", "g", "f">>}
=============================================================================
