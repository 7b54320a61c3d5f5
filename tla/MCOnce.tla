------------------------------- MODULE MCOnce -------------------------------
EXTENDS OnceExecution

Call(f) == [op |-> "call", func |-> f]
TailCall(f) == [op |-> "return_call", func |-> f]
Set(g, v) == [op |-> "set", global |-> g, value |-> v]
Get(g) == [op |-> "get", global |-> g]
Effect(e) == [op |-> "effect", name |-> e]
If(c, t, e) == [op |-> "if", cond |-> c, arms |-> <<t, e>>]

Once(g, payload) == <<If(g, <<Return>>, <<>>), Set(g, 1)>> \o payload

\* All globals start at zero; none has the name of a function.
Module(b, private, idempotent, exported) ==
    [order |-> SetToSeq(DOMAIN b), body |-> b,
     init |-> [g \in {"G", "H"} |-> 0],
     private |-> private, idempotent |-> idempotent, exported |-> exported,
     fake |-> [f \in idempotent |-> f]]

All == {"a", "b", "c", "d"}
Private == {"G", "H"}
Body(a, b, c, d) == [f \in All |-> CASE f = "a" -> a [] f = "b" -> b
                                     [] f = "c" -> c [] f = "d" -> d]

\* Every choice of these bodies: once functions that call others, each other
\* or nothing; what calls set found along calls and in cycles.
Combinations ==
    {Module(Body(a, b, c, d), Private, {}, All) :
        a \in {Once("G", <<Effect("x")>>), Once("G", <<Call("b")>>), Once("G", <<>>),
               Once("G", <<Call("a"), Effect("x"), Call("b")>>)},
        b \in {Once("H", <<Effect("y")>>), Once("H", <<Call("a")>>), <<Call("a"), Call("c")>>,
               <<If(Host, <<>>, <<Call("c")>>), Call("a")>>,
               <<If(Host, <<Call("a")>>, <<Return>>), Effect("y"), Call("a")>>},
        c \in {<<Call("a"), Effect("z"), Call("b"), Call("a")>>,
               <<If(Host, <<Call("b")>>, <<Effect("z")>>), Call("b")>>,
               <<Call("b"), Get("G"), Call("b")>>,
               <<Call("a"), Set("G", 0), Call("a")>>},
        d \in {<<Call("c"), Call("a"), Effect("w"), Call("b")>>,
               <<Call("b"), If(Host, <<Call("a"), Return>>, <<>>), Call("c")>>}}

\* With three globals, one of them a, the functions a and a_3 share a fake global.
SharedFake ==
    LET b == [f \in {"a", "a_3", "c"} |->
                 CASE f = "a" -> <<If("G", <<>>, <<Set("G", 1), Effect("x")>>)>>
                   [] f = "a_3" -> <<If("H", <<>>, <<Set("H", 1), Effect("y")>>)>>
                   [] f = "c" -> <<Call("a"), Call("a_3"), Effect("z"), Call("a")>>]
    IN  [Module(b, Private, {"a", "a_3"}, DOMAIN b) EXCEPT
            !.init = [g \in {"G", "H", "a"} |-> 0],
            !.fake = [f \in {"a", "a_3"} |-> "a_3"]]

MCModules == Combinations \cup {
    \* Sets outside the once function.
    Module(Body(Once("G", <<Effect("x"), Effect("y")>>),
                <<Call("a"), Effect("z"), Call("a"), If(Host, <<Call("a")>>, <<Set("G", 7)>>)>>,
                <<If(Host, <<Set("G", 2)>>, <<Effect("z")>>), Call("a")>>,
                <<Set("G", 3), Effect("z"), Call("a")>>),
           Private, {}, All),
    \* A global the host sees.
    Module(Body(Once("G", <<Effect("x")>>), <<Call("a"), Set("G", 2), Call("a")>>,
                Once("H", <<Effect("y")>>), <<Call("c"), Call("a"), Set("H", 5), Call("c")>>),
           {"G"}, {}, All),
    \* An idempotent function that guards itself in a form the scan ignores.
    Module(Body(<<If("G", <<>>, <<Set("G", 1), Effect("x")>>)>>, <<Call("a"), Effect("y"), Call("a")>>,
                Once("H", <<Call("a")>>), <<Call("c"), Call("a"), Call("b")>>),
           Private, {"a"}, All),
    \* Two idempotent functions, of which one calls the other.
    Module(Body(<<If("G", <<>>, <<Set("G", 1), Effect("x")>>)>>,
                <<If("H", <<>>, <<Set("H", 1), Call("a"), Effect("y")>>)>>,
                <<Call("a"), Call("b"), Effect("z"), Call("a")>>,
                <<Call("b"), Effect("w"), Call("a"), Call("b")>>),
           Private, {"a", "b"}, All),
    SharedFake
}
=============================================================================
