--------------------------- MODULE MCOnceTailCalls ---------------------------
EXTENDS MCOnce

\* A tail call of a once function that has run already, in an arm of an if.
TailCallModules == {
    Module(Body(Once("G", <<Effect("x")>>),
                <<Call("a"), If(Host, <<TailCall("a")>>, <<>>), Effect("y")>>,
                <<Call("a"), TailCall("b")>>, <<Effect("z")>>),
           Private, {}, All)}
=============================================================================
