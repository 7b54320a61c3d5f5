----------------------------- MODULE MCAsyncify -----------------------------
EXTENDS AsyncifyExecution

Wait(args, x) == Call("wait", args, x)
Show(x) == Call("show", <<x>>, NoLocal)

\* Parts of the body of the export, whose parameter is local 1.
Parts ==
    { << Set(2, 2), Show(1) >>,
      << Wait(<<1>>, 2) >>,
      << Call("callee", <<2>>, 1) >>,
      << CallIndirect("callee", <<1>>, 2), Show(2) >>,
      << If({Local(1)}, << Wait(<<>>, 1), Set(2, 3) >>) >>,
      << IfElse({Local(1)}, << Wait(<<2>>, 1) >>,
                << Show(2), Call("callee", <<1>>, 1) >>) >>,
      << IfElse({Local(2)}, << If({Local(1)}, << Return(1) >>), Wait(<<>>, 2) >>,
                << Set(1, 4), IfElse({Local(1)}, << Wait(<<1>>, 2) >>, << Wait(<<2>>, 1) >>) >>) >>,
      << Loop("L", << Wait(<<1>>, 1), Show(2), If({Local(1)}, << Set(2, 5), Br("L") >>) >>) >>,
      << Block("B", << If({Local(2)}, << Br("B") >>), Call("callee", <<1>>, 2),
                       If({Local(2)}, << Br("B") >>), Wait(<<2>>, 1) >>) >>,
      << Loop("L", << Block("B", << IfElse({Local(1)}, << Wait(<<1>>, 1), Br("L") >>,
                                           << Br("B") >>) >>) >>) >>,
      << Call("quiet", <<2>>, NoLocal), If({Local(2)}, << Show(2), Return(2) >>) >> }

Bodies(main) ==
    [main |-> main,
     callee |-> << Set(2, 6), Wait(<<1>>, 3), Show(2), Return(3) >>,
     middle |-> << CallIndirect("callee", <<1>>, 2), Show(2), Return(1) >>,
     quiet |-> << Show(1) >>]

Default == [imports |-> {"wait"}, indirect |-> TRUE, remove |-> {}, add |-> {},
            only |-> {}, propagate |-> FALSE, asserts |-> FALSE]
IgnoreIndirect == [Default EXCEPT !.indirect = FALSE]

Module(main, options) == [body |-> Bodies(main), options |-> options]

Direct == << Call("quiet", <<1>>, NoLocal), Call("middle", <<1>>, 2), Show(2), Return(2) >>
Indirect == << CallIndirect("middle", <<1>>, 2), Show(2), Wait(<<>>, 1), Return(1) >>

MCModules ==
    {Module(a \o b \o << Show(1), Show(2), Return(1) >>, Default) : a \in Parts, b \in Parts}
    \cup
    \* Lists that name what must be instrumented.
    {Module(Direct, [IgnoreIndirect EXCEPT !.add = {"middle"}, !.propagate = TRUE]),
     Module(Direct, [IgnoreIndirect EXCEPT !.add = {"middle", "main"}, !.asserts = TRUE]),
     Module(Direct, [IgnoreIndirect EXCEPT !.only = {"main", "middle", "callee"}]),
     Module(Indirect, [Default EXCEPT !.remove = {"quiet"}, !.asserts = TRUE]),
     Module(Indirect, [IgnoreIndirect EXCEPT !.add = {"main", "middle"}])}
    \cup
    \* Lists that do not, with assertions on.
    {Module(main, [options EXCEPT !.asserts = TRUE]) :
        main \in {Direct, << Wait(<<1>>, 2) >> \o Direct},
        options \in {IgnoreIndirect,
                     [IgnoreIndirect EXCEPT !.add = {"middle"}],
                     [IgnoreIndirect EXCEPT !.add = {"main"}],
                     [IgnoreIndirect EXCEPT !.only = {"main", "callee"}],
                     [Default EXCEPT !.only = {"middle", "callee"}],
                     [Default EXCEPT !.remove = {"callee"}],
                     [Default EXCEPT !.remove = {"main"}]}}

MCFibers == {0, 1}
=============================================================================
