---------------------------- MODULE MCPassRunner ----------------------------
(* PassRunner on small modules and pipelines. *)
EXTENDS PassRunner

Pass(name, kind) ==
    [name |-> name, parallel |-> kind \in {"parallel", "spill"},
     addsEffects |-> kind \in {"spill", "instrument"},
     computesEffects |-> kind = "generate", skipped |-> FALSE,
     relevant |-> 1..3]

P1 == Pass("p1", "parallel")
P2 == Pass("p2", "parallel")
Spill == Pass("spill", "spill")
Log == Pass("log", "instrument")
Generate == Pass("generate", "generate")
Other == Pass("m", "module")
Skipped(pass) == [pass EXCEPT !.skipped = TRUE]
Filtered(pass) == [pass EXCEPT !.relevant = {1}]

\* Stacks at either end, split by module passes, with and without effects.
MCPipelines ==
    { <<P1, P2>>, <<P1, Filtered(P2), Spill>>, <<P1, Other, P2>>,
      <<Generate, P1, Spill, P2, Other>>,
      <<P1, Skipped(Other), Skipped(P2), Generate, Log, Spill>>,
      <<Log, Generate, Filtered(P1), Other>>,
      <<Generate, Log, P2, Generate>>, <<Generate, Spill, Generate>>, <<Other>>, <<>> }

MCModules ==
    { <<"defined", "defined", "imported">>, <<"imported", "defined", "defined">>,
      <<"defined", "imported", "defined">>, <<"defined">>, <<>> }

\* Function 3 calls function 1, which calls function 2.
MCCalls == <<{2}, {}, {1}>>
MCIndirectCallers == {3}
MCReferenced == {2}

\* Selected is what the standard modules call SelectSeq.
ASSUME SelectedAgrees ==
    \A pipeline \in MCPipelines, f \in 1..3 :
        Selected(f, pipeline)[Len(pipeline)] =
            SelectSeq(pipeline, LAMBDA pass : IsFor(f, pass))
=============================================================================
