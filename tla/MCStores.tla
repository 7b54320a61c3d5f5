------------------------------ MODULE MCStores ------------------------------
EXTENDS Stores

Ref(g, i) == [group |-> g, index |-> i]
Type(c, refs) == [content |-> c, refs |-> refs]

\* A leaf twice, which makes the second a duplicate in any case.
LeafAndUser ==
    << <<Type("open", <<>>)>>, <<Type("user", <<Ref(1, 1)>>)>>, <<Type("open", <<>>)>> >>

\* A recursive group that uses the leaf; then a reference to a later group.
ForwardReference ==
    << <<Type("open", <<>>)>>,
       <<Type("node", <<Ref(2, 2)>>), Type("user", <<Ref(1, 1), Ref(2, 1)>>)>>,
       <<Type("user", <<Ref(4, 1)>>)>>,
       <<Type("open", <<>>)>> >>

\* The third group differs from the first in what a binary leaves out.
Collision ==
    << <<Type("exact", <<>>)>>, <<Type("user", <<Ref(1, 1)>>)>>,
       <<Type("open", <<>>)>>, <<Type("open", <<>>)>> >>

MCPrograms == {LeafAndUser, ForwardReference, Collision}
MCLeaves == {"open"}
MCShape == [c \in {"open", "exact", "user", "node"} |->
                IF c = "exact" THEN "open" ELSE c]

MCAddresses == 1..12

\* The lowest free addresses, in order: freed addresses are used again soon.
MCPlacements(free, n) ==
    LET Below(a) == Cardinality({b \in free : b < a})
    IN  IF Cardinality(free) < n THEN {}
        ELSE {[i \in 1..n |-> CHOOSE a \in free : Below(a) = i - 1]}
=============================================================================
