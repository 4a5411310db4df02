---------------------------- MODULE MCSemanticMerge ----------------------------
(***************************************************************************)
(* Small instances of SemanticMerge: a tree three levels deep in which one *)
(* node has two slots, a sibling, and a second tree whose root has the key *)
(* of a node of the first.                                                 *)
(***************************************************************************)
EXTENDS SemanticMerge, TLC

R == <<"r">>
A == <<"r", "a">>
B == <<"r", "a", "b">>
C == <<"r", "c">>
Other == <<"a">>

Slots(x, y) == [x |-> x, y |-> y]
Plain == Slots("1", "unset")

\* A slot is changed in two ways, or removed; the other one in a third change.
NodesOfA == {Slots("1", "1"), Slots("2", "1"), Slots("unset", "1"), Slots("1", "2")}

\* The empty content, the root alone, and the chain down to A and to B; with
\* the other root once each.
Chains ==
    LET pairs == {<<Plain, a>> : a \in NodesOfA} \cup {<<Slots("2", "unset"), Slots("1", "1")>>}
    IN  {<<>>}
        \cup {(R :> r) : r \in {Plain, Slots("2", "unset")}}
        \cup {(R :> n[1]) @@ (A :> n[2]) : n \in pairs}
        \cup {(R :> n[1]) @@ (A :> n[2]) @@ (B :> Plain) : n \in pairs}

\* A sibling of A, a relation to it, and a tree of its own.
Beside == {(R :> Plain) @@ (C :> Plain),
           (R :> Plain) @@ (A :> Slots("1", "1")) @@ (C :> Plain),
           (R :> Plain) @@ (A :> Slots("2", "1")) @@ (C :> Slots("2", "unset"))}
Apart == {(Other :> Plain),
          (R :> Plain) @@ (A :> Slots("1", "1")) @@ (Other :> Plain)}
Related == [from |-> A, to |-> C, type |-> "depends"]

SmallContents ==
    {[nodes |-> n, relations |-> {}] : n \in Chains \cup Beside \cup Apart}
    \cup {[nodes |-> (R :> Plain) @@ (A :> Slots("1", "1")) @@ (C :> Plain),
           relations |-> {Related}]}

\* The tree a reviewer may edit at R, A or B.
SmallEdit == (R :> Slots("3", "unset")) @@ (A :> Slots("3", "3")) @@ (B :> Slots("3", "unset"))
================================================================================
