------------------------------- MODULE RefLedger -------------------------------
(***************************************************************************)
(* What the repository promises about its refs: each ref is an append-only *)
(* chain of commits, a commit is authorized for the ref before it joins    *)
(* the chain or as it joins, it joins exactly one chain once, and its      *)
(* parent is the commit it replaces.                                       *)
(***************************************************************************)
EXTENDS Naturals, Sequences

CONSTANTS Refs, Digests, None

VARIABLES
    granted,    \* <<ref, commit>>: the commits authorized for a ref
    log         \* the advances of each ref

vars == <<granted, log>>

LastHead(advances) ==
    IF advances = <<>> THEN None ELSE advances[Len(advances)].head

Used(d) == \E ref \in Refs : \E i \in DOMAIN log[ref] : log[ref][i].head = d

Init ==
    /\ granted = {}
    /\ log = [ref \in Refs |-> <<>>]

\* A Decision that is not a rejection authorizes a commit.
Grant(ref, d) ==
    /\ granted' = granted \cup {<<ref, d>>}
    /\ UNCHANGED log

\* The ref moves from its head to an authorized commit that is new to history.
Advance(ref, d) ==
    /\ ~Used(d)
    /\ granted' = granted \cup {<<ref, d>>}
    /\ log' = [log EXCEPT ![ref] =
                  Append(@, [previous |-> LastHead(@), head |-> d])]

Next == \E ref \in Refs, d \in Digests : Grant(ref, d) \/ Advance(ref, d)

Spec == Init /\ [][Next]_vars
===============================================================================
