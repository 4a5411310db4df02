----------------------------- MODULE MCEventStream -----------------------------
(***************************************************************************)
(* Small instances of EventStream.                                         *)
(***************************************************************************)
EXTENDS EventStream

CONSTANTS s1, s2, s3, c1, c2

\* One client that reconnects, and another that shares the room with it.
TwoClients == [k \in Connections |-> IF k = s3 THEN c2 ELSE c1]

\* One transaction at most is rolled back and one row at most is removed; the
\* relay loses at most one event.
StreamTraffic ==
    /\ Cardinality({i \in EventIds : txn[i] = "rolled back"}) <= 1
    /\ Cardinality(CommittedEvents \ outbox) <= 1
    /\ Cardinality(missed) <= 1
===============================================================================
