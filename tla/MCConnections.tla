--------------------------- MODULE MCConnections ---------------------------
(***************************************************************************)
(* Two replicas and two contracts, the second of which ends every runner   *)
(* that takes it.                                                          *)
(***************************************************************************)
EXTENDS Connections

CONSTANTS r1, r2, b1, b2

\* Replicas of two compilers, or of one and of none.  (The keys of the compilers
\* take all values, so that it does not matter which compilers these are.)
Replicas == {r1, r2}
Names == {[r \in Replicas |-> IF r = r1 THEN 1 ELSE n] : n \in {2, Unknown}}

Second == {2}

\* The brokers are alike: the first one is that of the first compiler that has any.
HasFirst(c) == queueOf[c] # NoBroker /\ \A d \in 1 .. c - 1 : queueOf[d] = NoBroker
MCInit == Init /\ \A c \in Compiler : HasFirst(c) => queueOf[c] = b1
MCSpec == MCInit /\ [][Next]_vars /\ Fairness

=============================================================================
