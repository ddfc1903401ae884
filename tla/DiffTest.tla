------------------------------ MODULE DiffTest ------------------------------
(***************************************************************************)
(* What differential testing promises, without queues, runners or          *)
(* databases: contracts are submitted, each compiler behaves in some way   *)
(* on each of them, and a contract is judged on what the compilers really  *)
(* do, for all compilers at once, and only when there is something to      *)
(* compare.                                                                *)
(***************************************************************************)
CONSTANTS
  Gen,        \* ids of contracts
  Compiler,   \* compilers under test
  Outcome,    \* what a compiler may do with a contract
  Unknown,    \* no outcome
  Empty       \* the outcome that leaves nothing to compare

VARIABLES
  submitted,  \* contracts handed to the compilers
  behaviour,  \* what each compiler does with each contract
  judged      \* the row of outcomes each contract was judged on

vars == <<submitted, behaviour, judged>>

Blank == [c \in Compiler |-> Unknown]

Init ==
  /\ submitted = {}
  /\ behaviour = [g \in Gen |-> Blank]
  /\ judged = [g \in Gen |-> Blank]

\* A contract is submitted once; its behaviour is fixed from then on.
Submit(g) ==
  /\ g \notin submitted
  /\ submitted' = submitted \cup {g}
  /\ \E row \in [Compiler -> Outcome] :
       behaviour' = [behaviour EXCEPT ![g] = row]
  /\ UNCHANGED judged

\* A batch of submitted contracts is judged, possibly not for the first time.
Judge(G) ==
  /\ \A g \in G : \A c \in Compiler : behaviour[g][c] # Empty
  /\ judged' = [g \in Gen |-> IF g \in G THEN behaviour[g] ELSE judged[g]]
  /\ UNCHANGED <<submitted, behaviour>>

Next ==
  \/ \E g \in Gen : Submit(g)
  \/ \E G \in SUBSET submitted : Judge(G)

Spec == Init /\ [][Next]_vars

=============================================================================
