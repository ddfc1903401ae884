------------------------- MODULE MCVerifierResults -------------------------
(***************************************************************************)
(* Three compilers, so that two of them are not compared directly.  The    *)
(* contract notes its argument where no dump shows it, and a second        *)
(* function brings it to light; compilers make all sorts of mistakes.  Of  *)
(* the chain, contracts see if the number of deployments is odd.           *)
(***************************************************************************)
EXTENDS VerifierResults

\* The zeros first, so that what the last call notes may be something else.
MCStrategy == <<"zeros", "default">>

MCChain == {0, 1}

\* Processes that have deployed as many contracts, and one of a compiler with replicas.
MCProcesses == {<<0, 0, 0>>, <<0, 1, 0>>}

Slots(d, r) == [dumped |-> d, rest |-> r]
Returns(s, h, v) == [world |-> [storage |-> s, chain |-> h], return_value |-> v]
Deployed(h, s) == [made |-> s, chain |-> 1 - h]

Note(s, h, a) == Returns(Slots(s.dumped, a), h, s.dumped)
Reveal(s, h, a) == Returns(Slots(s.rest, s.rest), h, a)

Contract(init(_, _), note(_, _, _), reveal(_, _, _)) ==
  [init |-> [x \in Chain \X Args |-> init(x[1], x[2])],
   call |-> [x \in (1 .. MaxFuncs) \X World \X Args |->
               IF x[1] = 1 THEN note(x[2].storage, x[2].chain, x[3])
               ELSE reveal(x[2].storage, x[2].chain, x[3])]]

Create(h, a) == Deployed(h, Slots(0, a))
CreateOrFail(h, a) == IF a = 0 THEN Create(h, a) ELSE [made |-> [deploy_error |-> "m1"], chain |-> h]
Reject(h, a) == [made |-> [deploy_error |-> "m2"], chain |-> h]
CreateAddress(h, a) == Deployed(h, Slots(h, a))
RevealOrRaise(s, h, a) == IF s.rest = 1 THEN RuntimeError ELSE Reveal(s, h, a)
RevealAndDeploy(s, h, a) == Returns(Slots(s.rest, s.rest), 1 - h, a)
RevealOther(s, h, a) == Returns(Slots(s.rest, s.rest), h, 1 - a)

MCBehaviour ==
  {Contract(CreateOrFail, Note, Reveal),
   Contract(Reject, Note, Reveal),
   Contract(CreateAddress, Note, Reveal),
   Contract(CreateAddress, Note, RevealAndDeploy),
   Contract(Create, Note, RevealOrRaise),
   Contract(Create, Note, RevealOther)}
=============================================================================
