---------------------------- MODULE Connections ----------------------------
(***************************************************************************)
(* How the generator and the runners come to their queues and lose them:   *)
(* the configuration each process starts from, the attempts to connect,    *)
(* brokers that stop and start again, messages that no runner can handle,  *)
(* and the processes that docker restarts.  (In Pipeline every connection  *)
(* stands, and a task is executed or delivered again.)                     *)
(***************************************************************************)
EXTENDS Naturals, FiniteSetsExt

CONSTANTS
  NCompiler,     \* compilers in the configuration
  Broker,        \* the keys under "queues", each with a server of its own
  NoBroker,      \* a key that is not there
  Replica,       \* runner processes
  Unknown,       \* a SERVICE_NAME that names no compiler
  Deployments,   \* bound: the SERVICE_NAMEs that the replicas may have
  Generator,
  MaxAttempts,   \* 20
  NTask,         \* bound: contracts that are generated
  Poison,        \* those that handle_compilation raises on, outside its try blocks
  MaxStops       \* bound: times that a broker stops

ASSUME ConnectionsAssumption ==
  /\ {NCompiler, MaxAttempts} \subseteq Nat \ {0}
  /\ {NTask, MaxStops} \subseteq Nat
  /\ NoBroker \notin Broker
  /\ Generator \notin Replica
  /\ Unknown \notin 1 .. NCompiler
  /\ Deployments \subseteq [Replica -> 1 .. NCompiler \cup {Unknown}]
  /\ Poison \subseteq 1 .. NTask

Compiler == 1 .. NCompiler     \* in the order of the configuration
Process == {Generator} \cup Replica
Task == 1 .. NTask             \* in the order they are published
NoTask == 0

VARIABLES
  queueOf,     \* the key each compiler has under "queue"
  service,     \* SERVICE_NAME of each replica
  up,          \* brokers that run
  stops,
  pc,          \* "created", "connecting", "working", "executing", "stored", "dead"
  todo,        \* compilers whose queues are left to connect to, or to publish to
  attempts,    \* __attempts_count, by broker
  conn,        \* brokers that the process has an open connection to
  generated,   \* contracts so far
  accepted,    \* messages that a broker took, of all times
  ready,       \* those that wait there
  forgotten,   \* those that a broker had when it stopped, and has no more (history)
  held,        \* the message in a replica's hands
  executed     \* compilers and tasks that have a result

config == <<queueOf, service>>
vars == <<config, up, stops, pc, todo, attempts, conn, generated, accepted, ready,
          forgotten, held, executed>>

-----------------------------------------------------------------------------
(* The configuration.                                                      *)

\* compiler_queues raises for any compiler without a queue, whoever asks.
KeysDefined == \A c \in Compiler : queueOf[c] \in Broker

\* init_queue: get_compiler_params_by_name gives None for an unknown name.
Starts(p) == KeysDefined /\ (p \in Replica => service[p] # Unknown)

\* The queue managers of a process: one for each active queue, or for its compiler.
Managers(p) ==
  IF p = Generator
  THEN {c \in Compiler : \A d \in 1 .. c - 1 : queueOf[d] # queueOf[c]}
  ELSE {service[p]}

Init ==
  /\ queueOf \in [Compiler -> Broker \cup {NoBroker}]
  /\ service \in Deployments
  /\ up = {} /\ stops = 0
  /\ pc = [p \in Process |-> "created"]
  /\ todo = [p \in Process |-> {}]
  /\ attempts = [p \in Process |-> [b \in Broker |-> 0]]
  /\ conn = [p \in Process |-> {}]
  /\ generated = 0
  /\ accepted = [b \in Broker |-> {}]
  /\ ready = [b \in Broker |-> {}]
  /\ forgotten = [b \in Broker |-> {}]
  /\ held = [r \in Replica |-> NoTask]
  /\ executed = {}

-----------------------------------------------------------------------------
(* Connecting.                                                             *)

\* Seeded fault: no restart policy for the runners.
MayStartOnce(p) == pc[p] = "created"

\* Docker restarts runners, and not the generator.
MayStart(p) == pc[p] = "created" \/ (pc[p] = "dead" /\ p \in Replica)

\* __init__, up to the first queue manager.
Start(p) ==
  /\ MayStart(p)
  /\ IF Starts(p)
     THEN /\ pc' = [pc EXCEPT ![p] = "connecting"]
          /\ todo' = [todo EXCEPT ![p] = Managers(p)]
     ELSE /\ pc' = [pc EXCEPT ![p] = "dead"]
          /\ UNCHANGED todo
  /\ attempts' = [attempts EXCEPT ![p] = [b \in Broker |-> 0]]
  /\ UNCHANGED <<config, up, stops, conn, generated, accepted, ready, held, executed, forgotten>>

NextManager(p) == Min(todo[p])
NextBroker(p) == queueOf[NextManager(p)]
Connecting(p) == pc[p] = "connecting" /\ todo[p] # {}

\* What ends with a process: a broker takes back what was not acknowledged on an open
\* connection, to its old place.
Ended(p) ==
  /\ pc' = [pc EXCEPT ![p] = "dead"]
  /\ conn' = [conn EXCEPT ![p] = {}]
  /\ todo' = [todo EXCEPT ![p] = {}]
  /\ IF p \in Replica
     THEN /\ held' = [held EXCEPT ![p] = NoTask]
          /\ ready' = [b \in Broker |->
               IF b \in conn[p] /\ held[p] # NoTask THEN ready[b] \cup {held[p]} ELSE ready[b]]
     ELSE UNCHANGED <<held, ready>>

\* __connect, when the broker answers; the last manager ends the initialisation.
Connect(p) ==
  /\ Connecting(p) /\ NextBroker(p) \in up
  /\ conn' = [conn EXCEPT ![p] = @ \cup {NextBroker(p)}]
  /\ todo' = [todo EXCEPT ![p] = @ \ {NextManager(p)}]
  /\ pc' = [pc EXCEPT ![p] = IF todo'[p] = {} THEN "working" ELSE @]
  /\ UNCHANGED <<config, up, stops, attempts, generated, accepted, ready, held, executed, forgotten>>

\* Seeded fault: the counter is tested before it counts the attempt.
LastAttemptEarly(attempt) == attempt >= MaxAttempts - 1

\* Seeded fault: one attempt too many.
LastAttemptLate(attempt) == attempt > MaxAttempts

\* The attempt after which __connect raises.
LastAttempt(attempt) == attempt >= MaxAttempts

\* __connect, when it does not.
ConnectFails(p) ==
  /\ Connecting(p) /\ NextBroker(p) \notin up
  /\ attempts' = [attempts EXCEPT ![p][NextBroker(p)] = @ + 1]
  /\ IF LastAttempt(attempts'[p][NextBroker(p)])
     THEN Ended(p)
     ELSE UNCHANGED <<pc, conn, todo, held, ready>>
  /\ UNCHANGED <<config, up, stops, generated, accepted, executed, forgotten>>

-----------------------------------------------------------------------------
(* The generator.                                                          *)

Generate ==
  /\ pc[Generator] = "working" /\ todo[Generator] = {}
  /\ generated < NTask
  /\ generated' = generated + 1
  /\ todo' = [todo EXCEPT ![Generator] = Managers(Generator)]
  /\ UNCHANGED <<config, up, stops, pc, attempts, conn, accepted, ready, held, executed, forgotten>>

Publishing == pc[Generator] = "working" /\ todo[Generator] # {}

\* publish: a persistent message on a durable queue.
Publish ==
  /\ Publishing
  /\ LET b == NextBroker(Generator)
     IN  /\ b \in conn[Generator]
         /\ accepted' = [accepted EXCEPT ![b] = @ \cup {generated}]
         /\ ready' = [ready EXCEPT ![b] = @ \cup {generated}]
  /\ todo' = [todo EXCEPT ![Generator] = @ \ {NextManager(Generator)}]
  /\ UNCHANGED <<config, up, stops, pc, attempts, conn, generated, held, executed, forgotten>>

\* On a connection that is gone pika raises, or the message is written to a socket that
\* nobody reads: nothing is confirmed.
PublishInVain ==
  /\ Publishing /\ NextBroker(Generator) \notin conn[Generator]
  /\ \/ Ended(Generator)
     \/ /\ todo' = [todo EXCEPT ![Generator] = @ \ {NextManager(Generator)}]
        /\ UNCHANGED <<pc, conn, held, ready>>
  /\ UNCHANGED <<config, up, stops, attempts, generated, accepted, executed, forgotten>>

-----------------------------------------------------------------------------
(* The runners.                                                            *)

Consumes(r) == IF service[r] = Unknown THEN NoBroker ELSE queueOf[service[r]]
Connected(r) == Consumes(r) \in conn[r]

\* start_consuming with a prefetch count of one: the oldest message.
Deliver(r) ==
  /\ pc[r] = "working" /\ Connected(r)
  /\ LET b == Consumes(r)
     IN  /\ ready[b] # {}
         /\ held' = [held EXCEPT ![r] = Min(ready[b])]
         /\ ready' = [ready EXCEPT ![b] = @ \ {Min(ready[b])}]
  /\ pc' = [pc EXCEPT ![r] = "executing"]
  /\ UNCHANGED <<config, up, stops, todo, attempts, conn, generated, accepted, executed, forgotten>>

\* Seeded fault: an exception is caught, and the message acknowledged.
ExecuteSwallowing(r) ==
  /\ pc[r] = "executing"
  /\ IF held[r] \in Poison
     THEN /\ held' = [held EXCEPT ![r] = NoTask]
          /\ pc' = [pc EXCEPT ![r] = "working"]
          /\ UNCHANGED executed
     ELSE /\ executed' = executed \cup {<<service[r], held[r]>>}
          /\ pc' = [pc EXCEPT ![r] = "stored"]
          /\ UNCHANGED held
  /\ UNCHANGED <<config, up, stops, todo, attempts, conn, generated, accepted, ready, forgotten>>

\* callback, up to the stored result, or an exception.
Execute(r) ==
  /\ pc[r] = "executing"
  /\ IF held[r] \in Poison
     THEN Ended(r) /\ UNCHANGED executed
     ELSE /\ executed' = executed \cup {<<service[r], held[r]>>}
          /\ pc' = [pc EXCEPT ![r] = "stored"]
          /\ UNCHANGED <<todo, conn, held, ready>>
  /\ UNCHANGED <<config, up, stops, attempts, generated, accepted, forgotten>>

\* basic_ack, which raises when the connection is gone.
Ack(r) ==
  /\ pc[r] = "stored"
  /\ IF Connected(r)
     THEN /\ held' = [held EXCEPT ![r] = NoTask]
          /\ pc' = [pc EXCEPT ![r] = "working"]
          /\ UNCHANGED <<todo, conn, ready>>
     ELSE Ended(r)
  /\ UNCHANGED <<config, up, stops, attempts, generated, accepted, executed, forgotten>>

\* An AMQPError in start_consuming: exit(1).  (There are no heartbeats: it may take a
\* connection that is lost for one on which nothing comes.)
Fail(r) ==
  /\ pc[r] = "working" /\ ~ Connected(r)
  /\ Ended(r)
  /\ UNCHANGED <<config, up, stops, attempts, generated, accepted, executed, forgotten>>

-----------------------------------------------------------------------------
(* The brokers.                                                            *)

\* By `docker compose up`, or by hand: the queues have no restart policy.
StartBroker(b) ==
  /\ b \notin up
  /\ up' = up \cup {b}
  /\ UNCHANGED <<config, stops, pc, todo, attempts, conn, generated, accepted, ready,
                 held, executed, forgotten>>

Unacknowledged(b) == {held[r] : r \in {r \in Replica : b \in conn[r] /\ held[r] # NoTask}}

\* All connections are gone.  The queue and what was not acknowledged are on the disk of
\* the container: they are there again if it is started again, and not if it is replaced,
\* since the queues have no volumes.
StopBroker(b) ==
  /\ b \in up /\ stops < MaxStops
  /\ up' = up \ {b} /\ stops' = stops + 1
  /\ conn' = [p \in Process |-> conn[p] \ {b}]
  /\ LET had == ready[b] \cup Unacknowledged(b)
     IN  \/ /\ ready' = [ready EXCEPT ![b] = had]
            /\ UNCHANGED forgotten
         \/ /\ ready' = [ready EXCEPT ![b] = {}]
            /\ forgotten' = [forgotten EXCEPT ![b] = @ \cup had]
  /\ UNCHANGED <<config, pc, todo, attempts, generated, accepted, held, executed>>

-----------------------------------------------------------------------------
Initialise(p) == Start(p) \/ Connect(p) \/ ConnectFails(p)
Run(r) == Deliver(r) \/ Execute(r) \/ Ack(r) \/ Fail(r)

Next ==
  \/ \E p \in Process : Initialise(p)
  \/ Generate \/ Publish \/ PublishInVain
  \/ \E r \in Replica : Run(r)
  \/ \E b \in Broker : StartBroker(b) \/ StopBroker(b)

\* A runner goes on, and docker restarts it if it has to.  Nothing sees to it that a broker
\* is started again, or that a runner notices a connection that is lost (Fail).
Fairness ==
  \A r \in Replica : WF_vars(Initialise(r)) /\ WF_vars(Deliver(r) \/ Execute(r) \/ Ack(r))

Spec == Init /\ [][Next]_vars /\ Fairness

-----------------------------------------------------------------------------
(* Properties. *)

\* Every variable has its type; a message is in hand from its delivery to its
\* acknowledgement; brokers that are down have no connections.
TypeOK ==
  /\ queueOf \in [Compiler -> Broker \cup {NoBroker}]
  /\ service \in Deployments
  /\ stops \in 0 .. MaxStops
  /\ pc \in [Process -> {"created", "connecting", "working", "executing", "stored", "dead"}]
  /\ \A p \in Process : todo[p] \subseteq Compiler /\ conn[p] \subseteq up
  /\ attempts \in [Process -> [Broker -> 0 .. MaxAttempts]]
  /\ generated \in 0 .. NTask
  /\ \A b \in Broker : ready[b] \cup forgotten[b] \subseteq accepted[b] /\ accepted[b] \subseteq Task
  /\ \A r \in Replica : pc[r] \in {"executing", "stored"} <=> held[r] \in Task
  /\ executed \subseteq Compiler \X Task

\* Is task t of broker b executed, by whichever compiler has its queue there?
ExecutedFrom(b, t) == \E c \in Compiler : queueOf[c] = b /\ <<c, t>> \in executed

\* No process loses a message, whichever runners fail on it, lose their connection or end:
\* what a broker has taken waits there, or a runner with an open connection has it in hand,
\* or its result is stored, unless the broker itself has stopped and forgotten it.
TaskKept ==
  \A b \in Broker : \A t \in accepted[b] :
    \/ t \in ready[b]
    \/ \E r \in Replica : Connected(r) /\ Consumes(r) = b /\ held[r] = t
    \/ ExecutedFrom(b, t)
    \/ t \in forgotten[b]

\* The generator, which nobody restarts, does not end before it has tried MaxAttempts times
\* to reach some broker, unless a broker stopped or a queue is not defined.
PatientGenerator ==
  pc[Generator] = "dead" /\ stops = 0 /\ KeysDefined =>
    \E b \in Broker : attempts[Generator][b] = MaxAttempts

\* What no code or compose file sees to: the broker of a runner is always started again, and
\* the runner does not take a lost connection for an idle one for ever.
Cared(r) == /\ []<>(Consumes(r) \in up)
            /\ []<>(pc[r] = "working" => Connected(r))

\* A runner that a compiler is configured for is connected again and again, however many
\* attempts failed and however often it was ended, if it is cared for.
RunnersRecover == \A r \in Replica : Cared(r) => []<>(Starts(r) => Connected(r))

\* What a broker has taken and does not forget is executed if there is such a runner for it,
\* unless a message ahead of it ends every runner that takes it.
Ahead(b, t) == {u \in accepted[b] : u <= t}
Waiting(b, t) == t \in accepted[b] \ forgotten[b] /\ Ahead(b, t) \cap Poison = {}
Settled(b, t) == ExecutedFrom(b, t) \/ t \in forgotten[b]
TasksExecuted ==
  \A r \in Replica, t \in Task :
    Cared(r) =>
      (Starts(r) /\ Waiting(Consumes(r), t)) ~> (Starts(r) /\ Settled(Consumes(r), t))

=============================================================================
