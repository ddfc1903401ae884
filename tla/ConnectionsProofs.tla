-------------------------- MODULE ConnectionsProofs --------------------------
(***************************************************************************)
(* Proofs about Connections, for any number of compilers, brokers, runners *)
(* and contracts, and however often a broker stops.                        *)
(***************************************************************************)
EXTENDS Connections, WellFoundedInduction, TLAPS

\* A set of natural numbers that is not empty has a least element.
LEMMA MinIsThere ==
  ASSUME NEW S \in SUBSET Nat, S # {}
  PROVE  Min(S) \in S
<1>1. PICK m \in S : \A n \in S : ~ (<<n, m>> \in OpToRel(<, Nat))
  BY NatLessThanWellFounded, WFMin
<1>2. \A n \in S : ~ (n < m)
  BY <1>1 DEF OpToRel
<1>3. \A n \in S : m <= n
  BY <1>2
<1> QED
  BY <1>3 DEF Min

-----------------------------------------------------------------------------
(* The invariant. *)

Types ==
  /\ queueOf \in [Compiler -> Broker \cup {NoBroker}]
  /\ service \in Deployments
  /\ up \in SUBSET Broker
  /\ stops \in 0 .. MaxStops
  /\ pc \in [Process -> {"created", "connecting", "working", "executing", "stored", "dead"}]
  /\ todo \in [Process -> SUBSET Compiler]
  /\ attempts \in [Process -> [Broker -> 0 .. MaxAttempts]]
  /\ conn \in [Process -> SUBSET up]
  /\ generated \in 0 .. NTask
  /\ accepted \in [Broker -> SUBSET Task]
  /\ ready \in [Broker -> SUBSET Task]
  /\ forgotten \in [Broker -> SUBSET Task]
  /\ held \in [Replica -> Task \cup {NoTask}]
  /\ executed \subseteq Compiler \X Task

\* Who has not given up has attempts left.
AttemptsLeft ==
  \A p \in Process, b \in Broker : pc[p] # "dead" => attempts[p][b] < MaxAttempts

\* A runner connects to the queue of its compiler and to no other; what it has in hand comes
\* from there, and has a result when it is about to be acknowledged.
RunnersInv ==
  \A r \in Replica :
    /\ conn[r] \subseteq {Consumes(r)} /\ todo[r] \subseteq {service[r]}
    /\ todo[r] # {} => Starts(r)
    /\ pc[r] \in {"executing", "stored"} <=> held[r] \in Task
    /\ held[r] \in Task => Consumes(r) \in Broker /\ held[r] \in accepted[Consumes(r)]
    /\ pc[r] = "stored" => <<service[r], held[r]>> \in executed

\* The generator has a connection for each manager it is done with, until a broker stops.
GeneratorInv ==
  /\ pc[Generator] \in {"created", "connecting", "working", "dead"}
  /\ todo[Generator] \subseteq Managers(Generator)
  /\ pc[Generator] \in {"connecting", "working"} => KeysDefined
  /\ Publishing => generated \in Task
  /\ stops = 0 /\ pc[Generator] \in {"connecting", "working"} =>
       \A c \in Managers(Generator) :
         pc[Generator] = "working" \/ c \notin todo[Generator] => queueOf[c] \in conn[Generator]

QueuesInv == \A b \in Broker : ready[b] \cup forgotten[b] \subseteq accepted[b]

IndInv ==
  /\ Types /\ AttemptsLeft /\ RunnersInv /\ GeneratorInv /\ QueuesInv
  /\ TaskKept /\ PatientGenerator

-----------------------------------------------------------------------------
(* Facts. *)

\* A runner that starts is one of a configured compiler, and knows its queue.
LEMMA ServicesAreNames ==
  ASSUME Types, NEW r \in Replica
  PROVE  /\ service[r] \in Compiler \cup {Unknown}
         /\ Consumes(r) \in Broker => service[r] \in Compiler /\ queueOf[service[r]] = Consumes(r)
         /\ Starts(r) => service[r] \in Compiler /\ Consumes(r) \in Broker
                         /\ queueOf[service[r]] = Consumes(r)
BY ConnectionsAssumption DEF Types, Compiler, Consumes, Starts, KeysDefined

\* The generator connects to what it has left to do.
LEMMA NextManagerIsThere ==
  ASSUME Types, NEW p \in Process, todo[p] # {}
  PROVE  NextManager(p) \in todo[p] /\ NextManager(p) \in Compiler
<1>1. todo[p] \in SUBSET Compiler /\ Compiler \subseteq Nat
  BY DEF Types, Compiler
<1>2. todo[p] \in SUBSET Nat
  BY <1>1
<1>3. Min(todo[p]) \in todo[p]
  BY <1>2, MinIsThere
<1> QED
  BY <1>1, <1>3 DEF NextManager

\* A connecting process tries a broker that its configuration names.
LEMMA NextBrokerIsThere ==
  ASSUME IndInv, NEW p \in Process, Connecting(p)
  PROVE  /\ NextManager(p) \in todo[p] /\ NextManager(p) \in Compiler
         /\ NextBroker(p) \in Broker
         /\ p \in Replica => NextBroker(p) = Consumes(p)
<1>1. todo[p] # {} /\ pc[p] = "connecting"
  BY DEF Connecting
<1>2. NextManager(p) \in todo[p] /\ NextManager(p) \in Compiler
  BY <1>1, NextManagerIsThere DEF IndInv
<1>3. KeysDefined
  BY <1>1 DEF IndInv, GeneratorInv, RunnersInv, Starts, Process
<1>4. p \in Replica => NextManager(p) = service[p] /\ Starts(p)
  BY <1>1, <1>2 DEF IndInv, RunnersInv
<1> QED
  BY <1>2, <1>3, <1>4, ServicesAreNames DEF KeysDefined, NextBroker, IndInv

\* What Ended does to the queues.
LEMMA EndedReturns ==
  ASSUME IndInv, NEW p \in Process, Ended(p)
  PROVE  /\ ready' \in [Broker -> SUBSET Task] /\ held' \in [Replica -> Task \cup {NoTask}]
         /\ \A b \in Broker : ready[b] \subseteq ready'[b] /\ ready'[b] \subseteq accepted[b]
         /\ p \in Replica => /\ \A b \in conn[p] : held[p] \in Task => held[p] \in ready'[b]
                             /\ held'[p] = NoTask
         /\ \A r \in Replica : r # p => held'[r] = held[r]
<1>1. CASE p \in Replica
  <2>1. /\ held' = [held EXCEPT ![p] = NoTask]
        /\ ready' = [b \in Broker |->
             IF b \in conn[p] /\ held[p] # NoTask THEN ready[b] \cup {held[p]} ELSE ready[b]]
    BY <1>1 DEF Ended
  <2>2. \A b \in Broker : b \in conn[p] /\ held[p] # NoTask => held[p] \in accepted[b]
    BY <1>1 DEF IndInv, RunnersInv, Types
  <2>3. NoTask \notin Task
    BY DEF NoTask, Task
  <2>4. conn[p] \subseteq Broker
    BY DEF IndInv, Types
  <2> QED
    BY <1>1, <2>1, <2>2, <2>3, <2>4 DEF IndInv, Types, QueuesInv
<1>2. CASE p \notin Replica
  <2>1. ready' = ready /\ held' = held
    BY <1>2 DEF Ended
  <2> QED
    BY <1>2, <2>1 DEF IndInv, Types, QueuesInv
<1> QED
  BY <1>1, <1>2

-----------------------------------------------------------------------------
(* Every step keeps the types. *)

\* Every step keeps the types,
LEMMA TypesKept ==
  ASSUME IndInv, Next
  PROVE  Types'
<1>1. ASSUME NEW p \in Process, Start(p)
      PROVE  Types'
  <2>1. Starts(p) => Managers(p) \in SUBSET Compiler
    BY ServicesAreNames DEF Starts, Managers, Process, IndInv
  <2>2. [attempts EXCEPT ![p] = [b \in Broker |-> 0]] \in [Process -> [Broker -> 0 .. MaxAttempts]]
    BY ConnectionsAssumption DEF IndInv, Types
  <2> QED
    BY <1>1, <2>1, <2>2 DEF Start, IndInv, Types, config
<1>2. ASSUME NEW p \in Process, Connect(p)
      PROVE  Types'
  BY <1>2, NextBrokerIsThere DEF Connect, IndInv, Types, config
<1>3. ASSUME NEW p \in Process, ConnectFails(p)
      PROVE  Types'
  <2>1. NextBroker(p) \in Broker /\ attempts[p][NextBroker(p)] < MaxAttempts
    BY <1>3, NextBrokerIsThere DEF ConnectFails, Connecting, IndInv, AttemptsLeft
  <2>2. attempts[p][NextBroker(p)] + 1 \in 0 .. MaxAttempts
    BY <2>1, ConnectionsAssumption DEF IndInv, Types
  <2>3. attempts' \in [Process -> [Broker -> 0 .. MaxAttempts]]
    BY <1>3, <2>1, <2>2 DEF ConnectFails, IndInv, Types
  <2>4. CASE Ended(p)
    BY <1>3, <2>3, <2>4, EndedReturns DEF ConnectFails, Ended, IndInv, Types, config
  <2>5. CASE UNCHANGED <<pc, conn, todo, held, ready>>
    BY <1>3, <2>3, <2>5 DEF ConnectFails, IndInv, Types, config
  <2> QED
    BY <1>3, <2>4, <2>5 DEF ConnectFails
<1>4. CASE Generate
  <2>1. generated + 1 \in 0 .. NTask
    BY <1>4, ConnectionsAssumption DEF Generate, IndInv, Types
  <2>2. Managers(Generator) \in SUBSET Compiler
    BY DEF Managers
  <2> QED
    BY <1>4, <2>1, <2>2 DEF Generate, IndInv, Types, config
<1>5. CASE Publish
  BY <1>5 DEF Publish, IndInv, Types, config, GeneratorInv
<1>6. CASE PublishInVain
  <2>1. Generator \in Process
    BY DEF Process
  <2>2. CASE Ended(Generator)
    BY <1>6, <2>1, <2>2, EndedReturns DEF PublishInVain, Ended, IndInv, Types, config
  <2>3. CASE ~ Ended(Generator)
    BY <1>6, <2>1, <2>3 DEF PublishInVain, IndInv, Types, config
  <2> QED
    BY <2>2, <2>3
<1>7. ASSUME NEW r \in Replica, Deliver(r)
      PROVE  Types'
  <2>1. Consumes(r) \in Broker /\ ready[Consumes(r)] # {} /\ ready[Consumes(r)] \in SUBSET Task
    BY <1>7 DEF Deliver, Connected, Process, IndInv, Types
  <2>2. Task \subseteq Nat
    BY DEF Task
  <2>3. ready[Consumes(r)] \in SUBSET Nat
    BY <2>1, <2>2
  <2>4. Min(ready[Consumes(r)]) \in Task
    BY <2>1, <2>3, MinIsThere
  <2> QED
    BY <1>7, <2>1, <2>4 DEF Deliver, Process, IndInv, Types, config
<1>8. ASSUME NEW r \in Replica, Execute(r)
      PROVE  Types'
  <2>1. r \in Process
    BY DEF Process
  <2>2. CASE held[r] \in Poison
    BY <1>8, <2>1, <2>2, EndedReturns DEF Execute, Ended, IndInv, Types, config
  <2>3. CASE held[r] \notin Poison
    <3>1. held[r] \in Task /\ service[r] \in Compiler
      BY <1>8, ServicesAreNames DEF Execute, IndInv, RunnersInv
    <3> QED
      BY <1>8, <2>1, <2>3, <3>1 DEF Execute, IndInv, Types, config
  <2> QED
    BY <2>2, <2>3
<1>9. ASSUME NEW r \in Replica, Ack(r)
      PROVE  Types'
  <2>1. r \in Process
    BY DEF Process
  <2>2. CASE Connected(r)
    BY <1>9, <2>1, <2>2 DEF Ack, IndInv, Types, config
  <2>3. CASE ~ Connected(r)
    BY <1>9, <2>1, <2>3, EndedReturns DEF Ack, Ended, IndInv, Types, config
  <2> QED
    BY <2>2, <2>3
<1>10. ASSUME NEW r \in Replica, Fail(r)
       PROVE  Types'
  <2>1. r \in Process
    BY DEF Process
  <2> QED
    BY <1>10, <2>1, EndedReturns DEF Fail, Ended, IndInv, Types, config
<1>11. ASSUME NEW b \in Broker, StartBroker(b)
       PROVE  Types'
  BY <1>11 DEF StartBroker, IndInv, Types, config
<1>12. ASSUME NEW b \in Broker, StopBroker(b)
       PROVE  Types'
  <2>1. Unacknowledged(b) \in SUBSET Task
    BY DEF Unacknowledged, IndInv, Types
  <2>2. stops + 1 \in 0 .. MaxStops
    BY <1>12, ConnectionsAssumption DEF StopBroker, IndInv, Types
  <2>3. conn' \in [Process -> SUBSET up']
    BY <1>12 DEF StopBroker, IndInv, Types
  <2>4. ready' \in [Broker -> SUBSET Task] /\ forgotten' \in [Broker -> SUBSET Task]
    BY <1>12, <2>1 DEF StopBroker, IndInv, Types
  <2> QED
    BY <1>12, <2>2, <2>3, <2>4 DEF StopBroker, IndInv, Types, config
<1> QED
  BY <1>1, <1>2, <1>3, <1>4, <1>5, <1>6, <1>7, <1>8, <1>9, <1>10, <1>11, <1>12
  DEF Next, Initialise, Run

-----------------------------------------------------------------------------
\* No step changes the configuration, nor what is read from it alone.
LEMMA ConfigurationKept ==
  ASSUME [Next]_vars
  PROVE  /\ queueOf' = queueOf /\ service' = service
         /\ KeysDefined' <=> KeysDefined
         /\ \A p \in Process : (Starts(p)' <=> Starts(p)) /\ Managers(p)' = Managers(p)
         /\ \A r \in Replica : Consumes(r)' = Consumes(r)
<1>1. queueOf' = queueOf /\ service' = service
  BY DEF Next, Initialise, Run, vars, config, Start, Connect, ConnectFails, Generate, Publish,
         PublishInVain, Deliver, Execute, Ack, Fail, StartBroker, StopBroker
<1> QED
  BY <1>1 DEF KeysDefined, Starts, Managers, Consumes

\* counts the attempts,
LEMMA AttemptsKept ==
  ASSUME IndInv, Next
  PROVE  AttemptsLeft'
<1>1. ASSUME NEW p \in Process, Start(p)
      PROVE  AttemptsLeft'
  BY <1>1, ConnectionsAssumption DEF Start, IndInv, Types, AttemptsLeft
<1>2. ASSUME NEW p \in Process, Connect(p)
      PROVE  AttemptsLeft'
  BY <1>2 DEF Connect, Connecting, IndInv, Types, AttemptsLeft
<1>3. ASSUME NEW p \in Process, ConnectFails(p)
      PROVE  AttemptsLeft'
  <2>1. NextBroker(p) \in Broker
    BY <1>3, NextBrokerIsThere DEF ConnectFails
  <2>2. CASE LastAttempt(attempts'[p][NextBroker(p)])
    BY <1>3, <2>1, <2>2 DEF ConnectFails, Ended, IndInv, Types, AttemptsLeft
  <2>3. CASE ~ LastAttempt(attempts'[p][NextBroker(p)])
    <3>1. attempts'[p][NextBroker(p)] \in Nat
      BY <1>3, <2>1 DEF ConnectFails, IndInv, Types
    <3>2. attempts'[p][NextBroker(p)] < MaxAttempts
      BY <2>3, <3>1, ConnectionsAssumption DEF LastAttempt
    <3> QED
      BY <1>3, <2>1, <2>3, <3>2 DEF ConnectFails, IndInv, Types, AttemptsLeft
  <2> QED
    BY <2>2, <2>3
<1>4. CASE Generate \/ Publish \/ \E b \in Broker : StartBroker(b) \/ StopBroker(b)
  BY <1>4 DEF Generate, Publish, StartBroker, StopBroker, IndInv, AttemptsLeft
<1>5. CASE PublishInVain
  BY <1>5 DEF PublishInVain, Publishing, Ended, IndInv, Types, AttemptsLeft
<1>6. ASSUME NEW r \in Replica, Run(r)
      PROVE  AttemptsLeft'
  <2>1. r \in Process /\ attempts' = attempts /\ pc[r] # "dead"
    BY <1>6 DEF Process, Run, Deliver, Execute, Ack, Fail
  <2>2. \A p \in Process : p # r => pc'[p] = pc[p]
    BY <1>6, <2>1 DEF Run, Deliver, Execute, Ack, Fail, Ended, IndInv, Types
  <2> QED
    BY <2>1, <2>2 DEF IndInv, AttemptsLeft
<1> QED
  BY <1>1, <1>2, <1>3, <1>4, <1>5, <1>6 DEF Next, Initialise

-----------------------------------------------------------------------------
(* Runners. *)

\* What RunnersInv says of one runner.
RunnerInv(r) ==
  /\ conn[r] \subseteq {Consumes(r)} /\ todo[r] \subseteq {service[r]}
  /\ todo[r] # {} => Starts(r)
  /\ pc[r] \in {"executing", "stored"} <=> held[r] \in Task
  /\ held[r] \in Task => Consumes(r) \in Broker /\ held[r] \in accepted[Consumes(r)]
  /\ pc[r] = "stored" => <<service[r], held[r]>> \in executed

\* A step that leaves a runner alone, or that only loses a connection of it.
LEMMA OthersKept ==
  ASSUME IndInv, Next, NEW r \in Replica,
         pc'[r] = pc[r], todo'[r] = todo[r], held'[r] = held[r],
         conn'[r] \subseteq conn[r],
         \A b \in Broker : accepted[b] \subseteq accepted'[b], executed \subseteq executed'
  PROVE  RunnerInv(r)'
BY ConfigurationKept DEF Process, IndInv, RunnersInv, RunnerInv

\* A runner that ends has nothing.
LEMMA EndedRunner ==
  ASSUME IndInv, Next, NEW r \in Replica, Ended(r)
  PROVE  RunnerInv(r)'
<1>1. /\ pc'[r] = "dead" /\ conn'[r] = {} /\ todo'[r] = {}
      /\ held'[r] = NoTask
  BY EndedReturns DEF Ended, Process, IndInv, Types
<1>2. NoTask \notin Task
  BY DEF NoTask, Task
<1> QED
  BY <1>1, <1>2 DEF RunnerInv

\* keeps messages in the hands of replicas that took them,
LEMMA RunnersKept ==
  ASSUME IndInv, Next
  PROVE  RunnersInv'
<1> SUFFICES ASSUME NEW r \in Replica
             PROVE  RunnerInv(r)'
  BY DEF RunnersInv, RunnerInv
<1>0. RunnerInv(r) /\ r \in Process /\ Generator \in Process /\ r # Generator
  BY ConnectionsAssumption DEF IndInv, RunnersInv, RunnerInv, Process
<1>1. ASSUME NEW p \in Process, Start(p)
      PROVE  RunnerInv(r)'
  <2>1. CASE p = r
    <3>1. pc[r] \notin {"executing", "stored"} /\ conn' = conn /\ held' = held
      BY <1>1, <2>1 DEF Start, MayStart
    <3>2. pc'[r] \in {"connecting", "dead"}
      BY <1>1, <2>1 DEF Start, IndInv, Types
    <3>3. todo'[r] \subseteq {service[r]} /\ (todo'[r] # {} => Starts(r))
      BY <1>1, <2>1, <1>0 DEF Start, Managers, RunnerInv, IndInv, Types
    <3> QED
      BY <1>0, <3>1, <3>2, <3>3, ConfigurationKept DEF RunnerInv
  <2>2. CASE p # r
    <3>1. pc'[r] = pc[r] /\ todo'[r] = todo[r]
      BY <1>0, <1>1, <2>2 DEF Start, IndInv, Types
    <3>2. UNCHANGED <<conn, held, accepted, executed>>
      BY <1>1 DEF Start
    <3> QED
      BY <3>1, <3>2, OthersKept
  <2> QED
    BY <2>1, <2>2
<1>2. ASSUME NEW p \in Process, Connect(p)
      PROVE  RunnerInv(r)'
  <2>1. CASE p = r
    <3>1. NextBroker(r) = Consumes(r) /\ pc[r] = "connecting"
      BY <1>2, <2>1, NextBrokerIsThere DEF Connect, Connecting
    <3>2. conn'[r] \subseteq conn[r] \cup {NextBroker(r)} /\ todo'[r] \subseteq todo[r]
      BY <1>2, <2>1 DEF Connect, IndInv, Types
    <3>3. pc'[r] \in {"connecting", "working"} /\ held' = held
      BY <1>2, <2>1, <3>1 DEF Connect, IndInv, Types
    <3> QED
      BY <1>0, <3>1, <3>2, <3>3, ConfigurationKept DEF RunnerInv
  <2>2. CASE p # r
    BY <1>2, <2>2, OthersKept DEF Connect, IndInv, Types
  <2> QED
    BY <2>1, <2>2
<1>3. ASSUME NEW p \in Process, ConnectFails(p)
      PROVE  RunnerInv(r)'
  <2>1. CASE UNCHANGED <<pc, conn, todo, held, ready>>
    BY <1>3, <2>1, OthersKept DEF ConnectFails
  <2>2. CASE Ended(p) /\ p = r
    BY <2>2, EndedRunner
  <2>3. CASE Ended(p) /\ p # r
    BY <1>0, <1>3, <2>3, EndedReturns, OthersKept DEF ConnectFails, Ended, IndInv, Types
  <2> QED
    BY <1>3, <2>1, <2>2, <2>3 DEF ConnectFails
<1>4. CASE Generate
  BY <1>0, <1>4, OthersKept DEF Generate, IndInv, Types
<1>5. CASE Publish
  <2>1. \A b \in Broker : accepted[b] \subseteq accepted'[b]
    BY <1>5 DEF Publish, IndInv, Types
  <2> QED
    BY <1>0, <1>5, <2>1, OthersKept DEF Publish, IndInv, Types
<1>6. CASE PublishInVain
  <2>1. CASE Ended(Generator)
    BY <1>0, <1>6, <2>1, EndedReturns, OthersKept DEF PublishInVain, Ended, IndInv, Types
  <2>2. CASE ~ Ended(Generator)
    BY <1>0, <1>6, <2>2, OthersKept DEF PublishInVain, IndInv, Types
  <2> QED
    BY <2>1, <2>2
<1>7. ASSUME NEW q \in Replica, Run(q), q # r
      PROVE  RunnerInv(r)'
  <2>1. q \in Process /\ accepted' = accepted /\ executed \subseteq executed'
    BY <1>7 DEF Process, Run, Deliver, Execute, Ack, Fail
  <2>2. CASE Ended(q)
    BY <1>0, <1>7, <2>1, <2>2, EndedReturns, OthersKept DEF Ended, IndInv, Types
  <2>3. CASE ~ Ended(q)
    <3>1. pc'[r] = pc[r] /\ todo'[r] = todo[r] /\ held'[r] = held[r] /\ conn'[r] = conn[r]
      BY <1>0, <1>7, <2>1, <2>3 DEF Run, Deliver, Execute, Ack, Fail, IndInv, Types
    <3> QED
      BY <2>1, <3>1, OthersKept
  <2> QED
    BY <2>2, <2>3
<1>8. CASE Deliver(r)
  <2>1. Consumes(r) \in Broker /\ ready[Consumes(r)] # {} /\ ready[Consumes(r)] \in SUBSET Nat
    BY <1>0, <1>8 DEF Deliver, Connected, IndInv, Types, Task
  <2>2. held'[r] \in ready[Consumes(r)]
    BY <1>8, <2>1, MinIsThere DEF Deliver, IndInv, Types
  <2>3. held'[r] \in Task /\ held'[r] \in accepted[Consumes(r)]
    BY <2>1, <2>2 DEF IndInv, Types, QueuesInv
  <2>4. pc'[r] = "executing" /\ todo' = todo /\ conn' = conn /\ accepted' = accepted
    BY <1>0, <1>8 DEF Deliver, IndInv, Types
  <2> QED
    BY <1>0, <2>1, <2>3, <2>4, ConfigurationKept DEF RunnerInv
<1>9. CASE Execute(r)
  <2>1. CASE Ended(r)
    BY <2>1, EndedRunner
  <2>2. CASE ~ Ended(r)
    <3>1. /\ pc[r] = "executing" /\ pc'[r] = "stored"
          /\ executed' = executed \cup {<<service[r], held[r]>>}
          /\ UNCHANGED <<todo, conn, held, accepted>>
      BY <1>0, <1>9, <2>2 DEF Execute, IndInv, Types
    <3> QED
      BY <1>0, <3>1, ConfigurationKept DEF RunnerInv
  <2> QED
    BY <2>1, <2>2
<1>10. CASE Ack(r)
  <2>1. CASE Ended(r)
    BY <2>1, EndedRunner
  <2>2. CASE ~ Ended(r)
    <3>1. /\ pc'[r] = "working" /\ held'[r] = NoTask
          /\ UNCHANGED <<todo, conn, accepted>>
      BY <1>0, <1>10, <2>2 DEF Ack, IndInv, Types
    <3>2. NoTask \notin Task
      BY DEF NoTask, Task
    <3> QED
      BY <1>0, <3>1, <3>2, ConfigurationKept DEF RunnerInv
  <2> QED
    BY <2>1, <2>2
<1>11. CASE Fail(r)
  BY <1>11, EndedRunner DEF Fail
<1>12. ASSUME NEW b \in Broker, StartBroker(b)
       PROVE  RunnerInv(r)'
  BY <1>12, OthersKept DEF StartBroker
<1>13. ASSUME NEW b \in Broker, StopBroker(b)
       PROVE  RunnerInv(r)'
  <2>1. conn'[r] \subseteq conn[r]
    BY <1>0, <1>13 DEF StopBroker
  <2> QED
    BY <1>13, <2>1, OthersKept DEF StopBroker
<1> QED
  BY <1>1, <1>2, <1>3, <1>4, <1>5, <1>6, <1>7, <1>8, <1>9, <1>10, <1>11, <1>12, <1>13
  DEF Next, Initialise, Run

-----------------------------------------------------------------------------
(* The generator. *)

\* A step that leaves the generator alone keeps what is said of it, unless a broker stops.
LEMMA GeneratorAlone ==
  ASSUME IndInv, Next,
         pc'[Generator] = pc[Generator], todo'[Generator] = todo[Generator],
         generated' = generated, attempts'[Generator] = attempts[Generator],
         (stops' = stops /\ conn'[Generator] = conn[Generator]) \/ stops' # 0
  PROVE  GeneratorInv' /\ PatientGenerator'
<1>1. Generator \in Process
  BY DEF Process
<1> QED
  BY <1>1, ConfigurationKept DEF IndInv, GeneratorInv, PatientGenerator, Publishing

\* So does one that the generator takes while it works.
LEMMA WorkingGenerator ==
  ASSUME IndInv, Next, pc[Generator] = "working",
         UNCHANGED <<pc, conn, stops>>, todo'[Generator] \subseteq Managers(Generator),
         todo'[Generator] # {} => generated' \in Task
  PROVE  GeneratorInv' /\ PatientGenerator'
<1>1. Managers(Generator)' = Managers(Generator)
  BY ConfigurationKept DEF Process
<1>2. (KeysDefined' <=> KeysDefined) /\ queueOf' = queueOf /\ KeysDefined
  BY ConfigurationKept DEF IndInv, GeneratorInv
<1>3. stops = 0 => \A c \in Managers(Generator) : queueOf[c] \in conn[Generator]
  BY DEF IndInv, GeneratorInv
<1> QED
  BY <1>1, <1>2, <1>3 DEF GeneratorInv, PatientGenerator, Publishing

\* keeps the generator patient and configured,
LEMMA GeneratorKept ==
  ASSUME IndInv, Next
  PROVE  GeneratorInv' /\ PatientGenerator'
<1>0. /\ Generator \in Process /\ \A r \in Replica : r \in Process /\ r # Generator
      /\ stops \in Nat
  BY ConnectionsAssumption DEF Process, IndInv, Types
<1>1. ASSUME NEW p \in Process, Start(p)
      PROVE  GeneratorInv' /\ PatientGenerator'
  <2>1. CASE p = Generator /\ Starts(Generator)
    <3>1. pc'[Generator] = "connecting" /\ todo'[Generator] = Managers(Generator)
      BY <1>0, <1>1, <2>1 DEF Start, IndInv, Types
    <3>2. KeysDefined
      BY <2>1 DEF Starts
    <3> QED
      BY <1>0, <3>1, <3>2, ConfigurationKept DEF GeneratorInv, PatientGenerator, Publishing
  <2>2. CASE p = Generator /\ ~ Starts(Generator)
    <3>1. pc'[Generator] = "dead" /\ todo' = todo
      BY <1>0, <1>1, <2>2 DEF Start, IndInv, Types
    <3>2. ~ KeysDefined
      BY <1>0, <2>2 DEF Starts
    <3> QED
      BY <1>0, <3>1, <3>2, ConfigurationKept DEF IndInv, GeneratorInv, PatientGenerator, Publishing
  <2>3. CASE p # Generator
    <3>1. /\ pc'[Generator] = pc[Generator] /\ todo'[Generator] = todo[Generator]
          /\ attempts'[Generator] = attempts[Generator]
          /\ UNCHANGED <<stops, conn, generated>>
      BY <1>0, <1>1, <2>3 DEF Start, IndInv, Types
    <3> QED
      BY <3>1, GeneratorAlone
  <2> QED
    BY <2>1, <2>2, <2>3
<1>2. ASSUME NEW p \in Process, Connect(p)
      PROVE  GeneratorInv' /\ PatientGenerator'
  <2>1. CASE p = Generator
    <3>1. /\ pc[Generator] = "connecting" /\ KeysDefined
          /\ NextManager(Generator) \in todo[Generator]
      BY <1>0, <1>2, <2>1, NextBrokerIsThere DEF Connect, Connecting, IndInv, GeneratorInv
    <3>2. /\ conn'[Generator] = conn[Generator] \cup {NextBroker(Generator)}
          /\ todo'[Generator] = todo[Generator] \ {NextManager(Generator)}
          /\ pc'[Generator] = IF todo'[Generator] = {} THEN "working" ELSE "connecting"
          /\ UNCHANGED <<stops, generated>>
      BY <1>0, <1>2, <2>1, <3>1 DEF Connect, IndInv, Types
    <3>3. stops = 0 => \A c \in Managers(Generator) :
            c \notin todo'[Generator] => queueOf[c] \in conn'[Generator]
      BY <3>1, <3>2 DEF IndInv, GeneratorInv, NextBroker
    <3>4. GeneratorInv'
      BY <1>0, <3>1, <3>2, <3>3, ConfigurationKept DEF IndInv, GeneratorInv, Publishing
    <3> QED
      BY <3>2, <3>4 DEF PatientGenerator
  <2>2. CASE p # Generator
    <3>1. /\ pc'[Generator] = pc[Generator] /\ todo'[Generator] = todo[Generator]
          /\ conn'[Generator] = conn[Generator]
          /\ UNCHANGED <<stops, attempts, generated>>
      BY <1>0, <1>2, <2>2 DEF Connect, IndInv, Types
    <3> QED
      BY <3>1, GeneratorAlone
  <2> QED
    BY <2>1, <2>2
<1>3. ASSUME NEW p \in Process, ConnectFails(p)
      PROVE  GeneratorInv' /\ PatientGenerator'
  <2>1. pc[p] = "connecting" /\ NextBroker(p) \in Broker
    BY <1>3, NextBrokerIsThere DEF ConnectFails, Connecting
  <2>2. CASE p = Generator /\ LastAttempt(attempts'[p][NextBroker(p)])
    <3>1. /\ pc'[Generator] = "dead" /\ todo'[Generator] = {}
          /\ UNCHANGED <<stops, generated>>
      BY <1>0, <1>3, <2>2 DEF ConnectFails, Ended, IndInv, Types
    <3>2. attempts'[Generator][NextBroker(Generator)] = MaxAttempts
      <4>1. attempts' \in [Process -> [Broker -> 0 .. MaxAttempts]]
        BY TypesKept DEF Types
      <4>2. attempts'[Generator][NextBroker(Generator)] \in 0 .. MaxAttempts
        BY <1>0, <2>1, <2>2, <4>1
      <4>3. attempts'[Generator][NextBroker(Generator)] >= MaxAttempts
        BY <2>2 DEF LastAttempt
      <4> QED
        BY <4>2, <4>3, ConnectionsAssumption
    <3> QED
      BY <2>1, <2>2, <3>1, <3>2, ConfigurationKept DEF GeneratorInv, PatientGenerator, Publishing
  <2>3. CASE p = Generator /\ ~ LastAttempt(attempts'[p][NextBroker(p)])
    <3>1. UNCHANGED <<pc, conn, todo, stops, generated>>
      BY <1>3, <2>3 DEF ConnectFails
    <3> QED
      BY <2>1, <2>3, <3>1, ConfigurationKept DEF IndInv, GeneratorInv, PatientGenerator, Publishing
  <2>4. CASE p # Generator
    <3>1. /\ pc'[Generator] = pc[Generator] /\ todo'[Generator] = todo[Generator]
          /\ conn'[Generator] = conn[Generator] /\ attempts'[Generator] = attempts[Generator]
          /\ UNCHANGED <<stops, generated>>
      BY <1>0, <1>3, <2>4 DEF ConnectFails, Ended, IndInv, Types
    <3> QED
      BY <3>1, GeneratorAlone
  <2> QED
    BY <2>2, <2>3, <2>4
<1>4. CASE Generate
  <2>1. /\ pc' = pc /\ conn' = conn /\ stops' = stops /\ attempts' = attempts
        /\ todo'[Generator] = Managers(Generator)
        /\ generated' \in Task
    BY <1>0, <1>4, ConnectionsAssumption DEF Generate, IndInv, Types, Task
  <2> QED
    BY <1>4, <2>1, WorkingGenerator DEF Generate
<1>5. CASE Publish
  <2>1. /\ UNCHANGED <<pc, conn, stops, attempts, generated>>
        /\ todo'[Generator] \subseteq todo[Generator]
        /\ pc[Generator] = "working"
    BY <1>0, <1>5 DEF Publish, Publishing, IndInv, Types
  <2>2. generated \in Task /\ todo[Generator] \subseteq Managers(Generator)
    BY <1>5 DEF Publish, IndInv, GeneratorInv
  <2> QED
    BY <2>1, <2>2, WorkingGenerator
<1>6. CASE PublishInVain
  <2>1. stops # 0
    <3>1. pc[Generator] = "working" /\ NextManager(Generator) \in Managers(Generator)
      BY <1>0, <1>6, NextManagerIsThere DEF PublishInVain, Publishing, IndInv, GeneratorInv
    <3> QED
      BY <1>6, <3>1 DEF PublishInVain, IndInv, GeneratorInv, NextBroker
  <2>2. stops' = stops /\ generated' = generated
    BY <1>6 DEF PublishInVain
  <2>3. CASE Ended(Generator)
    <3>1. pc'[Generator] = "dead" /\ todo'[Generator] = {}
      BY <1>0, <2>3 DEF Ended, IndInv, Types
    <3> QED
      BY <2>1, <2>2, <3>1 DEF GeneratorInv, PatientGenerator, Publishing
  <2>4. CASE ~ Ended(Generator)
    <3>1. /\ pc' = pc /\ conn' = conn /\ pc[Generator] = "working"
          /\ todo'[Generator] \subseteq todo[Generator]
      BY <1>0, <1>6, <2>4 DEF PublishInVain, Publishing, IndInv, Types
    <3>2. generated \in Task /\ todo[Generator] \subseteq Managers(Generator)
      BY <1>6 DEF PublishInVain, IndInv, GeneratorInv
    <3> QED
      BY <2>2, <3>1, <3>2, WorkingGenerator
  <2> QED
    BY <2>3, <2>4
<1>7. ASSUME NEW r \in Replica, Run(r)
      PROVE  GeneratorInv' /\ PatientGenerator'
  <2>1. /\ pc'[Generator] = pc[Generator] /\ todo'[Generator] = todo[Generator]
        /\ conn'[Generator] = conn[Generator]
        /\ UNCHANGED <<stops, attempts, generated>>
    BY <1>0, <1>7 DEF Run, Deliver, Execute, Ack, Fail, Ended, IndInv, Types
  <2> QED
    BY <2>1, GeneratorAlone
<1>8. ASSUME NEW b \in Broker, StartBroker(b)
      PROVE  GeneratorInv' /\ PatientGenerator'
  BY <1>8, GeneratorAlone DEF StartBroker
<1>9. ASSUME NEW b \in Broker, StopBroker(b)
      PROVE  GeneratorInv' /\ PatientGenerator'
  <2>1. stops' # 0 /\ UNCHANGED <<pc, todo, attempts, generated>>
    BY <1>0, <1>9 DEF StopBroker
  <2> QED
    BY <2>1, GeneratorAlone
<1> QED
  BY <1>1, <1>2, <1>3, <1>4, <1>5, <1>6, <1>7, <1>8, <1>9 DEF Next, Initialise

-----------------------------------------------------------------------------
(* The queues. *)

\* and keeps the messages.
LEMMA QueuesKept ==
  ASSUME IndInv, Next
  PROVE  QueuesInv'
<1>0. Generator \in Process /\ \A r \in Replica : r \in Process
  BY DEF Process
<1>1. CASE UNCHANGED <<accepted, ready, forgotten>>
  BY <1>1 DEF IndInv, QueuesInv
<1>2. ASSUME NEW p \in Process, Ended(p), UNCHANGED <<accepted, forgotten>>
      PROVE  QueuesInv'
  BY <1>2, EndedReturns DEF IndInv, QueuesInv
<1>3. CASE Publish
  <2> DEFINE b == NextBroker(Generator)
  <2>1. /\ accepted' = [accepted EXCEPT ![b] = @ \cup {generated}]
        /\ ready' = [ready EXCEPT ![b] = @ \cup {generated}]
        /\ forgotten' = forgotten
    BY <1>3 DEF Publish
  <2> HIDE DEF b
  <2>2. QED
    BY <2>1 DEF IndInv, Types, QueuesInv
<1>4. ASSUME NEW r \in Replica, Deliver(r)
      PROVE  QueuesInv'
  BY <1>0, <1>4 DEF Deliver, IndInv, Types, QueuesInv
<1>5. ASSUME NEW b \in Broker, StopBroker(b)
      PROVE  QueuesInv'
  <2>1. Unacknowledged(b) \subseteq accepted[b]
    <3>1. \A r \in Replica : b \in conn[r] /\ held[r] # NoTask => held[r] \in accepted[b]
      BY <1>0 DEF IndInv, Types, RunnersInv
    <3> QED
      BY <3>1 DEF Unacknowledged
  <2>2. accepted' = accepted /\ ready \in [Broker -> SUBSET Task] /\ forgotten \in [Broker -> SUBSET Task]
    BY <1>5 DEF StopBroker, IndInv, Types
  <2> DEFINE had == ready[b] \cup Unacknowledged(b)
  <2>3. had \subseteq accepted[b]
    BY <2>1 DEF IndInv, QueuesInv
  <2>4. \/ ready' = [ready EXCEPT ![b] = had] /\ forgotten' = forgotten
        \/ ready' = [ready EXCEPT ![b] = {}] /\ forgotten' = [forgotten EXCEPT ![b] = @ \cup had]
    BY <1>5 DEF StopBroker
  <2> HIDE DEF had
  <2> QED
    BY <2>2, <2>3, <2>4 DEF IndInv, QueuesInv
<1> QED
  BY <1>0, <1>1, <1>2, <1>3, <1>4, <1>5
  DEF Next, Initialise, Run, Start, Connect, ConnectFails, Generate, PublishInVain, Execute,
      Ack, Fail, StartBroker

\* What holds of one message of one broker.
Kept(b, t) ==
  \/ t \in ready[b]
  \/ \E r \in Replica : Connected(r) /\ Consumes(r) = b /\ held[r] = t
  \/ ExecutedFrom(b, t)
  \/ t \in forgotten[b]

\* What has a result keeps it; what waits goes on waiting, or a runner takes it; a runner
\* that ends gives back what it has; a broker that stops has all that its runners had.
LEMMA TasksKept ==
  ASSUME IndInv, Next
  PROVE  TaskKept'
<1> SUFFICES ASSUME NEW b \in Broker, NEW t \in accepted'[b]
             PROVE  Kept(b, t)'
  BY DEF TaskKept, Kept
<1>0. /\ queueOf' = queueOf /\ service' = service
      /\ \A r \in Replica : r \in Process /\ Consumes(r)' = Consumes(r)
      /\ Generator \in Process
  BY ConfigurationKept DEF Process
<1>1. executed \subseteq executed'
  BY DEF Next, Initialise, Run, Start, Connect, ConnectFails, Generate, Publish,
         PublishInVain, Deliver, Execute, Ack, Fail, StartBroker, StopBroker
<1>2. ExecutedFrom(b, t) => ExecutedFrom(b, t)'
  BY <1>0, <1>1 DEF ExecutedFrom
<1>3. t \in Task
  BY TypesKept DEF Types
<1> DEFINE had(c) == ready[c] \cup Unacknowledged(c)
<1>4. ASSUME NEW c \in Broker, StopBroker(c), t \in had(b), c = b
      PROVE  Kept(b, t)'
  BY <1>4 DEF StopBroker, IndInv, Types, Kept
<1>5. t \in forgotten[b] => t \in forgotten'[b]
  <2>1. CASE forgotten' = forgotten
    BY <2>1
  <2>2. ASSUME NEW c \in Broker, StopBroker(c)
        PROVE  forgotten[b] \subseteq forgotten'[b]
    BY <2>2 DEF StopBroker, IndInv, Types
  <2>3. QED
    BY <2>1, <2>2
    DEF Next, Initialise, Run, Start, Connect, ConnectFails, Generate, Publish, PublishInVain,
        Deliver, Execute, Ack, Fail, StartBroker
<1>6. CASE t \notin accepted[b]
  <2>1. CASE Publish
    BY <1>6, <2>1 DEF Publish, IndInv, Types, Kept
  <2>2. CASE accepted' = accepted
    BY <1>6, <2>2
  <2> QED
    BY <2>1, <2>2
    DEF Next, Initialise, Run, Start, Connect, ConnectFails, Generate, PublishInVain, Deliver,
        Execute, Ack, Fail, StartBroker, StopBroker
<1>7. ASSUME t \in ready[b], t \notin ready'[b], ~ StopBroker(b)
      PROVE  Kept(b, t)'
  <2>1. PICK r \in Replica : Deliver(r)
    <3>1. ready' = ready => FALSE
      BY <1>7
    <3>2. \A p \in Process : ~ Ended(p)
      BY <1>7, EndedReturns
    <3>3. ~ Publish /\ \A c \in Broker : ~ StopBroker(c)
      BY <1>7 DEF Publish, StopBroker, IndInv, Types
    <3> QED
      BY <1>0, <3>1, <3>2, <3>3
      DEF Next, Initialise, Run, Start, Connect, ConnectFails, Generate, PublishInVain,
          Execute, Ack, Fail, StartBroker
  <2>2. b = Consumes(r) /\ held'[r] = t /\ Connected(r) /\ conn' = conn
    BY <1>7, <2>1 DEF Deliver, IndInv, Types
  <2> QED
    BY <1>0, <2>2 DEF Kept, Connected
<1>8. ASSUME NEW r \in Replica, Connected(r), Consumes(r) = b, held[r] = t
      PROVE  Kept(b, t)'
  <2>1. pc[r] \in {"executing", "stored"} /\ service[r] \in Compiler /\ queueOf[service[r]] = b
    BY <1>3, <1>8, ServicesAreNames DEF IndInv, RunnersInv
  <2>2. CASE held'[r] = t /\ Consumes(r) \in conn'[r]
    BY <1>0, <1>8, <2>2 DEF Kept, Connected
  <2>3. CASE Ended(r)
    BY <1>0, <1>3, <1>8, <2>3, EndedReturns DEF Connected, Kept
  <2>4. CASE Ack(r) /\ ~ Ended(r)
    <3>1. <<service[r], t>> \in executed
      BY <1>8, <2>4 DEF Ack, IndInv, RunnersInv
    <3> QED
      BY <1>2, <2>1, <3>1 DEF Kept, ExecutedFrom
  <2>5. ASSUME NEW c \in Broker, StopBroker(c)
        PROVE  Kept(b, t)'
    <3>1. CASE c = b
      <4>1. t \in Unacknowledged(b)
        BY <1>3, <1>8 DEF Unacknowledged, Connected, NoTask, Task
      <4> QED
        BY <1>4, <2>5, <3>1, <4>1
    <3>2. CASE c # b
      <4>1. held' = held /\ Consumes(r) \in conn'[r]
        BY <1>0, <1>8, <2>5, <3>2 DEF StopBroker, Connected
      <4> QED
        BY <1>8, <2>2, <4>1
    <3> QED
      BY <3>1, <3>2
  <2>6. ASSUME NEW p \in Process, p # r, Ended(p)
        PROVE  held'[r] = t /\ Consumes(r) \in conn'[r]
    BY <1>0, <1>8, <2>6, EndedReturns DEF Ended, Connected, IndInv, Types
  <2>7. ASSUME NEW p \in Process, Initialise(p)
        PROVE  (held'[r] = t /\ Consumes(r) \in conn'[r]) \/ Ended(r)
    <3>1. CASE Ended(p)
      BY <2>6, <3>1
    <3>2. CASE ~ Ended(p)
      BY <1>0, <1>8, <2>7, <3>2
      DEF Initialise, Start, Connect, ConnectFails, Connected, IndInv, Types
    <3> QED
      BY <3>1, <3>2
  <2>8. ASSUME NEW q \in Replica, Run(q)
        PROVE  \/ held'[r] = t /\ Consumes(r) \in conn'[r]
               \/ Ended(r)
               \/ Ack(r) /\ ~ Ended(r)
    <3>1. CASE Ended(q)
      BY <1>0, <2>6, <3>1
    <3>2. CASE ~ Ended(q) /\ q # r
      BY <1>0, <1>8, <2>8, <3>2 DEF Run, Deliver, Execute, Ack, Fail, Connected, IndInv, Types
    <3>3. CASE ~ Ended(q) /\ q = r
      BY <1>0, <1>8, <2>1, <2>8, <3>3 DEF Run, Deliver, Execute, Fail, Connected
    <3> QED
      BY <3>1, <3>2, <3>3
  <2>9. CASE Generate \/ Publish \/ \E c \in Broker : StartBroker(c)
    BY <1>8, <2>2, <2>9 DEF Generate, Publish, StartBroker, Connected
  <2>10. CASE PublishInVain
    <3>1. CASE Ended(Generator)
      BY <1>0, <2>2, <2>3, <2>6, <3>1
    <3>2. CASE ~ Ended(Generator)
      BY <1>8, <2>2, <2>10, <3>2 DEF PublishInVain, Connected
    <3> QED
      BY <3>1, <3>2
  <2> QED
    BY <2>2, <2>3, <2>4, <2>5, <2>7, <2>8, <2>9, <2>10 DEF Next
<1>9. Kept(b, t) \/ t \notin accepted[b]
  BY DEF IndInv, TaskKept, Kept
<1>10. CASE t \in ready[b] /\ StopBroker(b)
  BY <1>4, <1>10
<1> QED
  BY <1>2, <1>6, <1>7, <1>8, <1>9, <1>5, <1>10 DEF Kept

-----------------------------------------------------------------------------
(* Theorems. *)

\* The inductive invariant holds.
LEMMA Invariance == Spec => []IndInv
<1>1. Init => IndInv
  <2> SUFFICES ASSUME Init
               PROVE  IndInv
    OBVIOUS
  <2>1. Types
    BY ConnectionsAssumption DEF Init, Types
  <2>2. AttemptsLeft
    BY ConnectionsAssumption DEF Init, AttemptsLeft
  <2>3. RunnersInv
    BY DEF Init, RunnersInv, Process, NoTask, Task
  <2>4. GeneratorInv /\ PatientGenerator
    BY DEF Init, GeneratorInv, PatientGenerator, Publishing, Process
  <2>5. QueuesInv /\ TaskKept
    BY DEF Init, QueuesInv, TaskKept
  <2> QED
    BY <2>1, <2>2, <2>3, <2>4, <2>5 DEF IndInv
<1>2. IndInv /\ [Next]_vars => IndInv'
  <2> SUFFICES ASSUME IndInv, [Next]_vars
               PROVE  IndInv'
    OBVIOUS
  <2>1. CASE Next
    BY <2>1, TypesKept, AttemptsKept, RunnersKept, GeneratorKept, QueuesKept, TasksKept DEF IndInv
  <2>2. CASE UNCHANGED vars
    <3>1. /\ UNCHANGED <<queueOf, service, up, stops, pc, todo, attempts, conn, generated,
                         accepted, ready, forgotten, held, executed>>
          /\ \A r \in Replica : r \in Process /\ Consumes(r)' = Consumes(r)
          /\ \A p \in Process : (Starts(p)' <=> Starts(p)) /\ Managers(p)' = Managers(p)
          /\ Generator \in Process /\ (KeysDefined' <=> KeysDefined)
      BY <2>2, ConfigurationKept DEF vars, config, Process
    <3>2. Types' /\ AttemptsLeft'
      <4>1. Types'
        BY <3>1 DEF IndInv, Types
      <4> QED
        BY <3>1, <4>1 DEF IndInv, AttemptsLeft
    <3>3. RunnersInv'
      BY <3>1 DEF IndInv, RunnersInv
    <3>4. GeneratorInv'
      BY <3>1 DEF IndInv, GeneratorInv, Publishing
    <3>5. PatientGenerator' /\ QueuesInv' /\ TaskKept'
      BY <3>1 DEF IndInv, PatientGenerator, QueuesInv, TaskKept, Connected, ExecutedFrom
    <3> QED
      BY <3>2, <3>3, <3>4, <3>5 DEF IndInv
  <2> QED
    BY <2>1, <2>2
<1> QED
  BY <1>1, <1>2, PTL DEF Spec

\* The types of Connections hold in every state.
THEOREM TypeCorrect == Spec => []TypeOK
<1>1. IndInv => TypeOK
  <2> SUFFICES ASSUME IndInv
               PROVE  TypeOK
    OBVIOUS
  <2>1. \A p \in Process : todo[p] \subseteq Compiler /\ conn[p] \subseteq up
    BY DEF IndInv, Types
  <2>2. \A b \in Broker : ready[b] \cup forgotten[b] \subseteq accepted[b] /\ accepted[b] \subseteq Task
    BY DEF IndInv, Types, QueuesInv
  <2>3. \A r \in Replica : pc[r] \in {"executing", "stored"} <=> held[r] \in Task
    BY DEF IndInv, RunnersInv
  <2> QED
    BY <2>1, <2>2, <2>3 DEF IndInv, Types, TypeOK
<1> QED
  BY <1>1, Invariance, PTL

\* A message that a broker has taken waits there, is in the hands of a runner with an open
\* connection, or has its result stored, whichever runners end or raise (runner_diff.py),
\* unless the broker stopped and forgot it.
THEOREM TasksAreKept == Spec => []TaskKept
BY Invariance, PTL DEF IndInv

\* The generator gives up only on a broker that it has tried MaxAttempts times, unless a
\* broker stopped or the configuration is wrong (__connect).
THEOREM GeneratorIsPatient == Spec => []PatientGenerator
BY Invariance, PTL DEF IndInv

=============================================================================
