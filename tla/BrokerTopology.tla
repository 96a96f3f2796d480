--------------------------- MODULE BrokerTopology ---------------------------
(***************************************************************************)
(* Who makes the exchanges, queues and bindings, and what happens to the   *)
(* events of those who do not wait: consumers run get_channel() of         *)
(* infrastructure/rabbitmq.py when they start, the operator runs           *)
(* infra/rabbitmq/declare_topology.py, and a container loads               *)
(* rabbitmq/definitions.json.  docker-compose.yml orders none of them.     *)
(* Every request to the broker is a step.                                  *)
(***************************************************************************)
EXTENDS Naturals, Sequences

CONSTANTS Consumers,    \* processes that call get_channel()
          Scripts,      \* processes that run declare_topology.py
          ManualDlx,    \* the consumers with USE_MANUAL_DLX
          Msgs,         \* the events of the producers
          MaxFaults     \* bound: lost connections, closed channels

Procs == Consumers \cup Scripts

ASSUME TopologyAssumption ==
    /\ Consumers \cap Scripts = {}
    /\ ManualDlx \subseteq Consumers
    /\ MaxFaults \in Nat

\* ex, dlx: the exchanges; queue, dlq: the queues; route: the binding of queue
\* to ex; dead: the binding of dlq to dlx
Exchanges == {"ex", "dlx"}
Queues == {"queue", "dlq"}
Bindings == {"route", "dead"}
Things == Exchanges \cup Queues \cup Bindings

\* What a binding is between.
Ends(b) == IF b = "route" THEN {"ex", "queue"} ELSE {"dlx", "dlq"}

ConsumerPlanUnbound == <<"ex", "dlx", "queue">>  \* mutant
ConsumerPlanBindsFirst == <<"ex", "dlx", "route", "queue">>  \* mutant

\* The order of declare_topology(), and that of the script.
ConsumerPlan == <<"ex", "dlx", "queue", "route">>
ScriptPlan == <<"ex", "dlx", "dlq", "queue", "route", "dead">>
Plan(p) == IF p \in Consumers THEN ConsumerPlan ELSE ScriptPlan

VARIABLES
    \* RabbitMQ
    obj,        \* absent, declared as the code declares it, or other: with
                \* other arguments, as for another RABBITMQ_DLX or for none
    where,      \* where each event is
    \* the processes
    step,       \* place in the plan; 0: not running, past the end: serving
    phase,      \* of a step: look (passive), declare (again), create
    warned,     \* the scripts whose run has printed a WARNING
    \* history
    died,       \* processes the broker has ended by refusing a request
    certified,  \* a script has ended without a WARNING
    faults

vars == <<obj, where, step, phase, warned, died, certified, faults>>

Places == {"unsent", "queue", "indexed", "dlq", "dropped"}

TypeOK ==
    /\ obj \in [Things -> {"absent", "declared", "other"}]
    /\ where \in [Msgs -> Places]
    /\ step \in [Procs -> Nat]
    /\ \A p \in Procs : step[p] <= Len(Plan(p)) + 1
    /\ phase \in [Procs -> {"look", "declare", "create"}]
    /\ warned \in SUBSET Scripts
    /\ died \in SUBSET Procs
    /\ certified \in BOOLEAN
    /\ faults \in 0 .. MaxFaults

\* A new broker, or one that has the queue with other arguments already.
Init ==
    /\ \E found \in {{}, {"queue"}, {"ex", "queue", "route"}} :
          obj = [t \in Things |-> IF t \notin found THEN "absent"
                                  ELSE IF t = "queue" THEN "other" ELSE "declared"]
    /\ where = [m \in Msgs |-> "unsent"]
    /\ step = [p \in Procs |-> 0]
    /\ phase = [p \in Procs |-> "look"]
    /\ warned = {}
    /\ died = {}
    /\ certified = FALSE
    /\ faults = 0

Running(p) == step[p] \in 1 .. Len(Plan(p))
At(p, ts) == Running(p) /\ Plan(p)[step[p]] \in ts
Target(p) == Plan(p)[step[p]]
Present(t) == obj[t] # "absent"
Serving(p) == p \in Consumers /\ step[p] = Len(Plan(p)) + 1

-----------------------------------------------------------------------------
(* Requests *)

\* The broker makes what is absent; other arguments than those a queue was
\* made with are refused (406), and so is a binding to nothing (404).
Make(t) == obj' = [obj EXCEPT ![t] = IF @ = "absent" THEN "declared" ELSE @]
Refused(t) == IF t \in Bindings THEN \E e \in Ends(t) : ~Present(e) ELSE obj[t] = "other"

\* The next entry of the plan.
Advance(p) ==
    /\ step' = [step EXCEPT ![p] = @ + 1]
    /\ phase' = [phase EXCEPT ![p] = "look"]

Stop(p) ==
    /\ step' = [step EXCEPT ![p] = 0]
    /\ phase' = [phase EXCEPT ![p] = "look"]

Phase(p, ph) ==
    /\ phase' = [phase EXCEPT ![p] = ph]
    /\ UNCHANGED step

Start(p) ==
    /\ step[p] = 0
    /\ Advance(p)
    /\ warned' = warned \ {p}
    /\ UNCHANGED <<obj, where, died, certified, faults>>

ScriptTrustsLook(p) ==  \* mutant
    /\ At(p, Exchanges \cup Queues) /\ phase[p] = "look"
    /\ IF Present(Target(p)) THEN Advance(p) ELSE Phase(p, "create")
    /\ UNCHANGED <<obj, where, warned, died, certified, faults>>

\* The passive declaration.  What is not there closes the channel, and a new
\* one is opened; the consumer is content with what is there, the script
\* declares it again.
Look(p) ==
    /\ At(p, Exchanges \cup Queues) /\ phase[p] = "look"
    /\ IF ~Present(Target(p)) THEN Phase(p, "create")
       ELSE IF p \in Consumers THEN Advance(p)
       ELSE Phase(p, "declare")
    /\ UNCHANGED <<obj, where, warned, died, certified, faults>>

\* The script's second declaration is in the same try: a refusal leads to a
\* new channel as well.
Redeclare(p) ==
    /\ At(p, Exchanges \cup Queues) /\ phase[p] = "declare"
    /\ IF Refused(Target(p)) THEN Phase(p, "create") /\ UNCHANGED obj
       ELSE Advance(p) /\ Make(Target(p))
    /\ UNCHANGED <<where, warned, died, certified, faults>>

\* The declaration on the new channel, outside the try.
Create(p) ==
    /\ At(p, Exchanges \cup Queues) /\ phase[p] = "create"
    /\ IF Refused(Target(p)) THEN Stop(p) /\ died' = died \cup {p} /\ UNCHANGED obj
       ELSE Advance(p) /\ Make(Target(p)) /\ UNCHANGED died
    /\ UNCHANGED <<where, warned, certified, faults>>

\* A binding that is refused ends a consumer.  A script prints a WARNING, here
\* and, the channel being closed, for every binding that is left.
BindRefused(p) ==
    /\ IF p \in Consumers
       THEN Stop(p) /\ died' = died \cup {p} /\ UNCHANGED warned
       ELSE /\ step' = [step EXCEPT ![p] = Len(Plan(p)) + 1]
            /\ warned' = warned \cup {p}
            /\ UNCHANGED <<phase, died>>
    /\ UNCHANGED obj

\* queue_bind().  A consumer that has it goes on to start_consuming.
Bind(p) ==
    /\ At(p, Bindings)
    /\ IF Refused(Target(p)) THEN BindRefused(p)
       ELSE Advance(p) /\ Make(Target(p)) /\ UNCHANGED <<warned, died>>
    /\ UNCHANGED <<where, certified, faults>>

\* The script closes its connection and says that the topology is there.
ScriptEnds(p) ==
    /\ p \in Scripts /\ step[p] = Len(Plan(p)) + 1
    /\ Stop(p)
    /\ certified' = (certified \/ p \notin warned)
    /\ UNCHANGED <<obj, where, warned, died, faults>>

-----------------------------------------------------------------------------
(* Faults *)

\* The connection is lost: an exception nobody catches, but for the script's
\* bindings, after which close() raises.  Serving consumers end as well.
Cut(p) ==
    /\ step[p] > 0
    /\ faults < MaxFaults
    /\ faults' = faults + 1
    /\ Stop(p)
    /\ UNCHANGED <<obj, where, warned, died, certified>>

\* The broker closes the channel for a reason of its own (permissions, an
\* internal error).  A look that fails so is taken for a missing thing.
ChannelError(p) ==
    /\ Running(p)
    /\ faults < MaxFaults
    /\ faults' = faults + 1
    /\ \/ /\ phase[p] # "create" /\ At(p, Exchanges \cup Queues)
          /\ Phase(p, "create")
          /\ UNCHANGED warned
       \/ /\ At(p, Bindings) /\ p \in Scripts
          /\ step' = [step EXCEPT ![p] = Len(Plan(p)) + 1]
          /\ warned' = warned \cup {p}
          /\ UNCHANGED phase
    /\ UNCHANGED <<obj, where, died, certified>>

-----------------------------------------------------------------------------
(* The definitions, and the events *)

\* load_definitions.sh: what RabbitMQ refuses (its answer is printed, not
\* looked at) changes nothing; what it takes makes all that is absent.
LoadDefinitions ==
    /\ obj' = [t \in Things |-> IF obj[t] = "absent" THEN "declared" ELSE obj[t]]
    /\ UNCHANGED <<where, step, phase, warned, died, certified, faults>>

\* An event that no exchange takes or no binding routes is gone: producers
\* ask for no confirmation.
Publish(m) ==
    /\ where[m] = "unsent"
    /\ where' = [where EXCEPT ![m] = IF Present("ex") /\ Present("route") THEN "queue" ELSE "dropped"]
    /\ UNCHANGED <<obj, step, phase, warned, died, certified, faults>>

\* A rejection reaches the DLQ through the queue's argument, or, published by
\* hand, through the exchange alone.
Kept(p) == Present("dead") /\ (p \in ManualDlx \/ obj["queue"] = "declared")

Handle(p, m) ==
    /\ Serving(p) /\ where[m] = "queue"
    /\ \E to \in {"indexed", IF Kept(p) THEN "dlq" ELSE "dropped"} :
          where' = [where EXCEPT ![m] = to]
    /\ UNCHANGED <<obj, step, phase, warned, died, certified, faults>>

Ensure(p) ==
    Start(p) \/ Look(p) \/ Redeclare(p) \/ Create(p) \/ Bind(p) \/ ScriptEnds(p)

Next ==
    \/ \E p \in Procs : Ensure(p) \/ Cut(p) \/ ChannelError(p)
    \/ LoadDefinitions
    \/ \E m \in Msgs : Publish(m)
    \/ \E p \in Procs, m \in Msgs : Handle(p, m)

\* A process that has been started goes on, and the operator starts it again.
Spec == Init /\ [][Next]_vars
FairSpec == Spec /\ \A p \in Consumers : WF_vars(Ensure(p))

-----------------------------------------------------------------------------
(* Properties *)

\* A script that ends without a WARNING leaves the whole path behind it: the
\* queue dead-letters to the exchange the DLQ is bound to, whoever else was
\* declaring at the time and whatever was there before.
CertifiedIsComplete == certified => \A t \in Things : obj[t] = "declared"

\* Processes that find the same thing missing and make it one after the other
\* do not harm each other.  Only a queue that was there with other arguments
\* ends a process, and without a fault only a script: a consumer takes it as
\* it is, unless it could not look.
RaceIsHarmless ==
    died # {} => obj["queue"] = "other" /\ (faults = 0 => died \subseteq Scripts)

\* Events are lost only by those who did not wait: a published one while no
\* consumer serves, before a script has ended well; a rejected one before a
\* script has.
DropsAreEarly ==
    [][\A m \in Msgs : (where[m] # "dropped" /\ where'[m] = "dropped") =>
          /\ ~certified
          /\ where[m] = "unsent" => \A p \in Consumers : ~Serving(p)]_vars

\* Consumers that are started again serve in the end, whatever the scripts do
\* or have done, and with a queue of other arguments too.
ConsumersServe == \A p \in Consumers : <>[]Serving(p)
=============================================================================
