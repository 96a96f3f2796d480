----------------------------- MODULE DlqReplay -----------------------------
(***************************************************************************)
(* The dead-letter queue and the operator's tools, reprocess_dlq.py that   *)
(* empties it and peek_queue.py that shows it (backend/app/tools), while   *)
(* the consumer keeps indexing and dead-lettering.  The queue's order      *)
(* matters: a tool takes its head and a message it gives back returns to   *)
(* the head.  The tools run one at a time.  The consumer is seen           *)
(* here as its promise (module Delivery): every message it takes ends in   *)
(* the index or at the end of the DLQ; how it keeps that promise is the    *)
(* business of module Consumer.                                            *)
(***************************************************************************)
EXTENDS DlqCorrection, Integers, SequencesExt

CONSTANTS Msgs,            \* the events
          BodyOf,          \* the bodies their producers published
          Unencodable,     \* the objects with a string that UTF-8 cannot encode
          Nothing,
          Tools,           \* the tools the operator uses, and how
          Limit,           \* --limit; --count of peek_queue.py
          Attempts,        \* of index_event: retries + 1
          QuarantineBound, \* the queue --quarantine names exists
          MaxFaults        \* bound: dead sessions, failed indexings, and
                           \* consumers that die before they acknowledge

\* dryrun: --dry-run;  peek: peek_queue.py;  take: with --requeue false
Replays == {"replay", "dryrun"}
Peeks == {"peek", "take"}

ASSUME ReplayAssumption ==
    /\ Tools \subseteq Replays \cup Peeks
    /\ BodyOf \in [Msgs -> Body]
    /\ Unencodable \subseteq {m \in Msgs : BodyOf[m].shape \notin {"garbage", "nondict"}}
    /\ Limit \in Nat \ {0}
    /\ Attempts \in Nat \ {0}
    /\ QuarantineBound \in BOOLEAN
    /\ MaxFaults \in Nat

\* A copy of an event: as it was produced, or as the tool corrected it.
Copy == [msg : Msgs, fixed : BOOLEAN]

ASSUME NothingAssumption == Nothing \notin Copy

VARIABLES
    main,         \* the main queue: how many of each copy it has
    dlq,          \* the DLQ, in order
    indexed,      \* documents stored for each event
    quarantined,  \* messages in the quarantine queue, by event
    discarded,    \* events a tool acknowledged without keeping them
    held,         \* the copy the tool has taken and the broker has not settled
    wire,         \* what the tool has written and the broker has not read
    pc,           \* where the tool is
    tool,         \* the tool that runs
    keep,         \* --quarantine names a queue
    fetched,      \* i of its loop
    faults

vars == <<main, dlq, indexed, quarantined, discarded, held, wire, pc, tool, keep, fetched, faults>>
toolVars == <<held, wire, pc, tool, keep, fetched>>
sinkVars == <<indexed, quarantined, discarded>>

\* off         no session
\* get         about to call basic_get
\* publish     about to publish the corrected event
\* quarantine  about to publish the raw body to the quarantine queue
\* ack         about to acknowledge;  drop: without having kept a copy
\* requeue     about to call basic_nack(requeue=True)
\* raised      an exception has left main()
Pcs == {"off", "get", "publish", "quarantine", "ack", "drop", "requeue", "raised"}
Ops == {"publish", "quarantine", "ack", "drop", "requeue"}

BodyIn(c) == IF c.fixed THEN Reprocessed(BodyOf[c.msg]) ELSE BodyOf[c.msg]

\* The copies the pipeline accepts.
Acceptable == {c \in Copy : Verdict(BodyIn(c)) = Accepted}

TypeOK ==
    /\ main \in [Copy -> Nat]
    /\ dlq \in Seq(Copy)
    /\ indexed \in [Msgs -> Nat]
    /\ quarantined \in [Msgs -> Nat]
    /\ discarded \in SUBSET Msgs
    /\ held \in Copy \cup {Nothing}
    /\ wire \in Seq(Ops)
    /\ pc \in Pcs
    /\ tool \in Replays \cup Peeks
    /\ keep \in BOOLEAN
    /\ fetched \in 0 .. Limit
    /\ faults \in 0 .. MaxFaults

Init ==
    /\ main = [c \in Copy |-> IF c.fixed THEN 0 ELSE 1]
    /\ dlq = <<>>
    /\ indexed = [m \in Msgs |-> 0]
    /\ quarantined = [m \in Msgs |-> 0]
    /\ discarded = {}
    /\ held = Nothing
    /\ wire = <<>>
    /\ pc = "off"
    /\ tool = "replay"
    /\ keep = FALSE
    /\ fetched = 0
    /\ faults = 0

-----------------------------------------------------------------------------
(* The consumer, which dead-letters with basic_nack *)

\* index_event() names no document: each attempt whose answer is lost may
\* have stored one, and the next stores another.
Stores(m, n) == indexed' = [indexed EXCEPT ![m] = @ + n]

Accept(c) ==
    /\ main[c] > 0
    /\ c \in Acceptable
    /\ main' = [main EXCEPT ![c] = @ - 1]
    /\ \E n \in 1 .. Attempts : Stores(c.msg, n)
    /\ UNCHANGED <<dlq, quarantined, discarded, toolVars, faults>>

RejectToHead(c) ==  \* mutant
    /\ main[c] > 0 /\ c \notin Acceptable
    /\ main' = [main EXCEPT ![c] = @ - 1]
    /\ dlq' = <<c>> \o dlq
    /\ UNCHANGED <<sinkVars, toolVars, faults>>

\* A dead letter keeps the body it was rejected with, and joins the end.
Reject(c) ==
    /\ main[c] > 0
    /\ c \notin Acceptable
    /\ main' = [main EXCEPT ![c] = @ - 1]
    /\ dlq' = Append(dlq, c)
    /\ UNCHANGED <<sinkVars, toolVars, faults>>

\* No attempt was answered.  Whatever they stored, the event is dead-lettered.
IndexFails(c) ==
    /\ main[c] > 0
    /\ c \in Acceptable
    /\ faults < MaxFaults
    /\ faults' = faults + 1
    /\ main' = [main EXCEPT ![c] = @ - 1]
    /\ dlq' = Append(dlq, c)
    /\ \E n \in 0 .. Attempts : Stores(c.msg, n)
    /\ UNCHANGED <<quarantined, discarded, toolVars>>

\* The consumer dies before it has acknowledged: the event is redelivered.
ConsumerDies(c) ==
    /\ main[c] > 0
    /\ c \in Acceptable
    /\ faults < MaxFaults
    /\ faults' = faults + 1
    /\ \E n \in 1 .. Attempts : Stores(c.msg, n)
    /\ UNCHANGED <<main, dlq, quarantined, discarded, toolVars>>

Consumer == \E c \in Copy : Accept(c) \/ Reject(c) \/ IndexFails(c) \/ ConsumerDies(c)

\* The consumer does not leave the event waiting in the main queue.
Handle(m) == \E c \in {d \in Copy : d.msg = m} : Accept(c) \/ Reject(c)

-----------------------------------------------------------------------------
(* The tools *)

Begin(t, q) ==
    /\ pc = "off"
    /\ pc' = "get"
    /\ tool' = t
    /\ keep' = q
    /\ fetched' = 0
    /\ UNCHANGED <<main, dlq, sinkVars, held, wire, faults>>

\* A dry run does not come to --quarantine.
StartTool(t, q) == t \in Replays /\ (q => t = "replay") /\ Begin(t, q)
StartPeek(t) == t \in Peeks /\ Begin(t, FALSE)

\* What main() does with a message, by its body and its options.  Where
\* publish_event() raises before it has written anything (the encoding of the
\* corrected event), the except gives the message back and the loop goes on.
Plan(c) ==
    LET shape == BodyOf[c.msg].shape IN
    CASE shape = "nondict" -> "raised"
      [] shape # "nondict" /\ tool = "dryrun" -> "requeue"
      [] shape = "garbage" /\ tool # "dryrun" -> IF keep THEN "quarantine" ELSE "drop"
      [] shape \notin {"garbage", "nondict"} /\ tool # "dryrun" ->
            IF c.msg \in Unencodable THEN "requeue" ELSE "publish"

\* peek_queue.py does not look into a message.
PeekPlan == IF tool = "peek" THEN "requeue" ELSE "drop"

GetPastLimit ==  \* mutant
    /\ pc = "get" /\ wire = <<>> /\ dlq # <<>>
    /\ held' = Head(dlq) /\ dlq' = Tail(dlq) /\ pc' = Plan(Head(dlq))
    /\ tool \in Replays
    /\ fetched' = fetched + 1
    /\ UNCHANGED <<main, sinkVars, wire, tool, keep, faults>>

GetUncounted ==  \* mutant
    /\ pc = "get" /\ wire = <<>> /\ dlq # <<>>
    /\ held' = Head(dlq) /\ dlq' = Tail(dlq) /\ pc' = Plan(Head(dlq))
    /\ tool \in Replays
    /\ UNCHANGED <<main, sinkVars, wire, tool, keep, fetched, faults>>

\* basic_get is synchronous: the broker has read everything before it answers.
BasicGet ==
    /\ pc = "get"
    /\ wire = <<>>
    /\ fetched < Limit
    /\ dlq # <<>>
    /\ held' = Head(dlq)
    /\ dlq' = Tail(dlq)
    /\ fetched' = fetched + 1
    /\ UNCHANGED <<main, sinkVars, wire, tool, keep, faults>>

Get == tool \in Replays /\ BasicGet /\ pc' = Plan(Head(dlq))
PeekGet == tool \in Peeks /\ BasicGet /\ pc' = PeekPlan

\* The loop ends, conn.close() waits for the broker.
End ==
    /\ pc = "get"
    /\ wire = <<>>
    /\ fetched = Limit \/ dlq = <<>>
    /\ pc' = "off"
    /\ tool' = "replay"
    /\ keep' = FALSE
    /\ fetched' = 0
    /\ UNCHANGED <<main, dlq, sinkVars, held, wire, faults>>

WriteAckFirst(op, next) ==  \* mutant
    /\ pc = op
    /\ wire' = IF op = "publish" THEN wire \o <<"ack", "publish">> ELSE Append(wire, op)
    /\ pc' = IF op = "publish" THEN "get" ELSE next
    /\ UNCHANGED <<main, dlq, sinkVars, held, tool, keep, fetched, faults>>

WriteForgetsAck(op, next) ==  \* mutant
    /\ pc = op
    /\ wire' = IF op = "ack" THEN Append(wire, "requeue") ELSE Append(wire, op)
    /\ pc' = next
    /\ UNCHANGED <<main, dlq, sinkVars, held, tool, keep, fetched, faults>>

\* A channel call returns once its frame is written.
Write(op, next) ==
    /\ pc = op
    /\ wire' = Append(wire, op)
    /\ pc' = next
    /\ UNCHANGED <<main, dlq, sinkVars, held, tool, keep, fetched, faults>>

Publish == Write("publish", "ack")
PublishQuarantine == Write("quarantine", "ack")
Ack == Write("ack", "get") \/ Write("drop", "get")
Requeue == Write("requeue", "get")

\* The session dies with its connection: the broker drops what it has not
\* read and puts the message back.
Back == IF held = Nothing THEN dlq ELSE <<held>> \o dlq

Dies ==
    /\ pc' = "off"
    /\ tool' = "replay"
    /\ keep' = FALSE
    /\ fetched' = 0
    /\ wire' = <<>>
    /\ held' = Nothing
    /\ dlq' = Back
    /\ UNCHANGED <<main, sinkVars>>

\* structured.get() raises on JSON that is no object, outside every try.
Raises ==
    /\ pc = "raised"
    /\ Dies
    /\ UNCHANGED faults

\* Interrupted, or the channel is gone with its connection: the next call
\* raises, and so does the basic_nack in the except.  (An exception that
\* leaves the channel open is Plan's.)
SessionLost ==
    /\ pc # "off"
    /\ faults < MaxFaults
    /\ faults' = faults + 1
    /\ Dies

-----------------------------------------------------------------------------
(* RabbitMQ *)

Reads(op) == wire # <<>> /\ Head(wire) = op /\ wire' = Tail(wire)

ReadPublish ==
    /\ Reads("publish")
    /\ main' = [main EXCEPT ![[msg |-> held.msg, fixed |-> TRUE]] = @ + 1]
    /\ UNCHANGED <<dlq, sinkVars, held, pc, tool, keep, fetched, faults>>

\* Through the default exchange, which drops what no queue is bound for.
ReadQuarantine ==
    /\ Reads("quarantine")
    /\ quarantined' = IF QuarantineBound THEN [quarantined EXCEPT ![held.msg] = @ + 1]
                                         ELSE quarantined
    /\ UNCHANGED <<main, dlq, indexed, discarded, held, pc, tool, keep, fetched, faults>>

ReadAck ==
    /\ Reads("ack") \/ Reads("drop")
    /\ discarded' = IF Head(wire) = "drop" THEN discarded \cup {held.msg} ELSE discarded
    /\ held' = Nothing
    /\ UNCHANGED <<main, dlq, indexed, quarantined, pc, tool, keep, fetched, faults>>

ReadRequeueAtTail ==  \* mutant
    /\ Reads("requeue")
    /\ dlq' = Append(dlq, held)
    /\ held' = Nothing
    /\ UNCHANGED <<main, sinkVars, pc, tool, keep, fetched, faults>>

ReadRequeue ==
    /\ Reads("requeue")
    /\ dlq' = Back
    /\ held' = Nothing
    /\ UNCHANGED <<main, sinkVars, pc, tool, keep, fetched, faults>>

Broker == ReadPublish \/ ReadQuarantine \/ ReadAck \/ ReadRequeue

Tool == Get \/ PeekGet \/ End \/ Publish \/ PublishQuarantine \/ Ack \/ Requeue \/ Raises

Next ==
    \/ Consumer
    \/ \E t \in Tools, q \in BOOLEAN : StartTool(t, q)
    \/ \E t \in Tools : StartPeek(t)
    \/ Tool
    \/ SessionLost
    \/ Broker

Spec == Init /\ [][Next]_vars

\* What the tool cannot publish, quarantine or acknowledge.
Poison(c) == BodyOf[c.msg].shape = "nondict" \/ c.msg \in Unencodable

Correctable(m) ==
    /\ [msg |-> m, fixed |-> TRUE] \in Acceptable
    /\ ~Poison([msg |-> m, fixed |-> FALSE])

\* The broker and a running session make progress, the consumer does with the
\* events a replay can repair (of the others nothing is asked), and the
\* operator keeps running the tool for real, between dry runs and peeks.
FairSpec ==
    /\ Spec
    /\ \A m \in {k \in Msgs : Correctable(k)} : WF_vars(Handle(m))
    /\ WF_vars(Tool)
    /\ WF_vars(Broker)
    /\ SF_vars(\E q \in BOOLEAN : StartTool("replay", q))

-----------------------------------------------------------------------------
(* Properties *)

CountIn(s, m) == Cardinality({i \in DOMAIN s : s[i].msg = m})

\* The copies in the queues.  One the tool still holds counts until it is
\* settled.
Queued(m) ==
    main[[msg |-> m, fixed |-> FALSE]] + main[[msg |-> m, fixed |-> TRUE]]
    + CountIn(dlq, m) + quarantined[m]
    + (IF held # Nothing /\ held.msg = m THEN 1 ELSE 0)

\* Nothing is lost but what a tool discards on purpose: whenever a session
\* dies, an event is still in a queue, in the index or quarantined.
ReplayLosesNothing ==
    \A m \in Msgs : m \notin discarded => Queued(m) + indexed[m] > 0

\* Replaying multiplies nothing either.  One handling of an event stores up to
\* Attempts documents, and it is handled once and once more for every fault:
\* between sessions the documents it has, and those the copies still in the
\* queues can become, are no more than that.  In particular there is one copy
\* in the queues, and at most one more for every session that died.
CopiesBounded ==
    pc = "off" =>
        \A m \in Msgs : Attempts * Queued(m) + indexed[m] <= Attempts * (1 + faults)

\* docs/operations/logging_dlq_reprocess.md, line 28: a dry run does not
\* change the queue permanently, nor does a peek.  Whatever it takes and
\* gives back, or dies with, the
\* queue keeps its order and only the consumer adds to its end.
DryRunKeepsQueue ==
    [][pc # "off" /\ tool \in {"dryrun", "peek"} =>
          IsPrefix(Back, Back') /\ UNCHANGED <<quarantined, discarded>>]_vars

\* A session ends, though what it replays may come back to the queue faster
\* than it drains it.
SessionEnds == pc # "off" ~> pc = "off"

\* Regular replays get every event that the correction makes acceptable into
\* the index, unless a dead letter the tool cannot handle (JSON that is no
\* object, or an object it cannot encode) reaches the head of
\* the queue, where nothing behind it is ever replayed again, or the operator
\* takes the event out by peeking with --requeue false.
OnlyPoisonBlocks ==
    \A m \in {k \in Msgs : Correctable(k)} :
        <>(indexed[m] > 0 \/ m \in discarded \/ [](Back # <<>> /\ Poison(Head(Back))))

\* docs/work_plan_improvement.md, line 247: no event stays in the DLQ for
\* ever under regular replays, if the correction makes it acceptable.
CorrectableIsIndexed == \A m \in {k \in Msgs : Correctable(k)} : <>(indexed[m] > 0)
=============================================================================
