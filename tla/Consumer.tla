------------------------------ MODULE Consumer ------------------------------
(***************************************************************************)
(* The delivery pipeline: RabbitMQ's main queue, the consumer process of   *)
(* backend/app/processing/consumer.py with index_event() of                *)
(* repository/elastic.py, OpenSearch, and the dead-letter queue.           *)
(*                                                                         *)
(* handle() runs to completion on one message at a time, but every call it *)
(* makes to OpenSearch or RabbitMQ is a step of its own: between two of    *)
(* them the connection can close (a missed heartbeat while index_event     *)
(* sleeps, a broker restart) or the process can die, and what was written  *)
(* to the connection reaches the broker later, in order, or not at all.    *)
(* The bulk branch of handle() is not here: see the README.                *)
(***************************************************************************)
EXTENDS EventPipeline, Integers, Sequences, FiniteSets

CONSTANTS Msgs,           \* the messages the producers publish
          BodyOf,         \* their bodies
          NoMsg,
          UseManualDlx,   \* USE_MANUAL_DLX
          DlqBound,       \* a DLQ is bound to the dead-letter exchange
          Prefetch,       \* CONSUMER_PREFETCH
          Retries,        \* the retries parameter of index_event
          MaxFaults       \* bound: crashes and lost connections

ASSUME ConsumerAssumption ==
    /\ BodyOf \in [Msgs -> Body]
    /\ NoMsg \notin Msgs
    /\ UseManualDlx \in BOOLEAN
    /\ DlqBound \in BOOLEAN
    /\ Prefetch \in Nat \ {0}
    /\ Retries \in Nat
    /\ MaxFaults \in Nat

VARIABLES
    \* RabbitMQ
    unsent,     \* messages no producer has published yet
    ready,      \* messages in the main queue, not delivered
    unacked,    \* messages delivered and not settled
    dlq,        \* how many copies of each message were dead-lettered to the DLQ
    link,       \* the consumer's connection, as the broker sees it
    wire,       \* what the consumer has written and the broker has not read
    \* OpenSearch
    docs,       \* how many documents were stored for each message
    \* the consumer process
    inbox,      \* prefetched messages handle() was not called for yet
    pc,         \* where the process is
    cur,        \* the message handle() is working on
    attempt,    \* index_event's attempt
    reason,     \* why cur is being rejected
    count,      \* its Prometheus counters, which die with the process
    byReason,   \* EVENTS_NACKED_BY_REASON
    \* the environment
    faults      \* crashes and lost connections so far

brokerVars == <<unsent, ready, unacked, dlq, link, wire>>
localVars == <<pc, cur, attempt, reason>>
meterVars == <<count, byReason>>
vars == <<unsent, ready, unacked, dlq, link, wire, docs, inbox,
          pc, cur, attempt, reason, count, byReason, faults>>

Reasons == RejectReasons \cup {"index_failed"}
Counters == {"processed", "indexed", "indexFailed", "nacked", "validationFailed", "retries"}
Frame == [op : {"ack", "nack", "publish"}, msg : Msgs]

\* down      not running
\* idle      in start_consuming, no call of handle()
\* index     about to call client.index
\* ack       the document is stored, about to call basic_ack
\* nack      about to call basic_nack(requeue=False)
\* publish   about to publish to the dead-letter exchange (manual mode)
\* ackDead   published, about to call basic_ack
\* exit      an exception has left handle(), main() is ending
Pcs == {"down", "idle", "index", "ack", "nack", "publish", "ackDead", "exit"}

Rejected(m) == Verdict(BodyOf[m]) # Accepted

TypeOK ==
    /\ unsent \in SUBSET Msgs
    /\ ready \in SUBSET Msgs
    /\ unacked \in SUBSET Msgs
    /\ dlq \in [Msgs -> Nat]
    /\ link \in {"open", "closed"}
    /\ wire \in Seq(Frame)
    /\ docs \in [Msgs -> Nat]
    /\ inbox \in SUBSET Msgs
    /\ pc \in Pcs
    /\ cur \in Msgs \cup {NoMsg}
    /\ pc \in {"index", "ack", "nack", "publish", "ackDead"} => cur \in Msgs
    /\ attempt \in 0 .. Retries
    /\ reason \in Reasons
    /\ count \in [Counters -> Nat]
    /\ byReason \in [Reasons -> Nat]
    /\ faults \in 0 .. MaxFaults

Init ==
    /\ unsent = Msgs
    /\ ready = {}
    /\ unacked = {}
    /\ dlq = [m \in Msgs |-> 0]
    /\ link = "closed"
    /\ wire = <<>>
    /\ docs = [m \in Msgs |-> 0]
    /\ inbox = {}
    /\ pc = "down"
    /\ cur = NoMsg
    /\ attempt = 0
    /\ reason = "index_failed"
    /\ count = [c \in Counters |-> 0]
    /\ byReason = [r \in Reasons |-> 0]
    /\ faults = 0

-----------------------------------------------------------------------------
(* The process *)

Inc(cs) == count' = [c \in Counters |-> IF c \in cs THEN count[c] + 1 ELSE count[c]]
IncReason(r) == byReason' = [byReason EXCEPT ![r] = @ + 1]

\* A channel call returns once its frame is written to the socket.
Send(op) == wire' = Append(wire, [op |-> op, msg |-> cur])

\* handle() returns.
Return ==
    /\ pc' = "idle"
    /\ cur' = NoMsg
    /\ attempt' = 0
    /\ reason' = "index_failed"

DeadLetterPc == IF UseManualDlx THEN "publish" ELSE "nack"

\* main() up to start_consuming: the process connects, declares its topology
\* and its counters start from zero.  A main() that cannot reach OpenSearch
\* or RabbitMQ ends without an effect.
Start ==
    /\ pc = "down"
    /\ link = "closed"
    /\ link' = "open"
    /\ pc' = "idle"
    /\ count' = [c \in Counters |-> 0]
    /\ byReason' = [r \in Reasons |-> 0]
    /\ UNCHANGED <<unsent, ready, unacked, dlq, wire, docs, inbox, cur, attempt, reason, faults>>

\* Mutant of HandleAccept: the delivery is acknowledged before it is indexed.
HandleAcceptAcksFirst(m) ==
    /\ pc = "idle" /\ link = "open" /\ m \in inbox /\ ~Rejected(m)
    /\ inbox' = inbox \ {m} /\ cur' = m /\ pc' = "index"
    /\ wire' = Append(wire, [op |-> "ack", msg |-> m])
    /\ Inc({"processed"})
    /\ UNCHANGED <<unsent, ready, unacked, dlq, link, docs, attempt, reason, byReason, faults>>

\* handle() is called, and the event passes every check.  pika may still call
\* it for a prefetched message after the connection closed.
HandleAccept(m) ==
    /\ pc = "idle"
    /\ m \in inbox
    /\ ~Rejected(m)
    /\ inbox' = inbox \ {m}
    /\ cur' = m
    /\ pc' = "index"
    /\ Inc({"processed"})
    /\ UNCHANGED <<brokerVars, docs, attempt, reason, byReason, faults>>

\* Mutant of HandleReject: the rejecting branch falls through to the indexing.
HandleRejectFallsThrough(m) ==
    /\ pc = "idle" /\ m \in inbox /\ Rejected(m)
    /\ inbox' = inbox \ {m} /\ cur' = m /\ pc' = "index"
    /\ Inc({"processed", "validationFailed"})
    /\ UNCHANGED <<brokerVars, docs, attempt, reason, byReason, faults>>

\* handle() is called, and the event fails a check or cannot be parsed.
HandleReject(m) ==
    /\ pc = "idle"
    /\ m \in inbox
    /\ Rejected(m)
    /\ inbox' = inbox \ {m}
    /\ cur' = m
    /\ reason' = Verdict(BodyOf[m])
    /\ pc' = DeadLetterPc
    /\ Inc({"processed"} \cup
           IF Verdict(BodyOf[m]) = "processing_exception" THEN {} ELSE {"validationFailed"})
    /\ UNCHANGED <<brokerVars, docs, attempt, byReason, faults>>

\* client.index answers.
IndexOk ==
    /\ pc = "index"
    /\ docs' = [docs EXCEPT ![cur] = @ + 1]
    /\ pc' = "ack"
    /\ UNCHANGED <<brokerVars, inbox, cur, attempt, reason, meterVars, faults>>

\* client.index raises: OpenSearch refused the document, or stored it (there
\* is no _id to make the call idempotent) and the answer was lost.
IndexRaises == docs' \in {docs, [docs EXCEPT ![cur] = @ + 1]}

\* Mutant of IndexRetry: a loop that does not count.
IndexRetryUncounted ==
    /\ pc = "index" /\ attempt < Retries
    /\ IndexRaises /\ Inc({"retries"})
    /\ UNCHANGED <<brokerVars, inbox, pc, cur, attempt, reason, byReason, faults>>

IndexRetry ==
    /\ pc = "index"
    /\ attempt < Retries
    /\ IndexRaises
    /\ attempt' = attempt + 1
    /\ Inc({"retries"})
    /\ UNCHANGED <<brokerVars, inbox, pc, cur, reason, byReason, faults>>

\* Mutants of IndexFailed: the failure is swallowed and the message
\* acknowledged, and a failure that is counted as dead-lettered at once.
IndexFailedSwallowed ==
    pc' = "ack" /\ reason' = "index_failed" /\ Inc({"indexFailed"}) /\ IncReason("index_failed")

IndexFailedCountsNack ==
    /\ pc' = DeadLetterPc /\ reason' = "index_failed"
    /\ Inc({"indexFailed", "nacked"}) /\ IncReason("index_failed")

\* What the inner except of handle() does first, whichever call raised.
IndexFailed ==
    /\ pc' = DeadLetterPc
    /\ reason' = "index_failed"
    /\ Inc({"indexFailed"})
    /\ IncReason("index_failed")

IndexExhausted ==
    /\ pc = "index"
    /\ attempt = Retries
    /\ IndexRaises
    /\ IndexFailed
    /\ UNCHANGED <<brokerVars, inbox, cur, attempt, faults>>

\* Mutant of AckIndexed: the acknowledgement is forgotten.
AckIndexedForgotten ==
    /\ pc = "ack" /\ link = "open"
    /\ Inc({"indexed"}) /\ Return
    /\ UNCHANGED <<brokerVars, docs, inbox, byReason, faults>>

AckIndexed ==
    /\ pc = "ack"
    /\ link = "open"
    /\ Send("ack")
    /\ Inc({"indexed"})
    /\ Return
    /\ UNCHANGED <<unsent, ready, unacked, dlq, link, docs, inbox, byReason, faults>>

\* The acknowledgement is inside the try of the indexing: when it raises,
\* the stored event is treated as one that could not be indexed.
AckIndexedRaises ==
    /\ pc = "ack"
    /\ link = "closed"
    /\ IndexFailed
    /\ UNCHANGED <<brokerVars, docs, inbox, cur, attempt, faults>>

\* Mutants of Nack: the return after it is missing, and a consumer that also
\* publishes to the dead-letter exchange itself.
NackFallsThrough ==
    /\ pc = "nack" /\ link = "open"
    /\ Send("nack") /\ Inc({"nacked"}) /\ pc' = "index"
    /\ UNCHANGED <<unsent, ready, unacked, dlq, link, docs, inbox, cur, attempt, reason,
                   byReason, faults>>

NackAndPublish ==
    /\ pc = "nack" /\ link = "open"
    /\ wire' = wire \o <<[op |-> "publish", msg |-> cur], [op |-> "nack", msg |-> cur]>>
    /\ Inc({"nacked"}) /\ Return
    /\ UNCHANGED <<unsent, ready, unacked, dlq, link, docs, inbox, byReason, faults>>

\* basic_nack(requeue=False), with the counters of the branch it is in: the
\* inner except has counted its reason already, the outer one counts none.
Nack ==
    /\ pc = "nack"
    /\ link = "open"
    /\ Send("nack")
    /\ Inc({"nacked"})
    /\ IF reason \in {"index_failed", "processing_exception"}
       THEN UNCHANGED byReason ELSE IncReason(reason)
    /\ Return
    /\ UNCHANGED <<unsent, ready, unacked, dlq, link, docs, inbox, faults>>

\* The call raises, the outer except repeats it, and swallows its exception.
NackRaises ==
    /\ pc = "nack"
    /\ link = "closed"
    /\ Return
    /\ UNCHANGED <<brokerVars, docs, inbox, meterVars, faults>>

\* Mutant of PublishDlx: acknowledged first, then published.
PublishDlxAfterAck ==
    /\ pc = "publish" /\ link = "open"
    /\ wire' = wire \o <<[op |-> "ack", msg |-> cur], [op |-> "publish", msg |-> cur]>>
    /\ Inc({"nacked"}) /\ IncReason(reason) /\ Return
    /\ UNCHANGED <<unsent, ready, unacked, dlq, link, docs, inbox, faults>>

\* publish_to_dlx_with_reason()
PublishDlx ==
    /\ pc = "publish"
    /\ link = "open"
    /\ Send("publish")
    /\ Inc({"nacked"})
    /\ IncReason(reason)
    /\ pc' = "ackDead"
    /\ UNCHANGED <<unsent, ready, unacked, dlq, link, docs, inbox, cur, attempt, reason, faults>>

\* It raises, and so does the second try in the outer except, which nothing
\* catches.
PublishDlxRaises ==
    /\ pc = "publish"
    /\ link = "closed"
    /\ pc' = "exit"
    /\ UNCHANGED <<brokerVars, docs, inbox, cur, attempt, reason, meterVars, faults>>

\* Mutant of AckDead: a retry of both calls.
AckDeadRepublishes ==
    /\ pc = "ackDead" /\ link = "open"
    /\ wire' = wire \o <<[op |-> "publish", msg |-> cur], [op |-> "ack", msg |-> cur]>>
    /\ Return
    /\ UNCHANGED <<unsent, ready, unacked, dlq, link, docs, inbox, meterVars, faults>>

AckDead ==
    /\ pc = "ackDead"
    /\ link = "open"
    /\ Send("ack")
    /\ Return
    /\ UNCHANGED <<unsent, ready, unacked, dlq, link, docs, inbox, meterVars, faults>>

\* In the outer except the exception is swallowed; anywhere else it leads
\* there, to a second publish.
AckDeadRaises ==
    /\ pc = "ackDead"
    /\ link = "closed"
    /\ IF reason = "processing_exception"
       THEN Return
       ELSE /\ pc' = "publish"
            /\ reason' = "processing_exception"
            /\ UNCHANGED <<cur, attempt>>
    /\ UNCHANGED <<brokerVars, docs, inbox, meterVars, faults>>

\* The process is gone, with all it had in memory.
Die ==
    /\ pc' = "down"
    /\ cur' = NoMsg
    /\ attempt' = 0
    /\ reason' = "index_failed"
    /\ inbox' = {}

\* start_consuming raises on the closed connection, or an exception has left
\* handle(): main() ends, there is no reconnection.
Exit ==
    /\ pc = "exit" \/ (pc = "idle" /\ link = "closed")
    /\ Die
    /\ UNCHANGED <<brokerVars, docs, meterVars, faults>>

\* The process is killed or interrupted anywhere.
Crash ==
    /\ pc # "down"
    /\ faults < MaxFaults
    /\ faults' = faults + 1
    /\ Die
    /\ UNCHANGED <<brokerVars, docs, meterVars>>

Process ==
    \/ \E m \in Msgs : HandleAccept(m) \/ HandleReject(m)
    \/ IndexOk \/ IndexRetry \/ IndexExhausted
    \/ AckIndexed \/ AckIndexedRaises
    \/ Nack \/ NackRaises
    \/ PublishDlx \/ PublishDlxRaises \/ AckDead \/ AckDeadRaises
    \/ Exit

-----------------------------------------------------------------------------
(* RabbitMQ *)

Publish(m) ==
    /\ m \in unsent
    /\ unsent' = unsent \ {m}
    /\ ready' = ready \cup {m}
    /\ UNCHANGED <<unacked, dlq, link, wire, docs, inbox, localVars, meterVars, faults>>

\* At most Prefetch deliveries are outstanding (basic_qos).
Deliver(m) ==
    /\ link = "open"
    /\ pc # "down"
    /\ m \in ready
    /\ Cardinality(unacked) < Prefetch
    /\ ready' = ready \ {m}
    /\ unacked' = unacked \cup {m}
    /\ inbox' = inbox \cup {m}
    /\ UNCHANGED <<unsent, dlq, link, wire, docs, localVars, meterVars, faults>>

\* A message that reaches the dead-letter exchange is in the DLQ, or nowhere.
DeadLetter(m) == dlq' = IF DlqBound THEN [dlq EXCEPT ![m] = @ + 1] ELSE dlq

BrokerReads(op) ==
    /\ link = "open"
    /\ wire # <<>>
    /\ Head(wire).op = op
    /\ wire' = Tail(wire)
    /\ UNCHANGED <<unsent, ready, link, docs, inbox, localVars, meterVars, faults>>

BrokerAck ==
    /\ BrokerReads("ack")
    /\ unacked' = unacked \ {Head(wire).msg}
    /\ UNCHANGED dlq

BrokerNack ==
    /\ BrokerReads("nack")
    /\ unacked' = unacked \ {Head(wire).msg}
    /\ DeadLetter(Head(wire).msg)

BrokerPublish ==
    /\ BrokerReads("publish")
    /\ DeadLetter(Head(wire).msg)
    /\ UNCHANGED unacked

\* The broker closes its end: what it has not read is lost, and what was not
\* settled returns to the queue.
CloseLink ==
    /\ link = "open"
    /\ link' = "closed"
    /\ wire' = <<>>
    /\ ready' = ready \cup unacked
    /\ unacked' = {}
    /\ UNCHANGED <<unsent, dlq, docs, inbox, localVars, meterVars>>

LinkLost ==
    /\ pc # "down"
    /\ faults < MaxFaults
    /\ faults' = faults + 1
    /\ CloseLink

\* The broker notices that the process is gone.
LinkReaped ==
    /\ pc = "down"
    /\ CloseLink
    /\ UNCHANGED faults

Broker == BrokerAck \/ BrokerNack \/ BrokerPublish \/ LinkReaped

Next ==
    \/ Process
    \/ Broker
    \/ \E m \in Msgs : Publish(m) \/ Deliver(m)
    \/ Start
    \/ Crash
    \/ LinkLost

Spec == Init /\ [][Next]_vars

\* The consumer, the broker and its deliveries make progress; a consumer that
\* ended is started again by its operator (docs/architecture/logging_runbook.md,
\* line 38: docker-compose has no restart policy for it).  OpenSearch owes
\* nothing: it may refuse every document.
Fairness ==
    /\ WF_vars(Process)
    /\ WF_vars(Broker)
    /\ WF_vars(\E m \in Msgs : Deliver(m))
    /\ WF_vars(Start)

FairSpec == Spec /\ Fairness

-----------------------------------------------------------------------------
(* Properties *)

Pending(m) == m \in ready \cup unacked
Settled(m) == ~Pending(m) /\ m \notin unsent

\* No event is lost: whatever crashes, fails or is retried, a message that is
\* no longer on the main queue is in an index or in the DLQ.  This is the
\* order of the calls in handle(): index before acknowledge, publish to the
\* dead-letter exchange before acknowledge.
NoLoss == \A m \in Msgs : Settled(m) => docs[m] > 0 \/ dlq[m] > 0

\* No acknowledgement for a delivery that is not outstanding, which the
\* broker would answer by closing the channel: every ack and nack on its way
\* to the broker is for an unsettled delivery, and is the last frame for it.
Settles(f) == f.op \in {"ack", "nack"}

TagsOutstanding ==
    \A i \in 1 .. Len(wire) :
        /\ wire[i].msg \in unacked
        /\ Settles(wire[i]) => \A j \in i + 1 .. Len(wire) : wire[j].msg # wire[i].msg

\* Only what passed every check is sent to an index, in whichever order
\* deliveries, rejections, failures and redeliveries come.
RejectedNeverIndexed == \A m \in Msgs : Rejected(m) => docs[m] = 0

\* How often the consumer can duplicate an event: once for every attempt of
\* index_event in every delivery, one delivery more than there were faults.
\* A dead letter has one copy for every delivery when the consumer publishes
\* it, and one at most when RabbitMQ dead-letters it.
DuplicatesBounded ==
    \A m \in Msgs :
        /\ docs[m] <= (Retries + 1) * (faults + 1)
        /\ dlq[m] <= IF UseManualDlx THEN faults + 1 ELSE 1

\* With automatic dead-lettering a message is on the main queue or in the
\* DLQ, never in both: a copy in the DLQ can be replayed at once.
DeadOrPending == ~UseManualDlx => \A m \in Msgs : dlq[m] > 0 => ~Pending(m)

\* The counters account for every event while the connection holds: each one
\* handled is counted as indexed or as sent to the DLX, and never as both.
CountersBalance ==
    pc # "down" /\ link = "open" =>
        count["processed"] = count["indexed"] + count["nacked"]
                             + (IF pc \in {"index", "ack", "nack", "publish"} THEN 1 ELSE 0)

\* Settled is final: a settled message does not return to the queue, and no
\* further copy of it is made.
SettledIsFinal ==
    [][\A m \in Msgs : Settled(m) =>
          Settled(m)' /\ docs'[m] = docs[m] /\ dlq'[m] = dlq[m]]_vars

\* Every published event ends in an index or in the DLQ, as long as crashes
\* and lost connections stop at some point.
EventuallySettled == \A m \in Msgs : m \in ready ~> Settled(m)

\* The promise of module Delivery.
Promise == INSTANCE Delivery WITH
    Invalid <- {m \in Msgs : Rejected(m)},
    status  <- [m \in Msgs |-> IF m \in unsent THEN "unsent"
                               ELSE IF Pending(m) THEN "pending" ELSE "settled"],
    held    <- [m \in Msgs |-> {p \in {"index", "dlq"} :
                                   IF p = "index" THEN docs[m] > 0 ELSE dlq[m] > 0}]

ImplementsDelivery == Promise!Spec
ImplementsLiveDelivery == Promise!LiveSpec

-----------------------------------------------------------------------------
(* The inductive invariant behind these properties *)

Handling == pc \in {"index", "ack", "nack", "publish", "ackDead"}

\* A message is in one place only on the broker's side.
QueuesDisjoint ==
    /\ unsent \cap (ready \cup unacked) = {}
    /\ ready \cap unacked = {}

\* While the connection is open, the prefetched messages, the one being
\* handled and those with frames on the wire are outstanding deliveries, and
\* each is in one of these stages only; a message that was published to the
\* DLX still has its acknowledgement to come.
OpenLink ==
    link = "open" =>
        /\ pc # "exit"
        /\ inbox \subseteq unacked
        /\ Handling => cur \in unacked \ inbox
        /\ \A i \in 1 .. Len(wire) :
              /\ wire[i].msg \in unacked \ inbox
              /\ Handling /\ wire[i].msg = cur => pc = "ackDead" /\ wire[i].op = "publish"
        /\ \A i, j \in 1 .. Len(wire) : i < j /\ Settles(wire[i]) => wire[j].msg # wire[i].msg

\* After it closed, what the process still works on is back in the queue.
ClosedLink ==
    link = "closed" =>
        /\ wire = <<>>
        /\ unacked = {}
        /\ inbox \subseteq ready
        /\ Handling => cur \in ready

DownIsEmpty == pc = "down" => inbox = {}

LinkInv == QueuesDisjoint /\ OpenLink /\ ClosedLink /\ DownIsEmpty

\* Whoever acknowledges has made a copy, or has one on its way ahead of the
\* acknowledgement.
Kept == {m \in Msgs : docs[m] > 0 \/ dlq[m] > 0}

HoldInv ==
    /\ pc = "ack" => docs[cur] > 0
    /\ \A i \in 1 .. Len(wire) :
          wire[i].op = "ack" =>
              \/ wire[i].msg \in Kept
              \/ \E j \in 1 .. i - 1 : wire[j].op = "publish" /\ wire[j].msg = wire[i].msg
    /\ pc = "ackDead" /\ link = "open" =>
          \/ cur \in Kept
          \/ \E j \in 1 .. Len(wire) : wire[j].op = "publish" /\ wire[j].msg = cur

\* Rejected events never reach the indexing branch.
RejectInv ==
    /\ RejectedNeverIndexed
    /\ pc \in {"index", "ack"} => ~Rejected(cur)

\* Without manual publishing a copy in the DLQ is made by the nack alone.
AutoInv ==
    ~UseManualDlx =>
        /\ pc \notin {"publish", "ackDead"}
        /\ \A i \in 1 .. Len(wire) : wire[i].op # "publish"
        /\ \A m \in Msgs : dlq[m] > 0 => m \notin unsent \cup ready \cup unacked
\* The deliveries of a message that are still to come, or that handle() has to
\* work through, each worth so many copies; a process that died leaves what it
\* had not settled to the broker, which gives it back when it notices.
Coming(m, each) ==
    (IF m \in unsent THEN each ELSE 0) + (IF m \in ready THEN each ELSE 0)
    + (IF m \in inbox THEN each ELSE 0)
    + (IF pc = "down" /\ link = "open" /\ m \in unacked THEN each ELSE 0)

\* The attempts index_event has left for the message at hand.
AttemptsLeft(m) == IF pc = "index" /\ cur = m THEN Retries + 1 - attempt ELSE 0

\* A fault brings one delivery of a message back, a delivery costs at most one
\* document for each attempt.
DocsInv ==
    /\ pc \in {"idle", "down"} => attempt = 0
    /\ \A m \in Msgs : docs[m] + AttemptsLeft(m) + Coming(m, Retries + 1)
                         <= (Retries + 1) * (faults + 1)

\* The copies for the DLQ under way: on the wire, or still to be published;
\* and those of deliveries to come.  A process that has lost its connection
\* publishes nothing.
Publishing(m) == \E i \in 1 .. Len(wire) : wire[i].op = "publish" /\ wire[i].msg = m
Publishes(m) ==
    (IF Publishing(m) THEN 1 ELSE 0)
    + (IF link = "open" /\ pc \in {"index", "ack", "publish"} /\ cur = m THEN 1 ELSE 0)
Returning(m) ==
    IF link = "open" THEN Coming(m, 1) ELSE IF m \in unsent \cup ready THEN 1 ELSE 0

\* With manual publishing a fault costs at most one more copy in the DLQ: a
\* message has one frame on the wire for it, and is handled again only after
\* it came back.
ManualInv ==
    UseManualDlx =>
        /\ pc # "nack"
        /\ \A i \in 1 .. Len(wire) : wire[i].op # "nack"
        /\ \A i, j \in 1 .. Len(wire) :
              i < j /\ wire[i].op = "publish" /\ wire[j].op = "publish" => wire[j].msg # wire[i].msg
        /\ \A m \in Msgs : dlq[m] + Publishes(m) + Returning(m) <= faults + 1

\* Without it the one nack settles the message.
SingleInv == ~UseManualDlx => \A m \in Msgs : dlq[m] <= 1
=============================================================================
