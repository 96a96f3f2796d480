---------------------------- MODULE BulkConsumer ----------------------------
(***************************************************************************)
(* The bulk branch of handle() in backend/app/processing/consumer.py with  *)
(* BulkIndexer of processing/bulk_indexer.py: an accepted event is put     *)
(* into a buffer in memory and acknowledged; the buffer goes to OpenSearch *)
(* in one request when it is full, when an event finds the interval over,  *)
(* or when the consumer stops.  (USE_BULK has no effect in the consumer as *)
(* it is: see the README.)                                                 *)
(***************************************************************************)
EXTENDS Integers, Sequences, FiniteSets

CONSTANTS Msgs,         \* events that pass every check
          MaxItems,     \* BULK_MAX_ITEMS
          Interval,     \* BULK_MAX_INTERVAL_MS, in ticks
          NoMsg,
          MaxFaults     \* bound: crashes, lost connections, failed requests

ASSUME BulkAssumption ==
    /\ IsFiniteSet(Msgs)
    /\ MaxItems \in Nat \ {0}
    /\ Interval \in Nat \ {0}
    /\ NoMsg \notin Msgs
    /\ MaxFaults \in Nat

VARIABLES
    ready,      \* messages in the main queue, not delivered
    unacked,    \* messages delivered and not acknowledged
    link,       \* the consumer's connection
    docs,       \* documents stored for each message
    inbox,      \* prefetched messages
    buffer,     \* BulkIndexer.buffer
    elapsed,    \* since last_flush_ts, up to the interval
    pc,
    cur,        \* the message handle() is working on
    faults

brokerVars == <<ready, unacked, link>>
vars == <<ready, unacked, link, docs, inbox, buffer, elapsed, pc, cur, faults>>

\* down    not running
\* idle    in start_consuming
\* flush   add() has called flush(), about to call client.bulk
\* ack     add() has returned, about to call basic_ack
\* final   start_consuming is over, about to call flush()
Pcs == {"down", "idle", "flush", "ack", "final"}

\* The buffer is at its limit only when it is about to be flushed.
TypeOK ==
    /\ ready \in SUBSET Msgs
    /\ unacked \in SUBSET Msgs
    /\ link \in {"open", "closed"}
    /\ docs \in [Msgs -> Nat]
    /\ inbox \in SUBSET Msgs
    /\ buffer \in Seq(Msgs)
    /\ Len(buffer) <= MaxItems
    /\ pc \notin {"flush", "final"} => Len(buffer) < MaxItems
    /\ elapsed \in 0 .. Interval
    /\ pc \in Pcs
    /\ cur \in Msgs \cup {NoMsg}
    /\ faults \in 0 .. MaxFaults

Init ==
    /\ ready = Msgs
    /\ unacked = {}
    /\ link = "closed"
    /\ docs = [m \in Msgs |-> 0]
    /\ inbox = {}
    /\ buffer = <<>>
    /\ elapsed = 0
    /\ pc = "down"
    /\ cur = NoMsg
    /\ faults = 0

-----------------------------------------------------------------------------
(* The process *)

Start ==
    /\ pc = "down"
    /\ link = "closed"
    /\ pc' = "idle"
    /\ link' = "open"
    /\ elapsed' = 0
    /\ UNCHANGED <<ready, unacked, docs, inbox, buffer, cur, faults>>

\* handle() up to add(); pika may call it after the connection closed.
Add(m) ==
    /\ pc = "idle"
    /\ m \in inbox
    /\ inbox' = inbox \ {m}
    /\ cur' = m
    /\ buffer' = Append(buffer, m)
    /\ pc' = IF Len(buffer') >= MaxItems \/ elapsed = Interval THEN "flush" ELSE "ack"
    /\ UNCHANGED <<brokerVars, docs, elapsed, faults>>

\* The documents of the buffer that OpenSearch stores: those at places is.
Stored(is) == docs' = [m \in Msgs |-> docs[m] + Cardinality({i \in is : buffer[i] = m})]

FlushedKeepsBuffer ==  \* mutant
    /\ pc' = IF pc = "flush" THEN "ack" ELSE "down"
    /\ elapsed' = 0
    /\ UNCHANGED <<brokerVars, inbox, buffer, cur>>

\* The finally of flush(): whatever became of the request, the buffer is
\* emptied.  Then add() or main() returns.
Flushed ==
    /\ buffer' = <<>>
    /\ elapsed' = 0
    /\ pc' = IF pc = "flush" THEN "ack" ELSE "down"
    /\ inbox' = IF pc = "flush" THEN inbox ELSE {}
    /\ UNCHANGED <<brokerVars, cur>>

Flush ==
    /\ pc \in {"flush", "final"}
    /\ Stored(DOMAIN buffer)
    /\ Flushed
    /\ UNCHANGED faults

\* client.bulk raises, or the answer has errors: some documents are stored.
FlushFails ==
    /\ pc \in {"flush", "final"}
    /\ buffer # <<>>
    /\ faults < MaxFaults
    /\ faults' = faults + 1
    /\ \E is \in SUBSET DOMAIN buffer : Stored(is)
    /\ Flushed

Ack ==
    /\ pc = "ack"
    /\ link = "open"
    /\ unacked' = unacked \ {cur}
    /\ pc' = "idle"
    /\ cur' = NoMsg
    /\ UNCHANGED <<ready, link, docs, inbox, buffer, elapsed, faults>>

\* It raises, and so does the basic_nack of the except, which is swallowed:
\* the event stays in the buffer and will be delivered again.
AckRaises ==
    /\ pc = "ack"
    /\ link = "closed"
    /\ pc' = "idle"
    /\ cur' = NoMsg
    /\ UNCHANGED <<brokerVars, docs, inbox, buffer, elapsed, faults>>

StopUnflushed ==  \* mutant
    /\ pc = "idle"
    /\ pc' = "down" /\ buffer' = <<>> /\ inbox' = {}
    /\ UNCHANGED <<brokerVars, docs, elapsed, cur, faults>>

\* An interrupt, or start_consuming raises on the closed connection: the
\* finally of main() flushes what is left.
Stop ==
    /\ pc = "idle"
    /\ pc' = "final"
    /\ UNCHANGED <<brokerVars, docs, inbox, buffer, elapsed, cur, faults>>

\* An interrupt inside handle(), which catches no KeyboardInterrupt: between
\* two calls, or in client.bulk, whose finally empties the buffer.
Interrupted ==
    /\ pc \in {"flush", "ack"}
    /\ faults < MaxFaults
    /\ faults' = faults + 1
    /\ \/ UNCHANGED <<docs, buffer, elapsed>>
       \/ /\ pc = "flush"
          /\ \E is \in SUBSET DOMAIN buffer : Stored(is)
          /\ buffer' = <<>>
          /\ elapsed' = 0
    /\ pc' = "final"
    /\ cur' = NoMsg
    /\ UNCHANGED <<brokerVars, inbox>>

\* The process is killed, and the buffer with it.
Crash ==
    /\ pc # "down"
    /\ faults < MaxFaults
    /\ faults' = faults + 1
    /\ pc' = "down"
    /\ cur' = NoMsg
    /\ buffer' = <<>>
    /\ inbox' = {}
    /\ UNCHANGED <<brokerVars, docs, elapsed>>

-----------------------------------------------------------------------------
(* RabbitMQ and time *)

Deliver(m) ==
    /\ link = "open"
    /\ pc # "down"
    /\ m \in ready
    /\ ready' = ready \ {m}
    /\ unacked' = unacked \cup {m}
    /\ inbox' = inbox \cup {m}
    /\ UNCHANGED <<link, docs, buffer, elapsed, pc, cur, faults>>

CloseLink ==
    /\ link = "open"
    /\ link' = "closed"
    /\ ready' = ready \cup unacked
    /\ unacked' = {}
    /\ UNCHANGED <<docs, inbox, buffer, elapsed, pc, cur>>

LinkLost ==
    /\ pc # "down"
    /\ faults < MaxFaults
    /\ faults' = faults + 1
    /\ CloseLink

LinkReaped ==
    /\ pc = "down"
    /\ CloseLink
    /\ UNCHANGED faults

Tick ==
    /\ pc # "down"
    /\ elapsed < Interval
    /\ elapsed' = elapsed + 1
    /\ UNCHANGED <<brokerVars, docs, inbox, buffer, pc, cur, faults>>

Next ==
    \/ Start \/ Stop \/ Interrupted \/ Crash
    \/ \E m \in Msgs : Add(m) \/ Deliver(m)
    \/ Flush \/ FlushFails
    \/ Ack \/ AckRaises
    \/ LinkLost \/ LinkReaped
    \/ Tick

Spec == Init /\ [][Next]_vars

-----------------------------------------------------------------------------
(* Properties *)

Buffered(m) == \E i \in DOMAIN buffer : buffer[i] = m
Acked(m) == m \notin ready \cup unacked

\* The price of acknowledging before indexing: a crash or a failed request
\* costs at most one buffer of acknowledged events, and without a fault
\* nothing is lost, however often the consumer is stopped.
LossBounded ==
    Cardinality({m \in Msgs : Acked(m) /\ ~Buffered(m) /\ docs[m] = 0}) <= faults * MaxItems

\* No event is stored more often than it was delivered, once and once more
\* for every fault: a flush empties the buffer, also after a request that
\* failed in part, and so is not repeated.
DuplicatesBounded == \A m \in Msgs : docs[m] <= 1 + faults
=============================================================================
