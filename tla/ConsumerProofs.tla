--------------------------- MODULE ConsumerProofs ---------------------------
(***************************************************************************)
(* Theorems about module Consumer, for every set of messages, body,        *)
(* prefetch, number of retries and of faults, in both dead-letter modes.   *)
(***************************************************************************)
EXTENDS Consumer, SequenceTheorems, TLAPS

\* A rejection is always for one of the reasons of RejectReasons.
LEMMA VerdictType == ASSUME NEW b PROVE Verdict(b) \in RejectReasons \cup {Accepted}
  BY DEF Verdict, RejectReasons, Accepted

LEMMA ReasonsType ==
    /\ \A m \in Msgs : Rejected(m) => Verdict(BodyOf[m]) \in Reasons
    /\ "index_failed" \in Reasons
    /\ "processing_exception" \in Reasons
  BY VerdictType DEF Rejected, Reasons, RejectReasons

LEMMA TypeInit == Init => TypeOK
  BY ConsumerAssumption, ReasonsType DEF Init, TypeOK, Pcs, ConsumerAssumption

LEMMA IncType == ASSUME TypeOK, NEW cs, Inc(cs) PROVE count' \in [Counters -> Nat]
  BY DEF TypeOK, Inc

LEMMA IncReasonType ==
    ASSUME TypeOK, NEW r \in Reasons, IncReason(r) PROVE byReason' \in [Reasons -> Nat]
  BY DEF TypeOK, IncReason

LEMMA IndexRaisesType ==
    ASSUME TypeOK, cur \in Msgs, IndexRaises PROVE docs' \in [Msgs -> Nat]
  BY DEF TypeOK, IndexRaises

\* Sending appends a frame for cur to the wire.
LEMMA SendWire ==
    ASSUME TypeOK, cur \in Msgs, NEW op \in {"ack", "nack", "publish"}, Send(op)
    PROVE  /\ Len(wire) \in Nat
           /\ wire' \in Seq(Frame)
           /\ Len(wire') = Len(wire) + 1
           /\ \A i \in 1 .. Len(wire) : wire'[i] = wire[i]
           /\ wire'[Len(wire) + 1].op = op
           /\ wire'[Len(wire) + 1].msg = cur
  <1> DEFINE f == [op |-> op, msg |-> cur]
  <1>1. f \in Frame /\ f.op = op /\ f.msg = cur
    BY DEF Frame
  <1>2. wire \in Seq(Frame)
    BY DEF TypeOK
  <1>3. wire' = Append(wire, f)
    BY DEF Send
  <1>4. Len(wire) \in Nat
    BY <1>2, LenProperties
  <1> HIDE DEF f
  <1>5. QED
    BY <1>1, <1>2, <1>3, <1>4, AppendProperties

\* The broker takes the first frame off the wire.
LEMMA ReadWire ==
    ASSUME TypeOK, NEW op, BrokerReads(op)
    PROVE  /\ Len(wire) \in Nat \ {0}
           /\ Head(wire) = wire[1]
           /\ Head(wire) \in Frame
           /\ Head(wire).msg \in Msgs
           /\ Head(wire).op = op
           /\ wire' \in Seq(Frame)
           /\ Len(wire') = Len(wire) - 1
           /\ \A i \in 1 .. Len(wire') : wire'[i] = wire[i + 1]
  <1>1. wire \in Seq(Frame) /\ wire # <<>> /\ wire' = Tail(wire) /\ Head(wire).op = op
    BY DEF TypeOK, BrokerReads
  <1>2. Len(wire) \in Nat \ {0}
    BY <1>1, EmptySeq
  <1>3. Head(wire) = wire[1]
    BY <1>1
  <1>4. /\ Head(wire) \in Frame
        /\ Tail(wire) \in Seq(Frame)
        /\ Len(Tail(wire)) = Len(wire) - 1
        /\ \A i \in 1 .. Len(Tail(wire)) : Tail(wire)[i] = wire[i + 1]
    BY <1>1, HeadTailProperties
  <1>5. Head(wire).msg \in Msgs
    BY <1>4 DEF Frame
  <1>6. QED
    BY <1>1, <1>2, <1>3, <1>4, <1>5

LEMMA DeadLetterType ==
    ASSUME TypeOK, NEW m \in Msgs, DeadLetter(m) PROVE dlq' \in [Msgs -> Nat]
  BY DEF TypeOK, DeadLetter

LEMMA ReturnType ==
    ASSUME Return
    PROVE  /\ pc' = "idle" /\ cur' = NoMsg
           /\ attempt' \in 0 .. Retries /\ reason' \in Reasons
  BY ReasonsType, ConsumerAssumption DEF Return, ConsumerAssumption

LEMMA DieType ==
    ASSUME Die
    PROVE  /\ pc' = "down" /\ cur' = NoMsg /\ inbox' = {}
           /\ attempt' \in 0 .. Retries /\ reason' \in Reasons
  BY ReasonsType, ConsumerAssumption DEF Die, ConsumerAssumption

\* Type correctness is inductive.
LEMMA TypeNext == TypeOK /\ [Next]_vars => TypeOK'
  <1> SUFFICES ASSUME TypeOK, [Next]_vars PROVE TypeOK'
    OBVIOUS
  <1>0. Retries \in Nat /\ MaxFaults \in Nat
    BY ConsumerAssumption DEF ConsumerAssumption
  <1> USE DEF TypeOK, Pcs
  <1>1. CASE UNCHANGED vars
    BY <1>1 DEF vars
  <1>2. CASE Start
    BY <1>2 DEF Start
  <1>3. ASSUME NEW m \in Msgs, HandleAccept(m) PROVE TypeOK'
    BY <1>3, IncType DEF HandleAccept, brokerVars
  <1>4. ASSUME NEW m \in Msgs, HandleReject(m) PROVE TypeOK'
    <2>1. count' \in [Counters -> Nat]
      BY <1>4, IncType DEF HandleReject
    <2>2. reason' \in Reasons
      BY <1>4, ReasonsType DEF HandleReject
    <2>3. QED
      BY <1>4, <2>1, <2>2 DEF HandleReject, DeadLetterPc, brokerVars
  <1>5. CASE IndexOk
    <2>1. docs' \in [Msgs -> Nat]
      BY <1>5 DEF IndexOk
    <2>2. QED
      BY <1>5, <2>1 DEF IndexOk, brokerVars, meterVars
  <1>6. CASE IndexRetry
    <2>1. docs' \in [Msgs -> Nat] /\ count' \in [Counters -> Nat]
      BY <1>6, IndexRaisesType, IncType DEF IndexRetry
    <2>2. attempt' \in 0 .. Retries
      BY <1>0, <1>6 DEF IndexRetry
    <2>3. QED
      BY <1>6, <2>1, <2>2 DEF IndexRetry, brokerVars
  <1>7. CASE IndexExhausted
    <2>1. docs' \in [Msgs -> Nat] /\ count' \in [Counters -> Nat]
      BY <1>7, IndexRaisesType, IncType DEF IndexExhausted, IndexFailed
    <2>2. byReason' \in [Reasons -> Nat] /\ reason' \in Reasons
      BY <1>7, IncReasonType, ReasonsType DEF IndexExhausted, IndexFailed
    <2>3. QED
      BY <1>7, <2>1, <2>2 DEF IndexExhausted, IndexFailed, DeadLetterPc, brokerVars
  <1>8. CASE AckIndexed
    <2>1. wire' \in Seq(Frame) /\ count' \in [Counters -> Nat]
      BY <1>8, SendWire, IncType DEF AckIndexed
    <2>2. QED
      BY <1>8, <2>1, ReturnType DEF AckIndexed
  <1>9. CASE AckIndexedRaises
    <2>1. count' \in [Counters -> Nat] /\ byReason' \in [Reasons -> Nat] /\ reason' \in Reasons
      BY <1>9, IncType, IncReasonType, ReasonsType DEF AckIndexedRaises, IndexFailed
    <2>2. QED
      BY <1>9, <2>1 DEF AckIndexedRaises, IndexFailed, DeadLetterPc, brokerVars
  <1>10. CASE Nack
    <2>1. wire' \in Seq(Frame) /\ count' \in [Counters -> Nat]
      BY <1>10, SendWire, IncType DEF Nack
    <2>2. byReason' \in [Reasons -> Nat]
      BY <1>10, IncReasonType DEF Nack
    <2>3. QED
      BY <1>10, <2>1, <2>2, ReturnType DEF Nack
  <1>11. CASE NackRaises
    BY <1>11, ReturnType DEF NackRaises, brokerVars, meterVars
  <1>12. CASE PublishDlx
    <2>1. wire' \in Seq(Frame) /\ count' \in [Counters -> Nat]
      BY <1>12, SendWire, IncType DEF PublishDlx
    <2>2. byReason' \in [Reasons -> Nat]
      BY <1>12, IncReasonType DEF PublishDlx
    <2>3. QED
      BY <1>12, <2>1, <2>2 DEF PublishDlx
  <1>13. CASE PublishDlxRaises
    BY <1>13 DEF PublishDlxRaises, brokerVars, meterVars
  <1>14. CASE AckDead
    <2>1. wire' \in Seq(Frame)
      BY <1>14, SendWire DEF AckDead
    <2>2. QED
      BY <1>14, <2>1, ReturnType DEF AckDead, meterVars
  <1>15. CASE AckDeadRaises
    BY <1>15, ReturnType, ReasonsType DEF AckDeadRaises, brokerVars, meterVars
  <1>16. CASE Exit
    BY <1>16, DieType DEF Exit, brokerVars, meterVars
  <1>17. CASE Crash
    BY <1>0, <1>17, DieType DEF Crash, brokerVars, meterVars
  <1>18. ASSUME NEW m \in Msgs, Publish(m) PROVE TypeOK'
    BY <1>18 DEF Publish, localVars, meterVars
  <1>19. ASSUME NEW m \in Msgs, Deliver(m) PROVE TypeOK'
    BY <1>19 DEF Deliver, localVars, meterVars
  <1>21. CASE BrokerAck
    BY <1>21, ReadWire DEF BrokerAck, BrokerReads, localVars, meterVars
  <1>22. CASE BrokerNack
    BY <1>22, ReadWire, DeadLetterType DEF BrokerNack, BrokerReads, localVars, meterVars
  <1>23. CASE BrokerPublish
    BY <1>23, ReadWire, DeadLetterType DEF BrokerPublish, BrokerReads, localVars, meterVars
  <1>24. CASE LinkLost
    BY <1>0, <1>24 DEF LinkLost, CloseLink, localVars, meterVars
  <1>25. CASE LinkReaped
    BY <1>25 DEF LinkReaped, CloseLink, localVars, meterVars
  <1>26. QED
    BY <1>1, <1>2, <1>3, <1>4, <1>5, <1>6, <1>7, <1>8, <1>9, <1>10, <1>11, <1>12, <1>13,
       <1>14, <1>15, <1>16, <1>17, <1>18, <1>19, <1>21, <1>22, <1>23, <1>24, <1>25
       DEF Next, Process, Broker

\* Every variable keeps its type; in particular the attempts of index_event
\* never exceed its retries.
THEOREM TypeCorrect == Spec => []TypeOK
  BY TypeInit, TypeNext, PTL DEF Spec

-----------------------------------------------------------------------------
(* The wire and the queues *)

LEMMA LinkInit == Init => LinkInv
  BY DEF Init, LinkInv, QueuesDisjoint, OpenLink, ClosedLink, DownIsEmpty, Handling

\* Steps of handle() that neither touch the connection nor end the handling
\* keep the invariant when cur stays the same and no frame of it is out.
LEMMA LinkLocal ==
    ASSUME TypeOK, LinkInv, UNCHANGED brokerVars, UNCHANGED <<inbox, cur>>,
           pc \in {"index", "ack"} \/ link = "closed",
           Handling, Handling' \/ (pc' = "exit" /\ link = "closed"), pc' # "down"
    PROVE  LinkInv'
  BY DEF LinkInv, QueuesDisjoint, OpenLink, ClosedLink, DownIsEmpty, Handling, brokerVars, TypeOK

\* handle() returns on a closed connection.
LEMMA LinkReturnClosed ==
    ASSUME TypeOK, LinkInv, UNCHANGED brokerVars, UNCHANGED inbox, Return, link = "closed"
    PROVE  LinkInv'
  BY DEF LinkInv, QueuesDisjoint, OpenLink, ClosedLink, DownIsEmpty, Handling, Return,
         brokerVars, TypeOK

\* handle() settles its delivery and returns.
LEMMA LinkSettle ==
    ASSUME TypeOK, LinkInv, cur \in Msgs, link = "open", pc \in {"ack", "nack", "ackDead"},
           NEW op \in {"ack", "nack"}, Send(op), Return,
           UNCHANGED <<unsent, ready, unacked, link, inbox>>
    PROVE  LinkInv'
  <1>1. /\ Len(wire) \in Nat /\ Len(wire') = Len(wire) + 1
        /\ \A i \in 1 .. Len(wire) : wire'[i] = wire[i]
        /\ wire'[Len(wire) + 1].op = op /\ wire'[Len(wire) + 1].msg = cur
    BY SendWire
  <1>2. /\ cur \in unacked \ inbox
        /\ \A i \in 1 .. Len(wire) : /\ wire[i].msg \in unacked \ inbox
                                     /\ wire[i].msg = cur => ~Settles(wire[i])
        /\ \A i, j \in 1 .. Len(wire) : i < j /\ Settles(wire[i]) => wire[j].msg # wire[i].msg
    BY DEF LinkInv, OpenLink, Handling, Settles
  <1>3. pc' = "idle" /\ ~Handling'
    BY DEF Return, Handling
  <1>4. \A i \in 1 .. Len(wire') : wire'[i].msg \in unacked \ inbox
    BY <1>1, <1>2
  <1>5. ASSUME NEW i \in 1 .. Len(wire'), NEW j \in 1 .. Len(wire'), i < j, Settles(wire'[i])
        PROVE  wire'[j].msg # wire'[i].msg
    <2>1. i \in 1 .. Len(wire) /\ wire'[i] = wire[i] /\ Settles(wire[i])
      BY <1>1, <1>5
    <2>2. CASE j \in 1 .. Len(wire)
      BY <1>1, <1>2, <1>5, <2>1, <2>2
    <2>3. CASE j = Len(wire) + 1
      BY <1>1, <1>2, <2>1, <2>3
    <2>4. QED
      BY <1>1, <2>2, <2>3
  <1>6. OpenLink'
    BY <1>2, <1>3, <1>4, <1>5 DEF OpenLink, LinkInv, Settles
  <1>7. QED
    BY <1>3, <1>6 DEF LinkInv, QueuesDisjoint, ClosedLink, DownIsEmpty

\* The broker takes a frame off the wire; a settlement ends the delivery.
LEMMA LinkRead ==
    ASSUME TypeOK, LinkInv, NEW op \in {"ack", "nack", "publish"}, BrokerReads(op),
           unacked' = IF op = "publish" THEN unacked ELSE unacked \ {Head(wire).msg}
    PROVE  LinkInv'
  <1> DEFINE h == wire[1]
  <1>1. /\ Len(wire) \in Nat \ {0} /\ Head(wire) = h /\ h.op = op
        /\ Len(wire') = Len(wire) - 1
        /\ \A i \in 1 .. Len(wire') : wire'[i] = wire[i + 1]
    BY ReadWire
  <1>2. link = "open" /\ UNCHANGED <<unsent, ready, link, inbox, pc, cur>>
    BY DEF BrokerReads, localVars
  <1>3. /\ pc # "exit" /\ inbox \subseteq unacked
        /\ Handling => cur \in unacked \ inbox
        /\ \A i \in 1 .. Len(wire) :
              /\ wire[i].msg \in unacked \ inbox
              /\ Handling /\ wire[i].msg = cur => pc = "ackDead" /\ wire[i].op = "publish"
        /\ \A i, j \in 1 .. Len(wire) : i < j /\ Settles(wire[i]) => wire[j].msg # wire[i].msg
    BY <1>2 DEF LinkInv, OpenLink
  <1>4. h.msg \in unacked \ inbox
    BY <1>1, <1>3
  <1>5. op # "publish" => Settles(h) /\ (Handling => h.msg # cur)
    BY <1>1, <1>3 DEF Settles
  <1>6. \A i \in 1 .. Len(wire') : op # "publish" => wire[i + 1].msg # h.msg
    BY <1>1, <1>3, <1>5
  <1>7. \A i \in 1 .. Len(wire') : i + 1 \in 1 .. Len(wire) /\ wire'[i] = wire[i + 1]
    BY <1>1
  <1>8. inbox \subseteq unacked' /\ (Handling => cur \in unacked' \ inbox)
    BY <1>1, <1>3, <1>4, <1>5
  <1>9. \A i \in 1 .. Len(wire') :
           /\ wire'[i].msg \in unacked' \ inbox
           /\ Handling /\ wire'[i].msg = cur => pc = "ackDead" /\ wire'[i].op = "publish"
    BY <1>1, <1>3, <1>6, <1>7
  <1>10. (\A i, j \in 1 .. Len(wire) :
             i < j /\ Settles(wire[i]) => wire[j].msg # wire[i].msg)'
    BY <1>1, <1>3, <1>7 DEF Settles
  <1>11. (\A i \in 1 .. Len(wire) :
             /\ wire[i].msg \in unacked \ inbox
             /\ Handling /\ wire[i].msg = cur => pc = "ackDead" /\ wire[i].op = "publish")'
    BY <1>2, <1>9 DEF Handling
  <1>12. (pc # "exit" /\ inbox \subseteq unacked /\ (Handling => cur \in unacked \ inbox))'
    BY <1>2, <1>3, <1>8 DEF Handling
  <1>13. OpenLink'
    BY <1>10, <1>11, <1>12 DEF OpenLink
  <1>14. QED
    BY <1>2, <1>13 DEF LinkInv, QueuesDisjoint, ClosedLink, DownIsEmpty

LEMMA LinkNext == TypeOK /\ LinkInv /\ [Next]_vars => LinkInv'
  <1> SUFFICES ASSUME TypeOK, LinkInv, [Next]_vars PROVE LinkInv'
    OBVIOUS
  <1> USE DEF LinkInv, QueuesDisjoint, OpenLink, ClosedLink, DownIsEmpty, Handling
  <1>1. CASE UNCHANGED vars
    BY <1>1 DEF vars, Settles
  <1>2. CASE Start
    BY <1>2, EmptySeq DEF Start, Settles
  <1>3. ASSUME NEW m \in Msgs, HandleAccept(m) \/ HandleReject(m) PROVE LinkInv'
    <2>1. /\ pc = "idle" /\ m \in inbox /\ inbox' = inbox \ {m} /\ cur' = m
          /\ pc' \in {"index", "publish", "nack"} /\ UNCHANGED brokerVars
      BY <1>3 DEF HandleAccept, HandleReject, DeadLetterPc
    <2>2. QED
      BY <2>1 DEF brokerVars, Settles
  <1>4. CASE IndexOk \/ IndexRetry \/ IndexExhausted \/ AckIndexedRaises
    <2>1. /\ pc \in {"index", "ack"} /\ pc' \in {"index", "ack", "publish", "nack"}
          /\ UNCHANGED brokerVars /\ UNCHANGED <<inbox, cur>>
      BY <1>4 DEF IndexOk, IndexRetry, IndexExhausted, IndexFailed, AckIndexedRaises, DeadLetterPc
    <2>2. QED
      BY <2>1, LinkLocal
  <1>5. CASE PublishDlxRaises
    <2>1. /\ pc = "publish" /\ pc' = "exit" /\ link = "closed"
          /\ UNCHANGED brokerVars /\ UNCHANGED <<inbox, cur>>
      BY <1>5 DEF PublishDlxRaises
    <2>2. QED
      BY <2>1, LinkLocal
  <1>6. CASE NackRaises
    BY <1>6, LinkReturnClosed DEF NackRaises
  <1>7. CASE AckDeadRaises
    <2>1. CASE reason = "processing_exception"
      BY <1>7, <2>1, LinkReturnClosed DEF AckDeadRaises
    <2>2. CASE reason # "processing_exception"
      <3>1. /\ pc = "ackDead" /\ pc' = "publish" /\ link = "closed"
            /\ UNCHANGED brokerVars /\ UNCHANGED <<inbox, cur>>
        BY <1>7, <2>2 DEF AckDeadRaises
      <3>2. QED
        BY <3>1, LinkLocal
    <2>3. QED
      BY <2>1, <2>2
  <1>8. CASE AckIndexed \/ AckDead
    <2>1. /\ pc \in {"ack", "ackDead"} /\ link = "open" /\ Send("ack") /\ Return
          /\ UNCHANGED <<unsent, ready, unacked, link, inbox>>
      BY <1>8 DEF AckIndexed, AckDead
    <2>2. cur \in Msgs
      BY <2>1 DEF TypeOK
    <2>3. QED
      BY <2>1, <2>2, LinkSettle
  <1>9. CASE Nack
    <2>1. /\ pc = "nack" /\ link = "open" /\ Send("nack") /\ Return
          /\ UNCHANGED <<unsent, ready, unacked, link, inbox>>
      BY <1>9 DEF Nack
    <2>2. cur \in Msgs
      BY <2>1 DEF TypeOK
    <2>3. QED
      BY <2>1, <2>2, LinkSettle
  <1>10. CASE PublishDlx
    <2>1. /\ pc = "publish" /\ link = "open" /\ Send("publish") /\ pc' = "ackDead"
          /\ UNCHANGED <<unsent, ready, unacked, link, inbox, cur>>
      BY <1>10 DEF PublishDlx
    <2>2. cur \in Msgs
      BY <2>1 DEF TypeOK
    <2>3. /\ Len(wire) \in Nat /\ Len(wire') = Len(wire) + 1
          /\ \A i \in 1 .. Len(wire) : wire'[i] = wire[i]
          /\ wire'[Len(wire) + 1].op = "publish" /\ wire'[Len(wire) + 1].msg = cur
      BY <2>1, <2>2, SendWire
    <2>4. /\ cur \in unacked \ inbox
          /\ \A i \in 1 .. Len(wire) : wire[i].msg \in unacked \ inbox /\ wire[i].msg # cur
          /\ \A i, j \in 1 .. Len(wire) : i < j /\ Settles(wire[i]) => wire[j].msg # wire[i].msg
      BY <2>1
    <2>5. \A i \in 1 .. Len(wire') :
             /\ wire'[i].msg \in unacked \ inbox
             /\ wire'[i].msg = cur => wire'[i].op = "publish"
      BY <2>3, <2>4
    <2>6. \A i, j \in 1 .. Len(wire') :
             i < j /\ Settles(wire'[i]) => wire'[j].msg # wire'[i].msg
      BY <2>3, <2>4 DEF Settles
    <2>7. QED
      BY <2>1, <2>4, <2>5, <2>6 DEF Settles
  <1>11. CASE Exit \/ Crash
    <2>1. pc' = "down" /\ inbox' = {} /\ UNCHANGED brokerVars
      BY <1>11 DEF Exit, Crash, Die
    <2>2. QED
      BY <2>1 DEF brokerVars, Settles
  <1>12. ASSUME NEW m \in Msgs, Publish(m) PROVE LinkInv'
    BY <1>12 DEF Publish, localVars, Settles
  <1>13. ASSUME NEW m \in Msgs, Deliver(m) PROVE LinkInv'
    BY <1>13 DEF Deliver, localVars, Settles
  <1>14. CASE BrokerAck
    BY <1>14, LinkRead DEF BrokerAck
  <1>15. CASE BrokerNack
    BY <1>15, LinkRead DEF BrokerNack
  <1>16. CASE BrokerPublish
    BY <1>16, LinkRead DEF BrokerPublish
  <1>17. CASE LinkLost \/ LinkReaped
    <2>1. CloseLink
      BY <1>17 DEF LinkLost, LinkReaped
    <2>2. QED
      BY <2>1 DEF CloseLink, localVars
  <1>18. QED
    BY <1>1, <1>2, <1>3, <1>4, <1>5, <1>6, <1>7, <1>8, <1>9, <1>10, <1>11, <1>12, <1>13,
       <1>14, <1>15, <1>16, <1>17
       DEF Next, Process, Broker

\* Every settlement on its way to the broker is for an outstanding delivery,
\* and is the last word on it.
THEOREM TagsStayOutstanding == Spec => []TagsOutstanding
  <1>1. Init => TypeOK /\ LinkInv
    BY TypeInit, LinkInit
  <1>2. (TypeOK /\ LinkInv) /\ [Next]_vars => (TypeOK /\ LinkInv)'
    BY TypeNext, LinkNext
  <1>3. TypeOK /\ LinkInv => TagsOutstanding
    <2> SUFFICES ASSUME TypeOK, LinkInv, NEW i \in 1 .. Len(wire)
                 PROVE  /\ wire[i].msg \in unacked
                        /\ Settles(wire[i]) =>
                              \A j \in i + 1 .. Len(wire) : wire[j].msg # wire[i].msg
      BY DEF TagsOutstanding
    <2>1. Len(wire) \in Nat
      BY LenProperties DEF TypeOK
    <2>2. link = "open"
      <3>1. wire # <<>>
        BY EmptySeq
      <3>2. QED
        BY <3>1 DEF LinkInv, ClosedLink, TypeOK
    <2>3. QED
      BY <2>1, <2>2 DEF LinkInv, OpenLink
  <1>4. QED
    BY <1>1, <1>2, <1>3, PTL DEF Spec

-----------------------------------------------------------------------------
(* No event is lost *)

\* Copies are never taken back.
LEMMA HeldMonotone ==
    ASSUME TypeOK, [Next]_vars, NEW m \in Msgs
    PROVE  /\ docs[m] > 0 => docs'[m] > 0
           /\ dlq[m] > 0 => dlq'[m] > 0
  <1>1. docs[m] \in Nat /\ dlq[m] \in Nat /\ DOMAIN docs = Msgs /\ DOMAIN dlq = Msgs
    BY DEF TypeOK
  <1>2. CASE IndexOk \/ IndexRetry \/ IndexExhausted
    <2>1. docs' \in {docs, [docs EXCEPT ![cur] = @ + 1]} /\ UNCHANGED dlq
      BY <1>2 DEF IndexOk, IndexRetry, IndexExhausted, IndexRaises, brokerVars
    <2>2. QED
      BY <1>1, <2>1
  <1>3. ASSUME NEW op, BrokerReads(op), UNCHANGED dlq \/ DeadLetter(Head(wire).msg)
        PROVE  /\ docs[m] > 0 => docs'[m] > 0
               /\ dlq[m] > 0 => dlq'[m] > 0
        <2>1. UNCHANGED docs
      BY <1>3 DEF BrokerReads
    <2>2. dlq' = dlq \/ dlq' = [dlq EXCEPT ![Head(wire).msg] = @ + 1]
      BY <1>3 DEF DeadLetter
    <2>3. QED
      BY <1>1, <2>1, <2>2
  <1>4. CASE UNCHANGED <<docs, dlq>>
    BY <1>4
  <1>5. QED
    BY <1>2, <1>3, <1>4 DEF Next, Process, Broker, vars, brokerVars, HandleAccept, HandleReject,
       AckIndexed, AckIndexedRaises, Nack, NackRaises, PublishDlx, PublishDlxRaises, AckDead,
       AckDeadRaises, Exit, Crash, Start, Publish, Deliver, LinkLost, LinkReaped, CloseLink,
       BrokerAck, BrokerNack, BrokerPublish

LEMMA KeptMonotone == TypeOK /\ [Next]_vars => Kept \subseteq Kept'
  BY HeldMonotone DEF Kept

LEMMA WireMsgs ==
    ASSUME TypeOK
    PROVE  Len(wire) \in Nat /\ \A k \in 1 .. Len(wire) : wire[k].msg \in Msgs
  <1>1. Len(wire) \in Nat /\ wire \in [1 .. Len(wire) -> Frame]
    BY LenProperties DEF TypeOK
  <1>2. QED
    BY <1>1 DEF Frame

\* Only the broker settles a message, and it settles the one whose frame it
\* reads.
LEMMA SettledByBroker ==
    ASSUME TypeOK, [Next]_vars, NEW m \in Msgs, Settled(m)', ~Settled(m)
    PROVE  (BrokerAck \/ BrokerNack) /\ m = Head(wire).msg
  <1>1. CASE \E k \in Msgs : Publish(k) \/ Deliver(k)
    BY <1>1 DEF Publish, Deliver, Settled, Pending
  <1>2. CASE LinkLost \/ LinkReaped
    BY <1>2 DEF LinkLost, LinkReaped, CloseLink, Settled, Pending
  <1>3. CASE BrokerAck \/ BrokerNack
    BY <1>3 DEF BrokerAck, BrokerNack, BrokerReads, Settled, Pending
  <1>4. CASE UNCHANGED <<unsent, ready, unacked>>
    BY <1>4 DEF Settled, Pending
  <1>5. QED
    BY <1>1, <1>2, <1>3, <1>4 DEF Next, Process, Broker, vars, brokerVars, HandleAccept,
       HandleReject, IndexOk, IndexRetry, IndexExhausted, AckIndexed, AckIndexedRaises, Nack,
       NackRaises, PublishDlx, PublishDlxRaises, AckDead, AckDeadRaises, Exit, Crash, Start,
       BrokerPublish, BrokerReads

LEMMA HoldInit == TypeOK /\ Init => HoldInv /\ NoLoss
  BY DEF Init, HoldInv, NoLoss, Settled, Pending, TypeOK

\* Sending an acknowledgement for a message a copy of which is held, or is on
\* the wire already.
LEMMA HoldAck ==
    ASSUME TypeOK, [Next]_vars, HoldInv, cur \in Msgs, Send("ack"), Return,
           \/ cur \in Kept
           \/ \E j \in 1 .. Len(wire) : wire[j].op = "publish" /\ wire[j].msg = cur
    PROVE  HoldInv'
  <1>1. /\ Len(wire) \in Nat /\ Len(wire') = Len(wire) + 1
        /\ \A i \in 1 .. Len(wire) : wire'[i] = wire[i]
        /\ wire'[Len(wire) + 1].op = "ack" /\ wire'[Len(wire) + 1].msg = cur
    BY SendWire
  <1>2. pc' = "idle"
    BY DEF Return
  <1>3. SUFFICES ASSUME NEW i \in 1 .. Len(wire'), wire'[i].op = "ack"
                 PROVE  \/ wire'[i].msg \in Kept'
                        \/ \E j \in 1 .. i - 1 :
                              wire'[j].op = "publish" /\ wire'[j].msg = wire'[i].msg
    BY <1>2 DEF HoldInv
  <1>4. \A k \in 1 .. Len(wire) : wire[k].msg \in Msgs
    BY WireMsgs
  <1>5. CASE i \in 1 .. Len(wire)
    <2>1. wire'[i] = wire[i] /\ wire[i].msg \in Msgs
      BY <1>1, <1>4, <1>5
    <2>2. \/ wire[i].msg \in Kept
          \/ \E j \in 1 .. i - 1 : wire[j].op = "publish" /\ wire[j].msg = wire[i].msg
      BY <1>3, <1>5, <2>1 DEF HoldInv
    <2>3. wire[i].msg \in Kept => wire'[i].msg \in Kept'
      BY <2>1, KeptMonotone
    <2>4. \A j \in 1 .. i - 1 : wire'[j] = wire[j]
      BY <1>1, <1>5
    <2>5. QED
      BY <2>1, <2>2, <2>3, <2>4
  <1>6. CASE i = Len(wire) + 1
    <2>1. wire'[i].msg = cur
      BY <1>1, <1>6
    <2>2. cur \in Kept => wire'[i].msg \in Kept'
      BY <2>1, KeptMonotone
    <2>3. i - 1 = Len(wire)
      BY <1>1, <1>6
    <2>4. QED
      BY <1>1, <2>1, <2>2, <2>3
  <1>7. QED
    BY <1>1, <1>3, <1>5, <1>6

\* The broker reads a frame: if it was the publish that an acknowledgement
\* relied on, the DLQ has the copy now.
LEMMA HoldRead ==
    ASSUME DlqBound, TypeOK, [Next]_vars, HoldInv, NEW op, BrokerReads(op),
           op = "publish" => DeadLetter(Head(wire).msg)
    PROVE  HoldInv'
  <1>1. /\ Len(wire) \in Nat \ {0} /\ Head(wire) = wire[1] /\ wire[1].op = op
        /\ wire[1].msg \in Msgs
        /\ Len(wire') = Len(wire) - 1
        /\ \A i \in 1 .. Len(wire') : wire'[i] = wire[i + 1]
    BY ReadWire
  <1>2. UNCHANGED <<docs, pc, cur, link>>
    BY DEF BrokerReads, localVars
  <1>3. \A k \in 1 .. Len(wire) : wire[k].msg \in Msgs
    BY WireMsgs
  <1>4. op = "publish" => wire[1].msg \in Kept'
    <2>1. op = "publish" => dlq'[wire[1].msg] = dlq[wire[1].msg] + 1
      BY <1>1 DEF DeadLetter, TypeOK
    <2>2. dlq[wire[1].msg] \in Nat
      BY <1>1 DEF TypeOK
    <2>3. QED
      BY <1>1, <1>2, <2>1, <2>2 DEF Kept
  <1>5. ASSUME NEW m \in Msgs, NEW n \in 0 .. Len(wire') + 1,
               m \in Kept \/ \E j \in 1 .. n : wire[j].op = "publish" /\ wire[j].msg = m
        PROVE  m \in Kept' \/ \E j \in 1 .. n - 1 : wire'[j].op = "publish" /\ wire'[j].msg = m
    <2>1. CASE m \in Kept
      BY <2>1, KeptMonotone
    <2>2. ASSUME NEW j \in 1 .. n, wire[j].op = "publish", wire[j].msg = m
          PROVE  m \in Kept' \/ \E k \in 1 .. n - 1 : wire'[k].op = "publish" /\ wire'[k].msg = m
      <3>1. CASE j = 1
        BY <1>1, <1>4, <2>2, <3>1
      <3>2. CASE j # 1
        <4>1. j - 1 \in 1 .. n - 1 /\ j - 1 \in 1 .. Len(wire') /\ (j - 1) + 1 = j
          BY <1>1, <3>2
        <4>2. wire'[j - 1] = wire[j]
          BY <1>1, <4>1
        <4>3. QED
          BY <2>2, <4>1, <4>2
      <3>3. QED
        BY <3>1, <3>2
    <2>3. QED
      BY <1>5, <2>1, <2>2
  <1>6. pc' = "ack" => docs'[cur'] > 0
    BY <1>2 DEF HoldInv
  <1>7. ASSUME NEW i \in 1 .. Len(wire'), wire'[i].op = "ack"
        PROVE  \/ wire'[i].msg \in Kept'
               \/ \E j \in 1 .. i - 1 : wire'[j].op = "publish" /\ wire'[j].msg = wire'[i].msg
    <2>1. i + 1 \in 1 .. Len(wire) /\ wire'[i] = wire[i + 1] /\ (i + 1) - 1 = i
      BY <1>1
    <2>2. \/ wire[i + 1].msg \in Kept
          \/ \E j \in 1 .. i : wire[j].op = "publish" /\ wire[j].msg = wire[i + 1].msg
      BY <1>7, <2>1 DEF HoldInv
    <2> DEFINE m == wire[i + 1].msg
    <2>3. m \in Msgs /\ i \in 0 .. Len(wire') + 1
      BY <1>1, <1>3, <2>1
    <2>4. m \in Kept' \/ \E j \in 1 .. i - 1 : wire'[j].op = "publish" /\ wire'[j].msg = m
      <3> HIDE DEF m
      <3>1. m \in Kept \/ \E j \in 1 .. i : wire[j].op = "publish" /\ wire[j].msg = m
        BY <2>2 DEF m
      <3>2. QED
        BY <1>5, <2>3, <3>1
    <2>5. QED
      BY <2>1, <2>4
  <1>8. pc' = "ackDead" /\ link' = "open" =>
           \/ cur' \in Kept'
           \/ \E j \in 1 .. Len(wire') : wire'[j].op = "publish" /\ wire'[j].msg = cur'
    <2>1. SUFFICES ASSUME pc = "ackDead", link = "open"
                   PROVE  \/ cur \in Kept'
                          \/ \E j \in 1 .. Len(wire') : wire'[j].op = "publish" /\ wire'[j].msg = cur
      BY <1>2
    <2>2. cur \in Msgs
      BY <2>1 DEF TypeOK
    <2>3. cur \in Kept \/ \E j \in 1 .. Len(wire) : wire[j].op = "publish" /\ wire[j].msg = cur
      BY <2>1 DEF HoldInv
    <2>4. Len(wire) \in 0 .. Len(wire') + 1 /\ Len(wire) - 1 = Len(wire')
      BY <1>1
    <2>5. QED
      BY <1>5, <2>2, <2>3, <2>4, <1>2
  <1>9. QED
    BY <1>6, <1>7, <1>8 DEF HoldInv

\* Steps that leave the wire alone, and are not about to acknowledge unless
\* they already were.
LEMMA HoldLocal ==
    ASSUME TypeOK, [Next]_vars, HoldInv, UNCHANGED wire,
           pc' = "ack" => docs'[cur'] > 0,
           pc' = "ackDead" => pc = "ackDead" /\ UNCHANGED <<cur, link>>
    PROVE  HoldInv'
  <1>1. Kept \subseteq Kept'
    BY KeptMonotone
  <1>2. QED
    BY <1>1 DEF HoldInv

LEMMA HoldNext == DlqBound /\ TypeOK /\ HoldInv /\ [Next]_vars => HoldInv'
  <1> SUFFICES ASSUME DlqBound, TypeOK, HoldInv, [Next]_vars PROVE HoldInv'
    OBVIOUS
  <1>1. CASE UNCHANGED vars
    <2>1. UNCHANGED <<wire, docs, pc, cur, link>>
      BY <1>1 DEF vars
    <2>2. QED
      BY <2>1, HoldLocal DEF HoldInv
  <1>2. CASE \/ Start \/ Exit \/ Crash
             \/ \E m \in Msgs : HandleAccept(m) \/ HandleReject(m)
             \/ IndexRetry \/ IndexExhausted \/ AckIndexedRaises
             \/ NackRaises \/ PublishDlxRaises \/ AckDeadRaises
    <2>1. UNCHANGED wire /\ pc' \notin {"ack", "ackDead"}
      BY <1>2 DEF Start, Exit, Crash, Die, HandleAccept, HandleReject, IndexRetry,
         IndexExhausted, IndexFailed, AckIndexedRaises, NackRaises, PublishDlxRaises,
         AckDeadRaises, DeadLetterPc, Return, brokerVars
    <2>2. QED
      BY <2>1, HoldLocal
  <1>3. CASE IndexOk
    <2>1. /\ UNCHANGED wire /\ pc' = "ack" /\ cur' = cur /\ cur \in Msgs
          /\ docs' = [docs EXCEPT ![cur] = @ + 1]
      BY <1>3 DEF IndexOk, brokerVars, TypeOK
    <2>2. docs'[cur] > 0
      BY <2>1 DEF TypeOK
    <2>3. QED
      BY <2>1, <2>2, HoldLocal
  <1>4. CASE AckIndexed
    <2>1. pc = "ack" /\ Send("ack") /\ Return /\ cur \in Msgs
      BY <1>4 DEF AckIndexed, TypeOK
    <2>2. cur \in Kept
      BY <2>1 DEF HoldInv, Kept
    <2>3. QED
      BY <2>1, <2>2, HoldAck
  <1>5. CASE AckDead
    <2>1. pc = "ackDead" /\ link = "open" /\ Send("ack") /\ Return /\ cur \in Msgs
      BY <1>5 DEF AckDead, TypeOK
    <2>2. QED
      BY <2>1, HoldAck DEF HoldInv
  <1>6. CASE Nack \/ PublishDlx
    <2>1. PICK op \in {"nack", "publish"} :
             /\ Send(op) /\ cur \in Msgs /\ pc' # "ack"
             /\ pc' = "ackDead" => op = "publish" /\ cur' = cur
      BY <1>6 DEF Nack, PublishDlx, Return, TypeOK
    <2>2. /\ Len(wire) \in Nat /\ Len(wire') = Len(wire) + 1
          /\ \A i \in 1 .. Len(wire) : wire'[i] = wire[i]
          /\ wire'[Len(wire) + 1].op = op /\ wire'[Len(wire) + 1].msg = cur
      BY <2>1, SendWire
    <2>3. ASSUME NEW i \in 1 .. Len(wire'), wire'[i].op = "ack"
          PROVE  \/ wire'[i].msg \in Kept'
                 \/ \E j \in 1 .. i - 1 : wire'[j].op = "publish" /\ wire'[j].msg = wire'[i].msg
      <3>1. i \in 1 .. Len(wire) /\ wire'[i] = wire[i]
        BY <2>1, <2>2, <2>3
      <3>2. \/ wire[i].msg \in Kept
            \/ \E j \in 1 .. i - 1 : wire[j].op = "publish" /\ wire[j].msg = wire[i].msg
        BY <2>3, <3>1 DEF HoldInv
      <3>3. \A j \in 1 .. i - 1 : wire'[j] = wire[j]
        BY <2>2, <3>1
      <3>4. QED
        BY <3>1, <3>2, <3>3, KeptMonotone
    <2>4. pc' = "ackDead" =>
             \E j \in 1 .. Len(wire') : wire'[j].op = "publish" /\ wire'[j].msg = cur'
      BY <2>1, <2>2
    <2>5. QED
      BY <2>1, <2>3, <2>4 DEF HoldInv
  <1>7. CASE BrokerAck
    BY <1>7, HoldRead DEF BrokerAck
  <1>8. CASE BrokerNack
    BY <1>8, HoldRead DEF BrokerNack
  <1>9. CASE BrokerPublish
    BY <1>9, HoldRead DEF BrokerPublish
  <1>10. CASE \E m \in Msgs : Publish(m) \/ Deliver(m)
    <2>1. UNCHANGED <<wire, docs, pc, cur, link>>
      BY <1>10 DEF Publish, Deliver, localVars
    <2>2. QED
      BY <2>1, HoldLocal DEF HoldInv
  <1>11. CASE LinkLost \/ LinkReaped
    <2>1. link' = "closed" /\ wire' = <<>> /\ UNCHANGED <<docs, pc, cur>>
      BY <1>11 DEF LinkLost, LinkReaped, CloseLink, localVars
    <2>2. Len(wire') = 0
      BY <2>1, EmptySeq
    <2>3. QED
      BY <2>1, <2>2 DEF HoldInv
  <1>12. QED
    BY <1>1, <1>2, <1>3, <1>4, <1>5, <1>6, <1>7, <1>8, <1>9, <1>10, <1>11
       DEF Next, Process, Broker

LEMMA NoLossNext == DlqBound /\ TypeOK /\ HoldInv /\ NoLoss /\ [Next]_vars => NoLoss'
  <1> SUFFICES ASSUME DlqBound, TypeOK, HoldInv, NoLoss, [Next]_vars,
                      NEW m \in Msgs, Settled(m)'
               PROVE  docs'[m] > 0 \/ dlq'[m] > 0
    BY DEF NoLoss
  <1>1. CASE Settled(m)
    BY <1>1, HeldMonotone DEF NoLoss
  <1>2. CASE ~Settled(m) /\ BrokerAck
    <2>1. BrokerReads("ack") /\ m = Head(wire).msg
      BY <1>2, SettledByBroker DEF BrokerAck
    <2>2. Len(wire) \in Nat \ {0} /\ Head(wire) = wire[1] /\ wire[1].op = "ack"
      BY <2>1, ReadWire
    <2>3. m \in Kept
      BY <2>1, <2>2 DEF HoldInv
    <2>4. QED
      BY <2>3, HeldMonotone DEF Kept
  <1>3. CASE ~Settled(m) /\ BrokerNack
    <2>1. DeadLetter(m)
      BY <1>3, SettledByBroker DEF BrokerNack
    <2>2. dlq'[m] = dlq[m] + 1 /\ dlq[m] \in Nat
      BY <2>1 DEF DeadLetter, TypeOK
    <2>3. QED
      BY <2>2
  <1>4. QED
    BY <1>1, <1>2, <1>3, SettledByBroker

\* With a DLQ bound to the dead-letter exchange no published event is ever
\* lost, in either dead-letter mode, whatever crashes and however often.
THEOREM NoEventLost == DlqBound => (Spec => []NoLoss)
  <1> SUFFICES ASSUME DlqBound PROVE Spec => []NoLoss
    OBVIOUS
  <1>1. Init => TypeOK /\ HoldInv /\ NoLoss
    BY TypeInit, HoldInit
  <1>2. (TypeOK /\ HoldInv /\ NoLoss) /\ [Next]_vars => (TypeOK /\ HoldInv /\ NoLoss)'
    BY TypeNext, HoldNext, NoLossNext
  <1>3. QED
    BY <1>1, <1>2, PTL DEF Spec

-----------------------------------------------------------------------------
(* Rejected events, automatic dead-lettering, counters *)

LEMMA RejectNext == TypeOK /\ RejectInv /\ [Next]_vars => RejectInv'
  <1> SUFFICES ASSUME TypeOK, RejectInv, [Next]_vars PROVE RejectInv'
    OBVIOUS
  <1> USE DEF RejectInv, RejectedNeverIndexed
  <1>1. CASE IndexOk \/ IndexRetry \/ IndexExhausted
    <2>1. /\ pc = "index" /\ UNCHANGED cur /\ cur \in Msgs /\ ~Rejected(cur)
          /\ docs' \in {docs, [docs EXCEPT ![cur] = @ + 1]}
      BY <1>1 DEF IndexOk, IndexRetry, IndexExhausted, IndexRaises, TypeOK
    <2>2. \A m \in Msgs : Rejected(m) => docs'[m] = 0
      BY <2>1 DEF TypeOK
    <2>3. QED
      BY <2>1, <2>2 DEF Rejected
  <1>2. ASSUME NEW m \in Msgs, HandleAccept(m) PROVE RejectInv'
    BY <1>2 DEF HandleAccept, Rejected
  <1>3. CASE UNCHANGED docs /\ pc' \notin {"index", "ack"}
    BY <1>3 DEF Rejected
  <1>4. CASE UNCHANGED <<docs, pc, cur>>
    BY <1>4 DEF Rejected
  <1>5. QED
    BY <1>1, <1>2, <1>3, <1>4 DEF Next, Process, Broker, vars, brokerVars, localVars,
       HandleReject, AckIndexed, AckIndexedRaises, IndexFailed, DeadLetterPc, Nack, NackRaises,
       Return, PublishDlx, PublishDlxRaises, AckDead, AckDeadRaises, Exit, Crash, Die, Start,
       Publish, Deliver, LinkLost, LinkReaped, CloseLink, BrokerAck, BrokerNack, BrokerPublish,
       BrokerReads

\* An event that fails a check is never stored in an index, whatever is
\* delivered, retried or redelivered around it.
THEOREM RejectedStaysOut == Spec => []RejectedNeverIndexed
  <1>1. Init => TypeOK /\ RejectInv
    <2>1. Init => RejectInv
      BY DEF Init, RejectInv, RejectedNeverIndexed
    <2>2. QED
      BY <2>1, TypeInit
  <1>2. (TypeOK /\ RejectInv) /\ [Next]_vars => (TypeOK /\ RejectInv)'
    BY TypeNext, RejectNext
  <1>3. RejectInv => RejectedNeverIndexed
    BY DEF RejectInv
  <1>4. QED
    BY <1>1, <1>2, <1>3, PTL DEF Spec

\* An automatic run never sends a publish.
LEMMA AutoNext == TypeOK /\ LinkInv /\ AutoInv /\ [Next]_vars => AutoInv'
  <1> SUFFICES ASSUME ~UseManualDlx, TypeOK, LinkInv, AutoInv, [Next]_vars
               PROVE  /\ pc' \notin {"publish", "ackDead"}
                      /\ \A i \in 1 .. Len(wire') : wire'[i].op # "publish"
                      /\ \A m \in Msgs : dlq'[m] > 0 => m \notin unsent' \cup ready' \cup unacked'
    BY DEF AutoInv
  <1>1. /\ pc \notin {"publish", "ackDead"}
        /\ \A i \in 1 .. Len(wire) : wire[i].op # "publish"
        /\ \A m \in Msgs : dlq[m] > 0 => m \notin unsent \cup ready \cup unacked
    BY DEF AutoInv
  <1>2. pc' \notin {"publish", "ackDead"}
    BY <1>1 DEF Next, Process, Broker, vars, localVars, HandleAccept, HandleReject, IndexOk,
       IndexRetry, IndexExhausted, IndexFailed, DeadLetterPc, AckIndexed, AckIndexedRaises,
       Nack, NackRaises, Return, PublishDlx, PublishDlxRaises, AckDead, AckDeadRaises, Exit,
       Crash, Die, Start, Publish, Deliver, LinkLost, LinkReaped, CloseLink, BrokerAck,
       BrokerNack, BrokerPublish, BrokerReads
  <1>3. CASE AckIndexed \/ Nack
    <2>1. PICK op \in {"ack", "nack"} : Send(op) /\ cur \in Msgs
      BY <1>3 DEF AckIndexed, Nack, TypeOK
    <2>2. /\ Len(wire) \in Nat /\ Len(wire') = Len(wire) + 1
          /\ \A i \in 1 .. Len(wire) : wire'[i] = wire[i]
          /\ wire'[Len(wire) + 1].op = op
      BY <2>1, SendWire
    <2>3. UNCHANGED <<unsent, ready, unacked, dlq>>
      BY <1>3 DEF AckIndexed, Nack
    <2>4. QED
      BY <1>1, <1>2, <2>1, <2>2, <2>3
  <1>4. CASE BrokerAck \/ BrokerNack \/ BrokerPublish
    <2> DEFINE op == IF BrokerAck THEN "ack" ELSE IF BrokerNack THEN "nack" ELSE "publish"
    <2>1. /\ BrokerReads(op)
          /\ op = "ack" => BrokerAck
          /\ op = "nack" => BrokerNack
          /\ op \in {"ack", "nack", "publish"}
      BY <1>4 DEF BrokerAck, BrokerNack, BrokerPublish
    <2> HIDE DEF op
    <2>11. UNCHANGED <<unsent, ready>>
      BY <2>1 DEF BrokerReads
    <2>2. /\ Len(wire) \in Nat \ {0} /\ Head(wire) = wire[1] /\ wire[1].op = op
          /\ wire[1].msg \in Msgs
          /\ Len(wire') = Len(wire) - 1
          /\ \A i \in 1 .. Len(wire') : wire'[i] = wire[i + 1]
      BY <2>1, ReadWire
    <2>3. op # "publish"
      BY <1>1, <2>2
    <2>4. wire[1].msg \in unacked
      BY <2>1, <2>2 DEF LinkInv, OpenLink, BrokerReads
    <2>5. wire[1].msg \notin unsent \cup ready
      BY <2>4 DEF LinkInv, QueuesDisjoint
    <2>6. unacked' = unacked \ {wire[1].msg} /\ (UNCHANGED dlq \/ DeadLetter(wire[1].msg))
      BY <2>1, <2>2, <2>3 DEF BrokerAck, BrokerNack
    <2>7. \A m \in Msgs : m # wire[1].msg => dlq'[m] = dlq[m]
      BY <2>2, <2>6 DEF DeadLetter, TypeOK
    <2>8. QED
      BY <1>1, <1>2, <2>11, <2>2, <2>5, <2>6, <2>7
  <1>5. ASSUME NEW m \in Msgs, Publish(m) \/ Deliver(m)
        PROVE  \A k \in Msgs : dlq'[k] > 0 => k \notin unsent' \cup ready' \cup unacked'
    BY <1>1, <1>5 DEF Publish, Deliver
  <1>6. CASE LinkLost \/ LinkReaped
    <2>1. wire' = <<>> /\ UNCHANGED <<unsent, dlq>> /\ ready' = ready \cup unacked /\ unacked' = {}
      BY <1>6 DEF LinkLost, LinkReaped, CloseLink
    <2>2. Len(wire') = 0
      BY <2>1, EmptySeq
    <2>3. QED
      BY <1>1, <1>2, <2>1, <2>2
  <1>7. CASE UNCHANGED <<unsent, ready, unacked, dlq, wire>>
    BY <1>1, <1>2, <1>7
  <1>8. (\E m \in Msgs : Publish(m) \/ Deliver(m)) => UNCHANGED wire
    BY DEF Publish, Deliver
  <1>9. QED
    BY <1>1, <1>2, <1>3, <1>4, <1>5, <1>6, <1>7, <1>8 DEF Next, Process, Broker, vars, brokerVars,
       HandleAccept, HandleReject, IndexOk, IndexRetry, IndexExhausted, AckIndexedRaises,
       NackRaises, PublishDlx, PublishDlxRaises, AckDead, AckDeadRaises, Exit, Crash, Start

\* With automatic dead-lettering no message is in the DLQ while the main
\* queue still has it.
THEOREM DeadOrPendingAlways == Spec => []DeadOrPending
  <1>1. Init => TypeOK /\ LinkInv /\ AutoInv
    <2>1. Init => AutoInv
      BY EmptySeq DEF Init, AutoInv
    <2>2. QED
      BY <2>1, TypeInit, LinkInit
  <1>2. (TypeOK /\ LinkInv /\ AutoInv) /\ [Next]_vars => (TypeOK /\ LinkInv /\ AutoInv)'
    BY TypeNext, LinkNext, AutoNext
  <1>3. AutoInv => DeadOrPending
    BY DEF AutoInv, DeadOrPending, Pending
  <1>4. QED
    BY <1>1, <1>2, <1>3, PTL DEF Spec

LEMMA CountersNext == TypeOK /\ CountersBalance /\ [Next]_vars => CountersBalance'
  <1> SUFFICES ASSUME TypeOK, CountersBalance, [Next]_vars PROVE CountersBalance'
    OBVIOUS
  <1>1. /\ count["processed"] \in Nat /\ count["indexed"] \in Nat /\ count["nacked"] \in Nat
        /\ Counters = {"processed", "indexed", "indexFailed", "nacked", "validationFailed", "retries"}
    BY DEF TypeOK, Counters
  <1> USE DEF CountersBalance
  <1>2. CASE link' = "closed" \/ pc' = "down"
    BY <1>2
  <1>3. CASE UNCHANGED <<pc, count, link>>
    BY <1>3
  <1>4. CASE Start
    BY <1>4 DEF Start, Counters
  <1>5. ASSUME NEW m \in Msgs, HandleAccept(m) \/ HandleReject(m) PROVE CountersBalance'
    BY <1>1, <1>5 DEF HandleAccept, HandleReject, Inc, DeadLetterPc, brokerVars
  <1>6. CASE IndexOk \/ IndexRetry \/ IndexExhausted
    BY <1>1, <1>6 DEF IndexOk, IndexRetry, IndexExhausted, IndexFailed, Inc, DeadLetterPc,
       brokerVars, meterVars
  <1>7. CASE AckIndexed
    BY <1>1, <1>7 DEF AckIndexed, Inc, Return
  <1>8. CASE Nack
    BY <1>1, <1>8 DEF Nack, Inc, Return
  <1>9. CASE PublishDlx
    BY <1>1, <1>9 DEF PublishDlx, Inc
  <1>10. CASE AckDead
    BY <1>1, <1>10 DEF AckDead, Return, meterVars
  <1>11. QED
    BY <1>2, <1>3, <1>4, <1>5, <1>6, <1>7, <1>8, <1>9, <1>10 DEF Next, Process, Broker, vars,
       brokerVars, localVars, meterVars, AckIndexedRaises, NackRaises, PublishDlxRaises,
       AckDeadRaises, Exit, Crash, Die, Publish, Deliver, LinkLost, LinkReaped, CloseLink,
       BrokerAck, BrokerNack, BrokerPublish, BrokerReads

\* While the connection holds, every event handled is counted once, as
\* indexed or as sent to the DLX.
THEOREM CountersAlwaysBalance == Spec => []CountersBalance
  <1>1. Init => TypeOK /\ CountersBalance
    <2>1. Init => CountersBalance
      BY DEF Init, CountersBalance
    <2>2. QED
      BY <2>1, TypeInit
  <1>2. (TypeOK /\ CountersBalance) /\ [Next]_vars => (TypeOK /\ CountersBalance)'
    BY TypeNext, CountersNext
  <1>3. QED
    BY <1>1, <1>2, PTL DEF Spec
-----------------------------------------------------------------------------
(* How often an event is copied *)

LEMMA ComingType ==
    ASSUME NEW each \in Nat, NEW m \in Msgs
    PROVE  Coming(m, each) \in Nat /\ Coming(m, each)' \in Nat
  BY DEF Coming

LEMMA AttemptsType ==
    ASSUME TypeOK, NEW m \in Msgs
    PROVE  /\ AttemptsLeft(m) \in 0 .. Retries + 1
           /\ pc = "index" /\ cur = m => AttemptsLeft(m) >= 1
  BY ConsumerAssumption DEF AttemptsLeft, TypeOK, ConsumerAssumption

\* What every fault adds to the documents a message may have.
LEMMA BudgetGrows ==
    ASSUME TypeOK
    PROVE  /\ (Retries + 1) * (faults + 1) \in Nat
           /\ faults' = faults + 1 =>
                 (Retries + 1) * (faults' + 1) = (Retries + 1) * (faults + 1) + (Retries + 1)
  <1>1. Retries + 1 \in Nat /\ faults + 1 \in Nat
    BY ConsumerAssumption DEF TypeOK, ConsumerAssumption
  <1>2. (Retries + 1) * (faults + 1) \in Nat
    BY <1>1
  <1>3. (Retries + 1) * ((faults + 1) + 1) = (Retries + 1) * (faults + 1) + (Retries + 1)
    BY <1>1
  <1>4. QED
    BY <1>2, <1>3

\* Whatever process and broker do without a fault, no delivery is added ...
LEMMA ComingStays ==
    ASSUME TypeOK, LinkInv, NEW m \in Msgs, NEW each \in Nat,
           \/ UNCHANGED brokerVars /\ inbox' \subseteq inbox /\ (pc' = "down" => link = "closed")
           \/ UNCHANGED <<unsent, ready, link, inbox, pc>> /\ unacked' \subseteq unacked
           \/ \E op \in {"ack", "nack", "publish"} : Send(op) /\ pc' # "down"
                   /\ UNCHANGED <<unsent, ready, unacked, link, inbox>>
           \/ Start
           \/ LinkReaped
           \/ \E k \in Msgs : Publish(k) \/ Deliver(k)
    PROVE  Coming(m, each)' <= Coming(m, each)
  <1>1. CASE UNCHANGED brokerVars /\ inbox' \subseteq inbox /\ (pc' = "down" => link = "closed")
    BY <1>1 DEF Coming, brokerVars
  <1>2. CASE UNCHANGED <<unsent, ready, link, inbox, pc>> /\ unacked' \subseteq unacked
    BY <1>2 DEF Coming
  <1>3. CASE \E op \in {"ack", "nack", "publish"} : Send(op) /\ pc' # "down"
                   /\ UNCHANGED <<unsent, ready, unacked, link, inbox>>
    BY <1>3 DEF Coming
  <1>4. CASE Start
    BY <1>4 DEF Coming, Start
  <1>5. CASE LinkReaped
    BY <1>5 DEF Coming, LinkReaped, CloseLink, localVars, LinkInv, QueuesDisjoint, DownIsEmpty
  <1>6. ASSUME NEW k \in Msgs, Publish(k) PROVE Coming(m, each)' <= Coming(m, each)
    BY <1>6 DEF Coming, Publish, localVars, LinkInv, QueuesDisjoint
  <1>7. ASSUME NEW k \in Msgs, Deliver(k) PROVE Coming(m, each)' <= Coming(m, each)
    BY <1>7 DEF Coming, Deliver, localVars, LinkInv, QueuesDisjoint, OpenLink
  <1>8. QED
    BY <1>1, <1>2, <1>3, <1>4, <1>5, <1>6, <1>7

\* ... and a fault adds one.
LEMMA ComingFault ==
    ASSUME TypeOK, LinkInv, NEW m \in Msgs, NEW each \in Nat, Crash \/ LinkLost
    PROVE  Coming(m, each)' <= Coming(m, each) + each
  <1>1. CASE Crash
    BY <1>1 DEF Coming, Crash, Die, brokerVars, LinkInv, QueuesDisjoint, OpenLink, ClosedLink
  <1>2. CASE LinkLost
    BY <1>2 DEF Coming, LinkLost, CloseLink, localVars, LinkInv, QueuesDisjoint
  <1>3. QED
    BY <1>1, <1>2

\* The bound on the documents of a message is kept by every step.
LEMMA DocsStep ==
    ASSUME TypeOK, LinkInv, DocsInv, [Next]_vars, NEW m \in Msgs,
           NEW all \in Nat, all = Retries + 1
    PROVE  docs'[m] + AttemptsLeft(m)' + Coming(m, all)' <= all * (faults' + 1)
  <1> DEFINE ok == docs'[m] + AttemptsLeft(m)' + Coming(m, all)' <= all * (faults' + 1)
  <1>2. /\ docs[m] \in Nat /\ docs'[m] \in Nat /\ all \in Nat
        /\ Coming(m, all) \in Nat /\ Coming(m, all)' \in Nat
        /\ AttemptsLeft(m) \in 0 .. all /\ AttemptsLeft(m)' \in 0 .. all
        /\ docs[m] + AttemptsLeft(m) + Coming(m, all) <= all * (faults + 1)
        /\ all * (faults + 1) \in Nat
        /\ faults' = faults + 1 => all * (faults' + 1) = all * (faults + 1) + all
    <2>1. TypeOK'
      BY TypeNext
    <2>2. Retries \in Nat
      BY ConsumerAssumption DEF ConsumerAssumption
    <2>7. all * (faults + 1) \in Nat
      BY BudgetGrows
    <2>3. AttemptsLeft(m)' \in 0 .. all
      <3>1. attempt' \in 0 .. Retries
        BY <2>1 DEF TypeOK
      <3>2. \A a \in 0 .. Retries : Retries + 1 - a \in 0 .. all
        BY <2>2
      <3>3. QED
        BY <3>1, <3>2 DEF AttemptsLeft
    <2>4. docs[m] \in Nat /\ docs'[m] \in Nat
      BY <2>1 DEF TypeOK
    <2>5. Coming(m, all) \in Nat /\ Coming(m, all)' \in Nat
      BY ComingType
    <2>6. QED
      BY <2>2, <2>3, <2>4, <2>5, <2>7, AttemptsType, BudgetGrows DEF DocsInv
  \* A step that neither stores nor starts anything.
  <1>3. ASSUME docs' = docs, AttemptsLeft(m)' <= AttemptsLeft(m), faults' = faults,
               Coming(m, all)' <= Coming(m, all)
        PROVE  ok
    BY <1>2, <1>3
  \* An attempt.
  <1>4. ASSUME docs'[m] <= docs[m] + 1, AttemptsLeft(m)' <= AttemptsLeft(m) - 1,
               faults' = faults, Coming(m, all)' <= Coming(m, all)
        PROVE  ok
    BY <1>2, <1>4
  \* A fault.
  <1>5. ASSUME docs' = docs, AttemptsLeft(m)' <= AttemptsLeft(m), faults' = faults + 1,
               Coming(m, all)' <= Coming(m, all) + all
        PROVE  ok
    BY <1>2, <1>5
  <1>10. CASE UNCHANGED vars
    <2>1. AttemptsLeft(m)' = AttemptsLeft(m) /\ Coming(m, all)' = Coming(m, all)
      BY <1>10 DEF vars, AttemptsLeft, Coming
    <2>2. docs' = docs /\ faults' = faults
      BY <1>10 DEF vars
    <2>3. QED
      BY <1>2, <1>3, <2>1, <2>2
  <1>11. CASE Start
    <2>1. docs' = docs /\ faults' = faults /\ AttemptsLeft(m)' <= AttemptsLeft(m)
      BY <1>2, <1>11 DEF Start, AttemptsLeft
    <2>2. QED
      BY <1>2, <1>3, <1>11, <2>1, ComingStays
  <1>12. ASSUME NEW k \in Msgs, HandleAccept(k) PROVE ok
    <2>1. docs' = docs /\ faults' = faults /\ attempt = 0 /\ attempt' = 0
      BY <1>12 DEF HandleAccept, DocsInv
    <2>2. CASE k = m
      <3>1. Coming(m, all)' = Coming(m, all) - all
        BY <1>2, <1>12, <2>2 DEF HandleAccept, Coming, brokerVars
      <3>2. AttemptsLeft(m)' <= all
        BY <1>2
      <3>3. AttemptsLeft(m) >= 0
        BY <1>2
      <3>4. QED
        BY <1>2, <2>1, <3>1, <3>2, <3>3
    <2>3. CASE k # m
      <3>1. AttemptsLeft(m)' = 0 /\ AttemptsLeft(m) = 0
        BY <1>12, <2>3 DEF HandleAccept, AttemptsLeft
      <3>2. Coming(m, all)' <= Coming(m, all)
        BY <1>2, <1>12, <2>3 DEF HandleAccept, Coming, brokerVars
      <3>3. QED
        BY <1>3, <2>1, <3>1, <3>2
    <2>4. QED
      BY <2>2, <2>3
  <1>13. ASSUME NEW k \in Msgs, HandleReject(k) PROVE ok
    <2>1. docs' = docs /\ faults' = faults /\ AttemptsLeft(m)' = 0 /\ AttemptsLeft(m) = 0
      BY <1>13 DEF HandleReject, AttemptsLeft, DeadLetterPc
    <2>2. Coming(m, all)' <= Coming(m, all)
      BY <1>2, <1>13, ComingStays DEF HandleReject, DeadLetterPc
    <2>3. QED
      BY <1>3, <2>1, <2>2
  <1>14. CASE IndexOk \/ IndexRetry \/ IndexExhausted
    <2>1. /\ pc = "index" /\ cur \in Msgs /\ docs' \in {docs, [docs EXCEPT ![cur] = @ + 1]}
          /\ pc' \in {"index", "ack", "publish", "nack"} /\ cur' = cur /\ faults' = faults
          /\ UNCHANGED brokerVars /\ inbox' = inbox
      BY <1>14 DEF IndexOk, IndexRetry, IndexExhausted, IndexFailed, IndexRaises, DeadLetterPc,
         TypeOK
    <2>2. Coming(m, all)' <= Coming(m, all)
      BY <1>2, <2>1, ComingStays
    <2>3. CASE cur = m
      <3>0. docs \in [Msgs -> Nat] /\ docs' \in {docs, [docs EXCEPT ![m] = @ + 1]}
        BY <2>1, <2>3 DEF TypeOK
      <3>1. docs'[m] <= docs[m] + 1
        <4>1. docs[m] \in Nat /\ docs'[m] \in {docs[m], docs[m] + 1}
          BY <3>0
        <4>2. QED
          BY <4>1
      <3>2. AttemptsLeft(m)' <= AttemptsLeft(m) - 1
        BY <1>14, <2>1, <2>3, ConsumerAssumption
           DEF IndexOk, IndexRetry, IndexExhausted, IndexFailed, DeadLetterPc, AttemptsLeft,
               TypeOK, ConsumerAssumption
      <3>3. QED
        BY <1>4, <2>1, <2>2, <3>1, <3>2
    <2>4. CASE cur # m
      <3>1. docs'[m] = docs[m] /\ AttemptsLeft(m)' = 0 /\ AttemptsLeft(m) = 0
        BY <2>1, <2>4 DEF TypeOK, AttemptsLeft
      <3>2. QED
        BY <1>2, <2>1, <2>2, <3>1
    <2>5. QED
      BY <2>3, <2>4
  <1>15. CASE AckIndexedRaises \/ NackRaises \/ PublishDlxRaises \/ AckDeadRaises \/ Exit
    <2>1. /\ docs' = docs /\ faults' = faults /\ UNCHANGED brokerVars /\ inbox' \subseteq inbox
          /\ pc' # "index"
      BY <1>15 DEF AckIndexedRaises, IndexFailed, DeadLetterPc, NackRaises, PublishDlxRaises,
         AckDeadRaises, Exit, Return, Die
    <2>2. pc' = "down" => link = "closed"
      BY <1>15 DEF AckIndexedRaises, IndexFailed, DeadLetterPc, NackRaises, PublishDlxRaises,
         AckDeadRaises, Exit, Return, LinkInv, OpenLink, TypeOK
    <2>3. AttemptsLeft(m)' = 0 /\ AttemptsLeft(m) >= 0
      BY <1>2, <2>1 DEF AttemptsLeft
    <2>4. QED
      BY <1>2, <1>3, <2>1, <2>2, <2>3, ComingStays
  <1>16. CASE AckIndexed \/ Nack \/ PublishDlx \/ AckDead
    <2>1. /\ docs' = docs /\ faults' = faults /\ pc' \in {"idle", "ackDead"}
          /\ UNCHANGED <<unsent, ready, unacked, link, inbox>>
      BY <1>16 DEF AckIndexed, Nack, PublishDlx, AckDead, Return
    <2>2. \E op \in {"ack", "nack", "publish"} : Send(op)
      BY <1>16 DEF AckIndexed, Nack, PublishDlx, AckDead
    <2>3. AttemptsLeft(m)' = 0 /\ AttemptsLeft(m) >= 0
      BY <1>2, <2>1 DEF AttemptsLeft
    <2>4. Coming(m, all)' <= Coming(m, all)
      BY <1>2, <2>1, <2>2, ComingStays
    <2>5. QED
      BY <1>3, <2>1, <2>3, <2>4
  <1>17. CASE Crash \/ LinkLost
    <2>1. docs' = docs /\ faults' = faults + 1 /\ AttemptsLeft(m)' <= AttemptsLeft(m)
      BY <1>2, <1>17 DEF Crash, Die, LinkLost, CloseLink, localVars, AttemptsLeft
    <2>2. Coming(m, all)' <= Coming(m, all) + all
      BY <1>2, <1>17, ComingFault
    <2>3. QED
      BY <1>5, <2>1, <2>2
  <1>18. CASE BrokerAck \/ BrokerNack \/ BrokerPublish
    <2>1. /\ docs' = docs /\ faults' = faults /\ UNCHANGED <<pc, cur, attempt>>
          /\ UNCHANGED <<unsent, ready, link, inbox>> /\ unacked' \subseteq unacked
      BY <1>18 DEF BrokerAck, BrokerNack, BrokerPublish, BrokerReads, localVars
    <2>2. AttemptsLeft(m)' = AttemptsLeft(m)
      BY <2>1 DEF AttemptsLeft
    <2>3. Coming(m, all)' <= Coming(m, all)
      BY <1>2, <2>1, ComingStays
    <2>4. QED
      BY <1>2, <1>3, <2>1, <2>2, <2>3
  <1>19. CASE LinkReaped \/ \E k \in Msgs : Publish(k) \/ Deliver(k)
    <2>1. docs' = docs /\ faults' = faults /\ UNCHANGED <<pc, cur, attempt>>
      BY <1>19 DEF LinkReaped, CloseLink, Publish, Deliver, localVars
    <2>2. AttemptsLeft(m)' = AttemptsLeft(m)
      BY <2>1 DEF AttemptsLeft
    <2>3. Coming(m, all)' <= Coming(m, all)
      BY <1>2, <1>19, ComingStays
    <2>4. QED
      BY <1>2, <1>3, <2>1, <2>2, <2>3
  <1>20. QED
    BY <1>10, <1>11, <1>12, <1>13, <1>14, <1>15, <1>16, <1>17, <1>18, <1>19
       DEF Next, Process, Broker

LEMMA DocsNext == TypeOK /\ LinkInv /\ DocsInv /\ [Next]_vars => DocsInv'
  <1> SUFFICES ASSUME TypeOK, LinkInv, DocsInv, [Next]_vars PROVE DocsInv'
    OBVIOUS
  <1>1. (pc \in {"idle", "down"} => attempt = 0)'
    BY DEF DocsInv, Next, vars, Process, Broker, Start, HandleAccept, HandleReject, IndexOk,
       IndexRetry, IndexExhausted, IndexFailed, DeadLetterPc, AckIndexed, AckIndexedRaises, Nack,
       NackRaises, PublishDlx, PublishDlxRaises, AckDead, AckDeadRaises, Return, Die, Exit, Crash,
       Publish, Deliver, BrokerReads, BrokerAck, BrokerNack, BrokerPublish, LinkLost, LinkReaped,
       CloseLink, localVars
  <1>2. Retries + 1 \in Nat
    BY ConsumerAssumption DEF ConsumerAssumption
  <1>3. ASSUME NEW m \in Msgs
        PROVE  docs'[m] + AttemptsLeft(m)' + Coming(m, Retries + 1)'
                 <= (Retries + 1) * (faults' + 1)
    BY <1>2, DocsStep
  <1>4. QED
    BY <1>1, <1>3 DEF DocsInv
\* The frames that announce copies of a message, after one frame more, ...
LEMMA PublishingSent ==
    ASSUME TypeOK, cur \in Msgs, NEW op \in {"ack", "nack", "publish"}, Send(op), NEW m \in Msgs
    PROVE  Publishing(m)' <=> Publishing(m) \/ (op = "publish" /\ cur = m)
  <1>1. /\ Len(wire) \in Nat /\ Len(wire') = Len(wire) + 1
        /\ \A i \in 1 .. Len(wire) : wire'[i] = wire[i]
        /\ wire'[Len(wire) + 1].op = op /\ wire'[Len(wire) + 1].msg = cur
    BY SendWire
  <1>2. \A i \in 1 .. Len(wire') : i \in 1 .. Len(wire) \/ i = Len(wire) + 1
    BY <1>1
  <1>3. 1 .. Len(wire) \subseteq 1 .. Len(wire') /\ Len(wire) + 1 \in 1 .. Len(wire')
    BY <1>1
  <1>4. Publishing(m)' => Publishing(m) \/ (op = "publish" /\ cur = m)
    BY <1>1, <1>2 DEF Publishing
  <1>5. Publishing(m) => Publishing(m)'
    BY <1>1, <1>3 DEF Publishing
  <1>6. op = "publish" /\ cur = m => Publishing(m)'
    BY <1>1, <1>3 DEF Publishing
  <1>7. QED
    BY <1>4, <1>5, <1>6

\* ... and after one less.
LEMMA PublishingRead ==
    ASSUME TypeOK, NEW op, BrokerReads(op), NEW m \in Msgs
    PROVE  /\ Publishing(m)' => \E i \in 2 .. Len(wire) : wire[i].op = "publish" /\ wire[i].msg = m
           /\ Publishing(m)' => Publishing(m)
           /\ op = "publish" /\ Head(wire).msg = m => Publishing(m)
  <1>1. /\ Len(wire) \in Nat \ {0} /\ Head(wire) = wire[1] /\ Head(wire).op = op
        /\ Len(wire') = Len(wire) - 1
        /\ \A i \in 1 .. Len(wire') : wire'[i] = wire[i + 1]
    BY ReadWire
  <1>2. \A i \in 1 .. Len(wire') : i + 1 \in 2 .. Len(wire) /\ i + 1 \in 1 .. Len(wire)
    BY <1>1
  <1>3. 1 \in 1 .. Len(wire)
    BY <1>1
  <1>4. QED
    BY <1>1, <1>2, <1>3 DEF Publishing

LEMMA CopiesType ==
    ASSUME NEW m \in Msgs
    PROVE  /\ Publishes(m) \in 0 .. 2 /\ Publishes(m)' \in 0 .. 2
           /\ Returning(m) \in Nat /\ Returning(m)' \in Nat
  <1>1. Coming(m, 1) \in Nat /\ Coming(m, 1)' \in Nat
    BY ComingType
  <1>2. QED
    BY <1>1 DEF Publishes, Returning

\* With manual publishing there are no nacks, and one announced copy of a
\* message at a time.
LEMMA ManualWire ==
    ASSUME UseManualDlx, TypeOK, LinkInv, ManualInv, [Next]_vars
    PROVE  /\ pc' # "nack"
           /\ \A i \in 1 .. Len(wire') : wire'[i].op # "nack"
           /\ \A i, j \in 1 .. Len(wire') :
                 i < j /\ wire'[i].op = "publish" /\ wire'[j].op = "publish"
                    => wire'[j].msg # wire'[i].msg
  <1>1. /\ pc # "nack"
        /\ \A i \in 1 .. Len(wire) : wire[i].op # "nack"
        /\ \A i, j \in 1 .. Len(wire) :
              i < j /\ wire[i].op = "publish" /\ wire[j].op = "publish" => wire[j].msg # wire[i].msg
    BY DEF ManualInv
  <1>2. pc' # "nack"
    BY <1>1 DEF Next, vars, Process, Broker, Start, HandleAccept, HandleReject, IndexOk,
       IndexRetry, IndexExhausted, IndexFailed, DeadLetterPc, AckIndexed, AckIndexedRaises, Nack,
       NackRaises, PublishDlx, PublishDlxRaises, AckDead, AckDeadRaises, Return, Die, Exit, Crash,
       Publish, Deliver, BrokerReads, BrokerAck, BrokerNack, BrokerPublish, LinkLost, LinkReaped,
       CloseLink, localVars
  <1>3. CASE UNCHANGED wire
    BY <1>1, <1>2, <1>3
  <1>4. CASE wire' = <<>>
    BY <1>2, <1>4, EmptySeq
  <1>5. ASSUME NEW op, BrokerReads(op)
        PROVE  /\ \A i \in 1 .. Len(wire') : wire'[i].op # "nack"
               /\ \A i, j \in 1 .. Len(wire') :
                     i < j /\ wire'[i].op = "publish" /\ wire'[j].op = "publish"
                        => wire'[j].msg # wire'[i].msg
    <2>1. /\ Len(wire) \in Nat \ {0} /\ Len(wire') = Len(wire) - 1
          /\ \A i \in 1 .. Len(wire') : wire'[i] = wire[i + 1]
      BY <1>5, ReadWire
    <2>2. \A i \in 1 .. Len(wire') : i + 1 \in 1 .. Len(wire)
      BY <2>1
    <2>3. \A i, j \in 1 .. Len(wire') : i < j => i + 1 < j + 1
      BY <2>1
    <2>4. QED
      BY <1>1, <2>1, <2>2, <2>3
  <1>6. ASSUME NEW op \in {"ack", "publish"}, Send(op), cur \in Msgs,
               op = "publish" => link = "open" /\ pc = "publish"
        PROVE  /\ \A i \in 1 .. Len(wire') : wire'[i].op # "nack"
               /\ \A i, j \in 1 .. Len(wire') :
                     i < j /\ wire'[i].op = "publish" /\ wire'[j].op = "publish"
                        => wire'[j].msg # wire'[i].msg
    <2>1. /\ Len(wire) \in Nat /\ Len(wire') = Len(wire) + 1
          /\ \A i \in 1 .. Len(wire) : wire'[i] = wire[i]
          /\ wire'[Len(wire) + 1].op = op /\ wire'[Len(wire) + 1].msg = cur
      BY <1>6, SendWire
    <2>2. op = "publish" => \A i \in 1 .. Len(wire) : wire[i].msg # cur
      BY <1>6 DEF LinkInv, OpenLink, Handling
    <2>3. \A i \in 1 .. Len(wire') : i \in 1 .. Len(wire) \/ i = Len(wire) + 1
      BY <2>1
    <2>4. \A i \in 1 .. Len(wire') : wire'[i].op # "nack"
      BY <1>1, <1>6, <2>1, <2>3
    <2>5. ASSUME NEW i \in 1 .. Len(wire'), NEW j \in 1 .. Len(wire'), i < j,
                 wire'[i].op = "publish", wire'[j].op = "publish"
          PROVE  wire'[j].msg # wire'[i].msg
      <3>1. i \in 1 .. Len(wire)
        BY <2>1, <2>5
      <3>2. CASE j \in 1 .. Len(wire)
        BY <1>1, <2>1, <2>5, <3>1, <3>2
      <3>3. CASE j = Len(wire) + 1
        BY <2>1, <2>2, <2>5, <3>1, <3>3
      <3>4. QED
        BY <2>3, <3>2, <3>3
    <2>6. QED
      BY <2>4, <2>5
  <1>7. CASE AckIndexed \/ AckDead \/ PublishDlx
    <2>1. cur \in Msgs
      BY <1>7 DEF AckIndexed, AckDead, PublishDlx, TypeOK
    <2>2. CASE AckIndexed \/ AckDead
      BY <1>2, <1>6, <2>1, <2>2 DEF AckIndexed, AckDead
    <2>3. CASE PublishDlx
      BY <1>2, <1>6, <2>1, <2>3 DEF PublishDlx
    <2>4. QED
      BY <1>7, <2>2, <2>3
  <1>8. CASE BrokerAck \/ BrokerNack \/ BrokerPublish
    <2>1. \E op : BrokerReads(op)
      BY <1>8 DEF BrokerAck, BrokerNack, BrokerPublish
    <2>2. QED
      BY <1>2, <1>5, <2>1
  <1>9. CASE Nack
    BY <1>1, <1>9 DEF Nack
  <1>10. CASE LinkLost \/ LinkReaped
    BY <1>4, <1>10 DEF LinkLost, LinkReaped, CloseLink
  <1>11. CASE \/ UNCHANGED vars \/ Start \/ IndexOk \/ IndexRetry \/ IndexExhausted
              \/ AckIndexedRaises \/ NackRaises \/ PublishDlxRaises \/ AckDeadRaises
              \/ Exit \/ Crash
              \/ \E m \in Msgs : HandleAccept(m) \/ HandleReject(m) \/ Publish(m) \/ Deliver(m)
    BY <1>3, <1>11 DEF vars, brokerVars, Start, IndexOk, IndexRetry, IndexExhausted,
       AckIndexedRaises, NackRaises, PublishDlxRaises, AckDeadRaises, Exit, Crash, HandleAccept,
       HandleReject, Publish, Deliver
  <1>12. QED
    BY <1>7, <1>8, <1>9, <1>10, <1>11 DEF Next, Process, Broker
LEMMA ManualStep ==
    ASSUME UseManualDlx, TypeOK, LinkInv, ManualInv, [Next]_vars, NEW m \in Msgs
    PROVE  dlq'[m] + Publishes(m)' + Returning(m)' <= faults' + 1
  <1> DEFINE ok == dlq'[m] + Publishes(m)' + Returning(m)' <= faults' + 1
  <1>1. /\ dlq[m] \in Nat /\ dlq'[m] \in Nat /\ faults \in Nat
        /\ Publishes(m) \in 0 .. 2 /\ Publishes(m)' \in 0 .. 2
        /\ Returning(m) \in Nat /\ Returning(m)' \in Nat
        /\ Coming(m, 1) \in Nat /\ Coming(m, 1)' \in Nat
        /\ dlq[m] + Publishes(m) + Returning(m) <= faults + 1
    <2>1. TypeOK'
      BY TypeNext
    <2>2. dlq[m] \in Nat /\ dlq'[m] \in Nat /\ faults \in Nat
      BY <2>1 DEF TypeOK
    <2>3. Coming(m, 1) \in Nat /\ Coming(m, 1)' \in Nat
      BY ComingType
    <2>4. dlq[m] + Publishes(m) + Returning(m) <= faults + 1
      BY DEF ManualInv
    <2>5. QED
      BY <2>2, <2>3, <2>4, CopiesType
  \* A step that moves nothing from one term to another.
  <1>2. ASSUME dlq' = dlq, faults' = faults, Publishes(m)' <= Publishes(m),
               Returning(m)' <= Returning(m)
        PROVE  ok
    BY <1>1, <1>2
  <1>3. link = "closed" => wire = <<>> /\ unacked = {} /\ inbox \subseteq ready
    BY DEF LinkInv, ClosedLink
  <1>4. wire = <<>> => ~Publishing(m)
    BY EmptySeq DEF Publishing
  <1>5. (wire = <<>> => ~Publishing(m))'
    BY EmptySeq DEF Publishing
  <1>6. link \in {"open", "closed"} /\ pc # "nack"
    BY DEF TypeOK, ManualInv
  <1>10. CASE UNCHANGED vars
    <2>1. /\ dlq' = dlq /\ faults' = faults
          /\ Publishes(m)' = Publishes(m) /\ Returning(m)' = Returning(m)
      BY <1>10 DEF vars, Publishes, Publishing, Returning, Coming
    <2>2. QED
      BY <1>1, <1>2, <2>1
  <1>11. CASE Start
    <2>1. /\ dlq' = dlq /\ faults' = faults /\ wire' = wire /\ wire = <<>> /\ link = "closed"
          /\ link' = "open" /\ pc = "down" /\ pc' = "idle" /\ inbox' = inbox /\ inbox = {}
          /\ UNCHANGED <<unsent, ready>>
      BY <1>3, <1>11 DEF Start, LinkInv, DownIsEmpty
    <2>2. Publishes(m)' = 0
      BY <1>5, <2>1 DEF Publishes
    <2>3. Returning(m)' <= Returning(m)
      BY <2>1 DEF Returning, Coming, LinkInv, QueuesDisjoint
    <2>4. QED
      BY <1>1, <1>2, <2>1, <2>2, <2>3
  <1>12. ASSUME NEW k \in Msgs, HandleAccept(k) \/ HandleReject(k) PROVE ok
    <2>1. /\ dlq' = dlq /\ faults' = faults /\ UNCHANGED brokerVars /\ pc = "idle"
          /\ pc' \in {"index", "publish"} /\ inbox' = inbox \ {k} /\ k \in inbox /\ cur' = k
      BY <1>12 DEF HandleAccept, HandleReject, DeadLetterPc, brokerVars
    <2>2. Publishing(m)' <=> Publishing(m)
      BY <2>1 DEF Publishing, brokerVars
    <2>3. CASE link = "open" /\ k = m
      <3>1. Publishes(m)' = Publishes(m) + 1
        BY <2>1, <2>2, <2>3 DEF Publishes, brokerVars
      <3>2. Returning(m)' = Returning(m) - 1
        BY <2>1, <2>3 DEF Returning, Coming, brokerVars
      <3>3. QED
        BY <1>1, <2>1, <3>1, <3>2
    <2>4. CASE ~(link = "open" /\ k = m)
      <3>1. Publishes(m)' <= Publishes(m)
        BY <2>1, <2>2, <2>4 DEF Publishes, brokerVars
      <3>2. Returning(m)' <= Returning(m)
        BY <2>1, <2>4 DEF Returning, Coming, brokerVars
      <3>3. QED
        BY <1>2, <2>1, <3>1, <3>2
    <2>5. QED
      BY <2>3, <2>4
  <1>13. CASE IndexOk \/ IndexRetry \/ IndexExhausted \/ AckIndexedRaises
    <2>1. /\ pc \in {"index", "ack"} /\ dlq' = dlq /\ faults' = faults /\ UNCHANGED brokerVars
          /\ pc' \in {"index", "ack", "publish"} /\ UNCHANGED <<inbox, cur>>
      BY <1>13 DEF IndexOk, IndexRetry, IndexExhausted, IndexFailed, AckIndexedRaises,
         DeadLetterPc, brokerVars
    <2>2. Publishing(m)' <=> Publishing(m)
      BY <2>1 DEF Publishing, brokerVars
    <2>3. Publishes(m)' <= Publishes(m)
      BY <2>1, <2>2 DEF Publishes, brokerVars
    <2>4. Returning(m)' <= Returning(m)
      BY <2>1 DEF Returning, Coming, brokerVars
    <2>5. QED
      BY <1>2, <2>1, <2>3, <2>4
  <1>14. CASE NackRaises \/ PublishDlxRaises \/ AckDeadRaises \/ Exit
    <2>1. /\ dlq' = dlq /\ faults' = faults /\ UNCHANGED brokerVars
          /\ (pc = "exit" \/ link = "closed")
      BY <1>14 DEF NackRaises, PublishDlxRaises, AckDeadRaises, Exit, brokerVars
    <2>2. link = "closed"
      BY <1>6, <2>1 DEF LinkInv, OpenLink
    <2>3. Publishes(m)' = 0
      BY <1>3, <1>5, <2>1, <2>2 DEF Publishes, brokerVars
    <2>4. Returning(m)' = Returning(m)
      BY <2>1, <2>2 DEF Returning, brokerVars
    <2>5. QED
      BY <1>1, <1>2, <2>1, <2>3, <2>4
  <1>15. CASE AckIndexed \/ AckDead
    <2>1. /\ dlq' = dlq /\ faults' = faults /\ link = "open" /\ Send("ack") /\ pc' = "idle"
          /\ pc # "down" /\ cur \in Msgs /\ UNCHANGED <<unsent, ready, unacked, link, inbox>>
      BY <1>15 DEF AckIndexed, AckDead, Return, TypeOK
    <2>2. Publishing(m)' <=> Publishing(m)
      BY <2>1, PublishingSent
    <2>3. Publishes(m)' <= Publishes(m)
      BY <2>1, <2>2 DEF Publishes
    <2>4. Returning(m)' <= Returning(m)
      BY <2>1 DEF Returning, Coming
    <2>5. QED
      BY <1>2, <2>1, <2>3, <2>4
  <1>16. CASE PublishDlx
    <2>1. /\ dlq' = dlq /\ faults' = faults /\ link = "open" /\ Send("publish")
          /\ pc = "publish" /\ pc' = "ackDead" /\ cur' = cur /\ cur \in Msgs
          /\ UNCHANGED <<unsent, ready, unacked, link, inbox>>
      BY <1>16 DEF PublishDlx, TypeOK
    <2>2. Publishing(m)' <=> Publishing(m) \/ cur = m
      BY <2>1, PublishingSent
    <2>3. Publishes(m)' <= Publishes(m)
      BY <2>1, <2>2 DEF Publishes
    <2>4. Returning(m)' <= Returning(m)
      BY <2>1 DEF Returning, Coming
    <2>5. QED
      BY <1>2, <2>1, <2>3, <2>4
  <1>17. CASE Crash
    <2>1. /\ dlq' = dlq /\ faults' = faults + 1 /\ UNCHANGED brokerVars /\ pc' = "down"
      BY <1>17 DEF Crash, Die, brokerVars
    <2>2. Publishes(m)' <= Publishes(m)
      BY <2>1 DEF Publishes, Publishing, brokerVars
    <2>3. Coming(m, 1)' <= Coming(m, 1) + 1
      BY <1>17, ComingFault
    <2>4. Returning(m)' <= Returning(m) + 1
      BY <1>1, <2>1, <2>3 DEF Returning, brokerVars
    <2>5. QED
      BY <1>1, <2>1, <2>2, <2>4
  <1>18. CASE LinkLost \/ LinkReaped
    <2>1. /\ dlq' = dlq /\ link = "open" /\ link' = "closed" /\ wire' = <<>>
          /\ ready' = ready \cup unacked /\ UNCHANGED <<unsent, inbox, pc>>
      BY <1>18 DEF LinkLost, LinkReaped, CloseLink, localVars
    <2>2. Publishes(m)' = 0
      BY <1>5, <2>1 DEF Publishes
    <2>3. CASE LinkLost
      <3>1. Returning(m)' <= Returning(m) + 1 /\ faults' = faults + 1
        BY <2>1, <2>3 DEF LinkLost, Returning, Coming
      <3>2. QED
        BY <1>1, <2>1, <2>2, <3>1
    <2>4. CASE LinkReaped
      <3>1. Returning(m)' <= Returning(m) /\ faults' = faults
        BY <2>1, <2>4 DEF LinkReaped, Returning, Coming
      <3>2. QED
        BY <1>1, <1>2, <2>1, <2>2, <3>1
    <2>5. QED
      BY <1>18, <2>3, <2>4
  <1>19. ASSUME NEW k \in Msgs, Publish(k) \/ Deliver(k) PROVE ok
    <2>1. /\ dlq' = dlq /\ faults' = faults /\ UNCHANGED <<link, wire, pc, cur>>
      BY <1>19 DEF Publish, Deliver, localVars
    <2>2. Publishes(m)' = Publishes(m)
      BY <2>1 DEF Publishes, Publishing
    <2>3. Coming(m, 1)' <= Coming(m, 1)
      BY <1>19, ComingStays
    <2>4. link = "closed" => unsent' \cup ready' \subseteq unsent \cup ready
      BY <1>19 DEF Publish, Deliver
    <2>5. CASE link = "open"
      <3>1. Returning(m)' = Coming(m, 1)' /\ Returning(m) = Coming(m, 1)
        BY <2>1, <2>5 DEF Returning
      <3>2. QED
        BY <1>1, <1>2, <2>1, <2>2, <2>3, <3>1
    <2>6. CASE link = "closed"
      <3>1. Returning(m)' <= Returning(m)
        BY <2>1, <2>4, <2>6 DEF Returning
      <3>2. QED
        BY <1>1, <1>2, <2>1, <2>2, <3>1
    <2>7. QED
      BY <1>6, <2>5, <2>6
  <1>20. CASE BrokerAck \/ BrokerPublish
    <2>1. /\ link = "open" /\ faults' = faults /\ UNCHANGED <<unsent, ready, link, inbox, pc, cur>>
          /\ unacked' \subseteq unacked /\ (\E op : BrokerReads(op))
      BY <1>20 DEF BrokerAck, BrokerPublish, BrokerReads, localVars
    <2>2. Publishing(m)' => Publishing(m)
      BY <2>1, PublishingRead
    <2>3. Returning(m)' <= Returning(m)
      <3>1. Coming(m, 1)' <= Coming(m, 1)
        BY <2>1, ComingStays
      <3>2. QED
        BY <2>1, <3>1 DEF Returning
    <2>4. CASE dlq'[m] = dlq[m]
      <3>1. Publishes(m)' <= Publishes(m)
        BY <2>1, <2>2 DEF Publishes
      <3>2. QED
        BY <1>1, <2>1, <2>3, <2>4, <3>1
    <2>5. CASE dlq'[m] # dlq[m]
      <3>1. BrokerPublish /\ BrokerReads("publish") /\ DeadLetter(Head(wire).msg)
        BY <1>20, <2>5 DEF BrokerAck, BrokerPublish
      <3>2. Head(wire).msg = m /\ dlq'[m] = dlq[m] + 1
        BY <2>5, <3>1, ReadWire DEF DeadLetter, TypeOK
      <3>3. Publishing(m)
        BY <3>1, <3>2, PublishingRead
      <3>4. ~Publishing(m)'
        <4>1. Len(wire) \in Nat \ {0} /\ wire[1].op = "publish" /\ wire[1].msg = m
          BY <3>1, <3>2, ReadWire
        <4>2. \A i \in 2 .. Len(wire) : i \in 1 .. Len(wire) /\ 1 < i /\ 1 \in 1 .. Len(wire)
          BY <4>1
        <4>3. \A i \in 2 .. Len(wire) : wire[i].op = "publish" => wire[i].msg # m
          BY <4>1, <4>2 DEF ManualInv
        <4>4. QED
          BY <3>1, <4>3, PublishingRead
      <3>5. Publishes(m)' = Publishes(m) - 1
        BY <2>1, <3>3, <3>4 DEF Publishes
      <3>6. QED
        BY <1>1, <2>1, <2>3, <3>2, <3>5
    <2>6. QED
      BY <2>4, <2>5
  <1>21. CASE BrokerNack
    <2>1. Len(wire) \in Nat \ {0} /\ wire[1].op = "nack"
      BY <1>21, ReadWire DEF BrokerNack
    <2>2. QED
      BY <2>1 DEF ManualInv
  <1>22. CASE Nack
    BY <1>6, <1>22 DEF Nack
  <1>23. QED
    BY <1>10, <1>11, <1>12, <1>13, <1>14, <1>15, <1>16, <1>17, <1>18, <1>19, <1>20, <1>21, <1>22
       DEF Next, Process, Broker

LEMMA SingleNext ==
    ASSUME TypeOK, LinkInv, AutoInv, SingleInv, [Next]_vars
    PROVE  SingleInv'
  <1> SUFFICES ASSUME ~UseManualDlx, NEW m \in Msgs PROVE dlq'[m] <= 1
    BY DEF SingleInv
  <1>1. dlq[m] <= 1
    BY DEF SingleInv
  <1>2. CASE BrokerNack
    <2>1. /\ Head(wire).msg \in Msgs /\ Len(wire) \in Nat \ {0} /\ Head(wire) = wire[1]
          /\ DeadLetter(Head(wire).msg) /\ link = "open"
      BY <1>2, ReadWire DEF BrokerNack, BrokerReads
    <2>2. wire[1].msg \in unacked
      <3>1. 1 \in 1 .. Len(wire)
        BY <2>1
      <3>2. QED
        BY <2>1, <3>1 DEF LinkInv, OpenLink
    <2>3. Head(wire).msg = m => dlq[m] = 0
      BY <2>1, <2>2 DEF AutoInv, TypeOK
    <2>4. QED
      BY <1>1, <2>1, <2>3 DEF DeadLetter, TypeOK
  <1>3. CASE BrokerPublish
    <2>1. Len(wire) \in Nat \ {0} /\ wire[1].op = "publish"
      BY <1>3, ReadWire DEF BrokerPublish
    <2>2. 1 \in 1 .. Len(wire)
      BY <2>1
    <2>3. QED
      BY <2>1, <2>2 DEF AutoInv
  <1>4. CASE UNCHANGED dlq
    BY <1>1, <1>4
  <1>5. QED
    BY <1>2, <1>3, <1>4
       DEF Next, vars, Process, Broker, Start, HandleAccept, HandleReject, IndexOk, IndexRetry,
           IndexExhausted, AckIndexed, AckIndexedRaises, Nack, NackRaises, PublishDlx,
           PublishDlxRaises, AckDead, AckDeadRaises, Exit, Crash, Publish, Deliver, BrokerAck,
           LinkLost, LinkReaped, CloseLink, brokerVars

\* How often the consumer can duplicate an event, for every number of retries
\* and faults and in both dead-letter modes: one document for each attempt of
\* each delivery, one delivery more than there were faults, one dead letter
\* for each delivery or, by the broker, one in all.
THEOREM DuplicatesAlwaysBounded == Spec => []DuplicatesBounded
  <1> DEFINE Inv == TypeOK /\ LinkInv /\ AutoInv /\ DocsInv /\ ManualInv /\ SingleInv
  <1>1. Init => Inv
    <2> SUFFICES ASSUME Init PROVE Inv
      OBVIOUS
    <2>1. TypeOK /\ LinkInv
      BY TypeInit, LinkInit
    <2>2. AutoInv
      BY EmptySeq DEF Init, AutoInv
    <2>3. \A m \in Msgs : /\ docs[m] = 0 /\ dlq[m] = 0 /\ AttemptsLeft(m) = 0
                          /\ Coming(m, Retries + 1) = Retries + 1
                          /\ Coming(m, 1) = 1 /\ Publishes(m) = 0 /\ Returning(m) = 1
      BY EmptySeq, ConsumerAssumption
         DEF Init, AttemptsLeft, Coming, Publishes, Publishing, Returning, ConsumerAssumption
    <2>4. faults = 0 /\ Retries \in Nat /\ (Retries + 1) * (0 + 1) = Retries + 1
      BY ConsumerAssumption DEF Init, ConsumerAssumption
    <2>5. DocsInv
      BY <2>3, <2>4 DEF Init, DocsInv
    <2>6. ManualInv /\ SingleInv
      BY <2>3, <2>4, EmptySeq DEF Init, ManualInv, SingleInv
    <2>7. QED
      BY <2>1, <2>2, <2>5, <2>6
  <1>2. Inv /\ [Next]_vars => Inv'
    <2> SUFFICES ASSUME Inv, [Next]_vars PROVE Inv'
      OBVIOUS
    <2>1. TypeOK' /\ LinkInv' /\ AutoInv' /\ DocsInv' /\ SingleInv'
      BY TypeNext, LinkNext, AutoNext, DocsNext, SingleNext
    <2>2. ManualInv'
      BY ManualWire, ManualStep DEF ManualInv
    <2>3. QED
      BY <2>1, <2>2
  <1>3. Inv => DuplicatesBounded
    <2> SUFFICES ASSUME Inv, NEW m \in Msgs
                 PROVE  /\ docs[m] <= (Retries + 1) * (faults + 1)
                        /\ dlq[m] <= IF UseManualDlx THEN faults + 1 ELSE 1
      BY DEF DuplicatesBounded
    <2>1. docs[m] \in Nat /\ dlq[m] \in Nat /\ faults \in Nat /\ (Retries + 1) * (faults + 1) \in Nat
      BY BudgetGrows DEF TypeOK
    <2>2. AttemptsLeft(m) \in 0 .. Retries + 1 /\ Retries \in Nat
      BY AttemptsType, ConsumerAssumption DEF ConsumerAssumption
    <2>3. Coming(m, Retries + 1) \in Nat
      BY <2>2, ComingType
    <2>4. docs[m] <= (Retries + 1) * (faults + 1)
      BY <2>1, <2>2, <2>3 DEF DocsInv
    <2>5. UseManualDlx => dlq[m] <= faults + 1
      BY <2>1, CopiesType DEF ManualInv
    <2>6. QED
      BY <2>4, <2>5 DEF SingleInv
  <1>4. QED
    BY <1>1, <1>2, <1>3, PTL DEF Spec

-----------------------------------------------------------------------------
(* A call of handle() ends.                                                *)

\* The calls to OpenSearch and RabbitMQ that handle() has ahead of it at most,
\* with the step that ends main().  The first acknowledgement after a
\* publication may raise and lead to a second publication, the second not.
SecondTry == reason = "processing_exception"

StepsLeft ==
    CASE pc \in {"down", "idle"} -> 0
      [] pc = "exit" -> 1
      [] pc = "ackDead" -> IF SecondTry THEN 2 ELSE 4
      [] pc \in {"nack", "publish"} -> IF SecondTry THEN 3 ELSE 5
      [] pc = "ack" -> 6
      [] pc = "index" -> 7 + (Retries - attempt)

HandleWindsDown ==
    [][pc \notin {"down", "idle"} =>
          /\ StepsLeft \in 1 .. Retries + 7
          /\ Process \/ Crash => StepsLeft' \in 0 .. StepsLeft - 1
          /\ ~Process /\ ~Crash => StepsLeft' = StepsLeft]_vars

LEMMA StepsType ==
    ASSUME TypeOK, pc \notin {"down", "idle"}
    PROVE  StepsLeft \in 1 .. Retries + 7
  <1>1. Retries \in Nat /\ attempt \in 0 .. Retries
    BY ConsumerAssumption DEF ConsumerAssumption, TypeOK
  <1>2. QED
    BY <1>1 DEF StepsLeft, TypeOK, Pcs

LEMMA StepsStep ==
    ASSUME TypeOK, [Next]_vars, pc \notin {"down", "idle"}
    PROVE  /\ Process \/ Crash => StepsLeft' \in 0 .. StepsLeft - 1
           /\ ~Process /\ ~Crash => StepsLeft' = StepsLeft
  <1>0. Retries \in Nat /\ attempt \in 0 .. Retries
    BY ConsumerAssumption DEF ConsumerAssumption, TypeOK
  <1>1. StepsLeft \in 1 .. Retries + 7
    BY StepsType
  <1>2. ASSUME Process \/ Crash PROVE StepsLeft' \in 0 .. StepsLeft - 1
    <2>1. CASE pc' \in {"down", "idle"}
      <3>1. StepsLeft' = 0
        BY <2>1 DEF StepsLeft
      <3>2. QED
        BY <1>0, <1>1, <3>1
    <2>2. CASE IndexOk
      BY <1>0, <2>2 DEF IndexOk, StepsLeft
    <2>3. CASE IndexRetry
      <3>1. StepsLeft = 7 + (Retries - attempt) /\ StepsLeft' = 7 + (Retries - (attempt + 1))
        BY <2>3 DEF IndexRetry, StepsLeft
      <3>2. QED
        BY <1>0, <3>1, <2>3 DEF IndexRetry
    <2>4. CASE IndexExhausted \/ AckIndexedRaises
      <3>1. StepsLeft \in {6, 7}
        BY <1>0, <2>4 DEF IndexExhausted, AckIndexedRaises, StepsLeft
      <3>2. StepsLeft' = 5
        BY <2>4 DEF IndexExhausted, AckIndexedRaises, IndexFailed, DeadLetterPc, StepsLeft,
           SecondTry
      <3>3. QED
        BY <3>1, <3>2
    <2>5. CASE PublishDlx
      BY <2>5 DEF PublishDlx, StepsLeft, SecondTry
    <2>6. CASE PublishDlxRaises
      BY <2>6 DEF PublishDlxRaises, StepsLeft, SecondTry
    <2>7. CASE AckDeadRaises
      <3>1. CASE SecondTry
        BY <2>1, <2>7, <3>1 DEF AckDeadRaises, Return, SecondTry
      <3>2. CASE ~SecondTry
        BY <2>7, <3>2 DEF AckDeadRaises, StepsLeft, SecondTry
      <3>3. QED
        BY <3>1, <3>2
    <2>8. QED
      BY <1>2, <2>1, <2>2, <2>3, <2>4, <2>5, <2>6, <2>7 DEF Process, HandleAccept,
         HandleReject, AckIndexed, Nack, NackRaises, AckDead, Return, Exit, Crash, Die
  <1>3. ASSUME ~Process, ~Crash PROVE StepsLeft' = StepsLeft
    <2>1. UNCHANGED localVars
      BY <1>3 DEF Next, Start, Broker, Publish, Deliver, BrokerAck, BrokerNack, BrokerPublish,
         BrokerReads, LinkLost, LinkReaped, CloseLink, vars, localVars
    <2>2. QED
      BY <2>1 DEF StepsLeft, SecondTry, localVars
  <1>4. QED
    BY <1>2, <1>3

\* The safety half of EventuallySettled: whatever OpenSearch answers and
\* whenever the connection closes, one call of handle() makes a bounded
\* number of calls to them, and what the broker does meanwhile adds none:
\* neither the retry loop nor the two except clauses can go round for ever.
THEOREM HandleEnds == Spec => HandleWindsDown
  <1>1. TypeOK /\ [Next]_vars =>
           [pc \notin {"down", "idle"} =>
               /\ StepsLeft \in 1 .. Retries + 7
               /\ Process \/ Crash => StepsLeft' \in 0 .. StepsLeft - 1
               /\ ~Process /\ ~Crash => StepsLeft' = StepsLeft]_vars
    BY StepsType, StepsStep
  <1>2. QED
    BY <1>1, TypeInit, TypeNext, PTL DEF Spec, HandleWindsDown

-----------------------------------------------------------------------------
(* The promise of module Delivery: nothing more happens to a settled       *)
(* message, and the consumer with its broker implements Delivery.          *)

\* The message handle() works on is pending while it can be indexed.
LEMMA HandledIsPending ==
    ASSUME TypeOK, LinkInv, Handling
    PROVE  cur \in Msgs /\ cur \notin unsent /\ Pending(cur)
  <1>1. cur \in Msgs
    BY DEF TypeOK, Handling
  <1>2. CASE link = "open"
    BY <1>1, <1>2 DEF LinkInv, OpenLink, QueuesDisjoint, Pending
  <1>3. CASE link = "closed"
    BY <1>1, <1>3 DEF LinkInv, ClosedLink, QueuesDisjoint, Pending
  <1>4. QED
    BY <1>2, <1>3 DEF TypeOK

\* So is every message with a frame on the wire, as an unsettled delivery.
LEMMA ReadIsUnacked ==
    ASSUME TypeOK, LinkInv, NEW op \in {"ack", "nack", "publish"}, BrokerReads(op)
    PROVE  /\ Head(wire).msg \in unacked /\ Head(wire).msg \in Msgs
           /\ Head(wire).msg \notin unsent /\ Head(wire).msg \notin ready
           /\ Len(wire) \in Nat \ {0} /\ Head(wire) = wire[1] /\ wire[1].op = op
  <1>1. /\ Len(wire) \in Nat \ {0} /\ Head(wire) = wire[1] /\ wire[1].op = op
        /\ wire[1].msg \in Msgs
    BY ReadWire
  <1>2. wire[1].msg \in unacked
    BY <1>1 DEF LinkInv, OpenLink, BrokerReads
  <1>3. QED
    BY <1>1, <1>2 DEF LinkInv, QueuesDisjoint

-----------------------------------------------------------------------------
(* Settled is final *)

LEMMA SettledStep ==
    ASSUME TypeOK, LinkInv, [Next]_vars, NEW m \in Msgs, Settled(m)
    PROVE  Settled(m)' /\ docs'[m] = docs[m] /\ dlq'[m] = dlq[m]
  <1>1. m \notin unsent /\ m \notin ready /\ m \notin unacked
    BY DEF Settled, Pending
  <1>2. CASE IndexOk \/ IndexRetry \/ IndexExhausted
    <2>1. /\ Handling /\ UNCHANGED <<unsent, ready, unacked, dlq>>
          /\ docs' \in {docs, [docs EXCEPT ![cur] = @ + 1]}
      BY <1>2 DEF IndexOk, IndexRetry, IndexExhausted, IndexRaises, Handling, brokerVars
    <2>2. m # cur
      BY <2>1, HandledIsPending DEF Settled
    <2>3. docs'[m] = docs[m]
      BY <2>1, <2>2 DEF TypeOK
    <2>4. QED
      BY <1>1, <2>1, <2>3 DEF Settled, Pending
  <1>3. CASE BrokerAck \/ BrokerNack \/ BrokerPublish
    <2>1. m # Head(wire).msg
      BY <1>1, <1>3, ReadIsUnacked DEF BrokerAck, BrokerNack, BrokerPublish
    <2>2. /\ UNCHANGED <<unsent, ready, docs>> /\ unacked' \subseteq unacked
          /\ UNCHANGED dlq \/ DeadLetter(Head(wire).msg)
      BY <1>3 DEF BrokerAck, BrokerNack, BrokerPublish, BrokerReads
    <2>3. dlq'[m] = dlq[m]
      BY <2>1, <2>2 DEF DeadLetter, TypeOK
    <2>4. QED
      BY <1>1, <2>2, <2>3 DEF Settled, Pending
  <1>4. ASSUME NEW k \in Msgs, Publish(k) \/ Deliver(k)
        PROVE  Settled(m)' /\ docs'[m] = docs[m] /\ dlq'[m] = dlq[m]
    BY <1>1, <1>4 DEF Publish, Deliver, Settled, Pending
  <1>5. CASE LinkLost \/ LinkReaped
    BY <1>1, <1>5 DEF LinkLost, LinkReaped, CloseLink, Settled, Pending
  <1>6. CASE UNCHANGED <<unsent, ready, unacked, docs, dlq>>
    BY <1>1, <1>6 DEF Settled, Pending
  <1>7. QED
    BY <1>2, <1>3, <1>4, <1>5, <1>6 DEF Next, Process, Broker, vars, brokerVars,
       HandleAccept, HandleReject, AckIndexed, AckIndexedRaises, Nack, NackRaises,
       PublishDlx, PublishDlxRaises, AckDead, AckDeadRaises, Exit, Crash, Start

\* Once a message is settled it never returns to the queue and no further
\* copy of it is made, in an index or in the DLQ, by any step of the
\* consumer, the broker or a fault.
THEOREM SettledStaysFinal == Spec => SettledIsFinal
  <1>1. Init => TypeOK /\ LinkInv
    BY TypeInit, LinkInit
  <1>2. (TypeOK /\ LinkInv) /\ [Next]_vars => (TypeOK /\ LinkInv)'
    BY TypeNext, LinkNext
  <1>3. (TypeOK /\ LinkInv) /\ [Next]_vars =>
           [\A m \in Msgs : Settled(m) =>
               Settled(m)' /\ docs'[m] = docs[m] /\ dlq'[m] = dlq[m]]_vars
    BY SettledStep
  <1>4. QED
    BY <1>1, <1>2, <1>3, PTL DEF Spec, SettledIsFinal

-----------------------------------------------------------------------------
(* The refinement of Delivery *)

\* The mapped variables, message by message.
Status(m) == IF m \in unsent THEN "unsent" ELSE IF Pending(m) THEN "pending" ELSE "settled"
Held(m) == {p \in {"index", "dlq"} : IF p = "index" THEN docs[m] > 0 ELSE dlq[m] > 0}

LEMMA MapStutter ==
    ASSUME \A m \in Msgs : Status(m)' = Status(m) /\ Held(m)' = Held(m)
    PROVE  UNCHANGED Promise!vars
  BY DEF Promise!vars, Status, Held

LEMMA MapPublish ==
    ASSUME NEW k \in Msgs, Status(k) = "unsent", Status(k)' = "pending",
           \A m \in Msgs \ {k} : Status(m)' = Status(m),
           \A m \in Msgs : Held(m)' = Held(m)
    PROVE  Promise!Publish(k)
  BY DEF Promise!Publish, Status, Held

LEMMA MapHold ==
    ASSUME NEW k \in Msgs, NEW p \in {"index", "dlq"}, Status(k) = "pending",
           Rejected(k) => p = "dlq",
           \A m \in Msgs : Status(m)' = Status(m),
           \A m \in Msgs \ {k} : Held(m)' = Held(m),
           Held(k)' = Held(k) \cup {p}
    PROVE  Promise!Hold(k, p)
  BY DEF Promise!Hold, Status, Held

LEMMA MapSettle ==
    ASSUME NEW k \in Msgs, Status(k) = "pending", Status(k)' = "settled", Held(k) # {},
           \A m \in Msgs \ {k} : Status(m)' = Status(m),
           \A m \in Msgs : Held(m)' = Held(m)
    PROVE  Promise!Settle(k)
  BY DEF Promise!Settle, Status, Held

LEMMA MapSettleDead ==
    ASSUME NEW k \in Msgs, Status(k) = "pending", Status(k)' = "settled",
           \A m \in Msgs \ {k} : Status(m)' = Status(m) /\ Held(m)' = Held(m),
           Held(k)' = Held(k) \cup {"dlq"}
    PROVE  Promise!SettleDead(k)
  BY DEF Promise!SettleDead, Status, Held

LEMMA RefineInit == TypeOK /\ Init => Promise!Init
  BY DEF Init, Promise!Init, Pending

LEMMA RefineNext ==
    ASSUME DlqBound, TypeOK, LinkInv, HoldInv, RejectInv, [Next]_vars
    PROVE  [Promise!Next]_(Promise!vars)
  <1> USE DEF Promise!Next, Promise!Places
  <1>1. CASE UNCHANGED <<unsent, docs, dlq>> /\ \A m \in Msgs : Pending(m)' = Pending(m)
    <2>1. \A m \in Msgs : Status(m)' = Status(m) /\ Held(m)' = Held(m)
      BY <1>1 DEF Status, Held
    <2>2. QED
      BY <2>1, MapStutter
  <1>2. ASSUME NEW k \in Msgs, Publish(k) PROVE Promise!Publish(k)
    <2>1. /\ k \in unsent /\ unsent' = unsent \ {k} /\ ready' = ready \cup {k}
          /\ UNCHANGED <<unacked, docs, dlq>>
      BY <1>2 DEF Publish
    <2>2. /\ Status(k) = "unsent" /\ Status(k)' = "pending"
          /\ \A m \in Msgs \ {k} : Status(m)' = Status(m)
      BY <2>1 DEF Status, Pending
    <2>3. \A m \in Msgs : Held(m)' = Held(m)
      BY <2>1 DEF Held
    <2>4. QED
      BY <2>2, <2>3, MapPublish
  <1>3. CASE IndexOk \/ IndexRetry \/ IndexExhausted
    <2>1. /\ pc = "index" /\ UNCHANGED <<unsent, ready, unacked, dlq>>
          /\ docs' = docs \/ docs' = [docs EXCEPT ![cur] = @ + 1]
      BY <1>3 DEF IndexOk, IndexRetry, IndexExhausted, IndexRaises, brokerVars
    <2>2. \A m \in Msgs : Status(m)' = Status(m)
      BY <2>1 DEF Status, Pending
    <2>3. CASE docs' = docs
      BY <1>1, <2>1, <2>3 DEF Pending
    <2>4. CASE docs' = [docs EXCEPT ![cur] = @ + 1]
      <3>1. PICK k \in Msgs : k = cur
        BY <2>1, HandledIsPending DEF Handling
      <3>2. Status(k) = "pending" /\ ~Rejected(k)
        BY <2>1, <3>1, HandledIsPending DEF Handling, Status, RejectInv
      <3>3. docs'[k] > 0 /\ \A m \in Msgs \ {k} : docs'[m] = docs[m]
        BY <2>4, <3>1 DEF TypeOK
      <3>4. /\ Held(k)' = Held(k) \cup {"index"}
            /\ \A m \in Msgs \ {k} : Held(m)' = Held(m)
        BY <2>1, <3>3 DEF Held
      <3>5. Promise!Hold(k, "index")
        BY <2>2, <3>2, <3>4, MapHold
      <3>6. QED
        BY <3>5
    <2>5. QED
      BY <2>1, <2>3, <2>4
  <1>4. ASSUME BrokerAck \/ BrokerNack
        PROVE  \E k \in Msgs : Promise!Settle(k) \/ Promise!SettleDead(k)
    <2>0. PICK k \in Msgs : k = Head(wire).msg
      BY <1>4, ReadIsUnacked DEF BrokerAck, BrokerNack
    <2>1. /\ k \in unacked /\ k \notin unsent /\ k \notin ready
          /\ Len(wire) \in Nat \ {0} /\ Head(wire) = wire[1]
          /\ BrokerAck => wire[1].op = "ack"
      BY <1>4, <2>0, ReadIsUnacked DEF BrokerAck, BrokerNack
    <2>2. unacked' = unacked \ {k} /\ UNCHANGED <<unsent, ready, docs>>
      BY <1>4, <2>0 DEF BrokerAck, BrokerNack, BrokerReads
    <2>3. /\ Status(k) = "pending" /\ Status(k)' = "settled"
          /\ \A m \in Msgs \ {k} : Status(m)' = Status(m)
      BY <2>1, <2>2 DEF Status, Pending
    <2>4. CASE BrokerAck
      <3>1. docs[k] > 0 \/ dlq[k] > 0
        BY <2>0, <2>1, <2>4 DEF HoldInv, Kept
      <3>2. Held(k) # {} /\ \A m \in Msgs : Held(m)' = Held(m)
        BY <2>2, <2>4, <3>1 DEF Held, BrokerAck
      <3>3. QED
        BY <2>1, <2>3, <3>2, MapSettle
    <2>5. CASE BrokerNack
      <3>1. dlq' = [dlq EXCEPT ![k] = @ + 1]
        BY <2>0, <2>5 DEF BrokerNack, DeadLetter
      <3>2. dlq'[k] > 0 /\ \A m \in Msgs \ {k} : dlq'[m] = dlq[m]
        BY <2>1, <3>1 DEF TypeOK
      <3>3. Held(k)' = Held(k) \cup {"dlq"} /\ \A m \in Msgs \ {k} : Held(m)' = Held(m)
        BY <2>2, <3>2 DEF Held
      <3>4. QED
        BY <2>1, <2>3, <3>3, MapSettleDead
    <2>6. QED
      BY <1>4, <2>4, <2>5
  <1>5. ASSUME BrokerPublish PROVE \E k \in Msgs : Promise!Hold(k, "dlq")
    <2>0. PICK k \in Msgs : k = Head(wire).msg
      BY <1>5, ReadIsUnacked DEF BrokerPublish
    <2>1. k \in unacked /\ k \notin unsent
      BY <1>5, <2>0, ReadIsUnacked DEF BrokerPublish
    <2>2. dlq' = [dlq EXCEPT ![k] = @ + 1] /\ UNCHANGED <<unsent, ready, unacked, docs>>
      BY <1>5, <2>0 DEF BrokerPublish, BrokerReads, DeadLetter
    <2>3. Status(k) = "pending" /\ \A m \in Msgs : Status(m)' = Status(m)
      BY <2>1, <2>2 DEF Status, Pending
    <2>4. dlq'[k] > 0 /\ \A m \in Msgs \ {k} : dlq'[m] = dlq[m]
      BY <2>1, <2>2 DEF TypeOK
    <2>5. Held(k)' = Held(k) \cup {"dlq"} /\ \A m \in Msgs \ {k} : Held(m)' = Held(m)
      BY <2>2, <2>4 DEF Held
    <2>6. QED
      BY <2>1, <2>3, <2>5, MapHold
  <1>6. CASE LinkLost \/ LinkReaped \/ \E k \in Msgs : Deliver(k)
    <2>1. UNCHANGED <<unsent, docs, dlq>> /\ ready' \cup unacked' = ready \cup unacked
      BY <1>6 DEF LinkLost, LinkReaped, CloseLink, Deliver, TypeOK
    <2>2. QED
      BY <1>1, <2>1 DEF Pending
  <1>7. CASE UNCHANGED <<unsent, ready, unacked, docs, dlq>>
    BY <1>1, <1>7 DEF Pending
  <1>8. QED
    BY <1>2, <1>3, <1>4, <1>5, <1>6, <1>7 DEF Next, Process, Broker, vars, brokerVars,
       HandleAccept, HandleReject, AckIndexed, AckIndexedRaises, Nack, NackRaises,
       PublishDlx, PublishDlxRaises, AckDead, AckDeadRaises, Exit, Crash, Start

\* With a DLQ bound to the dead-letter exchange the consumer and its broker
\* implement the promise of module Delivery: every step of theirs publishes,
\* copies or settles one message as Delivery allows, or changes nothing a
\* producer can see.
THEOREM ConsumerImplementsDelivery == DlqBound => (Spec => ImplementsDelivery)
  <1> SUFFICES ASSUME DlqBound PROVE Spec => ImplementsDelivery
    OBVIOUS
  <1> DEFINE I == TypeOK /\ LinkInv /\ HoldInv /\ RejectInv
  <1>1. Init => I
    <2>1. Init => RejectInv
      BY DEF Init, RejectInv, RejectedNeverIndexed
    <2>2. QED
      BY <2>1, TypeInit, LinkInit, HoldInit
  <1>2. I /\ [Next]_vars => I'
    BY TypeNext, LinkNext, HoldNext, RejectNext
  <1>3. Init => Promise!Init
    BY TypeInit, RefineInit
  <1>4. I /\ [Next]_vars => [Promise!Next]_(Promise!vars)
    BY RefineNext
  <1>5. QED
    BY <1>1, <1>2, <1>3, <1>4, PTL DEF Spec, ImplementsDelivery, Promise!Spec
=============================================================================
