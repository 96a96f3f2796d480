------------------------- MODULE BulkConsumerProofs -------------------------
(***************************************************************************)
(* Proofs about BulkConsumer.  LossBounded needs to know that the message  *)
(* about to be acknowledged is in the buffer or stored, or was lost by a   *)
(* flush that a fault has paid for (Lost counts it before it is            *)
(* acknowledged).  DuplicatesBounded needs to know how often each message  *)
(* may still be stored: Copies counts those in the buffer, Owed the        *)
(* deliveries that are still to come or in the inbox.                      *)
(***************************************************************************)
EXTENDS BulkConsumer, FiniteSetTheorems, TLAPS

Places(is, m) == {i \in is : buffer[i] = m}
Copies(m) == Cardinality(Places(DOMAIN buffer, m))

\* The message handle() has put into the buffer and not acknowledged yet.
Busy == IF pc \in {"flush", "ack"} THEN {cur} ELSE {}

FlowInv ==
    /\ ready \cap unacked = {}
    /\ link = "open" => inbox \subseteq unacked
    /\ link = "open" /\ pc \in {"flush", "ack"} => cur \in unacked \ inbox
    /\ link = "closed" => unacked = {}
    /\ pc = "down" => inbox = {}
    /\ pc \in {"flush", "ack"} => cur \in Msgs
    /\ pc = "flush" => Buffered(cur)

Lost == {m \in Msgs : /\ ~Buffered(m) /\ docs[m] = 0
                      /\ Acked(m) \/ (pc = "ack" /\ m = cur)}

LossInv == Cardinality(Lost) <= faults * MaxItems

Owed(m) == (IF m \in ready \cup (unacked \ Busy) THEN 1 ELSE 0)
           + (IF link = "closed" /\ m \in inbox THEN 1 ELSE 0)

DuplicateInv == \A m \in Msgs : docs[m] + Copies(m) + Owed(m) <= 1 + faults

-----------------------------------------------------------------------------
(* The buffer *)

LEMMA PlacesCount ==
    ASSUME buffer \in Seq(Msgs), NEW m, NEW is \in SUBSET DOMAIN buffer
    PROVE  /\ Cardinality(Places(is, m)) \in Nat
           /\ Cardinality(Places(is, m)) <= Copies(m)
           /\ Cardinality(Places(is, m)) = 0 <=> Places(is, m) = {}
<1>1. IsFiniteSet(DOMAIN buffer)
  <2>1. DOMAIN buffer = 1 .. Len(buffer) /\ Len(buffer) \in Int
    OBVIOUS
  <2> QED BY <2>1, FS_Interval
<1>2. IsFiniteSet(Places(DOMAIN buffer, m))
  BY <1>1, FS_Subset DEF Places
<1>3. Places(is, m) \in SUBSET Places(DOMAIN buffer, m)
  BY DEF Places
<1>4. IsFiniteSet(Places(is, m)) /\ Cardinality(Places(is, m)) <= Copies(m)
  BY <1>2, <1>3, FS_Subset DEF Copies
<1> QED BY <1>4, FS_CardinalityType, FS_EmptySet

\* OpenSearch stores the documents at some places of the buffer.
LEMMA StoredDocs ==
    ASSUME TypeOK, NEW is \in SUBSET DOMAIN buffer, Stored(is)
    PROVE  /\ docs' \in [Msgs -> Nat]
           /\ \A m \in Msgs : /\ docs[m] <= docs'[m] /\ docs'[m] <= docs[m] + Copies(m)
                              /\ is = DOMAIN buffer /\ Buffered(m) => docs'[m] > 0
<1>1. docs' = [m \in Msgs |-> docs[m] + Cardinality(Places(is, m))]
  BY DEF Stored, Places
<1>2. ASSUME NEW m \in Msgs
      PROVE  /\ Cardinality(Places(is, m)) \in Nat
             /\ Cardinality(Places(is, m)) <= Copies(m)
             /\ Cardinality(Places(is, m)) = 0 <=> Places(is, m) = {}
  BY PlacesCount DEF TypeOK
<1>3. docs' \in [Msgs -> Nat]
  BY <1>1, <1>2 DEF TypeOK
<1>4. ASSUME NEW m \in Msgs
      PROVE  /\ docs[m] <= docs'[m] /\ docs'[m] <= docs[m] + Copies(m)
             /\ is = DOMAIN buffer /\ Buffered(m) => docs'[m] > 0
  <2>1. docs[m] \in Nat /\ docs'[m] = docs[m] + Cardinality(Places(is, m))
    BY <1>1 DEF TypeOK
  <2>2. Copies(m) \in Nat
    BY PlacesCount DEF TypeOK, Copies
  <2>3. is = DOMAIN buffer /\ Buffered(m) => Places(is, m) # {}
    BY DEF Buffered, Places
  <2> QED BY <1>2, <2>1, <2>2, <2>3
<1> QED BY <1>3, <1>4

LEMMA AppendCopies ==
    ASSUME buffer \in Seq(Msgs), NEW e \in Msgs, buffer' = Append(buffer, e), NEW m
    PROVE  /\ Copies(m)' = Copies(m) + (IF m = e THEN 1 ELSE 0)
           /\ Buffered(m)' <=> Buffered(m) \/ m = e
<1> DEFINE n == Len(buffer) + 1
<1>1. /\ DOMAIN buffer = 1 .. Len(buffer) /\ n \notin DOMAIN buffer
      /\ DOMAIN buffer' = DOMAIN buffer \cup {n}
      /\ buffer'[n] = e /\ \A i \in DOMAIN buffer : buffer'[i] = buffer[i]
  OBVIOUS
<1> HIDE DEF n
<1>2. IsFiniteSet(Places(DOMAIN buffer, m)) /\ Copies(m) \in Nat
  <2>1. IsFiniteSet(DOMAIN buffer)
    BY <1>1, FS_Interval
  <2>2. IsFiniteSet(Places(DOMAIN buffer, m))
    BY <2>1, FS_Subset DEF Places
  <2> QED BY <2>2, FS_CardinalityType DEF Copies
<1>3. Copies(m)' = Cardinality({i \in DOMAIN buffer' : buffer'[i] = m})
  BY DEF Copies, Places
<1>4. {i \in DOMAIN buffer' : buffer'[i] = m}
      = IF m = e THEN Places(DOMAIN buffer, m) \cup {n} ELSE Places(DOMAIN buffer, m)
  BY <1>1 DEF Places
<1>5. n \notin Places(DOMAIN buffer, m)
  BY <1>1 DEF Places
<1>6. Copies(m)' = Copies(m) + (IF m = e THEN 1 ELSE 0)
  <2>1. CASE m = e
    <3>1. Cardinality(Places(DOMAIN buffer, m) \cup {n}) = Cardinality(Places(DOMAIN buffer, m)) + 1
      BY <1>2, <1>5, FS_AddElement
    <3> QED BY <1>3, <1>4, <2>1, <3>1 DEF Copies
  <2>2. CASE m # e
    <3>1. Copies(m)' = Copies(m)
      BY <1>3, <1>4, <2>2 DEF Copies
    <3> QED BY <1>2, <2>2, <3>1
  <2> QED BY <2>1, <2>2
<1>7. Buffered(m)' <=> \E i \in DOMAIN buffer' : buffer'[i] = m
  BY DEF Buffered
<1> QED BY <1>1, <1>6, <1>7 DEF Buffered

LEMMA EmptyCopies ==
    ASSUME buffer' = <<>>, NEW m
    PROVE  Copies(m)' = 0 /\ ~Buffered(m)'
<1>1. Places(DOMAIN buffer, m)' = {}
  BY DEF Places
<1> QED BY <1>1, FS_EmptySet DEF Copies, Buffered

-----------------------------------------------------------------------------
(* Types *)

LEMMA InitInv == Init => TypeOK /\ FlowInv /\ LossInv /\ DuplicateInv
<1> SUFFICES ASSUME Init PROVE TypeOK /\ FlowInv /\ LossInv /\ DuplicateInv
  OBVIOUS
<1> USE BulkAssumption DEF Init
<1>1. TypeOK
  <2>1. buffer \in Seq(Msgs) /\ Len(buffer) = 0 /\ docs \in [Msgs -> Nat]
    OBVIOUS
  <2> QED BY <2>1 DEF TypeOK, Pcs
<1>2. FlowInv
  BY DEF FlowInv
<1>3. LossInv
  <2>1. Lost = {}
    BY DEF Lost, Acked
  <2> QED BY <2>1, FS_EmptySet DEF LossInv
<1>4. DuplicateInv
  <2> SUFFICES ASSUME NEW m \in Msgs PROVE docs[m] + Copies(m) + Owed(m) <= 1 + faults
    BY DEF DuplicateInv
  <2>1. Copies(m) = 0
    <3>1. Places(DOMAIN buffer, m) = {}
      BY DEF Places
    <3> QED BY <3>1, FS_EmptySet DEF Copies
  <2>2. docs[m] = 0 /\ Owed(m) = 1 /\ faults = 0
    BY DEF Owed, Busy
  <2> QED BY <2>1, <2>2
<1> QED BY <1>1, <1>2, <1>3, <1>4

LEMMA TypeStep ==
    ASSUME TypeOK, [Next]_vars
    PROVE  TypeOK'
<1> USE BulkAssumption DEF TypeOK, Pcs, brokerVars
<1>1. CASE UNCHANGED vars
  BY <1>1 DEF vars
<1>2. CASE Start
  BY <1>2 DEF Start
<1>3. CASE Stop
  BY <1>3 DEF Stop
<1>4. CASE Interrupted
  <2>1. docs' \in [Msgs -> Nat]
    BY <1>4, StoredDocs DEF Interrupted
  <2>2. /\ buffer' \in Seq(Msgs) /\ Len(buffer') <= MaxItems
        /\ elapsed' \in 0 .. Interval /\ pc' = "final"
    <3>1. /\ pc' = "final"
          /\ UNCHANGED <<buffer, elapsed>> \/ (buffer' = <<>> /\ elapsed' = 0)
      BY <1>4 DEF Interrupted
    <3>2. CASE UNCHANGED <<buffer, elapsed>>
      BY <3>1, <3>2
    <3>3. CASE buffer' = <<>> /\ elapsed' = 0
      <4>1. <<>> \in Seq(Msgs) /\ Len(<<>>) = 0
        OBVIOUS
      <4> QED BY <3>1, <3>3, <4>1
    <3> QED BY <3>1, <3>2, <3>3
  <2>3. UNCHANGED <<ready, unacked, link, inbox>> /\ cur' = NoMsg /\ faults' \in 0 .. MaxFaults
    BY <1>4 DEF Interrupted
  <2> QED BY <2>1, <2>2, <2>3
<1>5. CASE Crash
  BY <1>5 DEF Crash
<1>6. ASSUME NEW m \in Msgs, Add(m) PROVE TypeOK'
  <2>1. /\ buffer' \in Seq(Msgs) /\ Len(buffer') = Len(buffer) + 1 /\ Len(buffer) < MaxItems
        /\ pc' # "flush" => Len(buffer') < MaxItems
        /\ pc' \in {"flush", "ack"}
    BY <1>6 DEF Add
  <2> QED BY <1>6, <2>1 DEF Add
<1>7. ASSUME NEW m \in Msgs, Deliver(m) PROVE TypeOK'
  BY <1>7 DEF Deliver
<1>8. CASE Flush \/ FlushFails
  <2>1. PICK is \in SUBSET DOMAIN buffer : Stored(is)
    BY <1>8 DEF Flush, FlushFails
  <2>2. docs' \in [Msgs -> Nat]
    BY <2>1, StoredDocs
  <2>3. Flushed /\ faults' \in 0 .. MaxFaults
    BY <1>8 DEF Flush, FlushFails
  <2>4. buffer' \in Seq(Msgs) /\ Len(buffer') = 0
    BY <2>3 DEF Flushed
  <2> QED BY <2>2, <2>3, <2>4 DEF Flushed
<1>9. CASE Ack \/ AckRaises
  BY <1>9 DEF Ack, AckRaises
<1>10. CASE LinkLost \/ LinkReaped
  BY <1>10 DEF LinkLost, LinkReaped, CloseLink
<1>11. CASE Tick
  BY <1>11 DEF Tick
<1> QED BY <1>1, <1>2, <1>3, <1>4, <1>5, <1>6, <1>7, <1>8, <1>9, <1>10, <1>11 DEF Next

-----------------------------------------------------------------------------
(* The flow of the messages *)

LEMMA FlowStep ==
    ASSUME TypeOK, FlowInv, [Next]_vars
    PROVE  FlowInv'
<1> USE DEF TypeOK, FlowInv, brokerVars
<1>1. CASE UNCHANGED vars
  BY <1>1 DEF vars, Buffered
<1>2. CASE Start \/ Stop
  BY <1>2 DEF Start, Stop
<1>3. CASE Interrupted \/ Crash
  BY <1>3 DEF Interrupted, Crash
<1>4. ASSUME NEW m \in Msgs, Add(m) PROVE FlowInv'
  <2>1. Buffered(m)' /\ cur' = m
    BY <1>4, AppendCopies DEF Add
  <2> QED BY <1>4, <2>1 DEF Add
<1>5. ASSUME NEW m \in Msgs, Deliver(m) PROVE FlowInv'
  <2>1. pc = "flush" => Buffered(cur)'
    BY <1>5 DEF Deliver, Buffered
  <2> QED BY <1>5, <2>1 DEF Deliver
<1>6. CASE Flush \/ FlushFails
  <2>1. Flushed
    BY <1>6 DEF Flush, FlushFails
  <2>2. pc' # "flush" /\ (pc' = "ack" => pc = "flush")
    BY <2>1 DEF Flushed
  <2>3. UNCHANGED link
    BY <2>1 DEF Flushed
  <2> QED BY <1>6, <2>1, <2>2, <2>3 DEF Flush, FlushFails, Flushed
<1>7. CASE Ack \/ AckRaises
  BY <1>7 DEF Ack, AckRaises
<1>8. CASE LinkLost \/ LinkReaped
  <2>1. CloseLink
    BY <1>8 DEF LinkLost, LinkReaped
  <2>2. pc = "flush" => Buffered(cur)'
    BY <2>1 DEF CloseLink, Buffered
  <2> QED BY <2>1, <2>2 DEF CloseLink
<1>9. CASE Tick
  BY <1>9 DEF Tick, Buffered
<1> QED BY <1>1, <1>2, <1>3, <1>4, <1>5, <1>6, <1>7, <1>8, <1>9 DEF Next

-----------------------------------------------------------------------------
(* What is lost *)

LEMMA LostIsFinite == IsFiniteSet(Lost) /\ Cardinality(Lost) \in Nat
<1>1. Lost \in SUBSET Msgs
  BY DEF Lost
<1> QED BY <1>1, BulkAssumption, FS_Subset, FS_CardinalityType

\* A step that loses no message ...
LEMMA LosesNothing ==
    ASSUME TypeOK, LossInv, Lost' \subseteq Lost, faults' \in {faults, faults + 1}
    PROVE  LossInv'
<1>1. Cardinality(Lost') <= Cardinality(Lost) /\ Cardinality(Lost') \in Nat
  BY LostIsFinite, FS_Subset, FS_CardinalityType
<1>2. faults * MaxItems <= faults' * MaxItems
  <2>1. (faults + 1) * MaxItems = faults * MaxItems + MaxItems /\ faults * MaxItems \in Int
    BY BulkAssumption DEF TypeOK
  <2> QED BY <2>1, BulkAssumption
<1>3. faults * MaxItems \in Int /\ faults' * MaxItems \in Int
  BY BulkAssumption DEF TypeOK
<1>4. Cardinality(Lost)' = Cardinality(Lost')
  OBVIOUS
<1> QED BY <1>1, <1>2, <1>3, <1>4, LostIsFinite DEF LossInv

\* ... and one that loses the buffer, at the cost of a fault.
LEMMA LosesBuffer ==
    ASSUME TypeOK, LossInv, faults' = faults + 1,
           Lost' \subseteq Lost \cup {buffer[i] : i \in DOMAIN buffer}
    PROVE  LossInv'
<1> DEFINE range == {buffer[i] : i \in DOMAIN buffer}
<1>1. IsFiniteSet(range) /\ Cardinality(range) <= Len(buffer) /\ Cardinality(range) \in Nat
  <2>1. buffer \in [1 .. Len(buffer) -> range] /\ DOMAIN buffer = 1 .. Len(buffer)
        /\ Len(buffer) \in Nat
    BY DEF TypeOK
  <2>2. buffer \in Surjection(1 .. Len(buffer), range)
    BY <2>1 DEF Surjection
  <2>3. ExistsSurjection(1 .. Len(buffer), range)
    BY <2>2 DEF ExistsSurjection
  <2> HIDE DEF range
  <2>4. IsFiniteSet(range) /\ Cardinality(range) <= Len(buffer)
    BY <2>1, <2>3, FS_NatSurjection, FS_SurjCardinalityBound
  <2> QED BY <2>4, FS_CardinalityType
<1> HIDE DEF range
<1>2. /\ IsFiniteSet(Lost \cup range)
      /\ Cardinality(Lost \cup range) <= Cardinality(Lost) + Cardinality(range)
  <2>1. Cardinality(Lost \cap range) \in Nat
    BY LostIsFinite, FS_Intersection, FS_CardinalityType
  <2>2. /\ IsFiniteSet(Lost \cup range)
        /\ Cardinality(Lost \cup range)
             = Cardinality(Lost) + Cardinality(range) - Cardinality(Lost \cap range)
    BY <1>1, LostIsFinite, FS_Union
  <2> QED BY <1>1, <2>1, <2>2, LostIsFinite
<1>3. Lost' \in SUBSET (Lost \cup range)
  BY DEF range
<1>4. Cardinality(Lost') <= Cardinality(Lost \cup range) /\ Cardinality(Lost') \in Nat
      /\ Cardinality(Lost \cup range) \in Nat
  BY <1>2, <1>3, FS_Subset, FS_CardinalityType
<1>5. Cardinality(range) <= MaxItems
  BY <1>1, BulkAssumption DEF TypeOK
<1>6. faults' * MaxItems = faults * MaxItems + MaxItems /\ faults * MaxItems \in Int
  BY BulkAssumption DEF TypeOK
<1>7. Cardinality(Lost)' = Cardinality(Lost')
  OBVIOUS
<1> QED BY <1>1, <1>2, <1>4, <1>5, <1>6, <1>7, LostIsFinite, BulkAssumption DEF LossInv

LEMMA SameBuffer == ASSUME UNCHANGED buffer PROVE \A m : Buffered(m)' <=> Buffered(m)
BY DEF Buffered

LEMMA LossStep ==
    ASSUME TypeOK, FlowInv, LossInv, [Next]_vars
    PROVE  LossInv'
<1> DEFINE range == {buffer[i] : i \in DOMAIN buffer}
<1>0. faults \in Nat /\ \A m : Buffered(m) <=> m \in range
  BY BulkAssumption DEF TypeOK, Buffered
<1> HIDE DEF range
<1> USE DEF brokerVars
<1>1. CASE UNCHANGED vars \/ Start \/ Stop \/ Tick \/ AckRaises
  <2>1. /\ UNCHANGED <<ready, unacked, docs, buffer, faults>>
        /\ pc' = "ack" => pc = "ack" /\ cur' = cur
    BY <1>1 DEF vars, Start, Stop, Tick, AckRaises
  <2>2. \A m \in Msgs : m \in Lost' => m \in Lost
    BY <2>1, SameBuffer DEF Lost, Acked
  <2>3. Lost' \subseteq Lost
    BY <2>2 DEF Lost
  <2> QED BY <2>1, <2>3, LosesNothing
<1>2. CASE Ack
  <2>1. /\ UNCHANGED <<ready, docs, buffer, faults>> /\ unacked' = unacked \ {cur}
        /\ pc = "ack" /\ pc' = "idle"
    BY <1>2 DEF Ack
  <2>2. \A m \in Msgs : m \in Lost' => m \in Lost
    BY <2>1, SameBuffer DEF Lost, Acked
  <2>3. Lost' \subseteq Lost
    BY <2>2 DEF Lost
  <2> QED BY <2>1, <2>3, LosesNothing
<1>3. CASE LinkLost \/ LinkReaped
  <2>1. Lost' \subseteq Lost /\ (faults' = faults \/ faults' = faults + 1)
    BY <1>3 DEF LinkLost, LinkReaped, CloseLink, Lost, Acked, Buffered
  <2> QED BY <2>1, LosesNothing
<1>4. ASSUME NEW m \in Msgs, Deliver(m) PROVE LossInv'
  <2>1. Lost' \subseteq Lost /\ faults' = faults
    BY <1>4 DEF Deliver, Lost, Acked, Buffered
  <2> QED BY <2>1, LosesNothing
<1>5. ASSUME NEW m \in Msgs, Add(m) PROVE LossInv'
  <2>1. \A k \in Msgs : Buffered(k)' <=> Buffered(k) \/ k = m
    BY <1>5, AppendCopies DEF Add, TypeOK
  <2>2. Lost' \subseteq Lost /\ faults' = faults
    BY <1>5, <2>1 DEF Add, Lost, Acked
  <2> QED BY <2>2, LosesNothing
<1>6. CASE Flush
  <2>1. \A m \in Msgs : docs[m] <= docs'[m] /\ docs'[m] \in Nat /\ (Buffered(m) => docs'[m] > 0)
    BY <1>6, StoredDocs DEF Flush
  <2>2. \A m : ~Buffered(m)'
    BY <1>6, EmptyCopies DEF Flush, Flushed
  <2>3. Lost' \subseteq Lost /\ faults' = faults
    BY <1>6, <2>1, <2>2 DEF Flush, Flushed, Lost, Acked, FlowInv, TypeOK
  <2> QED BY <2>3, LosesNothing
<1>7. CASE FlushFails
  <2>1. \A m \in Msgs : docs[m] <= docs'[m] /\ docs'[m] \in Nat
    BY <1>7, StoredDocs DEF FlushFails
  <2>2. \A m \in Msgs : m \in Lost' => m \in Lost \/ Buffered(m)
    BY <1>7, <2>1 DEF FlushFails, Flushed, Lost, Acked, FlowInv, TypeOK
  <2>3. Lost' \subseteq Lost \cup range /\ faults' = faults + 1
    BY <1>0, <1>7, <2>2 DEF FlushFails, Lost
  <2> QED BY <2>3, LosesBuffer DEF range
<1>8. CASE Interrupted \/ Crash
  <2>1. \A m \in Msgs : docs[m] <= docs'[m] /\ docs'[m] \in Nat
    BY <1>8, StoredDocs DEF Interrupted, Crash, TypeOK
  <2>2. pc' # "ack" /\ UNCHANGED <<ready, unacked>> /\ faults' = faults + 1
    BY <1>8 DEF Interrupted, Crash
  <2>3. ASSUME NEW m \in Msgs, m \in Lost' PROVE m \in Lost \/ Buffered(m)
    <3>1. docs'[m] = 0 /\ Acked(m)
      BY <2>2, <2>3 DEF Lost, Acked
    <3>2. docs[m] = 0
      BY <2>1, <3>1 DEF TypeOK
    <3> QED BY <3>1, <3>2 DEF Lost
  <2>4. Lost' \subseteq Lost \cup range
    BY <1>0, <2>3 DEF Lost
  <2> QED BY <2>2, <2>4, LosesBuffer DEF range
<1> QED BY <1>1, <1>2, <1>3, <1>4, <1>5, <1>6, <1>7, <1>8 DEF Next

-----------------------------------------------------------------------------
(* What is stored twice *)

LEMMA DuplicateStep ==
    ASSUME TypeOK, FlowInv, DuplicateInv, [Next]_vars
    PROVE  DuplicateInv'
<1> SUFFICES ASSUME NEW m \in Msgs
             PROVE  docs'[m] + Copies(m)' + Owed(m)' <= 1 + faults'
  BY DEF DuplicateInv
<1>0. /\ docs[m] + Copies(m) + Owed(m) <= 1 + faults
      /\ docs[m] \in Nat /\ Copies(m) \in Nat /\ Owed(m) \in 0 .. 2 /\ faults \in Nat
  BY BulkAssumption, PlacesCount DEF DuplicateInv, TypeOK, Copies, Owed
<1> USE DEF brokerVars
<1>1. ASSUME UNCHANGED <<docs, buffer>>, Owed(m)' <= Owed(m), faults' = faults
      PROVE  docs'[m] + Copies(m)' + Owed(m)' <= 1 + faults'
  <2>1. Copies(m)' = Copies(m) /\ Owed(m)' \in 0 .. 2
    BY <1>1 DEF Copies, Places, Owed
  <2> QED BY <1>0, <1>1, <2>1
<1>2. ASSUME UNCHANGED <<docs, buffer>>, Owed(m)' <= Owed(m) + 1, faults' = faults + 1
      PROVE  docs'[m] + Copies(m)' + Owed(m)' <= 1 + faults'
  <2>1. Copies(m)' = Copies(m) /\ Owed(m)' \in 0 .. 2
    BY <1>2 DEF Copies, Places, Owed
  <2> QED BY <1>0, <1>2, <2>1
<1>3. ASSUME buffer' = <<>>, docs'[m] \in Nat, docs'[m] <= docs[m] + Copies(m),
             Owed(m)' <= Owed(m), faults' \in {faults, faults + 1}
      PROVE  docs'[m] + Copies(m)' + Owed(m)' <= 1 + faults'
  <2>1. Copies(m)' = 0 /\ Owed(m)' \in 0 .. 2
    BY <1>3, EmptyCopies DEF Owed
  <2> QED BY <1>0, <1>3, <2>1
<1>4. ASSUME buffer' = <<>>, docs'[m] \in Nat, docs'[m] <= docs[m] + Copies(m),
             Owed(m)' <= Owed(m) + 1, faults' = faults + 1
      PROVE  docs'[m] + Copies(m)' + Owed(m)' <= 1 + faults'
  <2>1. Copies(m)' = 0 /\ Owed(m)' \in 0 .. 2
    BY <1>4, EmptyCopies DEF Owed
  <2> QED BY <1>0, <1>4, <2>1
<1>5. CASE UNCHANGED vars \/ Start \/ Stop \/ Tick
  BY <1>1, <1>5 DEF vars, Start, Stop, Tick, Owed, Busy, FlowInv
<1>6. CASE Ack \/ AckRaises
  BY <1>1, <1>6 DEF Ack, AckRaises, Owed, Busy, FlowInv
<1>7. CASE LinkReaped
  BY <1>1, <1>7 DEF LinkReaped, CloseLink, Owed, Busy, FlowInv
<1>8. CASE LinkLost
  BY <1>2, <1>8 DEF LinkLost, CloseLink, Owed, Busy, FlowInv
<1>9. ASSUME NEW k \in Msgs, Deliver(k) PROVE docs'[m] + Copies(m)' + Owed(m)' <= 1 + faults'
  BY <1>1, <1>9 DEF Deliver, Owed, Busy, FlowInv
<1>10. ASSUME NEW k \in Msgs, Add(k) PROVE docs'[m] + Copies(m)' + Owed(m)' <= 1 + faults'
  <2>1. Copies(m)' = Copies(m) + (IF m = k THEN 1 ELSE 0)
    BY <1>10, AppendCopies DEF Add, TypeOK
  <2>2. Owed(m)' <= Owed(m) - (IF m = k THEN 1 ELSE 0) /\ Owed(m)' \in 0 .. 2
    BY <1>10 DEF Add, Owed, Busy, FlowInv, TypeOK
  <2>3. UNCHANGED <<docs, faults>>
    BY <1>10 DEF Add
  <2> QED BY <1>0, <2>1, <2>2, <2>3
<1>11. CASE Flush \/ FlushFails
  <2>1. docs'[m] \in Nat /\ docs'[m] <= docs[m] + Copies(m)
    BY <1>11, StoredDocs DEF Flush, FlushFails
  <2>2. /\ buffer' = <<>> /\ UNCHANGED <<ready, unacked, link, cur>>
        /\ pc' = IF pc = "flush" THEN "ack" ELSE "down"
        /\ inbox' \subseteq inbox
        /\ pc \in {"flush", "final"} /\ faults' \in {faults, faults + 1}
    BY <1>11 DEF Flush, FlushFails, Flushed
  <2>3. Owed(m)' <= Owed(m)
    BY <2>2 DEF Owed, Busy
  <2> QED BY <1>3, <2>1, <2>2, <2>3
<1>12. CASE Interrupted \/ Crash
  <2>1. Owed(m)' <= Owed(m) + 1 /\ faults' = faults + 1
    <3>1. /\ UNCHANGED <<ready, unacked, link>> /\ inbox' \subseteq inbox
          /\ pc' \notin {"flush", "ack"} /\ faults' = faults + 1
      BY <1>12 DEF Interrupted, Crash
    <3>2. link = "closed" => unacked = {}
      BY DEF FlowInv
    <3> QED BY <3>1, <3>2 DEF Owed, Busy
  <2>2. CASE UNCHANGED <<docs, buffer>>
    BY <1>2, <2>1, <2>2
  <2>3. CASE buffer' = <<>> /\ docs'[m] \in Nat /\ docs'[m] <= docs[m] + Copies(m)
    BY <1>4, <2>1, <2>3
  <2>4. CASE Crash
    BY <1>0, <2>3, <2>4 DEF Crash
  <2>5. CASE Interrupted
    BY <2>2, <2>3, <2>5, StoredDocs DEF Interrupted
  <2> QED BY <1>12, <2>4, <2>5
<1> QED BY <1>5, <1>6, <1>7, <1>8, <1>9, <1>10, <1>11, <1>12 DEF Next

-----------------------------------------------------------------------------

LEMMA IndInv == Spec => [](TypeOK /\ FlowInv /\ LossInv /\ DuplicateInv)
<1>1. TypeOK /\ FlowInv /\ LossInv /\ DuplicateInv /\ [Next]_vars
      => TypeOK' /\ FlowInv' /\ LossInv' /\ DuplicateInv'
  BY TypeStep, FlowStep, LossStep, DuplicateStep
<1> QED BY <1>1, InitInv, PTL DEF Spec

\* The buffer never outgrows its limit, for every limit and interval.
THEOREM TypeCorrect == Spec => []TypeOK
BY IndInv, PTL

\* However many events there are, a fault costs at most one buffer of them,
\* and a consumer that stops without one loses none.
THEOREM LossAlwaysBounded == Spec => []LossBounded
<1>1. TypeOK /\ LossInv => LossBounded
  <2> SUFFICES ASSUME TypeOK, LossInv PROVE LossBounded
    OBVIOUS
  <2> DEFINE gone == {m \in Msgs : Acked(m) /\ ~Buffered(m) /\ docs[m] = 0}
  <2>1. gone \in SUBSET Lost
    <3>1. ASSUME NEW m \in gone PROVE m \in Lost
      BY DEF Lost
    <3> QED BY <3>1
  <2>2. Cardinality(gone) <= Cardinality(Lost) /\ Cardinality(gone) \in Nat
    BY <2>1, LostIsFinite, FS_Subset, FS_CardinalityType
  <2>3. faults * MaxItems \in Int
    BY BulkAssumption DEF TypeOK
  <2> QED BY <2>2, <2>3, LostIsFinite DEF LossInv, LossBounded
<1> QED BY <1>1, IndInv, PTL

\* No event is stored more often than once and once for every fault.
THEOREM DuplicatesAlwaysBounded == Spec => []DuplicatesBounded
<1>1. TypeOK /\ DuplicateInv => DuplicatesBounded
  <2> SUFFICES ASSUME TypeOK, DuplicateInv, NEW m \in Msgs PROVE docs[m] <= 1 + faults
    BY DEF DuplicatesBounded
  <2>1. /\ docs[m] \in Nat /\ Copies(m) \in Nat /\ Owed(m) \in 0 .. 2 /\ faults \in Nat
        /\ docs[m] + Copies(m) + Owed(m) <= 1 + faults
    BY BulkAssumption, PlacesCount DEF DuplicateInv, TypeOK, Copies, Owed
  <2> QED BY <2>1
<1> QED BY <1>1, IndInv, PTL
=============================================================================
