-------------------------- MODULE DlqReplayProofs --------------------------
(***************************************************************************)
(* Theorems about module DlqReplay, for every set of events and bodies,    *)
(* every limit and number of faults, and every choice of tools.  What a    *)
(* session has written says what may still become of the message it holds  *)
(* (SessionInv); the other invariants count copies, and differ from the    *)
(* properties in the moment where the broker has read the corrected copy   *)
(* and not yet the acknowledgement (Sent).                                 *)
(***************************************************************************)
EXTENDS DlqReplay, SequenceTheorems, FiniteSetTheorems, TLAPS

\* What a session writes for one message: an operation that settles it, or a
\* copy and then the acknowledgement.
Gives == {<<"drop">>, <<"requeue">>}
Copies == {<<"publish">>, <<"quarantine">>}
CopyThenAck == {<<"publish", "ack">>, <<"quarantine", "ack">>}

SessionInv ==
    /\ pc = "off" => held = Nothing /\ wire = <<>>
    /\ pc \in {"publish", "quarantine", "drop", "requeue", "raised"} => held # Nothing /\ wire = <<>>
    /\ pc = "ack" => held # Nothing /\ wire \in {<<>>} \cup Copies
    /\ pc = "get" => \/ held = Nothing /\ wire = <<>>
                     \/ held # Nothing /\ wire \in {<<"ack">>} \cup CopyThenAck \cup Gives

\* A dry run and a peek only ever give back.
LookInv ==
    tool \in {"dryrun", "peek"} =>
        pc \in {"off", "get", "requeue", "raised"} /\ wire \in {<<>>, <<"requeue">>}

\* Nobody publishes, quarantines or acknowledges a poison: the replay tool
\* dies of it or gives it back, the others give it back or drop it.
PoisonInv ==
    held # Nothing /\ Poison(held) =>
        pc \in {"get", "requeue", "drop", "raised"} /\ wire \in {<<>>} \cup Gives

\* Everywhere an event is kept, and what it can still become.
Kept(m) == Queued(m) + indexed[m]
Weight(m) == Attempts * Queued(m) + indexed[m]

\* The broker has the copy of the held message and still the message.
Sent == wire = <<"ack">> \/ (pc = "ack" /\ wire = <<>>)
Doubled(m) == Sent /\ held # Nothing /\ held.msg = m

LossInv ==
    \A m \in Msgs : m \notin discarded => Kept(m) > (IF Doubled(m) THEN 1 ELSE 0)

CopiesInv ==
    \A m \in Msgs : Weight(m) <= Attempts * (1 + faults + (IF Doubled(m) THEN 1 ELSE 0))

\* Without a fault everything in the DLQ was rejected, so an event that the
\* correction repaired is not there.
RejectedOnly == faults = 0 => \A i \in DOMAIN Back : Back[i] \notin Acceptable

\* What is about to be dropped.
DropInv ==
    (pc = "drop" \/ wire = <<"drop">>) /\ tool # "take" =>
        tool = "replay" /\ ~keep /\ BodyOf[held.msg].shape = "garbage"

\* A replay discards only what is not JSON, and with --quarantine nothing.
DiscardsOnlyGarbage ==
    [][\A m \in discarded' \ discarded :
          tool = "take" \/ (tool = "replay" /\ ~keep /\ BodyOf[m].shape = "garbage")]_vars

\* The steps a session and the broker still have: two for each call that is
\* left, one for each frame on the wire, and the end.
CallsLeft == IF pc \in {"publish", "quarantine"} THEN 2 ELSE IF pc = "get" THEN 0 ELSE 1
Rank == IF pc = "off" THEN 0 ELSE 1 + 5 * (Limit - fetched) + 2 * CallsLeft + Len(wire)

\* A session has at most 5 * Limit + 1 of them, however fast the consumer
\* refills the DLQ.
SessionWindsDown ==
    [][pc # "off" =>
          /\ Rank \in 1 .. 5 * Limit + 1
          /\ Rank' \in 0 .. Rank
          /\ Tool \/ SessionLost \/ Broker => Rank' < Rank]_vars

\* No replay gets past a poison at the head of the DLQ.
Blocked == Back # <<>> /\ Poison(Head(Back))
PoisonBlocks ==
    [][Blocked =>
          /\ \A c \in Copy : main'[c] <= main[c]
          /\ \/ Blocked' /\ Head(Back') = Head(Back)
             \/ Head(Back).msg \in discarded']_vars

-----------------------------------------------------------------------------
(* Counting the copies of an event in a sequence *)

LEMMA CountType ==
    ASSUME NEW s \in Seq(Copy), NEW m
    PROVE  /\ IsFiniteSet({i \in DOMAIN s : s[i].msg = m})
           /\ CountIn(s, m) \in Nat
  <1>1. IsFiniteSet(DOMAIN s)
    <2>1. DOMAIN s = 1 .. Len(s) /\ Len(s) \in Int
      BY LenProperties
    <2>2. QED
      BY <2>1, FS_Interval
  <1>2. IsFiniteSet({i \in DOMAIN s : s[i].msg = m})
    BY <1>1, FS_Subset
  <1>3. QED
    BY <1>2, FS_CardinalityType DEF CountIn

LEMMA CountEmpty == ASSUME NEW m PROVE CountIn(<<>>, m) = 0
  <1>1. {i \in DOMAIN <<>> : <<>>[i].msg = m} = {}
    OBVIOUS
  <1>2. QED
    BY <1>1, FS_EmptySet DEF CountIn

LEMMA CountAppend ==
    ASSUME NEW s \in Seq(Copy), NEW c \in Copy, NEW m
    PROVE  CountIn(Append(s, c), m) = CountIn(s, m) + (IF c.msg = m THEN 1 ELSE 0)
  <1> DEFINE t == Append(s, c)
             n == Len(s) + 1
             S == {i \in DOMAIN s : s[i].msg = m}
             T == {i \in DOMAIN t : t[i].msg = m}
  <1>1. /\ DOMAIN s = 1 .. Len(s) /\ n \notin DOMAIN s
        /\ DOMAIN t = DOMAIN s \cup {n}
        /\ t[n] = c /\ \A i \in DOMAIN s : t[i] = s[i]
    BY LenProperties
  <1>2. IsFiniteSet(S) /\ Cardinality(S) \in Nat
    BY CountType DEF CountIn
  <1>3. CountIn(s, m) = Cardinality(S) /\ CountIn(t, m) = Cardinality(T)
    BY DEF CountIn
  <1> HIDE DEF t, n
  <1>4. CASE c.msg = m
    <2>1. T = S \cup {n} /\ n \notin S
      BY <1>1, <1>4
    <2> HIDE DEF S, T
    <2>2. Cardinality(S \cup {n}) = Cardinality(S) + 1
      BY <1>2, <2>1, FS_AddElement
    <2>3. QED
      BY <1>2, <1>3, <1>4, <2>1, <2>2 DEF t
  <1>5. CASE c.msg # m
    <2>1. T = S
      BY <1>1, <1>5
    <2> HIDE DEF S, T
    <2>2. QED
      BY <1>2, <1>3, <1>5, <2>1 DEF t
  <1>6. QED
    BY <1>4, <1>5

LEMMA ShiftCount ==
    ASSUME NEW n \in Nat, NEW S \in SUBSET (1 .. n)
    PROVE  /\ IsFiniteSet({i + 1 : i \in S})
           /\ Cardinality({i + 1 : i \in S}) = Cardinality(S)
  <1> DEFINE T == {i + 1 : i \in S}
             f == [i \in S |-> i + 1]
  <1>1. IsFiniteSet(S)
    <2>1. IsFiniteSet(1 .. n)
      BY FS_Interval
    <2>2. QED
      BY <2>1, FS_Subset
  <1>2. f \in [S -> T] /\ \A i \in S : f[i] = i + 1
    OBVIOUS
  <1>3. \A a, b \in S : f[a] = f[b] => a = b
    OBVIOUS
  <1>4. \A j \in T : \E i \in S : f[i] = j
    OBVIOUS
  <1>5. f \in Bijection(S, T)
    <2> HIDE DEF f, T
    <2>1. f \in Injection(S, T)
      BY <1>2, <1>3 DEF Injection, IsInjective
    <2>2. f \in Surjection(S, T)
      BY <1>2, <1>4 DEF Surjection
    <2>3. QED
      BY <2>1, <2>2 DEF Bijection
  <1>6. ExistsBijection(S, T)
    BY <1>5 DEF ExistsBijection
  <1>7. QED
    BY <1>1, <1>6, FS_Bijection

\* A copy put back in front of a sequence.
LEMMA FrontProperties ==
    ASSUME NEW s \in Seq(Copy), NEW c \in Copy
    PROVE  LET t == <<c>> \o s IN
           /\ t \in Seq(Copy) /\ t # <<>>
           /\ Len(t) = Len(s) + 1 /\ Len(s) \in Nat
           /\ t[1] = c /\ Head(t) = c
           /\ \A i \in 1 .. Len(s) : t[i + 1] = s[i]
  <1> DEFINE t == <<c>> \o s
  <1>1. <<c>> \in Seq(Copy) /\ Len(<<c>>) = 1 /\ <<c>>[1] = c
    OBVIOUS
  <1>2. Len(s) \in Nat
    BY LenProperties
  <1>3. /\ t \in Seq(Copy) /\ Len(t) = 1 + Len(s)
        /\ \A i \in 1 .. 1 + Len(s) : t[i] = IF i <= 1 THEN <<c>>[i] ELSE s[i - 1]
    BY <1>1, ConcatProperties
  <1> HIDE DEF t
  <1>4. t[1] = c
    <2>1. 1 \in 1 .. 1 + Len(s)
      BY <1>2
    <2>2. QED
      BY <1>1, <1>3, <2>1
  <1>5. \A i \in 1 .. Len(s) : t[i + 1] = s[i]
    <2> SUFFICES ASSUME NEW i \in 1 .. Len(s) PROVE t[i + 1] = s[i]
      OBVIOUS
    <2>1. i + 1 \in 1 .. 1 + Len(s) /\ ~(i + 1 <= 1) /\ (i + 1) - 1 = i
      BY <1>2
    <2>2. QED
      BY <1>3, <2>1
  <1>6. t # <<>> /\ Head(t) = t[1]
    <2>1. t # <<>>
      BY <1>2, <1>3
    <2>2. QED
      BY <1>3, <2>1
  <1>7. QED
    BY <1>2, <1>3, <1>4, <1>5, <1>6 DEF t

LEMMA CountFront ==
    ASSUME NEW s \in Seq(Copy), NEW c \in Copy, NEW m
    PROVE  CountIn(<<c>> \o s, m) = CountIn(s, m) + (IF c.msg = m THEN 1 ELSE 0)
  <1> DEFINE t == <<c>> \o s
             S == {i \in DOMAIN s : s[i].msg = m}
             T == {i \in DOMAIN t : t[i].msg = m}
             U == {i + 1 : i \in S}
  <1>1. /\ t \in Seq(Copy) /\ Len(t) = Len(s) + 1 /\ Len(s) \in Nat /\ t[1] = c
        /\ \A i \in 1 .. Len(s) : t[i + 1] = s[i]
    BY FrontProperties
  <1>2. DOMAIN s = 1 .. Len(s) /\ DOMAIN t = 1 .. Len(s) + 1
    BY <1>1, LenProperties
  <1>3. Cardinality(S) \in Nat
    BY CountType DEF CountIn
  <1>4. IsFiniteSet(U) /\ Cardinality(U) = Cardinality(S)
    <2>1. S \in SUBSET (1 .. Len(s))
      BY <1>2
    <2> HIDE DEF S
    <2>2. QED
      BY <1>1, <2>1, ShiftCount
  <1>5. CountIn(s, m) = Cardinality(S) /\ CountIn(t, m) = Cardinality(T)
    BY DEF CountIn
  <1> HIDE DEF t
  <1>6. 1 \notin U
    BY <1>1, <1>2
  <1>7. \A i \in 1 .. Len(s) + 1 : i # 1 => (i \in T <=> i \in U)
    <2> SUFFICES ASSUME NEW i \in 1 .. Len(s) + 1, i # 1
                 PROVE  i \in T <=> i \in U
      OBVIOUS
    <2>1. i - 1 \in 1 .. Len(s) /\ (i - 1) + 1 = i
      BY <1>1
    <2>2. t[i] = s[i - 1]
      BY <1>1, <2>1
    <2>3. QED
      BY <1>1, <1>2, <2>1, <2>2
  <1>8. U \subseteq 1 .. Len(s) + 1
    BY <1>1, <1>2
  <1>9. CASE c.msg = m
    <2>1. T = U \cup {1}
      BY <1>1, <1>2, <1>7, <1>8, <1>9
    <2> HIDE DEF S, T, U
    <2>2. Cardinality(U \cup {1}) = Cardinality(U) + 1
      BY <1>4, <1>6, FS_AddElement
    <2>3. QED
      BY <1>3, <1>4, <1>5, <1>9, <2>1, <2>2 DEF t
  <1>10. CASE c.msg # m
    <2>1. T = U
      BY <1>1, <1>2, <1>6, <1>7, <1>8, <1>10
    <2> HIDE DEF S, T, U
    <2>2. QED
      BY <1>3, <1>4, <1>5, <1>10, <2>1 DEF t
  <1>11. QED
    BY <1>9, <1>10

\* What basic_get takes is what a death puts back.
LEMMA TakeAndPutBack ==
    ASSUME NEW s \in Seq(Copy), s # <<>>
    PROVE  Head(s) \in Copy /\ Tail(s) \in Seq(Copy) /\ <<Head(s)>> \o Tail(s) = s
  <1> DEFINE t == <<Head(s)>> \o Tail(s)
  <1>1. /\ Head(s) \in Copy /\ Tail(s) \in Seq(Copy) /\ Len(Tail(s)) = Len(s) - 1
        /\ \A i \in 1 .. Len(Tail(s)) : Tail(s)[i] = s[i + 1]
    BY HeadTailProperties
  <1>2. Len(s) \in Nat \ {0} /\ Head(s) = s[1]
    BY EmptySeq
  <1>3. /\ t \in Seq(Copy) /\ Len(t) = Len(Tail(s)) + 1 /\ t[1] = Head(s)
        /\ \A i \in 1 .. Len(Tail(s)) : t[i + 1] = Tail(s)[i]
    BY <1>1, FrontProperties
  <1> HIDE DEF t
  <1>4. \A i \in 1 .. Len(s) : t[i] = s[i]
    <2> SUFFICES ASSUME NEW i \in 1 .. Len(s) PROVE t[i] = s[i]
      OBVIOUS
    <2>1. CASE i = 1
      BY <1>2, <1>3, <2>1
    <2>2. CASE i # 1
      <3>1. i - 1 \in 1 .. Len(Tail(s)) /\ (i - 1) + 1 = i
        BY <1>1, <1>2, <2>2
      <3>2. QED
        BY <1>1, <1>3, <3>1
    <2>3. QED
      BY <2>1, <2>2
  <1>5. t = s
    BY <1>1, <1>2, <1>3, <1>4, SeqEqual
  <1>6. QED
    BY <1>1, <1>5 DEF t
-----------------------------------------------------------------------------
(* Types *)

\* TypeOK in three parts: what the queues hold, the tool's place, counters.
QueuesOK ==
    /\ main \in [Copy -> Nat]
    /\ dlq \in Seq(Copy)
    /\ indexed \in [Msgs -> Nat]
    /\ quarantined \in [Msgs -> Nat]
    /\ discarded \in SUBSET Msgs
    /\ held \in Copy \cup {Nothing}

ToolOK == wire \in Seq(Ops) /\ pc \in Pcs /\ tool \in Replays \cup Peeks /\ keep \in BOOLEAN

CountersOK == fetched \in 0 .. Limit /\ faults \in 0 .. MaxFaults

LEMMA TypeParts == TypeOK <=> QueuesOK /\ ToolOK /\ CountersOK
  BY DEF TypeOK, QueuesOK, ToolOK, CountersOK

LEMMA TypeInit == Init => TypeOK
  <1> SUFFICES ASSUME Init PROVE QueuesOK /\ ToolOK /\ CountersOK
    BY TypeParts
  <1>1. QueuesOK
    <2>1. <<>> \in Seq(Copy)
      OBVIOUS
    <2>2. QED
      BY <2>1 DEF Init, QueuesOK
  <1>2. ToolOK
    <2>1. <<>> \in Seq(Ops)
      OBVIOUS
    <2>2. QED
      BY <2>1 DEF Init, ToolOK, Pcs, Replays
  <1>3. CountersOK
    BY ReplayAssumption DEF Init, CountersOK, ReplayAssumption
  <1>4. QED
    BY <1>1, <1>2, <1>3

LEMMA BackType ==
    ASSUME TypeOK
    PROVE  /\ Back \in Seq(Copy)
           /\ \A m : CountIn(Back, m)
                     = CountIn(dlq, m) + (IF held # Nothing /\ held.msg = m THEN 1 ELSE 0)
  <1>1. dlq \in Seq(Copy) /\ held \in Copy \cup {Nothing}
    BY DEF TypeOK
  <1>2. CASE held = Nothing
    <2>1. \A m : CountIn(dlq, m) \in Nat
      BY <1>1, CountType
    <2>2. QED
      BY <1>1, <1>2, <2>1 DEF Back
  <1>3. CASE held # Nothing
    <2>1. held \in Copy /\ Back = <<held>> \o dlq
      BY <1>1, <1>3 DEF Back
    <2>2. QED
      BY <1>1, <1>3, <2>1, FrontProperties, CountFront
  <1>4. QED
    BY <1>2, <1>3

\* What a message the tool has just taken is going to cause.
LEMMA PlanType ==
    /\ tool \in Replays => \A c : Plan(c) \in {"raised", "requeue", "quarantine", "drop", "publish"}
    /\ PeekPlan \in {"requeue", "drop"}
  BY DEF Plan, PeekPlan, Replays

\* What the broker may find on the wire, and what the tool is doing then.
LEMMA ReadsWire ==
    ASSUME TypeOK, SessionInv, NEW op \in Ops, Reads(op)
    PROVE  /\ held \in Copy /\ held # Nothing /\ wire' \in Seq(Ops)
           /\ op \in {"publish", "quarantine"} =>
                 \/ pc = "ack" /\ wire = <<op>> /\ wire' = <<>>
                 \/ pc = "get" /\ wire = <<op, "ack">> /\ wire' = <<"ack">>
           /\ op \notin {"publish", "quarantine"} => pc = "get" /\ wire = <<op>> /\ wire' = <<>>
  <1>1. wire # <<>> /\ Head(wire) = op /\ wire' = Tail(wire)
    BY DEF Reads
  <1>2. /\ held # Nothing
        /\ \/ pc = "ack" /\ wire \in Copies
           \/ pc = "get" /\ wire \in {<<"ack">>} \cup CopyThenAck \cup Gives
    BY <1>1 DEF SessionInv, TypeOK, Pcs
  <1>3. /\ \A o \in Ops : Head(<<o>>) = o /\ Tail(<<o>>) = <<>>
        /\ \A o \in Ops : Head(<<o, "ack">>) = o /\ Tail(<<o, "ack">>) = <<"ack">>
        /\ <<>> \in Seq(Ops) /\ <<"ack">> \in Seq(Ops)
    BY DEF Ops
  <1>4. \/ wire \in Copies \cup Gives \cup {<<"ack">>} /\ wire = <<op>> /\ wire' = <<>>
        \/ wire \in CopyThenAck /\ wire = <<op, "ack">> /\ wire' = <<"ack">>
    BY <1>1, <1>2, <1>3 DEF Copies, Gives, CopyThenAck, Ops
  <1>5. /\ <<"publish">> \notin Gives \cup {<<"ack">>} /\ <<"quarantine">> \notin Gives \cup {<<"ack">>}
        /\ \A o \in Ops : <<o>> \notin CopyThenAck /\ <<o, "ack">> \notin Copies \cup Gives \cup {<<"ack">>}
        /\ \A o \in Ops : <<o>> \in Copies => o \in {"publish", "quarantine"}
        /\ \A o \in Ops : <<o, "ack">> \in CopyThenAck => o \in {"publish", "quarantine"}
    BY DEF Copies, Gives, CopyThenAck, Ops
  <1>6. QED
    BY <1>2, <1>3, <1>4, <1>5 DEF TypeOK

LEMMA QueuesNext ==
    ASSUME TypeOK, SessionInv, [Next]_vars
    PROVE  QueuesOK'
  <1> USE DEF QueuesOK, toolVars, sinkVars
  <1>0. QueuesOK
    BY TypeParts
  <1>1. CASE UNCHANGED <<main, dlq, sinkVars, held>>
    BY <1>0, <1>1
  <1>2. ASSUME NEW c \in Copy, Accept(c) \/ Reject(c) \/ IndexFails(c) \/ ConsumerDies(c)
        PROVE  QueuesOK'
    <2>1. c.msg \in Msgs /\ main[c] \in Nat /\ main[c] > 0
      BY <1>0, <1>2 DEF Accept, Reject, IndexFails, ConsumerDies, Copy
    <2>2. main' \in [Copy -> Nat]
      <3>1. main' \in {main, [main EXCEPT ![c] = @ - 1]}
        BY <1>2 DEF Accept, Reject, IndexFails, ConsumerDies
      <3>2. [main EXCEPT ![c] = @ - 1] \in [Copy -> Nat]
        BY <1>0, <2>1
      <3>3. QED
        BY <1>0, <3>1, <3>2
    <2>3. dlq' \in Seq(Copy)
      <3>1. dlq' \in {dlq, Append(dlq, c)} /\ Append(dlq, c) \in Seq(Copy)
        BY <1>0, <1>2 DEF Accept, Reject, IndexFails, ConsumerDies
      <3>2. QED
        BY <1>0, <3>1
    <2>4. indexed' \in [Msgs -> Nat]
      <3>1. indexed' = indexed \/ \E n \in 0 .. Attempts : Stores(c.msg, n)
        BY <1>2, ReplayAssumption DEF Accept, Reject, IndexFails, ConsumerDies, ReplayAssumption
      <3>2. ASSUME NEW n \in 0 .. Attempts, Stores(c.msg, n) PROVE indexed' \in [Msgs -> Nat]
        <4>1. n \in Nat
          BY ReplayAssumption DEF ReplayAssumption
        <4>2. QED
          BY <1>0, <2>1, <3>2, <4>1 DEF Stores
      <3>3. QED
        BY <1>0, <3>1, <3>2
    <2>5. QED
      BY <1>0, <1>2, <2>2, <2>3, <2>4 DEF Accept, Reject, IndexFails, ConsumerDies
  <1>3. CASE Get \/ PeekGet
    <2>1. BasicGet
      BY <1>3 DEF Get, PeekGet
    <2>2. held' \in Copy /\ dlq' \in Seq(Copy)
      BY <1>0, <2>1, TakeAndPutBack DEF BasicGet
    <2>3. QED
      BY <1>0, <2>1, <2>2 DEF BasicGet
  <1>4. CASE Raises \/ SessionLost \/ ReadRequeue
    <2>1. dlq' = Back /\ held' = Nothing /\ UNCHANGED <<main, sinkVars>>
      BY <1>4 DEF Raises, SessionLost, Dies, ReadRequeue
    <2>2. QED
      BY <1>0, <2>1, BackType
  <1>5. CASE ReadPublish \/ ReadQuarantine \/ ReadAck
    <2>1. held \in Copy /\ held.msg \in Msgs /\ [msg |-> held.msg, fixed |-> TRUE] \in Copy
      BY <1>0, <1>5, ReadsWire DEF ReadPublish, ReadQuarantine, ReadAck, Copy, Ops
    <2>2. CASE ReadPublish
      <3>1. main' \in [Copy -> Nat]
        BY <1>0, <2>1, <2>2 DEF ReadPublish
      <3>2. QED
        BY <1>0, <2>2, <3>1 DEF ReadPublish
    <2>3. CASE ReadQuarantine
      <3>1. quarantined' \in [Msgs -> Nat]
        BY <1>0, <2>1, <2>3 DEF ReadQuarantine
      <3>2. QED
        BY <1>0, <2>3, <3>1 DEF ReadQuarantine
    <2>4. CASE ReadAck
      BY <1>0, <2>1, <2>4 DEF ReadAck
    <2>5. QED
      BY <1>5, <2>2, <2>3, <2>4
  <1>6. QED
    BY <1>1, <1>2, <1>3, <1>4, <1>5 DEF Next, Consumer, StartTool, StartPeek, Begin,
       Tool, End, Publish, PublishQuarantine, Ack, Requeue, Write, Broker, vars

LEMMA ToolNext ==
    ASSUME TypeOK, SessionInv, [Next]_vars
    PROVE  ToolOK'
  <1> USE DEF ToolOK, toolVars
  <1>0. ToolOK
    BY TypeParts
  <1>1. CASE UNCHANGED <<wire, pc, tool, keep>>
    BY <1>0, <1>1
  <1>2. ASSUME NEW t \in Tools, NEW q \in BOOLEAN, StartTool(t, q) \/ StartPeek(t)
        PROVE  ToolOK'
    BY <1>0, <1>2 DEF StartTool, StartPeek, Begin, Pcs
  <1>3. CASE Get \/ PeekGet
    <2>1. BasicGet /\ pc' \in Pcs
      BY <1>3, PlanType DEF Get, PeekGet, Pcs
    <2>2. QED
      BY <1>0, <2>1 DEF BasicGet
  <1>4. CASE End
    BY <1>0, <1>4 DEF End, Pcs, Replays
  <1>5. CASE Publish \/ PublishQuarantine \/ Ack \/ Requeue
    <2>1. PICK op \in Ops, next \in Pcs : Write(op, next)
      BY <1>5 DEF Publish, PublishQuarantine, Ack, Requeue, Ops, Pcs
    <2>2. QED
      BY <1>0, <2>1 DEF Write
  <1>6. CASE Raises \/ SessionLost
    <2>1. Dies
      BY <1>6 DEF Raises, SessionLost
    <2>2. <<>> \in Seq(Ops)
      OBVIOUS
    <2>3. QED
      BY <2>1, <2>2 DEF Dies, Pcs, Replays
  <1>7. CASE Broker
    <2>1. wire' \in Seq(Ops)
      BY <1>7, ReadsWire DEF Broker, ReadPublish, ReadQuarantine, ReadAck, ReadRequeue, Ops
    <2>2. QED
      BY <1>0, <1>7, <2>1 DEF Broker, ReadPublish, ReadQuarantine, ReadAck, ReadRequeue
  <1>8. QED
    BY <1>1, <1>2, <1>3, <1>4, <1>5, <1>6, <1>7 DEF Next, Consumer, Accept, Reject,
       IndexFails, ConsumerDies, Stores, Tool, vars

LEMMA CountersNext ==
    ASSUME CountersOK, [Next]_vars
    PROVE  CountersOK'
  <1> USE ReplayAssumption DEF CountersOK, toolVars, ReplayAssumption
  <1>1. CASE UNCHANGED <<fetched, faults>>
    BY <1>1
  <1>2. ASSUME NEW c \in Copy, IndexFails(c) \/ ConsumerDies(c) PROVE CountersOK'
    BY <1>2 DEF IndexFails, ConsumerDies
  <1>3. CASE fetched' = 0 /\ UNCHANGED faults
    BY <1>3
  <1>4. CASE BasicGet
    BY <1>4 DEF BasicGet
  <1>5. CASE SessionLost
    BY <1>5 DEF SessionLost, Dies
  <1>6. QED
    BY <1>1, <1>2, <1>3, <1>4, <1>5 DEF Next, Consumer, Accept, Reject, StartTool, StartPeek,
       Begin, Tool, Get, PeekGet, End, Publish, PublishQuarantine, Ack, Requeue, Write,
       Raises, Dies, Broker, ReadPublish, ReadQuarantine, ReadAck, ReadRequeue, vars

LEMMA TypeNext ==
    ASSUME TypeOK, SessionInv, [Next]_vars
    PROVE  TypeOK'
  <1>1. CountersOK
    BY TypeParts
  <1>2. QueuesOK' /\ ToolOK' /\ CountersOK'
    BY <1>1, QueuesNext, ToolNext, CountersNext
  <1>3. QED
    BY <1>2 DEF TypeOK, QueuesOK, ToolOK, CountersOK

-----------------------------------------------------------------------------
(* The session *)

\* What is on the wire after a call of the tool.
LEMMA WriteWire ==
    ASSUME TypeOK, SessionInv, Publish \/ PublishQuarantine \/ Ack \/ Requeue
    PROVE  /\ held # Nothing
           /\ \/ /\ pc \in {"publish", "quarantine"} /\ pc' = "ack"
                 /\ wire = <<>> /\ wire' = <<pc>>
              \/ /\ pc \in {"drop", "requeue"} /\ pc' = "get"
                 /\ wire = <<>> /\ wire' = <<pc>>
              \/ /\ pc = "ack" /\ pc' = "get"
                 /\ \/ wire = <<>> /\ wire' = <<"ack">>
                    \/ wire \in Copies /\ wire' \in CopyThenAck
           /\ UNCHANGED <<main, dlq, sinkVars, held, tool, keep, fetched, faults>>
  <1>1. /\ pc \in {"publish", "quarantine", "ack", "drop", "requeue"}
        /\ wire' = Append(wire, pc)
        /\ pc' = IF pc \in {"publish", "quarantine"} THEN "ack" ELSE "get"
        /\ UNCHANGED <<main, dlq, sinkVars, held, tool, keep, fetched, faults>>
    BY DEF Publish, PublishQuarantine, Ack, Requeue, Write
  <1>2. /\ \A o \in Ops : Append(<<>>, o) = <<o>>
        /\ \A o \in Ops : Append(<<o>>, "ack") = <<o, "ack">>
    <2>1. "ack" \in Ops
      BY DEF Ops
    <2>2. ASSUME NEW o \in Ops PROVE Append(<<>>, o) = <<o>>
      <3>1. /\ Append(<<>>, o) \in Seq(Ops) /\ <<o>> \in Seq(Ops)
            /\ Len(Append(<<>>, o)) = 1 /\ Len(<<o>>) = 1 /\ Append(<<>>, o)[1] = o
        OBVIOUS
      <3>2. QED
        BY <3>1, SeqEqual
    <2>3. ASSUME NEW o \in Ops PROVE Append(<<o>>, "ack") = <<o, "ack">>
      <3> DEFINE s == Append(<<o>>, "ack")
                 t == <<o, "ack">>
      <3>1. <<o>> \in Seq(Ops) /\ Len(<<o>>) = 1 /\ <<o>>[1] = o
        OBVIOUS
      <3>2. s \in Seq(Ops) /\ Len(s) = 2 /\ s[1] = o /\ s[2] = "ack"
        BY <2>1, <3>1, AppendProperties
      <3>3. t \in Seq(Ops) /\ Len(t) = 2 /\ t[1] = o /\ t[2] = "ack"
        BY <2>1
      <3> HIDE DEF s, t
      <3>4. s = t
        BY <3>2, <3>3, SeqEqual
      <3>5. QED
        BY <3>4 DEF s, t
    <2>4. QED
      BY <2>2, <2>3
  <1>3. CASE pc = "ack"
    BY <1>1, <1>2, <1>3 DEF SessionInv, Copies, CopyThenAck, Ops
  <1>4. CASE pc # "ack"
    BY <1>1, <1>2, <1>4 DEF SessionInv, Ops
  <1>5. QED
    BY <1>3, <1>4

\* What the tool takes, and where it goes with it.
LEMMA GetSession ==
    ASSUME TypeOK, Get \/ PeekGet
    PROVE  /\ pc = "get" /\ wire = <<>> /\ wire' = <<>>
           /\ dlq # <<>> /\ held' = Head(dlq) /\ dlq' = Tail(dlq)
           /\ held' \in Copy /\ held' # Nothing
           /\ pc' \in {"publish", "quarantine", "drop", "requeue", "raised"}
           /\ tool \in {"dryrun", "peek"} => pc' \in {"requeue", "raised"}
           /\ Poison(held') => pc' \in {"requeue", "drop", "raised"}
           /\ UNCHANGED <<main, sinkVars, tool, keep, faults>>
  <1>1. /\ BasicGet
        /\ \/ tool \in Replays /\ pc' = Plan(Head(dlq))
           \/ tool \in Peeks /\ pc' = PeekPlan
    BY DEF Get, PeekGet
  <1>2. held' \in Copy /\ held' # Nothing /\ held' = Head(dlq)
    BY <1>1, TakeAndPutBack, NothingAssumption DEF BasicGet, TypeOK
  <1>3. CASE tool \in Replays /\ pc' = Plan(Head(dlq))
    <2>1. pc' \in {"publish", "quarantine", "drop", "requeue", "raised"}
      BY <1>3, PlanType
    <2>2. tool = "dryrun" => pc' \in {"requeue", "raised"}
      BY <1>3 DEF Plan
    <2>3. Poison(Head(dlq)) => pc' \in {"raised", "requeue"}
      BY <1>3, ReplayAssumption DEF Plan, Poison, ReplayAssumption
    <2>4. QED
      BY <1>1, <1>2, <1>3, <2>1, <2>2, <2>3 DEF BasicGet, Replays
  <1>4. CASE tool \in Peeks /\ pc' = PeekPlan
    BY <1>1, <1>2, <1>4 DEF BasicGet, Peeks, PeekPlan
  <1>5. QED
    BY <1>1, <1>3, <1>4

LEMMA SessionInit == Init => SessionInv /\ LookInv /\ PoisonInv
  BY DEF Init, SessionInv, LookInv, PoisonInv

LEMMA SessionNext ==
    ASSUME TypeOK, SessionInv, [Next]_vars
    PROVE  SessionInv'
  <1>1. CASE UNCHANGED <<held, wire, pc>>
    BY <1>1 DEF SessionInv
  <1>2. CASE pc = "off" /\ pc' = "get" /\ UNCHANGED <<held, wire>>
    BY <1>2 DEF SessionInv
  <1>3. CASE Get \/ PeekGet
    BY <1>3, GetSession DEF SessionInv
  <1>4. CASE End
    BY <1>4 DEF SessionInv, End, CopyThenAck, Gives
  <1>5. CASE Publish \/ PublishQuarantine \/ Ack \/ Requeue
    BY <1>5, WriteWire DEF SessionInv, Copies, Gives, sinkVars
  <1>6. CASE Raises \/ SessionLost
    BY <1>6 DEF Raises, SessionLost, Dies, SessionInv
  <1>7. CASE ReadPublish \/ ReadQuarantine
    <2>1. PICK op \in {"publish", "quarantine"} : Reads(op) /\ UNCHANGED <<held, pc>>
      BY <1>7 DEF ReadPublish, ReadQuarantine
    <2>2. op \in Ops
      BY DEF Ops
    <2>3. QED
      BY <2>1, <2>2, ReadsWire DEF SessionInv
  <1>8. CASE ReadAck \/ ReadRequeue
    <2>1. PICK op \in {"ack", "drop", "requeue"} : Reads(op) /\ held' = Nothing /\ pc' = pc
      BY <1>8 DEF ReadAck, ReadRequeue
    <2>2. op \in Ops
      BY DEF Ops
    <2>3. QED
      BY <2>1, <2>2, ReadsWire DEF SessionInv
  <1>9. QED
    BY <1>1, <1>2, <1>3, <1>4, <1>5, <1>6, <1>7, <1>8 DEF Next, Consumer, Accept, Reject,
       IndexFails, ConsumerDies, Stores, StartTool, StartPeek, Begin, Tool, Broker, toolVars, vars

LEMMA LookNext ==
    ASSUME TypeOK, SessionInv, LookInv, [Next]_vars
    PROVE  LookInv'
  <1>1. CASE UNCHANGED <<wire, pc, tool>>
    BY <1>1 DEF LookInv
  <1>2. CASE pc = "off" /\ pc' = "get" /\ UNCHANGED wire
    BY <1>2 DEF LookInv, SessionInv
  <1>3. CASE Get \/ PeekGet
    BY <1>3, GetSession DEF LookInv
  <1>4. CASE tool' = "replay"
    BY <1>4 DEF LookInv
  <1>5. CASE Publish \/ PublishQuarantine \/ Ack \/ Requeue
    BY <1>5, WriteWire DEF LookInv
  <1>6. CASE Broker
    <2>1. PICK op \in Ops : Reads(op) /\ UNCHANGED <<tool, pc>>
      BY <1>6 DEF Broker, ReadPublish, ReadQuarantine, ReadAck, ReadRequeue, Ops
    <2>2. wire # <<>>
      BY <2>1 DEF Reads
    <2>3. \A o \in Ops : <<o, "ack">> # <<"requeue">>
      OBVIOUS
    <2>4. tool \in {"dryrun", "peek"} => wire' = <<>>
      BY <2>1, <2>2, <2>3, ReadsWire DEF LookInv
    <2>5. QED
      BY <2>1, <2>4 DEF LookInv
  <1>7. QED
    BY <1>1, <1>2, <1>3, <1>4, <1>5, <1>6 DEF Next, Consumer, Accept, Reject, IndexFails,
       ConsumerDies, Stores,
       ConsumerDies, Stores, StartTool, StartPeek, Begin, Tool, End, Raises, SessionLost, Dies, toolVars, vars

LEMMA PoisonNext ==
    ASSUME TypeOK, SessionInv, PoisonInv, [Next]_vars
    PROVE  PoisonInv'
  <1>1. CASE UNCHANGED <<held, wire, pc>>
    BY <1>1 DEF PoisonInv, Poison
  <1>2. CASE held' = Nothing
    BY <1>2 DEF PoisonInv
  <1>3. CASE pc = "off" /\ UNCHANGED held
    BY <1>3 DEF PoisonInv, SessionInv
  <1>4. CASE Get \/ PeekGet
    BY <1>4, GetSession DEF PoisonInv, Poison
  <1>5. CASE End
    BY <1>5 DEF End, PoisonInv, SessionInv, CopyThenAck, Gives
  <1>6. CASE Publish \/ PublishQuarantine \/ Ack \/ Requeue
    BY <1>6, WriteWire DEF PoisonInv, Poison, Gives
  <1>7. CASE ReadPublish \/ ReadQuarantine
    <2>1. PICK op \in {"publish", "quarantine"} : Reads(op) /\ UNCHANGED <<held, pc>>
      BY <1>7 DEF ReadPublish, ReadQuarantine
    <2>2. op \in Ops
      BY DEF Ops
    <2>3. wire \in {<<op>>, <<op, "ack">>}
      BY <2>1, <2>2, ReadsWire
    <2>4. wire \notin {<<>>} \cup Gives
      BY <2>3 DEF Gives
    <2>5. QED
      BY <2>1, <2>4 DEF PoisonInv, Poison
  <1>8. QED
    BY <1>1, <1>2, <1>3, <1>4, <1>5, <1>6, <1>7 DEF Next, Consumer, Accept, Reject, IndexFails,
       ConsumerDies, Stores,
       ConsumerDies, Stores, StartTool, StartPeek, Begin, Tool, Raises, SessionLost, Dies, Broker, ReadAck,
       ReadRequeue, toolVars, vars
-----------------------------------------------------------------------------
(* The queue with the message the tool holds *)

LEMMA BackAppend ==
    ASSUME TypeOK, NEW c \in Copy, dlq' = Append(dlq, c), held' = held
    PROVE  Back' = Append(Back, c)
  <1>1. dlq \in Seq(Copy) /\ <<c>> \in Seq(Copy)
    BY DEF TypeOK
  <1>2. CASE held = Nothing
    BY <1>2 DEF Back
  <1>3. CASE held # Nothing
    <2>1. <<held>> \in Seq(Copy)
      BY <1>3 DEF TypeOK
    <2>2. Append(dlq, c) = dlq \o <<c>>
      BY <1>1, AppendIsConcat
    <2>3. Append(<<held>> \o dlq, c) = (<<held>> \o dlq) \o <<c>>
      BY <1>1, <2>1, ConcatProperties, AppendIsConcat
    <2>4. (<<held>> \o dlq) \o <<c>> = <<held>> \o (dlq \o <<c>>)
      BY <1>1, <2>1, ConcatAssociative
    <2>5. QED
      BY <1>3, <2>2, <2>3, <2>4 DEF Back
  <1>4. QED
    BY <1>2, <1>3

\* Only the consumer adds to it, and only an acknowledgement takes from it.
LEMMA BackNext ==
    ASSUME TypeOK, SessionInv, [Next]_vars
    PROVE  \/ Back' = Back
           \/ \E c \in Copy : (Reject(c) \/ IndexFails(c)) /\ Back' = Append(Back, c)
           \/ ReadAck
  <1>1. CASE UNCHANGED <<dlq, held>>
    BY <1>1 DEF Back
  <1>2. ASSUME NEW c \in Copy, Reject(c) \/ IndexFails(c)
        PROVE  Back' = Append(Back, c)
    BY <1>2, BackAppend DEF Reject, IndexFails, toolVars
  <1>3. CASE Get \/ PeekGet
    <2>0. pc = "get" /\ wire = <<>>
      BY <1>3, GetSession
    <2>1. held = Nothing
      BY <2>0 DEF SessionInv, CopyThenAck, Gives
    <2>2. Back = dlq /\ Back' = <<Head(dlq)>> \o Tail(dlq)
      BY <1>3, <2>1, GetSession DEF Back
    <2>3. QED
      BY <1>3, <2>2, GetSession, TakeAndPutBack DEF TypeOK
  <1>4. CASE dlq' = Back /\ held' = Nothing
    BY <1>4 DEF Back
  <1>5. QED
    BY <1>1, <1>2, <1>3, <1>4 DEF Next, Consumer, Accept, ConsumerDies, StartTool, StartPeek,
       Begin, Tool,
       End, Publish, PublishQuarantine, Ack, Requeue, Write, Raises, SessionLost, Dies,
       Broker, ReadPublish, ReadQuarantine, ReadRequeue, toolVars, vars

LEMMA PrefixGrows ==
    ASSUME NEW s \in Seq(Copy), NEW c \in Copy
    PROVE  IsPrefix(s, Append(s, c))
  <1> DEFINE t == Append(s, c)
  <1>1. /\ Len(s) \in Nat /\ t \in Seq(Copy) /\ Len(t) = Len(s) + 1
        /\ \A i \in 1 .. Len(s) : t[i] = s[i]
    BY LenProperties, AppendProperties
  <1> HIDE DEF t
  <1>2. /\ SubSeq(s, 1, Len(s)) \in Seq(Copy) /\ Len(SubSeq(s, 1, Len(s))) = Len(s)
        /\ \A i \in 1 .. Len(s) : SubSeq(s, 1, Len(s))[i] = s[i]
    BY <1>1
  <1>3. /\ SubSeq(t, 1, Len(s)) \in Seq(Copy) /\ Len(SubSeq(t, 1, Len(s))) = Len(s)
        /\ \A i \in 1 .. Len(s) : SubSeq(t, 1, Len(s))[i] = t[i]
    BY <1>1
  <1>4. SubSeq(s, 1, Len(s)) = SubSeq(t, 1, Len(s))
    BY <1>1, <1>2, <1>3, SeqEqual
  <1>5. QED
    BY <1>1, <1>4 DEF IsPrefix, t

LEMMA Looking ==
    ASSUME TypeOK, SessionInv, LookInv, [Next]_vars, tool \in {"dryrun", "peek"}
    PROVE  IsPrefix(Back, Back') /\ UNCHANGED <<quarantined, discarded>>
  <1>1. ~ReadAck /\ ~ReadQuarantine
    <2>1. wire \in {<<>>, <<"requeue">>} /\ Head(<<"requeue">>) = "requeue"
      BY DEF LookInv
    <2>2. QED
      BY <2>1 DEF ReadAck, ReadQuarantine, Reads
  <1>2. IsPrefix(Back, Back')
    <2>1. Back \in Seq(Copy)
      BY BackType
    <2>2. CASE Back' = Back
      BY <2>1, <2>2, LenProperties DEF IsPrefix
    <2>3. CASE \E c \in Copy : Back' = Append(Back, c)
      BY <2>1, <2>3, PrefixGrows
    <2>4. QED
      BY <1>1, <2>2, <2>3, BackNext
  <1>3. UNCHANGED <<quarantined, discarded>>
    BY <1>1 DEF Next, Consumer, Accept, Reject, IndexFails, ConsumerDies, Stores, StartTool,
       StartPeek, Begin, Tool,
       Get, PeekGet, BasicGet, End, Publish, PublishQuarantine, Ack, Requeue, Write, Raises,
       SessionLost, Dies, Broker, ReadPublish, ReadRequeue, sinkVars, vars
  <1>4. QED
    BY <1>2, <1>3

Shape == TypeOK /\ SessionInv /\ LookInv /\ PoisonInv

LEMMA ShapeInit == Init => Shape
  BY TypeInit, SessionInit DEF Shape

LEMMA ShapeNext == Shape /\ [Next]_vars => Shape'
  BY TypeNext, SessionNext, LookNext, PoisonNext DEF Shape

\* A session takes at most its limit from the DLQ, and what the tools, the
\* broker and the consumer do keeps every variable of its type, which says
\* that they only ever move copies of events.
THEOREM TypeCorrect == Spec => []TypeOK
  <1>1. Shape => TypeOK
    BY DEF Shape
  <1>2. QED
    BY ShapeInit, ShapeNext, <1>1, PTL DEF Spec

\* A dry run and a peek, whatever becomes of them, leave the order of the
\* DLQ as it was: the consumer may add to its end, and that is all.
THEOREM DryRunsKeepQueue == Spec => DryRunKeepsQueue
  <1>1. Shape /\ [Next]_vars =>
           [pc # "off" /\ tool \in {"dryrun", "peek"} =>
               IsPrefix(Back, Back') /\ UNCHANGED <<quarantined, discarded>>]_vars
    BY Looking DEF Shape
  <1>2. QED
    BY ShapeInit, ShapeNext, <1>1, PTL DEF Spec, DryRunKeepsQueue
-----------------------------------------------------------------------------
(* Poison *)

\* The message a tool holds is the head of the queue it came from.
LEMMA BackHead ==
    ASSUME TypeOK
    PROVE  /\ held # Nothing => Back # <<>> /\ Head(Back) = held
           /\ \A c \in Copy : /\ Append(Back, c) # <<>>
                              /\ Back # <<>> => Head(Append(Back, c)) = Head(Back)
  <1>1. held # Nothing => Back # <<>> /\ Head(Back) = held
    <2> SUFFICES ASSUME held # Nothing PROVE Back # <<>> /\ Head(Back) = held
      OBVIOUS
    <2>1. held \in Copy /\ dlq \in Seq(Copy) /\ Back = <<held>> \o dlq
      BY DEF TypeOK, Back
    <2>2. QED
      BY <2>1, FrontProperties
  <1>2. ASSUME NEW c \in Copy
        PROVE  /\ Append(Back, c) # <<>>
               /\ Back # <<>> => Head(Append(Back, c)) = Head(Back)
    <2>1. Back \in Seq(Copy)
      BY BackType
    <2>2. QED
      BY <2>1, AppendProperties, HeadTailAppend
  <1>3. QED
    BY <1>1, <1>2

LEMMA BlockedStep ==
    ASSUME Shape, [Next]_vars, Blocked
    PROVE  /\ \A c \in Copy : main'[c] <= main[c]
           /\ \/ Blocked' /\ Head(Back') = Head(Back)
              \/ Head(Back).msg \in discarded'
  <1> USE DEF Shape
  <1>1. held # Nothing => Poison(held)
    BY BackHead DEF Blocked
  <1>2. ~ReadPublish
    <2> SUFFICES ASSUME ReadPublish PROVE FALSE
      OBVIOUS
    <2>1. /\ held # Nothing
          /\ wire \in {<<"publish">>, <<"publish", "ack">>}
      BY ReadsWire DEF ReadPublish, Ops
    <2>2. wire \in {<<>>} \cup Gives
      BY <1>1, <2>1 DEF PoisonInv
    <2>3. QED
      BY <2>1, <2>2 DEF Gives
  <1>3. \A c \in Copy : main'[c] <= main[c]
    <2>1. main \in [Copy -> Nat]
      BY DEF TypeOK
    <2>2. UNCHANGED main \/ \E d \in Copy : main' = [main EXCEPT ![d] = @ - 1]
      BY <1>2 DEF Next, Consumer, Accept, Reject, IndexFails, ConsumerDies, Stores, StartTool,
         StartPeek, Begin,
         Tool, Get, PeekGet, BasicGet, End, Publish, PublishQuarantine, Ack, Requeue, Write,
         Raises, SessionLost, Dies, Broker, ReadQuarantine, ReadAck, ReadRequeue, vars
    <2>3. QED
      BY <2>1, <2>2
  <1>4. CASE ReadAck
    <2>1. PICK op \in {"ack", "drop"} : Reads(op) /\ Head(wire) = op
      BY <1>4 DEF ReadAck, Reads
    <2>2. op \in Ops
      BY DEF Ops
    <2>3. held # Nothing /\ wire = <<op>>
      BY <2>1, <2>2, ReadsWire
    <2>4. op = "drop"
      BY <1>1, <2>3 DEF PoisonInv, Gives
    <2>5. held.msg \in discarded'
      BY <1>4, <2>1, <2>4 DEF ReadAck
    <2>6. QED
      BY <1>3, <2>3, <2>5, BackHead
  <1>5. CASE ~ReadAck
    <2>1. Back' = Back \/ \E c \in Copy : Back' = Append(Back, c)
      BY <1>5, BackNext
    <2>2. Back' # <<>> /\ Head(Back') = Head(Back)
      BY <2>1, BackHead DEF Blocked
    <2>3. QED
      BY <1>3, <2>2 DEF Blocked, Poison
  <1>6. QED
    BY <1>4, <1>5

\* A dead letter that is JSON but no object ends every replay, and one that
\* cannot be encoded is all that a replay ever takes: once it is
\* the head of the DLQ it stays there, and nothing is published again,
\* whatever the tools, the consumer and the faults do, until a peek with
\* --requeue false takes it out.  It is why CorrectableIsIndexed fails, and
\* the safety half of what OnlyPoisonBlocks allows.
THEOREM PoisonAlwaysBlocks == Spec => PoisonBlocks
  <1>1. Shape /\ [Next]_vars =>
           [Blocked => /\ \A c \in Copy : main'[c] <= main[c]
                       /\ \/ Blocked' /\ Head(Back') = Head(Back)
                          \/ Head(Back).msg \in discarded']_vars
    BY BlockedStep
  <1>2. QED
    BY ShapeInit, ShapeNext, <1>1, PTL DEF Spec, PoisonBlocks

-----------------------------------------------------------------------------
(* What the DLQ holds without a fault *)

LEMMA RejectedNext ==
    ASSUME Shape, RejectedOnly, [Next]_vars
    PROVE  RejectedOnly'
  <1> USE DEF Shape
  <1>1. faults' = 0 => faults = 0 /\ ~\E c \in Copy : IndexFails(c)
    <2>1. faults \in Nat
      BY DEF TypeOK
    <2>2. faults' = faults \/ faults' = faults + 1
      BY DEF Next, Consumer, Accept, Reject, IndexFails, ConsumerDies, Stores, StartTool,
         StartPeek, Begin,
         Tool, Get, PeekGet, BasicGet, End, Publish, PublishQuarantine, Ack, Requeue, Write,
         Raises, SessionLost, Dies, Broker, ReadPublish, ReadQuarantine, ReadAck,
         ReadRequeue, toolVars, vars
    <2>3. (\E c \in Copy : IndexFails(c)) => faults' = faults + 1
      BY DEF IndexFails
    <2>4. QED
      BY <2>1, <2>2, <2>3
  <1> SUFFICES ASSUME faults = 0, ~\E c \in Copy : IndexFails(c)
               PROVE  \A i \in DOMAIN Back' : Back'[i] \notin Acceptable
    BY <1>1 DEF RejectedOnly, Acceptable
  <1>2. \A i \in DOMAIN Back : Back[i] \notin Acceptable
    BY DEF RejectedOnly
  <1>3. CASE Back' = Back
    BY <1>2, <1>3
  <1>4. ASSUME NEW c \in Copy, Reject(c), Back' = Append(Back, c)
        PROVE  \A i \in DOMAIN Back' : Back'[i] \notin Acceptable
    <2>1. Back \in Seq(Copy) /\ c \notin Acceptable
      BY <1>4, BackType DEF Reject
    <2>2. QED
      BY <1>2, <1>4, <2>1, AppendProperties, LenProperties
  <1>5. CASE ReadAck
    <2>1. PICK op \in {"ack", "drop"} : Reads(op)
      BY <1>5 DEF ReadAck
    <2>2. op \in Ops
      BY DEF Ops
    <2>3. held # Nothing /\ held \in Copy
      BY <2>1, <2>2, ReadsWire
    <2>4. /\ dlq \in Seq(Copy) /\ Back = <<held>> \o dlq /\ Back' = dlq
      BY <1>5, <2>3 DEF ReadAck, Back, TypeOK
    <2>5. /\ Back \in Seq(Copy) /\ Len(Back) = Len(dlq) + 1 /\ Len(dlq) \in Nat
          /\ \A i \in 1 .. Len(dlq) : Back[i + 1] = dlq[i]
      BY <2>3, <2>4, FrontProperties
    <2>6. DOMAIN Back = 1 .. Len(dlq) + 1 /\ DOMAIN dlq = 1 .. Len(dlq)
      BY <2>4, <2>5, LenProperties
    <2>7. QED
      BY <1>2, <2>4, <2>5, <2>6
  <1>6. QED
    BY <1>3, <1>4, <1>5, BackNext

\* Without a fault the DLQ, with the message a tool holds, contains only what
\* the consumer has rejected: no event is there that it would accept, and
\* none whose correction has already made it acceptable.
THEOREM DlqHoldsRejected == Spec => []RejectedOnly
  <1>1. Init => RejectedOnly
    BY DEF Init, RejectedOnly, Back
  <1>2. (Shape /\ RejectedOnly) /\ [Next]_vars => (Shape /\ RejectedOnly)'
    BY ShapeNext, RejectedNext
  <1>3. QED
    BY ShapeInit, <1>1, <1>2, PTL DEF Spec
-----------------------------------------------------------------------------
(* Counting what is kept *)

Raw(m) == [msg |-> m, fixed |-> FALSE]
Fixed(m) == [msg |-> m, fixed |-> TRUE]
InMain(m) == main[Raw(m)] + main[Fixed(m)]
Holds(m) == IF held # Nothing /\ held.msg = m THEN 1 ELSE 0

LEMMA QueuedParts ==
    ASSUME TypeOK, NEW m \in Msgs
    PROVE  /\ InMain(m) \in Nat /\ CountIn(Back, m) \in Nat
           /\ indexed[m] \in Nat /\ quarantined[m] \in Nat /\ Queued(m) \in Nat
           /\ Queued(m) = InMain(m) + CountIn(Back, m) + quarantined[m]
  <1>1. Raw(m) \in Copy /\ Fixed(m) \in Copy
    BY DEF Raw, Fixed, Copy
  <1>2. /\ main[Raw(m)] \in Nat /\ main[Fixed(m)] \in Nat
        /\ indexed[m] \in Nat /\ quarantined[m] \in Nat
    BY <1>1 DEF TypeOK
  <1>3. /\ CountIn(Back, m) \in Nat /\ CountIn(dlq, m) \in Nat
        /\ CountIn(Back, m) = CountIn(dlq, m) + Holds(m)
    BY BackType, CountType DEF TypeOK, Holds
  <1>4. Queued(m) = main[Raw(m)] + main[Fixed(m)] + CountIn(dlq, m)
                    + quarantined[m] + Holds(m)
    BY DEF Queued, Raw, Fixed, Holds
  <1>5. Holds(m) \in Nat
    BY DEF Holds
  <1>6. QED
    BY <1>2, <1>3, <1>4, <1>5 DEF InMain

\* The main queue has one copy fewer, or one more.
LEMMA MainLess ==
    ASSUME TypeOK, NEW c \in Copy, main[c] > 0, main' = [main EXCEPT ![c] = @ - 1],
           NEW m \in Msgs
    PROVE  InMain(m)' = InMain(m) - (IF c.msg = m THEN 1 ELSE 0)
  <1>1. /\ Raw(m) \in Copy /\ Fixed(m) \in Copy /\ Raw(m) # Fixed(m)
        /\ c \in {Raw(m), Fixed(m)} <=> c.msg = m
    BY DEF Raw, Fixed, Copy
  <1>2. main \in [Copy -> Nat]
    BY DEF TypeOK
  <1>3. /\ main'[Raw(m)] = main[Raw(m)] - (IF c = Raw(m) THEN 1 ELSE 0)
        /\ main'[Fixed(m)] = main[Fixed(m)] - (IF c = Fixed(m) THEN 1 ELSE 0)
    BY <1>1, <1>2
  <1>4. main[Raw(m)] \in Nat /\ main[Fixed(m)] \in Nat
    BY <1>1, <1>2
  <1>5. InMain(m)' = main'[Raw(m)] + main'[Fixed(m)]
    BY DEF InMain, Raw, Fixed
  <1>6. QED
    BY <1>1, <1>3, <1>4, <1>5 DEF InMain

LEMMA MainMore ==
    ASSUME TypeOK, NEW c \in Copy, main' = [main EXCEPT ![c] = @ + 1], NEW m \in Msgs
    PROVE  InMain(m)' = InMain(m) + (IF c.msg = m THEN 1 ELSE 0)
  <1>1. /\ Raw(m) \in Copy /\ Fixed(m) \in Copy /\ Raw(m) # Fixed(m)
        /\ c \in {Raw(m), Fixed(m)} <=> c.msg = m
    BY DEF Raw, Fixed, Copy
  <1>2. main \in [Copy -> Nat]
    BY DEF TypeOK
  <1>3. /\ main'[Raw(m)] = main[Raw(m)] + (IF c = Raw(m) THEN 1 ELSE 0)
        /\ main'[Fixed(m)] = main[Fixed(m)] + (IF c = Fixed(m) THEN 1 ELSE 0)
    BY <1>1, <1>2
  <1>4. main[Raw(m)] \in Nat /\ main[Fixed(m)] \in Nat
    BY <1>1, <1>2
  <1>5. InMain(m)' = main'[Raw(m)] + main'[Fixed(m)]
    BY DEF InMain, Raw, Fixed
  <1>6. QED
    BY <1>1, <1>3, <1>4, <1>5 DEF InMain

LEMMA SameMain == ASSUME main' = main, NEW m PROVE InMain(m)' = InMain(m)
  BY DEF InMain, Raw, Fixed

LEMMA QueuedPrimed ==
    ASSUME TypeOK, SessionInv, [Next]_vars, NEW m \in Msgs
    PROVE  Queued(m)' = InMain(m)' + CountIn(Back', m) + quarantined'[m]
  <1>1. TypeOK'
    BY TypeNext
  <1>2. (TypeOK /\ m \in Msgs
           => Queued(m) = InMain(m) + CountIn(Back, m) + quarantined[m])'
    BY QueuedParts, PTL
  <1>3. QED
    BY <1>1, <1>2

\* Copies only come from what the tool has published and go with an
\* acknowledgement; every other step moves a copy or none.
LEMMA QueuedPublished ==
    ASSUME TypeOK, SessionInv, [Next]_vars, ReadPublish, NEW m \in Msgs
    PROVE  Queued(m)' = Queued(m) + Holds(m) /\ indexed' = indexed
  <1>1. held \in Copy /\ held # Nothing
    BY ReadsWire DEF ReadPublish, Ops
  <1>2. Fixed(held.msg) \in Copy /\ Fixed(held.msg).msg = held.msg
    BY <1>1 DEF Fixed, Copy
  <1>3. main' = [main EXCEPT ![Fixed(held.msg)] = @ + 1]
    BY DEF ReadPublish, Fixed
  <1>4. InMain(m)' = InMain(m) + Holds(m)
    BY <1>1, <1>2, <1>3, MainMore DEF Holds
  <1>5. Back' = Back /\ indexed' = indexed /\ quarantined' = quarantined
    BY DEF ReadPublish, Back, sinkVars
  <1>6. Holds(m) \in Nat
    BY DEF Holds
  <1>7. QED
    BY <1>4, <1>5, <1>6, QueuedParts, QueuedPrimed

LEMMA QueuedQuarantined ==
    ASSUME TypeOK, SessionInv, [Next]_vars, ReadQuarantine, NEW m \in Msgs
    PROVE  /\ Queued(m)' = Queued(m) + (IF QuarantineBound THEN Holds(m) ELSE 0)
           /\ indexed' = indexed
  <1>1. held \in Copy /\ held # Nothing
    BY ReadsWire DEF ReadQuarantine, Ops
  <1>2. held.msg \in Msgs /\ quarantined \in [Msgs -> Nat]
    BY <1>1 DEF Copy, TypeOK
  <1>3. quarantined' = IF QuarantineBound THEN [quarantined EXCEPT ![held.msg] = @ + 1]
                                          ELSE quarantined
    BY DEF ReadQuarantine
  <1>4. quarantined'[m] = quarantined[m] + (IF QuarantineBound THEN Holds(m) ELSE 0)
    <2>1. CASE QuarantineBound /\ held.msg = m
      BY <1>1, <1>2, <1>3, <2>1 DEF Holds
    <2>2. CASE QuarantineBound /\ held.msg # m
      BY <1>1, <1>2, <1>3, <2>2 DEF Holds
    <2>3. CASE ~QuarantineBound
      BY <1>2, <1>3, <2>3
    <2>4. QED
      BY <2>1, <2>2, <2>3
  <1>5. Back' = Back /\ indexed' = indexed /\ InMain(m)' = InMain(m)
    BY SameMain DEF ReadQuarantine, Back
  <1>6. (IF QuarantineBound THEN Holds(m) ELSE 0) \in Nat
    BY DEF Holds
  <1>7. QED
    BY <1>4, <1>5, <1>6, QueuedParts, QueuedPrimed

LEMMA QueuedAcked ==
    ASSUME TypeOK, SessionInv, [Next]_vars, ReadAck, NEW m \in Msgs
    PROVE  Queued(m)' = Queued(m) - Holds(m) /\ indexed' = indexed
  <1>1. CountIn(Back, m) = CountIn(dlq, m) + Holds(m)
    BY BackType DEF Holds
  <1>2. /\ Back' = dlq /\ indexed' = indexed /\ quarantined' = quarantined
        /\ InMain(m)' = InMain(m)
    BY SameMain DEF ReadAck, Back
  <1>3. Holds(m) \in Nat /\ CountIn(dlq, m) \in Nat
    BY CountType DEF Holds, TypeOK
  <1>4. QED
    BY <1>1, <1>2, <1>3, QueuedParts, QueuedPrimed

LEMMA QueuedSame ==
    ASSUME TypeOK, SessionInv, [Next]_vars, ~ReadPublish, ~ReadQuarantine, ~ReadAck,
           ~\E c \in Copy : Accept(c) \/ IndexFails(c) \/ ConsumerDies(c), NEW m \in Msgs
    PROVE  Queued(m)' = Queued(m) /\ indexed' = indexed
  <1>1. ASSUME NEW c \in Copy, Reject(c)
        PROVE  Queued(m)' = Queued(m) /\ indexed' = indexed
    <2>1. Back' = Append(Back, c)
      BY <1>1, BackAppend DEF Reject, toolVars
    <2>2. CountIn(Back', m) = CountIn(Back, m) + (IF c.msg = m THEN 1 ELSE 0)
      BY <2>1, BackType, CountAppend
    <2>3. InMain(m)' = InMain(m) - (IF c.msg = m THEN 1 ELSE 0)
      BY <1>1, MainLess DEF Reject
    <2>4. indexed' = indexed /\ quarantined' = quarantined
      BY <1>1 DEF Reject, sinkVars
    <2>5. QED
      BY <2>2, <2>3, <2>4, QueuedParts, QueuedPrimed
  <1>2. CASE ~\E c \in Copy : Reject(c)
    <2>1. UNCHANGED <<main, indexed, quarantined>>
      BY <1>2 DEF Next, Consumer, StartTool, StartPeek, Begin, Tool, Get, PeekGet, BasicGet,
         End, Publish, PublishQuarantine, Ack, Requeue, Write, Raises, SessionLost, Dies,
         Broker, ReadRequeue, sinkVars, vars
    <2>2. Back' = Back
      BY <1>2, BackNext
    <2>3. InMain(m)' = InMain(m)
      BY <2>1, SameMain
    <2>4. QED
      BY <2>1, <2>2, <2>3, QueuedParts, QueuedPrimed
  <1>3. QED
    BY <1>1, <1>2

\* What the consumer makes of an accepted copy: it is gone and has become
\* documents, or it is still in a queue and a fault has paid for them.
LEMMA Stored ==
    ASSUME TypeOK, SessionInv, [Next]_vars, NEW c \in Copy,
           Accept(c) \/ IndexFails(c) \/ ConsumerDies(c), NEW m \in Msgs
    PROVE  \E n \in 0 .. Attempts :
              /\ indexed'[m] = indexed[m] + n
              /\ \/ Queued(m)' = Queued(m) - 1 /\ n > 0 /\ faults' = faults
                 \/ Queued(m)' = Queued(m) /\ n = 0
                 \/ Queued(m)' = Queued(m) /\ faults' = faults + 1
  <1>1. PICK k \in 0 .. Attempts : Stores(c.msg, k) /\ (Accept(c) => k > 0)
    BY ReplayAssumption DEF Accept, IndexFails, ConsumerDies, ReplayAssumption
  <1>2. c.msg \in Msgs /\ indexed \in [Msgs -> Nat] /\ k \in Nat
    BY ReplayAssumption DEF Copy, TypeOK, ReplayAssumption
  <1>3. indexed'[m] = indexed[m] + (IF c.msg = m THEN k ELSE 0)
    BY <1>1, <1>2 DEF Stores
  <1>4. quarantined' = quarantined
    BY DEF Accept, IndexFails, ConsumerDies
  <1>5. CASE Accept(c)
    <2>1. InMain(m)' = InMain(m) - (IF c.msg = m THEN 1 ELSE 0)
      BY <1>5, MainLess DEF Accept
    <2>2. Back' = Back /\ faults' = faults
      BY <1>5 DEF Accept, Back, toolVars
    <2>3. Queued(m)' = Queued(m) - (IF c.msg = m THEN 1 ELSE 0)
      BY <1>4, <2>1, <2>2, QueuedParts, QueuedPrimed
    <2>4. QED
      <3>1. CASE c.msg = m
        BY <1>1, <1>2, <1>3, <1>5, <2>2, <2>3, <3>1
      <3>2. CASE c.msg # m
        <4>1. /\ indexed'[m] = indexed[m] + 0 /\ 0 \in 0 .. Attempts
              /\ Queued(m)' = Queued(m)
          BY <1>3, <2>3, <3>2, ReplayAssumption, QueuedParts DEF ReplayAssumption
        <4>2. QED
          BY <4>1
      <3>3. QED
        BY <3>1, <3>2
  <1>6. CASE IndexFails(c) \/ ConsumerDies(c)
    <2>1. faults' = faults + 1
      BY <1>6 DEF IndexFails, ConsumerDies
    <2>2. Queued(m)' = Queued(m)
      <3>1. CASE IndexFails(c)
        <4>1. Back' = Append(Back, c)
          BY <3>1, BackAppend DEF IndexFails, toolVars
        <4>2. CountIn(Back', m) = CountIn(Back, m) + (IF c.msg = m THEN 1 ELSE 0)
          BY <4>1, BackType, CountAppend
        <4>3. InMain(m)' = InMain(m) - (IF c.msg = m THEN 1 ELSE 0)
          BY <3>1, MainLess DEF IndexFails
        <4>4. QED
          BY <1>4, <4>2, <4>3, QueuedParts, QueuedPrimed
      <3>2. CASE ConsumerDies(c)
        <4>1. Back' = Back /\ InMain(m)' = InMain(m)
          BY <3>2, SameMain DEF ConsumerDies, Back, toolVars
        <4>2. QED
          BY <1>4, <4>1, QueuedParts, QueuedPrimed
      <3>3. QED
        BY <1>6, <3>1, <3>2
    <2>3. PICK n \in 0 .. Attempts : indexed'[m] = indexed[m] + n
      <3>1. 0 \in 0 .. Attempts
        BY ReplayAssumption DEF ReplayAssumption
      <3>2. QED
        BY <1>3, <3>1
    <2>4. QED
      BY <2>1, <2>2, <2>3
  <1>7. QED
    BY <1>5, <1>6

-----------------------------------------------------------------------------
(* Nothing is lost, nothing multiplied *)

\* When the broker has the copy as well as the message.
LEMMA DoubledPublished ==
    ASSUME TypeOK, SessionInv, ReadPublish \/ ReadQuarantine, NEW m
    PROVE  ~Doubled(m) /\ (Doubled(m)' <=> Holds(m) = 1)
  <1>1. PICK op \in {"publish", "quarantine"} : Reads(op) /\ UNCHANGED <<held, pc>>
    BY DEF ReadPublish, ReadQuarantine
  <1>2. op \in Ops
    BY DEF Ops
  <1>3. /\ held # Nothing
        /\ \/ pc = "ack" /\ wire = <<op>> /\ wire' = <<>>
           \/ pc = "get" /\ wire = <<op, "ack">> /\ wire' = <<"ack">>
    BY <1>1, <1>2, ReadsWire
  <1>4. ~Sent /\ Sent'
    BY <1>1, <1>3 DEF Sent
  <1>5. QED
    BY <1>1, <1>3, <1>4 DEF Doubled, Holds

LEMMA DoubledAcked ==
    ASSUME TypeOK, SessionInv, ReadAck, NEW m
    PROVE  /\ ~Doubled(m)'
           /\ Head(wire) = "ack" => (Doubled(m) <=> Holds(m) = 1)
           /\ Head(wire) # "ack" => Head(wire) = "drop" /\ ~Doubled(m)
  <1>1. PICK op \in {"ack", "drop"} : Reads(op) /\ Head(wire) = op
    BY DEF ReadAck, Reads
  <1>2. op \in Ops
    BY DEF Ops
  <1>3. held # Nothing /\ pc = "get" /\ wire = <<op>>
    BY <1>1, <1>2, ReadsWire
  <1>4. Sent <=> op = "ack"
    BY <1>3 DEF Sent
  <1>5. held' = Nothing
    BY DEF ReadAck
  <1>6. QED
    BY <1>1, <1>3, <1>4, <1>5 DEF Doubled, Holds

LEMMA DoubledSame ==
    ASSUME TypeOK, SessionInv, [Next]_vars, ~ReadPublish, ~ReadQuarantine, ~ReadAck,
           ~SessionLost, NEW m
    PROVE  Doubled(m)' <=> Doubled(m)
  <1>1. CASE UNCHANGED <<held, wire, pc>>
    BY <1>1 DEF Doubled, Sent
  <1>2. CASE held = Nothing /\ held' = Nothing
    BY <1>2 DEF Doubled
  <1>3. CASE pc = "off" \/ End
    <2>1. held = Nothing /\ wire = <<>>
      BY <1>3 DEF SessionInv, End, CopyThenAck, Gives
    <2>2. CASE held' = Nothing
      BY <1>2, <2>1, <2>2
    <2>3. CASE held' # Nothing
      BY <1>1, <1>3, <2>1, <2>3 DEF Next, Consumer, Accept, Reject, IndexFails, ConsumerDies,
         Stores, StartTool,
         StartPeek, Begin, Tool, Get, PeekGet, BasicGet, End, Publish, PublishQuarantine, Ack,
         Requeue, Write, Raises, Dies, Broker, ReadRequeue, Reads, toolVars, vars
    <2>4. QED
      BY <2>2, <2>3
  <1>4. CASE Get \/ PeekGet
    <2>1. wire = <<>> /\ pc = "get" /\ wire' = <<>> /\ pc' # "ack"
      BY <1>4, GetSession
    <2>2. ~Sent /\ ~Sent'
      BY <2>1 DEF Sent
    <2>3. QED
      BY <2>2 DEF Doubled
  <1>5. CASE Publish \/ PublishQuarantine \/ Ack \/ Requeue
    <2>1. Sent' <=> Sent
      BY <1>5, WriteWire DEF Sent, Copies, CopyThenAck
    <2>2. held' = held
      BY <1>5, WriteWire
    <2>3. QED
      BY <2>1, <2>2 DEF Doubled
  <1>6. CASE Raises \/ ReadRequeue
    <2>1. wire \in {<<>>, <<"requeue">>} /\ pc \in {"raised", "get"} /\ held' = Nothing
      <3>1. CASE Raises
        BY <3>1 DEF Raises, Dies, SessionInv
      <3>2. CASE ReadRequeue
        BY <3>2, ReadsWire DEF ReadRequeue, Ops
      <3>3. QED
        BY <1>6, <3>1, <3>2
    <2>2. ~Sent
      BY <2>1 DEF Sent
    <2>3. QED
      BY <2>1, <2>2 DEF Doubled
  <1>7. QED
    BY <1>1, <1>3, <1>4, <1>5, <1>6 DEF Next, Consumer, Accept, Reject, IndexFails,
       ConsumerDies, Stores,
       ConsumerDies, Stores, StartTool, StartPeek, Begin, Tool, Broker, toolVars, vars

LEMMA FaultsNext ==
    ASSUME TypeOK, [Next]_vars
    PROVE  faults \in Nat /\ faults' \in Nat /\ faults <= faults'
           /\ (SessionLost => faults' = faults + 1)
  <1>1. faults \in Nat
    BY DEF TypeOK
  <1>2. faults' = faults \/ faults' = faults + 1
    BY DEF Next, Consumer, Accept, Reject, IndexFails, ConsumerDies, Stores, StartTool,
       StartPeek, Begin,
       Tool, Get, PeekGet, BasicGet, End, Publish, PublishQuarantine, Ack, Requeue, Write,
       Raises, SessionLost, Dies, Broker, ReadPublish, ReadQuarantine, ReadAck,
       ReadRequeue, toolVars, vars
  <1>3. SessionLost => faults' = faults + 1
    BY DEF SessionLost
  <1>4. QED
    BY <1>1, <1>2, <1>3

LEMMA DiscardedNext ==
    ASSUME TypeOK, [Next]_vars
    PROVE  /\ discarded \subseteq discarded'
           /\ ReadAck /\ Head(wire) = "drop" => held.msg \in discarded'
  BY DEF Next, Consumer, Accept, Reject, IndexFails, ConsumerDies, Stores, StartTool, StartPeek,
     Begin,
       Tool, Get, PeekGet, BasicGet, End, Publish, PublishQuarantine, Ack, Requeue, Write,
       Raises, SessionLost, Dies, Broker, ReadPublish, ReadQuarantine, ReadAck,
       ReadRequeue, toolVars, sinkVars, vars

\* Only an acknowledgement of the tool takes a copy away.
LEMMA KeptGrows ==
    ASSUME TypeOK, SessionInv, [Next]_vars, ~ReadPublish, ~ReadQuarantine, ~ReadAck,
           NEW m \in Msgs
    PROVE  Kept(m)' \in Int /\ Kept(m)' >= Kept(m)
  <1>0. Queued(m) \in Nat /\ indexed[m] \in Nat
    BY QueuedParts
  <1>1. CASE ~\E c \in Copy : Accept(c) \/ IndexFails(c) \/ ConsumerDies(c)
    BY <1>0, <1>1, QueuedSame DEF Kept
  <1>2. ASSUME NEW c \in Copy, Accept(c) \/ IndexFails(c) \/ ConsumerDies(c)
        PROVE  Kept(m)' \in Int /\ Kept(m)' >= Kept(m)
    <2>1. PICK n \in 0 .. Attempts :
              /\ indexed'[m] = indexed[m] + n
              /\ \/ Queued(m)' = Queued(m) - 1 /\ n > 0
                 \/ Queued(m)' = Queued(m)
      BY <1>2, Stored
    <2>2. n \in Nat
      BY ReplayAssumption DEF ReplayAssumption
    <2>3. QED
      BY <1>0, <2>1, <2>2 DEF Kept
  <1>3. QED
    BY <1>1, <1>2

LEMMA Times ==
    ASSUME NEW a \in Nat, NEW q \in Nat
    PROVE  a * q \in Nat /\ a * (q + 1) = a * q + a
  OBVIOUS

\* The consumer turns a copy into documents, or a fault pays for them.
LEMMA WeightMoves ==
    ASSUME TypeOK, SessionInv, [Next]_vars, ~ReadPublish, ~ReadQuarantine, ~ReadAck,
           NEW m \in Msgs
    PROVE  /\ Weight(m)' \in Int
           /\ \/ Weight(m)' <= Weight(m)
              \/ ~SessionLost /\ faults' = faults + 1 /\ Weight(m)' <= Weight(m) + Attempts
  <1>0. /\ Queued(m) \in Nat /\ indexed[m] \in Nat /\ Attempts \in Nat
        /\ Attempts * Queued(m) \in Nat
    BY QueuedParts, ReplayAssumption, Times DEF ReplayAssumption
  <1>1. CASE ~\E c \in Copy : Accept(c) \/ IndexFails(c) \/ ConsumerDies(c)
    BY <1>0, <1>1, QueuedSame DEF Weight
  <1>2. ASSUME NEW c \in Copy, Accept(c) \/ IndexFails(c) \/ ConsumerDies(c)
        PROVE  /\ Weight(m)' \in Int
               /\ \/ Weight(m)' <= Weight(m)
                  \/ ~SessionLost /\ faults' = faults + 1 /\ Weight(m)' <= Weight(m) + Attempts
    <2>1. PICK n \in 0 .. Attempts :
              /\ indexed'[m] = indexed[m] + n
              /\ \/ Queued(m)' = Queued(m) - 1 /\ n > 0 /\ faults' = faults
                 \/ Queued(m)' = Queued(m) /\ n = 0
                 \/ Queued(m)' = Queued(m) /\ faults' = faults + 1
      BY <1>2, Stored
    <2>2. ~SessionLost
      BY <1>2 DEF SessionLost, Dies, Accept, IndexFails, ConsumerDies, toolVars
    <2>3. n \in Nat /\ n <= Attempts
      BY <1>0
    <2>4. CASE Queued(m)' = Queued(m)
      BY <1>0, <2>1, <2>2, <2>3, <2>4 DEF Weight
    <2>5. CASE Queued(m)' = Queued(m) - 1
      <3>1. Queued(m)' \in Nat
        <4>1. TypeOK'
          BY TypeNext
        <4>2. (TypeOK /\ m \in Msgs => Queued(m) \in Nat)'
          BY QueuedParts, PTL
        <4>3. QED
          BY <4>1, <4>2
      <3>2. Queued(m) = Queued(m)' + 1
        BY <1>0, <2>5
      <3>3. Attempts * Queued(m)' \in Nat /\ Attempts * Queued(m) = Attempts * Queued(m)' + Attempts
        BY <1>0, <3>1, <3>2, Times
      <3>4. QED
        BY <1>0, <2>1, <2>3, <3>3 DEF Weight
    <2>6. QED
      BY <2>1, <2>4, <2>5
  <1>3. QED
    BY <1>1, <1>2

\* A copy comes with Doubled and goes with it.
LEMMA WeightBound ==
    ASSUME NEW a \in Nat, NEW q \in Nat, NEW i \in Nat, NEW f \in Nat, NEW g \in Nat, f <= g,
           NEW h \in {0, 1}
    PROVE  /\ a * q + i <= a * (1 + f + 0) => a * (q + h) + i <= a * (1 + g + h)
           /\ a * q + i <= a * (1 + f + 0) => a * q + i <= a * (1 + g + h)
           /\ a * (q + 1) + i <= a * (1 + f + 1) => a * q + i <= a * (1 + g + 0)
  OBVIOUS

LEMMA BoundGrows ==
    ASSUME NEW a \in Nat, NEW v \in Int, NEW w \in Int, NEW f \in Nat, NEW g \in Nat, f <= g,
           NEW d \in {0, 1}, NEW e \in {0, 1},
           w <= a * (1 + f + d)
    PROVE  /\ v <= w /\ d = e => v <= a * (1 + g + e)
           /\ v <= w /\ g = f + 1 => v <= a * (1 + g + e)
           /\ v <= w + a /\ g = f + 1 /\ d = e => v <= a * (1 + g + e)
  OBVIOUS

LEMMA LossNext ==
    ASSUME QuarantineBound, TypeOK, SessionInv, LossInv, [Next]_vars
    PROVE  LossInv'
  <1> SUFFICES ASSUME NEW m \in Msgs, m \notin discarded'
               PROVE  Kept(m)' > (IF Doubled(m)' THEN 1 ELSE 0)
    BY DEF LossInv
  <1>0. /\ Kept(m) \in Nat /\ Kept(m) > (IF Doubled(m) THEN 1 ELSE 0)
        /\ Holds(m) \in {0, 1}
    BY QueuedParts, DiscardedNext DEF LossInv, Kept, Holds
  <1>1. CASE ReadPublish \/ ReadQuarantine
    <2>1. Kept(m)' = Kept(m) + Holds(m)
      <3>1. Queued(m)' = Queued(m) + Holds(m) /\ indexed' = indexed
        BY <1>1, QueuedPublished, QueuedQuarantined
      <3>2. Queued(m) \in Nat /\ indexed[m] \in Nat
        BY QueuedParts
      <3>3. QED
        BY <1>0, <3>1, <3>2 DEF Kept
    <2>2. ~Doubled(m) /\ (Doubled(m)' <=> Holds(m) = 1)
      BY <1>1, DoubledPublished
    <2>3. QED
      BY <1>0, <2>1, <2>2
  <1>2. CASE ReadAck
    <2>1. Kept(m)' = Kept(m) - Holds(m) /\ ~Doubled(m)'
      BY <1>2, QueuedAcked, DoubledAcked, QueuedParts DEF Kept, Holds
    <2>2. CASE Head(wire) = "ack"
      <3>1. Doubled(m) <=> Holds(m) = 1
        BY <1>2, <2>2, DoubledAcked
      <3>2. QED
        BY <1>0, <2>1, <3>1
    <2>3. CASE Head(wire) # "ack"
      <3>1. Holds(m) = 0
        BY <1>2, <2>3, DoubledAcked, DiscardedNext DEF Holds
      <3>2. QED
        BY <1>0, <2>1, <3>1
    <2>4. QED
      BY <2>2, <2>3
  <1>3. CASE ~ReadPublish /\ ~ReadQuarantine /\ ~ReadAck
    <2>1. Kept(m)' \in Int /\ Kept(m)' >= Kept(m)
      BY <1>3, KeptGrows
    <2>2. CASE SessionLost
      <3>1. ~Doubled(m)'
        BY <2>2 DEF SessionLost, Dies, Doubled
      <3>2. QED
        BY <1>0, <2>1, <3>1
    <2>3. CASE ~SessionLost
      <3>1. Doubled(m)' <=> Doubled(m)
        BY <1>3, <2>3, DoubledSame
      <3>2. QED
        BY <1>0, <2>1, <3>1
    <2>4. QED
      BY <2>2, <2>3
  <1>4. QED
    BY <1>1, <1>2, <1>3

LEMMA CopiesNext ==
    ASSUME TypeOK, SessionInv, CopiesInv, [Next]_vars
    PROVE  CopiesInv'
  <1> DEFINE D(m) == IF Doubled(m) THEN 1 ELSE 0
  <1> SUFFICES ASSUME NEW m \in Msgs
               PROVE  Weight(m)' <= Attempts * (1 + faults' + D(m)')
    BY DEF CopiesInv
  <1>0. /\ Queued(m) \in Nat /\ indexed[m] \in Nat /\ Attempts \in Nat
        /\ faults \in Nat /\ faults' \in Nat /\ faults <= faults'
        /\ Holds(m) \in {0, 1} /\ D(m) \in {0, 1} /\ D(m)' \in {0, 1}
    BY QueuedParts, FaultsNext, ReplayAssumption DEF Holds, ReplayAssumption
  <1>1. /\ Weight(m) = Attempts * Queued(m) + indexed[m]
        /\ Weight(m)' = Attempts * Queued(m)' + indexed'[m]
        /\ Weight(m) <= Attempts * (1 + faults + D(m))
    BY DEF Weight, CopiesInv
  <1>2. /\ D(m) = 1 <=> Doubled(m)
        /\ D(m)' = 1 <=> Doubled(m)'
    OBVIOUS
  <1> HIDE DEF D
  <1>3. CASE ReadPublish \/ ReadQuarantine
    <2>1. Queued(m)' \in {Queued(m), Queued(m) + Holds(m)} /\ indexed'[m] = indexed[m]
      <3>1. CASE ReadPublish
        BY <3>1, QueuedPublished
      <3>2. CASE ReadQuarantine /\ QuarantineBound
        BY <3>2, QueuedQuarantined
      <3>3. CASE ReadQuarantine /\ ~QuarantineBound
        BY <1>0, <3>3, QueuedQuarantined
      <3>4. QED
        BY <1>3, <3>1, <3>2, <3>3
    <2>2. D(m) = 0 /\ D(m)' = Holds(m)
      BY <1>0, <1>2, <1>3, DoubledPublished
    <2>3. QED
      BY <1>0, <1>1, <2>1, <2>2, WeightBound
  <1>4. CASE ReadAck
    <2>1. Queued(m)' = Queued(m) - Holds(m) /\ indexed'[m] = indexed[m] /\ D(m)' = 0
      BY <1>0, <1>2, <1>4, QueuedAcked, DoubledAcked
    <2>2. D(m) = 1 => Holds(m) = 1
      BY <1>2 DEF Doubled, Holds
    <2>3. Queued(m)' \in Nat
      <3>1. TypeOK'
        BY TypeNext
      <3>2. (TypeOK /\ m \in Msgs => Queued(m) \in Nat)'
        BY QueuedParts, PTL
      <3>3. QED
        BY <3>1, <3>2
    <2>4. QED
      BY <1>0, <1>1, <2>1, <2>2, <2>3, WeightBound
  <1>5. CASE ~ReadPublish /\ ~ReadQuarantine /\ ~ReadAck
    <2>1. /\ Weight(m)' \in Int
          /\ \/ Weight(m)' <= Weight(m)
             \/ ~SessionLost /\ faults' = faults + 1 /\ Weight(m)' <= Weight(m) + Attempts
      BY <1>5, WeightMoves
    <2>2. Weight(m) \in Int
      BY <1>0, <1>1, Times
    <2>3. CASE SessionLost
      <3>1. faults' = faults + 1
        BY <2>3, FaultsNext
      <3>2. QED
        BY <1>0, <1>1, <2>1, <2>2, <2>3, <3>1, BoundGrows
    <2>4. CASE ~SessionLost
      <3>1. D(m)' = D(m)
        BY <1>0, <1>2, <1>5, <2>4, DoubledSame
      <3>2. QED
        BY <1>0, <1>1, <2>1, <2>2, <3>1, BoundGrows
    <2>5. QED
      BY <2>3, <2>4
  <1>6. QED
    BY <1>3, <1>4, <1>5

LEMMA KeptInit == Init => LossInv /\ CopiesInv
  <1> SUFFICES ASSUME Init, NEW m \in Msgs
               PROVE  Kept(m) = 1 /\ Weight(m) = Attempts /\ faults = 0 /\ ~Doubled(m)
    BY ReplayAssumption DEF LossInv, CopiesInv, ReplayAssumption
  <1>1. Raw(m) \in Copy /\ Fixed(m) \in Copy /\ ~Raw(m).fixed /\ Fixed(m).fixed
    BY DEF Raw, Fixed, Copy
  <1>2. InMain(m) = 1
    BY <1>1 DEF Init, InMain
  <1>3. CountIn(Back, m) = 0
    BY CountEmpty DEF Init, Back
  <1>4. indexed[m] = 0 /\ quarantined[m] = 0 /\ faults = 0 /\ ~Doubled(m)
    BY DEF Init, Doubled
  <1>5. Queued(m) = InMain(m) + CountIn(Back, m) + quarantined[m]
    BY TypeInit, QueuedParts
  <1>6. QED
    BY <1>2, <1>3, <1>4, <1>5, ReplayAssumption DEF Kept, Weight, ReplayAssumption

\* An event is never lost, whenever a session dies: it is in a queue, in the
\* index or quarantined, unless a tool has discarded it on purpose.  The queue
\* that --quarantine names has to exist.
THEOREM ReplaysLoseNothing == QuarantineBound => (Spec => []ReplayLosesNothing)
  <1> SUFFICES ASSUME QuarantineBound PROVE Spec => []ReplayLosesNothing
    OBVIOUS
  <1>1. (Shape /\ LossInv) /\ [Next]_vars => (Shape /\ LossInv)'
    BY ShapeNext, LossNext DEF Shape
  <1>2. Shape /\ LossInv => ReplayLosesNothing
    <2> SUFFICES ASSUME Shape, LossInv, NEW m \in Msgs, m \notin discarded PROVE Kept(m) > 0
      BY DEF ReplayLosesNothing, Kept
    <2>1. Kept(m) \in Nat /\ Kept(m) > (IF Doubled(m) THEN 1 ELSE 0)
      BY QueuedParts DEF Shape, LossInv, Kept
    <2>2. QED
      BY <2>1
  <1>3. QED
    BY ShapeInit, KeptInit, <1>1, <1>2, PTL DEF Spec

\* Between sessions the documents of an event, and all that the copies left in
\* the queues can become, are those of one handling and one more for every
\* fault, for any number of attempts and whether or not the quarantine exists.
THEOREM CopiesAlwaysBounded == Spec => []CopiesBounded
  <1>1. (Shape /\ CopiesInv) /\ [Next]_vars => (Shape /\ CopiesInv)'
    BY ShapeNext, CopiesNext DEF Shape
  <1>2. Shape /\ CopiesInv => CopiesBounded
    <2> SUFFICES ASSUME Shape, CopiesInv, pc = "off", NEW m \in Msgs
                 PROVE  Weight(m) <= Attempts * (1 + faults)
      BY DEF CopiesBounded, Weight
    <2>1. ~Doubled(m)
      BY DEF Shape, SessionInv, Doubled
    <2>2. Weight(m) <= Attempts * (1 + faults + 0)
      BY <2>1 DEF CopiesInv
    <2>3. 1 + faults + 0 = 1 + faults
      BY DEF Shape, TypeOK
    <2>4. QED
      BY <2>2, <2>3
  <1>3. QED
    BY ShapeInit, KeptInit, <1>1, <1>2, PTL DEF Spec
-----------------------------------------------------------------------------
(* What is discarded *)

LEMMA DropNext ==
    ASSUME TypeOK, SessionInv, DropInv, [Next]_vars
    PROVE  DropInv'
  <1>1. CASE UNCHANGED <<held, wire, pc, tool, keep>>
    BY <1>1 DEF DropInv
  <1>2. CASE pc' \in {"off", "get"} /\ wire' = <<>>
    <2>1. <<>> # <<"drop">>
      OBVIOUS
    <2>2. QED
      BY <1>2, <2>1 DEF DropInv
  <1>3. CASE pc = "off" \/ End
    <2>1. wire = <<>>
      BY <1>3 DEF SessionInv, End
    <2>2. QED
      BY <1>1, <1>2, <1>3, <2>1 DEF Next, Consumer, Accept, Reject, IndexFails, ConsumerDies,
         Stores, StartTool,
         StartPeek, Begin, Tool, Get, PeekGet, BasicGet, End, Publish, PublishQuarantine, Ack,
         Requeue, Write, Raises, SessionLost, Dies, Broker, ReadPublish, ReadQuarantine,
         ReadAck, ReadRequeue, Reads, toolVars, vars
  <1>4. CASE Get \/ PeekGet
    <2>1. /\ wire' = <<>> /\ held' = Head(dlq) /\ UNCHANGED <<tool, keep>>
          /\ \/ tool \in Replays /\ pc' = Plan(Head(dlq))
             \/ tool \in Peeks /\ pc' = PeekPlan
      BY <1>4 DEF Get, PeekGet, BasicGet
    <2>2. CASE tool \in Peeks /\ pc' = PeekPlan
      BY <2>1, <2>2 DEF Peeks, PeekPlan, DropInv
    <2>3. CASE tool \in Replays /\ pc' = Plan(Head(dlq))
      <3>1. pc' = "drop" => BodyOf[Head(dlq).msg].shape = "garbage" /\ tool # "dryrun" /\ ~keep
        BY <2>3 DEF Plan
      <3>2. QED
        BY <2>1, <2>3, <3>1 DEF Replays, DropInv
    <2>4. QED
      BY <2>1, <2>2, <2>3
  <1>5. CASE Publish \/ PublishQuarantine \/ Ack \/ Requeue
    <2>1. wire' = <<"drop">> => pc = "drop"
      BY <1>5, WriteWire DEF CopyThenAck
    <2>2. pc' # "drop" /\ UNCHANGED <<held, tool, keep>>
      BY <1>5, WriteWire
    <2>3. QED
      BY <2>1, <2>2 DEF DropInv
  <1>6. CASE Raises \/ SessionLost
    BY <1>2, <1>6 DEF Raises, SessionLost, Dies
  <1>7. CASE Broker
    <2>1. PICK op \in Ops : Reads(op) /\ pc' = pc
      BY <1>7 DEF Broker, ReadPublish, ReadQuarantine, ReadAck, ReadRequeue, Ops
    <2>2. pc' # "drop" /\ wire' # <<"drop">>
      BY <2>1, ReadsWire
    <2>3. QED
      BY <2>2 DEF DropInv
  <1>8. QED
    BY <1>1, <1>3, <1>4, <1>5, <1>6, <1>7 DEF Next, Consumer, Accept, Reject, IndexFails,
       ConsumerDies, Stores,
       ConsumerDies, Stores, StartTool, StartPeek, Begin, Tool, toolVars, vars

\* The replay tool acknowledges without keeping a copy only a dead letter
\* that is not JSON, and only when no quarantine is named; nothing else but
\* a peek with --requeue false takes an event out for good.
THEOREM ReplaysDiscardOnlyGarbage == Spec => DiscardsOnlyGarbage
  <1>1. Init => DropInv
    BY DEF Init, DropInv
  <1>2. (Shape /\ DropInv) /\ [Next]_vars => (Shape /\ DropInv)'
    BY ShapeNext, DropNext DEF Shape
  <1>3. (Shape /\ DropInv) /\ [Next]_vars =>
           [\A m \in discarded' \ discarded :
              tool = "take" \/ (tool = "replay" /\ ~keep /\ BodyOf[m].shape = "garbage")]_vars
    <2> SUFFICES ASSUME Shape, DropInv, [Next]_vars, NEW m \in discarded' \ discarded
                 PROVE  tool = "take" \/ (tool = "replay" /\ ~keep /\ BodyOf[m].shape = "garbage")
      OBVIOUS
    <2>1. Reads("drop") /\ m = held.msg
      BY DEF Next, Consumer, Accept, Reject, IndexFails, ConsumerDies, Stores, StartTool,
         StartPeek, Begin, Tool,
         Get, PeekGet, BasicGet, End, Publish, PublishQuarantine, Ack, Requeue, Write, Raises,
         SessionLost, Dies, Broker, ReadPublish, ReadQuarantine, ReadAck, ReadRequeue, Reads,
         sinkVars, vars
    <2>2. wire = <<"drop">>
      BY <2>1, ReadsWire DEF Shape, Ops
    <2>3. QED
      BY <2>1, <2>2 DEF DropInv
  <1>4. QED
    BY ShapeInit, <1>1, <1>2, <1>3, PTL DEF Spec, DiscardsOnlyGarbage

-----------------------------------------------------------------------------
(* A session ends *)

LEMMA RankType ==
    ASSUME TypeOK, SessionInv, pc # "off"
    PROVE  /\ Rank = 1 + 5 * (Limit - fetched) + 2 * CallsLeft + Len(wire)
           /\ CallsLeft \in 0 .. 2 /\ Len(wire) \in Nat
           /\ fetched \in Nat /\ Limit \in Nat /\ fetched <= Limit
  <1>1. fetched \in 0 .. Limit /\ Limit \in Nat
    BY ReplayAssumption DEF TypeOK, ReplayAssumption
  <1>2. Len(wire) \in Nat
    BY LenProperties DEF TypeOK
  <1>3. QED
    BY <1>1, <1>2 DEF Rank, CallsLeft
HeldIsCounted == held # Nothing => fetched > 0

LEMMA HeldNext ==
    ASSUME TypeOK, SessionInv, HeldIsCounted, [Next]_vars
    PROVE  HeldIsCounted'
  <1>1. CASE UNCHANGED <<held, fetched>> \/ held' = Nothing
    BY <1>1 DEF HeldIsCounted
  <1>2. CASE pc = "off" \/ End
    <2>1. held = Nothing
      BY <1>2 DEF SessionInv, End, CopyThenAck, Gives
    <2>2. held' = held \/ Get \/ PeekGet
      BY <1>2, <2>1 DEF Next, Consumer, Accept, Reject, IndexFails, ConsumerDies, Stores,
         StartTool, StartPeek,
         Begin, Tool, End, Publish, PublishQuarantine, Ack, Requeue, Write, Raises,
         SessionLost, Dies, Broker, ReadPublish, ReadQuarantine, ReadAck, ReadRequeue,
         toolVars, vars
    <2>3. QED
      BY <1>1, <1>2, <2>1, <2>2 DEF Get, PeekGet, BasicGet, End
  <1>3. CASE Get \/ PeekGet
    <2>1. fetched \in Nat /\ fetched' = fetched + 1
      BY <1>3 DEF Get, PeekGet, BasicGet, TypeOK
    <2>2. QED
      BY <2>1 DEF HeldIsCounted
  <1>4. QED
    BY <1>1, <1>2, <1>3 DEF Next, Consumer, Accept, Reject, IndexFails, ConsumerDies, Stores,
       StartTool, StartPeek,
       Begin, Tool, Publish, PublishQuarantine, Ack, Requeue, Write, Raises, SessionLost,
       Dies, Broker, ReadPublish, ReadQuarantine, ReadAck, ReadRequeue, toolVars, vars

LEMMA WireLength ==
    /\ Len(<<>>) = 0
    /\ \A w \in Copies \cup Gives \cup {<<"ack">>} : Len(w) = 1
    /\ \A w \in CopyThenAck : Len(w) = 2
  BY DEF Copies, Gives, CopyThenAck

LEMMA RankArithmetic ==
    ASSUME NEW l \in Nat, NEW f \in Nat, f <= l, NEW c \in 0 .. 2, NEW w \in Nat
    PROVE  /\ 1 + 5 * (l - f) + 2 * c + w \in Nat
           /\ w = 0 /\ f > 0 => 1 + 5 * (l - f) + 2 * c + w < 1 + 5 * (l - (f - 1))
  OBVIOUS

LEMMA RankStep ==
    ASSUME TypeOK, SessionInv, HeldIsCounted, [Next]_vars, pc # "off"
    PROVE  /\ Rank \in 1 .. 5 * Limit + 1
           /\ Rank' \in 0 .. Rank
           /\ Tool \/ SessionLost \/ Broker => Rank' < Rank
  <1>0. /\ Rank = 1 + 5 * (Limit - fetched) + 2 * CallsLeft + Len(wire)
        /\ CallsLeft \in 0 .. 2 /\ Len(wire) \in Nat
        /\ fetched \in Nat /\ Limit \in Nat /\ fetched <= Limit
    BY RankType
  <1>1. Rank \in 1 .. 5 * Limit + 1
    <2>1. CASE held = Nothing
      <3>1. CallsLeft = 0 /\ Len(wire) = 0
        BY <2>1, WireLength DEF SessionInv, CallsLeft, TypeOK, Pcs
      <3>2. QED
        BY <1>0, <3>1
    <2>2. CASE held # Nothing
      <3>1. fetched > 0
        BY <2>2 DEF HeldIsCounted
      <3>2. 2 * CallsLeft + Len(wire) <= 4
        <4>1. CASE pc = "get"
          <5>1. wire \in Copies \cup Gives \cup {<<"ack">>} \cup CopyThenAck
            BY <2>2, <4>1 DEF SessionInv
          <5>2. Len(wire) \in {1, 2}
            BY <5>1, WireLength
          <5>3. CallsLeft = 0
            BY <4>1 DEF CallsLeft
          <5>4. CASE Len(wire) = 1
            BY <5>3, <5>4
          <5>5. CASE Len(wire) = 2
            BY <5>3, <5>5
          <5>6. QED
            BY <5>2, <5>4, <5>5
        <4>2. CASE pc = "ack"
          <5>1. wire \in {<<>>} \cup Copies
            BY <4>2 DEF SessionInv
          <5>2. Len(wire) \in {0, 1}
            BY <5>1, WireLength
          <5>3. CallsLeft = 1
            BY <4>2 DEF CallsLeft
          <5>4. CASE Len(wire) = 0
            BY <5>3, <5>4
          <5>5. CASE Len(wire) = 1
            BY <5>3, <5>5
          <5>6. QED
            BY <5>2, <5>4, <5>5
        <4>3. CASE pc \notin {"get", "ack"}
          <5>1. Len(wire) = 0
            BY <4>3, WireLength DEF SessionInv, TypeOK, Pcs
          <5>2. QED
            BY <1>0, <5>1
        <4>4. QED
          BY <4>1, <4>2, <4>3
      <3>3. QED
        BY <1>0, <3>1, <3>2
    <2>3. QED
      BY <2>1, <2>2
  <1>2. CASE pc' = "off"
    <2>1. Rank' = 0
      BY <1>2 DEF Rank
    <2>2. QED
      BY <1>0, <1>1, <2>1
  <1>3. CASE pc' # "off"
    <2>0. TypeOK' /\ SessionInv'
      BY TypeNext, SessionNext
    <2>1. /\ Rank' = 1 + 5 * (Limit - fetched') + 2 * CallsLeft' + Len(wire')
          /\ CallsLeft' \in 0 .. 2 /\ Len(wire') \in Nat /\ fetched' \in Nat /\ fetched' <= Limit
      <3>1. (TypeOK /\ SessionInv /\ pc # "off"
               => /\ Rank = 1 + 5 * (Limit - fetched) + 2 * CallsLeft + Len(wire)
                  /\ CallsLeft \in 0 .. 2 /\ Len(wire) \in Nat
                  /\ fetched \in Nat /\ fetched <= Limit)'
        BY RankType, PTL
      <3>2. QED
        BY <1>3, <2>0, <3>1
    <2>11. Rank' \in Nat
      BY <1>0, <2>1, RankArithmetic
    <2>2. CASE UNCHANGED <<pc, wire, fetched>> /\ ~Tool /\ ~SessionLost /\ ~Broker
      <3>1. CallsLeft' = CallsLeft
        BY <2>2 DEF CallsLeft
      <3>2. Rank' = Rank
        BY <1>0, <2>1, <2>2, <3>1
      <3>3. QED
        BY <1>1, <2>2, <3>2
    <2>3. CASE Get \/ PeekGet
      <3>1. fetched' = fetched + 1 /\ Len(wire') = 0 /\ Len(wire) = 0 /\ CallsLeft = 0
        BY <2>3, WireLength DEF Get, PeekGet, BasicGet, CallsLeft
      <3>2. Rank = 1 + 5 * (Limit - fetched)
        BY <1>0, <3>1
      <3>3. fetched' - 1 = fetched /\ fetched' > 0
        BY <1>0, <3>1
      <3>4. Rank' < 1 + 5 * (Limit - (fetched' - 1))
        BY <1>0, <2>1, <3>1, <3>3, RankArithmetic
      <3>5. Rank' < Rank
        BY <3>2, <3>3, <3>4
      <3>6. QED
        BY <1>1, <2>11, <3>5
    <2>4. CASE Publish \/ PublishQuarantine \/ Ack \/ Requeue
      <3>1. fetched' = fetched
        BY <2>4, WriteWire
      <3>2. CallsLeft' = CallsLeft - 1
        <4>1. \/ pc \in {"publish", "quarantine"} /\ pc' = "ack"
              \/ pc \in {"drop", "requeue", "ack"} /\ pc' = "get"
          BY <2>4, WriteWire
        <4>2. QED
          BY <4>1 DEF CallsLeft
      <3>3. Len(wire') = Len(wire) + 1
        BY <2>4 DEF Publish, PublishQuarantine, Ack, Requeue, Write, TypeOK
      <3>4. Rank' < Rank
        BY <1>0, <2>1, <3>1, <3>2, <3>3
      <3>5. QED
        BY <1>1, <2>11, <3>4
    <2>5. CASE Broker
      <3>1. UNCHANGED <<pc, fetched>> /\ wire # <<>> /\ wire' = Tail(wire)
        BY <2>5 DEF Broker, ReadPublish, ReadQuarantine, ReadAck, ReadRequeue, Reads
      <3>2. Len(wire') = Len(wire) - 1
        BY <3>1, HeadTailProperties DEF TypeOK
      <3>3. CallsLeft' = CallsLeft
        BY <3>1 DEF CallsLeft
      <3>4. Rank' < Rank
        BY <1>0, <2>1, <3>1, <3>2, <3>3
      <3>5. QED
        BY <1>1, <2>11, <3>4
    <2>6. QED
      <3>1. ~End /\ ~Raises /\ ~SessionLost
        BY <1>3 DEF End, Raises, SessionLost, Dies
      <3>2. ~Tool /\ ~Broker => UNCHANGED <<pc, wire, fetched>>
        BY <3>1 DEF Next, Consumer, Accept, Reject, IndexFails, ConsumerDies, Stores, StartTool,
           StartPeek, Begin,
           toolVars, vars
      <3>3. QED
        BY <2>2, <2>3, <2>4, <2>5, <3>1, <3>2 DEF Tool
  <1>4. QED
    BY <1>2, <1>3

\* The safety half of SessionEnds: from its start on a session has at most
\* 5 * Limit + 1 steps, its own and the broker's, and nothing the consumer
\* puts into the DLQ meanwhile prolongs it.
THEOREM SessionsWindDown == Spec => SessionWindsDown
  <1>1. Init => HeldIsCounted
    BY DEF Init, HeldIsCounted
  <1>2. (Shape /\ HeldIsCounted) /\ [Next]_vars => (Shape /\ HeldIsCounted)'
    BY ShapeNext, HeldNext DEF Shape
  <1>3. (Shape /\ HeldIsCounted) /\ [Next]_vars =>
           [pc # "off" => /\ Rank \in 1 .. 5 * Limit + 1
                          /\ Rank' \in 0 .. Rank
                          /\ Tool \/ SessionLost \/ Broker => Rank' < Rank]_vars
    BY RankStep DEF Shape
  <1>4. QED
    BY ShapeInit, <1>1, <1>2, <1>3, PTL DEF Spec, SessionWindsDown
=============================================================================
