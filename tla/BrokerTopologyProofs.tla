------------------------ MODULE BrokerTopologyProofs ------------------------
(***************************************************************************)
(* Proofs about BrokerTopology.  What makes its two invariants inductive   *)
(* is what a process that has come so far has left behind it: a consumer   *)
(* things that are present, a script things that are declared.             *)
(***************************************************************************)
EXTENDS BrokerTopology, Integers, TLAPS

\* Only the queue can have been there with other arguments.
OnlyQueueIsOther == \A t \in Things : obj[t] = "other" => t = "queue"

ConsumerDone ==
    \A p \in Consumers :
        /\ step[p] > 1 => Present("ex")
        /\ step[p] > 2 => Present("dlx")
        /\ step[p] > 3 => Present("queue")
        /\ step[p] > 4 => Present("route")

ScriptDone ==
    \A p \in Scripts :
        /\ step[p] > 1 => obj["ex"] = "declared"
        /\ step[p] > 2 => obj["dlx"] = "declared"
        /\ step[p] > 3 => obj["dlq"] = "declared"
        /\ step[p] > 4 => obj["queue"] = "declared"
        /\ step[p] > 5 /\ p \notin warned => obj["route"] = "declared"
        /\ step[p] > 6 /\ p \notin warned => obj["dead"] = "declared"

\* Without a fault a consumer creates only what it has seen to be missing.
CreatesMissing ==
    \A p \in Consumers :
        faults = 0 /\ step[p] = 3 /\ phase[p] = "create" => obj["queue"] # "other"

\* Only the script declares what it has seen to be there.
ScriptsRedeclare == \A p \in Consumers : phase[p] # "declare"

Inv ==
    /\ TypeOK
    /\ ScriptsRedeclare
    /\ OnlyQueueIsOther
    /\ ConsumerDone
    /\ ScriptDone
    /\ CreatesMissing
    /\ CertifiedIsComplete
    /\ RaceIsHarmless

-----------------------------------------------------------------------------

\* The two plans, entry by entry.
LEMMA ConsumerPlanFacts ==
    ASSUME NEW p \in Consumers
    PROVE  /\ Len(Plan(p)) = 4
           /\ Plan(p)[1] = "ex" /\ Plan(p)[2] = "dlx"
           /\ Plan(p)[3] = "queue" /\ Plan(p)[4] = "route"
BY DEF Plan, ConsumerPlan

LEMMA ScriptPlanFacts ==
    ASSUME NEW p \in Scripts
    PROVE  /\ Len(Plan(p)) = 6
           /\ Plan(p)[1] = "ex" /\ Plan(p)[2] = "dlx" /\ Plan(p)[3] = "dlq"
           /\ Plan(p)[4] = "queue" /\ Plan(p)[5] = "route" /\ Plan(p)[6] = "dead"
BY TopologyAssumption DEF Plan, ScriptPlan

\* Where a process is in its plan says what it is about to ensure.
LEMMA ConsumerAt ==
    ASSUME NEW p \in Consumers, step[p] \in Nat
    PROVE  /\ At(p, Bindings) => step[p] = 4 /\ Target(p) = "route"
           /\ At(p, Exchanges \cup Queues) =>
                 /\ step[p] \in 1 .. 3 /\ Target(p) \in Things \ Bindings
                 /\ step[p] = 1 => Target(p) = "ex"
                 /\ step[p] = 2 => Target(p) = "dlx"
                 /\ step[p] = 3 <=> Target(p) = "queue"
<1>1. ASSUME Running(p) PROVE step[p] \in {1, 2, 3, 4}
  <2>1. Len(Plan(p)) = 4
    BY ConsumerPlanFacts
  <2>2. step[p] \in 1 .. 4
    BY <1>1, <2>1 DEF Running
  <2> QED BY <2>2
<1> QED
  BY <1>1, ConsumerPlanFacts DEF At, Target, Bindings, Exchanges, Queues, Things

LEMMA ScriptAt ==
    ASSUME NEW p \in Scripts, step[p] \in Nat
    PROVE  /\ At(p, Bindings) => /\ step[p] \in {5, 6}
                                 /\ step[p] = 5 => Target(p) = "route"
                                 /\ step[p] = 6 => Target(p) = "dead"
           /\ At(p, Exchanges \cup Queues) =>
                 /\ step[p] \in 1 .. 4 /\ Target(p) \in Things \ Bindings
                 /\ step[p] = 1 => Target(p) = "ex"
                 /\ step[p] = 2 => Target(p) = "dlx"
                 /\ step[p] = 3 => Target(p) = "dlq"
                 /\ step[p] = 4 => Target(p) = "queue"
<1>1. ASSUME Running(p) PROVE step[p] \in {1, 2, 3, 4, 5, 6}
  <2>1. Len(Plan(p)) = 6
    BY ScriptPlanFacts
  <2>2. step[p] \in 1 .. 6
    BY <1>1, <2>1 DEF Running
  <2> QED BY <2>2
<1> QED
  BY <1>1, ScriptPlanFacts DEF At, Target, Bindings, Exchanges, Queues, Things

\* The broker never unmakes a thing, nor changes its arguments.
Grows == \A t \in Things : obj'[t] = obj[t] \/ (obj[t] = "absent" /\ obj'[t] = "declared")

\* What is behind a process stays there while the broker only grows.
LEMMA GrowsKeeps ==
    ASSUME Inv, Grows, TypeOK', UNCHANGED <<step, phase, warned, died, certified>>,
           faults' = faults \/ faults' > 0
    PROVE  Inv'
<1> USE TopologyAssumption DEF Grows, Inv, Things, Exchanges, Queues, Bindings
<1>1. OnlyQueueIsOther'
  BY DEF OnlyQueueIsOther
<1>2. ConsumerDone'
  BY DEF ConsumerDone, Present
<1>3. ScriptDone'
  BY DEF ScriptDone
<1>4. CreatesMissing'
  BY DEF CreatesMissing, TypeOK
<1>5. CertifiedIsComplete' /\ ScriptsRedeclare'
  BY DEF CertifiedIsComplete, ScriptsRedeclare
<1>6. RaceIsHarmless'
  BY DEF RaceIsHarmless, TypeOK
<1> QED BY <1>1, <1>2, <1>3, <1>4, <1>5, <1>6 DEF Inv

\* Making a thing is growth.
LEMMA MakeGrows ==
    ASSUME TypeOK, NEW t \in Things, Make(t)
    PROVE  Grows /\ obj' \in [Things -> {"absent", "declared", "other"}]
           /\ obj'[t] = IF obj[t] = "absent" THEN "declared" ELSE obj[t]
BY DEF TypeOK, Make, Grows

-----------------------------------------------------------------------------
(* The steps of a process *)

\* A process that is at the beginning of its plan has left nothing behind.
LEMMA StopInv ==
    ASSUME Inv, NEW p \in Procs, Stop(p), UNCHANGED <<obj, where>>,
           warned' = warned, faults' \in 0 .. MaxFaults, faults' = faults \/ faults' > 0,
           died' \in SUBSET Procs, certified' \in BOOLEAN,
           CertifiedIsComplete', RaceIsHarmless'
    PROVE  Inv'
<1> USE TopologyAssumption DEF Stop
<1>1. TypeOK'
  <2>1. /\ step' \in [Procs -> Nat]
        /\ phase' \in [Procs -> {"look", "declare", "create"}]
    BY DEF Inv, TypeOK
  <2>2. \A q \in Procs : step'[q] <= Len(Plan(q)) + 1
    <3> SUFFICES ASSUME NEW q \in Procs PROVE step'[q] <= Len(Plan(q)) + 1
      OBVIOUS
    <3>1. Len(Plan(q)) \in Nat
      BY ConsumerPlanFacts, ScriptPlanFacts DEF Procs
    <3> QED BY <3>1 DEF Inv, TypeOK
  <2> QED BY <2>1, <2>2 DEF Inv, TypeOK
<1>2. \A q \in Procs : step'[q] = step[q] \/ step'[q] = 0
  BY DEF Inv, TypeOK
<1>3. OnlyQueueIsOther'
  BY DEF Inv, OnlyQueueIsOther
<1>4. ConsumerDone' /\ ScriptDone'
  BY <1>2 DEF Inv, ConsumerDone, ScriptDone, Present, Procs
<1>5. CreatesMissing'
  <2> SUFFICES ASSUME NEW q \in Consumers, faults' = 0, step'[q] = 3, phase'[q] = "create"
               PROVE  obj["queue"] # "other"
    BY DEF CreatesMissing
  <2>1. step[q] = 3 /\ phase[q] = "create" /\ faults = 0
    BY <1>2 DEF Inv, TypeOK, Procs
  <2> QED BY <2>1 DEF Inv, CreatesMissing
<1>6. ScriptsRedeclare'
  BY DEF Inv, ScriptsRedeclare, TypeOK, Procs
<1> QED BY <1>1, <1>3, <1>4, <1>5, <1>6 DEF Inv

\* What a process has to have behind it when it goes on to the next entry.
Left(p) ==
    /\ p \in Consumers =>
          /\ step[p] = 1 => Present("ex")'
          /\ step[p] = 2 => Present("dlx")'
          /\ step[p] = 3 => Present("queue")'
          /\ step[p] = 4 => Present("route")'
    /\ p \in Scripts =>
          /\ step[p] = 1 => obj'["ex"] = "declared"
          /\ step[p] = 2 => obj'["dlx"] = "declared"
          /\ step[p] = 3 => obj'["dlq"] = "declared"
          /\ step[p] = 4 => obj'["queue"] = "declared"
          /\ step[p] = 5 /\ p \notin warned' => obj'["route"] = "declared"
          /\ step[p] = 6 /\ p \notin warned' => obj'["dead"] = "declared"

LEMMA AdvanceInv ==
    ASSUME Inv, NEW p \in Procs, Advance(p), step[p] <= Len(Plan(p)), Left(p),
           Grows, obj' \in [Things -> {"absent", "declared", "other"}],
           warned' = warned \/ (step[p] = 0 /\ warned' = warned \ {p}),
           UNCHANGED <<where, died, certified, faults>>
    PROVE  Inv'
<1> USE TopologyAssumption DEF Things, Exchanges, Queues, Bindings
<1>0. /\ step \in [Procs -> Nat] /\ phase \in [Procs -> {"look", "declare", "create"}]
      /\ step' = [step EXCEPT ![p] = @ + 1]
      /\ phase' = [phase EXCEPT ![p] = "look"]
  BY DEF Inv, TypeOK, Advance
<1>1. TypeOK'
  <2>1. /\ step' \in [Procs -> Nat]
        /\ phase' \in [Procs -> {"look", "declare", "create"}]
    BY <1>0
  <2>2. \A q \in Procs : step'[q] <= Len(Plan(q)) + 1
    <3> SUFFICES ASSUME NEW q \in Procs PROVE step'[q] <= Len(Plan(q)) + 1
      OBVIOUS
    <3>1. Len(Plan(q)) \in Nat
      BY ConsumerPlanFacts, ScriptPlanFacts DEF Procs
    <3> QED BY <1>0, <3>1 DEF Inv, TypeOK
  <2> QED BY <2>1, <2>2 DEF Inv, TypeOK
<1>2. OnlyQueueIsOther'
  BY DEF Inv, OnlyQueueIsOther, Grows
<1>3. ConsumerDone'
  <2> SUFFICES ASSUME NEW q \in Consumers
               PROVE  /\ step'[q] > 1 => Present("ex")'
                      /\ step'[q] > 2 => Present("dlx")'
                      /\ step'[q] > 3 => Present("queue")'
                      /\ step'[q] > 4 => Present("route")'
    BY DEF ConsumerDone
  <2>1. /\ step[q] > 1 => Present("ex")'
        /\ step[q] > 2 => Present("dlx")'
        /\ step[q] > 3 => Present("queue")'
        /\ step[q] > 4 => Present("route")'
    BY DEF Inv, ConsumerDone, Present, Grows
  <2>2. q \in Procs /\ step[q] \in Nat
    BY <1>0 DEF Procs
  <2>3. CASE q = p
    BY <1>0, <2>1, <2>2, <2>3 DEF Left
  <2>4. CASE q # p
    BY <1>0, <2>1, <2>2, <2>4
  <2> QED BY <2>3, <2>4
<1>4. ScriptDone'
  <2> SUFFICES ASSUME NEW q \in Scripts
               PROVE  /\ step'[q] > 1 => obj'["ex"] = "declared"
                      /\ step'[q] > 2 => obj'["dlx"] = "declared"
                      /\ step'[q] > 3 => obj'["dlq"] = "declared"
                      /\ step'[q] > 4 => obj'["queue"] = "declared"
                      /\ step'[q] > 5 /\ q \notin warned' => obj'["route"] = "declared"
                      /\ step'[q] > 6 /\ q \notin warned' => obj'["dead"] = "declared"
    BY DEF ScriptDone
  <2>1. /\ step[q] > 1 => obj'["ex"] = "declared"
        /\ step[q] > 2 => obj'["dlx"] = "declared"
        /\ step[q] > 3 => obj'["dlq"] = "declared"
        /\ step[q] > 4 => obj'["queue"] = "declared"
        /\ step[q] > 5 /\ q \notin warned => obj'["route"] = "declared"
        /\ step[q] > 6 /\ q \notin warned => obj'["dead"] = "declared"
    BY DEF Inv, ScriptDone, Grows
  <2>2. q \in Procs /\ step[q] \in Nat
    BY <1>0 DEF Procs
  <2>3. CASE q = p
    BY <1>0, <2>1, <2>2, <2>3 DEF Left
  <2>4. CASE q # p
    BY <1>0, <2>1, <2>2, <2>4
  <2> QED BY <2>3, <2>4
<1>5. CreatesMissing'
  BY <1>0 DEF Inv, CreatesMissing, Grows, Procs
<1>6. CertifiedIsComplete' /\ RaceIsHarmless' /\ ScriptsRedeclare'
  BY <1>0 DEF Inv, CertifiedIsComplete, RaceIsHarmless, Grows, ScriptsRedeclare, Procs
<1> QED BY <1>1, <1>2, <1>3, <1>4, <1>5, <1>6 DEF Inv

\* Only the phase of a process changes.
LEMMA PhaseInv ==
    ASSUME Inv, NEW p \in Procs, NEW ph \in {"look", "declare", "create"}, Phase(p, ph),
           UNCHANGED <<obj, where, warned, died, certified>>,
           faults' \in 0 .. MaxFaults, faults' = faults \/ faults' > 0,
           p \in Consumers => ph # "declare",
           p \in Consumers /\ step[p] = 3 /\ ph = "create" /\ faults' = 0 => obj["queue"] # "other"
    PROVE  Inv'
<1> USE TopologyAssumption DEF Phase
<1>1. TypeOK'
  BY DEF Inv, TypeOK
<1>2. OnlyQueueIsOther' /\ ConsumerDone' /\ ScriptDone' /\ CertifiedIsComplete'
  BY DEF Inv, OnlyQueueIsOther, ConsumerDone, ScriptDone, Present, CertifiedIsComplete
<1>3. CreatesMissing'
  BY DEF Inv, CreatesMissing, TypeOK, Procs
<1>4. RaceIsHarmless' /\ ScriptsRedeclare'
  BY DEF Inv, RaceIsHarmless, TypeOK, ScriptsRedeclare, Procs
<1> QED BY <1>1, <1>2, <1>3, <1>4 DEF Inv

\* A script that has warned owes nothing more.
LEMMA WarnInv ==
    ASSUME Inv, NEW p \in Scripts, step[p] \in {5, 6},
           step' = [step EXCEPT ![p] = Len(Plan(p)) + 1], warned' = warned \cup {p},
           UNCHANGED <<obj, where, phase, died, certified>>,
           faults' \in 0 .. MaxFaults, faults' = faults \/ faults' > 0
    PROVE  Inv'
<1> USE TopologyAssumption
<1>0. step' = [step EXCEPT ![p] = 7] /\ step \in [Procs -> Nat] /\ p \in Procs
  <2>1. Len(Plan(p)) = 6
    BY ScriptPlanFacts
  <2> QED BY <2>1 DEF Inv, TypeOK, Procs
<1>1. TypeOK'
  BY <1>0, ScriptPlanFacts DEF Inv, TypeOK
<1>2. OnlyQueueIsOther' /\ CertifiedIsComplete'
  BY DEF Inv, OnlyQueueIsOther, CertifiedIsComplete
<1>3. ConsumerDone'
  BY <1>0 DEF Inv, ConsumerDone, Present, Procs
<1>4. ScriptDone'
  <2> SUFFICES ASSUME NEW q \in Scripts
               PROVE  /\ step'[q] > 1 => obj["ex"] = "declared"
                      /\ step'[q] > 2 => obj["dlx"] = "declared"
                      /\ step'[q] > 3 => obj["dlq"] = "declared"
                      /\ step'[q] > 4 => obj["queue"] = "declared"
                      /\ step'[q] > 5 /\ q \notin warned' => obj["route"] = "declared"
                      /\ step'[q] > 6 /\ q \notin warned' => obj["dead"] = "declared"
    BY DEF ScriptDone
  <2>1. CASE q = p
    BY <1>0, <2>1 DEF Inv, ScriptDone
  <2>2. CASE q # p
    BY <1>0, <2>2 DEF Inv, ScriptDone, Procs
  <2> QED BY <2>1, <2>2
<1>5. CreatesMissing'
  BY <1>0 DEF Inv, CreatesMissing, TypeOK, Procs
<1>6. RaceIsHarmless' /\ ScriptsRedeclare'
  BY DEF Inv, RaceIsHarmless, TypeOK, ScriptsRedeclare
<1> QED BY <1>1, <1>2, <1>3, <1>4, <1>5, <1>6 DEF Inv

\* The entry a process is at is before the end of its plan.
LEMMA AtIsBefore ==
    ASSUME NEW p \in Procs, NEW ts, At(p, ts), step[p] \in Nat
    PROVE  step[p] <= Len(Plan(p)) /\ step[p] # 0
<1>1. Len(Plan(p)) \in Nat
  BY ConsumerPlanFacts, ScriptPlanFacts DEF Procs
<1> QED BY <1>1 DEF At, Running

LEMMA StartInv == ASSUME Inv, NEW p \in Procs, Start(p) PROVE Inv'
<1>1. step[p] = 0 /\ step[p] <= Len(Plan(p))
  BY ConsumerPlanFacts, ScriptPlanFacts DEF Start, Procs
<1>2. Left(p) /\ Grows
  BY <1>1 DEF Left, Start, Grows
<1> QED BY <1>1, <1>2, AdvanceInv DEF Start, Inv, TypeOK

LEMMA LookInv == ASSUME Inv, NEW p \in Procs, Look(p) PROVE Inv'
<1> USE TopologyAssumption
<1>1. At(p, Exchanges \cup Queues) /\ step[p] \in Nat
  BY DEF Look, Inv, TypeOK
<1>2. CASE ~Present(Target(p))
  <2>1. p \in Consumers /\ step[p] = 3 => obj["queue"] # "other"
    BY <1>1, <1>2, ConsumerAt DEF Present
  <2>2. Phase(p, "create") /\ UNCHANGED <<obj, where, warned, died, certified, faults>>
    BY <1>2 DEF Look
  <2> QED BY <2>1, <2>2, PhaseInv DEF Inv, TypeOK
<1>3. CASE Present(Target(p)) /\ p \in Consumers
  <2>1. Advance(p) /\ UNCHANGED <<obj, where, warned, died, certified, faults>>
    BY <1>3 DEF Look
  <2>2. Left(p)
    BY <1>1, <1>3, <2>1, ConsumerAt DEF Left, Present
  <2>3. Grows /\ step[p] <= Len(Plan(p))
    BY <1>1, <2>1, AtIsBefore DEF Grows
  <2> QED BY <2>1, <2>2, <2>3, AdvanceInv DEF Inv, TypeOK
<1>4. CASE Present(Target(p)) /\ p \notin Consumers
  <2>1. Phase(p, "declare") /\ UNCHANGED <<obj, where, warned, died, certified, faults>>
    BY <1>4 DEF Look
  <2> QED BY <1>4, <2>1, PhaseInv DEF Inv, TypeOK
<1> QED BY <1>2, <1>3, <1>4

LEMMA RedeclareInv == ASSUME Inv, NEW p \in Procs, Redeclare(p) PROVE Inv'
<1> USE TopologyAssumption
<1>1. At(p, Exchanges \cup Queues) /\ step[p] \in Nat /\ p \in Scripts
  BY DEF Redeclare, Inv, TypeOK, ScriptsRedeclare, Procs
<1>2. CASE Refused(Target(p))
  <2>1. Phase(p, "create") /\ UNCHANGED <<obj, where, warned, died, certified, faults>>
    BY <1>2 DEF Redeclare
  <2> QED BY <1>1, <2>1, PhaseInv DEF Inv, TypeOK
<1>3. CASE ~Refused(Target(p))
  <2>1. Advance(p) /\ Make(Target(p)) /\ UNCHANGED <<where, warned, died, certified, faults>>
    BY <1>3 DEF Redeclare
  <2>2. Target(p) \in Things \ Bindings /\ obj[Target(p)] # "other"
    BY <1>1, <1>3, ScriptAt DEF Refused
  <2>3. /\ Grows /\ obj' \in [Things -> {"absent", "declared", "other"}]
        /\ obj'[Target(p)] = "declared"
    BY <2>1, <2>2, MakeGrows DEF Inv, TypeOK
  <2>4. Left(p)
    BY <1>1, <2>3, ScriptAt DEF Left
  <2>5. step[p] <= Len(Plan(p))
    BY <1>1, AtIsBefore
  <2> QED BY <2>1, <2>3, <2>4, <2>5, AdvanceInv
<1> QED BY <1>2, <1>3

LEMMA CreateInv == ASSUME Inv, NEW p \in Procs, Create(p) PROVE Inv'
<1> USE TopologyAssumption
<1>1. At(p, Exchanges \cup Queues) /\ step[p] \in Nat /\ phase[p] = "create"
  BY DEF Create, Inv, TypeOK
<1>2. Target(p) \in Things \ Bindings
  BY <1>1, ConsumerAt, ScriptAt DEF Procs
<1>3. CASE Refused(Target(p))
  <2>1. Stop(p) /\ died' = died \cup {p} /\ UNCHANGED <<obj, where, warned, certified, faults>>
    BY <1>3 DEF Create
  <2>2. obj["queue"] = "other" /\ Target(p) = "queue"
    BY <1>2, <1>3 DEF Refused, Inv, OnlyQueueIsOther
  <2>3. p \in Consumers => faults # 0
    BY <1>1, <2>2, ConsumerAt DEF Inv, CreatesMissing
  <2>4. RaceIsHarmless' /\ CertifiedIsComplete'
    BY <2>1, <2>2, <2>3 DEF Inv, RaceIsHarmless, CertifiedIsComplete, Procs
  <2>5. died' \in SUBSET Procs /\ certified' \in BOOLEAN /\ faults' \in 0 .. MaxFaults
    BY <2>1 DEF Inv, TypeOK
  <2> QED BY <2>1, <2>4, <2>5, StopInv
<1>4. CASE ~Refused(Target(p))
  <2>1. Advance(p) /\ Make(Target(p)) /\ UNCHANGED <<where, warned, died, certified, faults>>
    BY <1>4 DEF Create
  <2>2. obj[Target(p)] # "other"
    BY <1>2, <1>4 DEF Refused
  <2>3. /\ Grows /\ obj' \in [Things -> {"absent", "declared", "other"}]
        /\ obj'[Target(p)] = "declared"
    BY <1>2, <2>1, <2>2, MakeGrows DEF Inv, TypeOK
  <2>4. Left(p)
    BY <1>1, <2>3, ScriptAt, ConsumerAt DEF Left, Present
  <2>5. step[p] <= Len(Plan(p))
    BY <1>1, AtIsBefore
  <2> QED BY <2>1, <2>3, <2>4, <2>5, AdvanceInv
<1> QED BY <1>3, <1>4

\* No process binds what is not there.
LEMMA NeverRefused ==
    ASSUME Inv, NEW p \in Procs, At(p, Bindings)
    PROVE  ~Refused(Target(p))
<1> USE TopologyAssumption
<1>1. step[p] \in Nat
  BY DEF Inv, TypeOK
<1>2. CASE p \in Consumers
  <2>1. Target(p) = "route" /\ step[p] = 4
    BY <1>1, <1>2, ConsumerAt
  <2>2. Present("ex") /\ Present("queue")
    BY <1>2, <2>1 DEF Inv, ConsumerDone
  <2> QED BY <2>1, <2>2 DEF Refused, Ends, Bindings
<1>3. CASE p \in Scripts
  <2>1. \/ step[p] = 5 /\ Target(p) = "route"
        \/ step[p] = 6 /\ Target(p) = "dead"
    BY <1>1, <1>3, ScriptAt
  <2>2. Present("ex") /\ Present("queue") /\ Present("dlx") /\ Present("dlq")
    BY <1>3, <2>1 DEF Inv, ScriptDone, Present
  <2> QED BY <2>1, <2>2 DEF Refused, Ends, Bindings
<1> QED BY <1>2, <1>3 DEF Procs

LEMMA BindInv == ASSUME Inv, NEW p \in Procs, Bind(p) PROVE Inv'
<1> USE TopologyAssumption
<1>1. At(p, Bindings) /\ step[p] \in Nat
  BY DEF Bind, Inv, TypeOK
<1>2. Target(p) \in Bindings /\ Target(p) \in Things /\ obj[Target(p)] # "other"
  BY <1>1 DEF At, Target, Things, Bindings, Inv, OnlyQueueIsOther
<1>3. Advance(p) /\ Make(Target(p)) /\ UNCHANGED <<where, warned, died, certified, faults>>
  BY <1>1, NeverRefused DEF Bind
<1>4. /\ Grows /\ obj' \in [Things -> {"absent", "declared", "other"}]
      /\ obj'[Target(p)] = "declared"
  BY <1>2, <1>3, MakeGrows DEF Inv, TypeOK
<1>5. Left(p)
  BY <1>1, <1>4, ScriptAt, ConsumerAt DEF Left, Present
<1>6. step[p] <= Len(Plan(p))
  BY <1>1, AtIsBefore
<1> QED BY <1>3, <1>4, <1>5, <1>6, AdvanceInv

\* A script that certifies has every thing behind it.
LEMMA ScriptEndsInv == ASSUME Inv, NEW p \in Procs, ScriptEnds(p) PROVE Inv'
<1> USE TopologyAssumption
<1>1. p \in Scripts /\ step[p] = 7
  <2>1. p \in Scripts /\ Len(Plan(p)) = 6
    BY ScriptPlanFacts DEF ScriptEnds
  <2> QED BY <2>1 DEF ScriptEnds
<1>2. p \notin warned => \A t \in Things : obj[t] = "declared"
  BY <1>1 DEF Inv, ScriptDone, Things, Exchanges, Queues, Bindings
<1>3. CertifiedIsComplete' /\ RaceIsHarmless'
  BY <1>2 DEF ScriptEnds, Inv, CertifiedIsComplete, RaceIsHarmless
<1> QED BY <1>3, StopInv DEF ScriptEnds, Inv, TypeOK

LEMMA FaultInv == ASSUME Inv, NEW p \in Procs, Cut(p) \/ ChannelError(p) PROVE Inv'
<1> USE TopologyAssumption
<1>0. /\ faults' \in 0 .. MaxFaults /\ faults' > 0
      /\ UNCHANGED <<obj, where, died, certified>>
  BY DEF Cut, ChannelError, Inv, TypeOK
<1>1. CASE Cut(p)
  <2>1. CertifiedIsComplete' /\ RaceIsHarmless'
    BY <1>0 DEF Inv, CertifiedIsComplete, RaceIsHarmless, TypeOK
  <2> QED BY <1>0, <1>1, <2>1, StopInv DEF Cut, Inv, TypeOK
<1>2. CASE ChannelError(p) /\ At(p, Exchanges \cup Queues) /\ Phase(p, "create") /\ UNCHANGED warned
  BY <1>0, <1>2, PhaseInv
<1>3. CASE ChannelError(p) /\ At(p, Bindings) /\ p \in Scripts
           /\ step' = [step EXCEPT ![p] = Len(Plan(p)) + 1]
           /\ warned' = warned \cup {p} /\ UNCHANGED phase
  <2>1. step[p] \in {5, 6}
    BY <1>3, ScriptAt DEF Inv, TypeOK
  <2> QED BY <1>0, <1>3, <2>1, WarnInv
<1> QED BY <1>1, <1>2, <1>3 DEF ChannelError

-----------------------------------------------------------------------------

LEMMA LoadInv == ASSUME Inv, LoadDefinitions PROVE Inv'
<1>1. Grows /\ TypeOK'
  BY DEF LoadDefinitions, Grows, Inv, TypeOK
<1> QED BY <1>1, GrowsKeeps DEF LoadDefinitions

LEMMA EventInv ==
    ASSUME Inv,
           (\E m \in Msgs : Publish(m)) \/ (\E p \in Procs, m \in Msgs : Handle(p, m))
    PROVE  Inv'
<1>1. Grows /\ TypeOK' /\ UNCHANGED <<step, phase, warned, died, certified, faults>>
  BY DEF Publish, Handle, Grows, Inv, TypeOK, Places
<1> QED BY <1>1, GrowsKeeps

LEMMA InitInv == Init => Inv
<1> SUFFICES ASSUME Init PROVE Inv
  OBVIOUS
<1> USE TopologyAssumption DEF Init
<1>1. TypeOK
  <2>1. obj \in [Things -> {"absent", "declared", "other"}]
    OBVIOUS
  <2>2. \A p \in Procs : step[p] <= Len(Plan(p)) + 1
    <3> SUFFICES ASSUME NEW p \in Procs PROVE 0 <= Len(Plan(p)) + 1
      OBVIOUS
    <3>1. Len(Plan(p)) \in Nat
      BY ConsumerPlanFacts, ScriptPlanFacts DEF Procs
    <3> QED BY <3>1
  <2>3. where \in [Msgs -> Places]
    BY DEF Places
  <2>4. 0 \in 0 .. MaxFaults
    OBVIOUS
  <2> QED BY <2>1, <2>2, <2>3, <2>4 DEF TypeOK
<1>2. OnlyQueueIsOther
  BY DEF OnlyQueueIsOther
<1>3. ConsumerDone /\ ScriptDone /\ CreatesMissing /\ ScriptsRedeclare
  BY DEF ConsumerDone, ScriptDone, CreatesMissing, ScriptsRedeclare, Procs
<1>4. CertifiedIsComplete /\ RaceIsHarmless
  BY DEF CertifiedIsComplete, RaceIsHarmless
<1> QED BY <1>1, <1>2, <1>3, <1>4 DEF Inv

LEMMA StepInv == Inv /\ [Next]_vars => Inv'
<1> SUFFICES ASSUME Inv, [Next]_vars PROVE Inv'
  OBVIOUS
<1>1. ASSUME NEW p \in Procs, Ensure(p) PROVE Inv'
  BY <1>1, StartInv, LookInv, RedeclareInv, CreateInv, BindInv, ScriptEndsInv
  DEF Ensure
<1>2. ASSUME NEW p \in Procs, Cut(p) \/ ChannelError(p) PROVE Inv'
  BY <1>2, FaultInv
<1>3. CASE LoadDefinitions
  BY <1>3, LoadInv
<1>4. CASE (\E m \in Msgs : Publish(m)) \/ (\E p \in Procs, m \in Msgs : Handle(p, m))
  BY <1>4, EventInv
<1>5. CASE UNCHANGED vars
  BY <1>5 DEF vars, Inv, TypeOK, OnlyQueueIsOther, ConsumerDone, ScriptDone, CreatesMissing,
     ScriptsRedeclare, CertifiedIsComplete, RaceIsHarmless, Present
<1> QED BY <1>1, <1>2, <1>3, <1>4, <1>5 DEF Next

LEMMA SpecInv == Spec => []Inv
BY InitInv, StepInv, PTL DEF Spec

\* A run of infra/rabbitmq/declare_topology.py that ends without a WARNING
\* leaves the whole topology behind it, for any number of consumers, scripts,
\* events and faults.
THEOREM CertifiedStaysComplete == Spec => []CertifiedIsComplete
BY SpecInv, PTL DEF Inv

\* Any number of processes can run the passive-then-create sequences of
\* rabbitmq.py and declare_topology.py at once.
THEOREM RacesAreHarmless == Spec => []RaceIsHarmless
BY SpecInv, PTL DEF Inv

\* The broker has no other states than TypeOK describes.
THEOREM TypeCorrect == Spec => []TypeOK
BY SpecInv, PTL DEF Inv

\* An event is dropped by a publication or by the consumer that handles it, and
\* what they lack is then missing.
LEMMA DropsEarly ==
    ASSUME Inv, [Next]_vars, NEW m \in Msgs, where[m] # "dropped", where'[m] = "dropped"
    PROVE  /\ ~certified
           /\ where[m] = "unsent" => \A p \in Consumers : ~Serving(p)
<1>1. (\E n \in Msgs : Publish(n)) \/ (\E p \in Procs, n \in Msgs : Handle(p, n))
  BY DEF Next, vars, Ensure, Start, Look, Redeclare, Create, Bind, BindRefused, ScriptEnds,
     Cut, ChannelError, LoadDefinitions
<1>2. CASE \E n \in Msgs : Publish(n)
  <2>1. PICK n \in Msgs : Publish(n)
    BY <1>2
  <2>2. n = m /\ (~Present("ex") \/ ~Present("route"))
    BY <2>1 DEF Publish, Inv, TypeOK
  <2>3. ~certified
    BY <2>2 DEF Inv, CertifiedIsComplete, Present, Things, Exchanges, Bindings
  <2>4. ASSUME NEW p \in Consumers, Serving(p) PROVE FALSE
    <3>1. Len(Plan(p)) = 4
      BY ConsumerPlanFacts
    <3>2. step[p] = 5
      BY <2>4, <3>1 DEF Serving
    <3>3. Present("ex") /\ Present("route")
      BY <3>2 DEF Inv, ConsumerDone
    <3> QED BY <3>3, <2>2
  <2> QED BY <2>3, <2>4
<1>3. CASE \E p \in Procs, n \in Msgs : Handle(p, n)
  <2>1. PICK p \in Procs, n \in Msgs : Handle(p, n)
    BY <1>3
  <2>2. n = m /\ where[m] = "queue" /\ ~Kept(p)
    BY <2>1 DEF Handle, Inv, TypeOK
  <2>3. ~certified
    BY <2>2 DEF Inv, CertifiedIsComplete, Kept, Present, Things, Queues, Bindings
  <2> QED BY <2>2, <2>3
<1> QED BY <1>1, <1>2, <1>3

\* A producer that waits until a consumer serves or a script has ended well,
\* and a consumer that waits for the script, lose nothing (publish_test_message.py,
\* consumer.py), for any number of processes, events and faults.
THEOREM DropsAlwaysEarly == Spec => DropsAreEarly
<1>1. Inv /\ [Next]_vars =>
         [\A m \in Msgs : (where[m] # "dropped" /\ where'[m] = "dropped") =>
             /\ ~certified
             /\ where[m] = "unsent" => \A p \in Consumers : ~Serving(p)]_vars
  BY DropsEarly
<1> QED BY <1>1, SpecInv, PTL DEF Spec, DropsAreEarly
-----------------------------------------------------------------------------
(* A consumer that is started again gets to serve.                         *)

\* What is ahead of a consumer in its plan: for each entry a look and a
\* creation.
Ahead(p) == 2 * (5 - step[p]) + (IF phase[p] = "create" THEN 0 ELSE 1)

\* A fault has made it take a queue that is there for a missing one: creating
\* it will end the process.
Misled(p) == step[p] = 3 /\ phase[p] = "create" /\ obj["queue"] = "other"

\* Each fault that is left, and the one it was misled by, may send it back to
\* the start, which is 11 steps from the end.
Way(p) == 12 * ((MaxFaults - faults) + (IF Misled(p) THEN 1 ELSE 0)) + Ahead(p)
LongestWay == 12 * (MaxFaults + 1) + 11

\* A consumer that does not serve has a step to make, and each brings it
\* nearer; nobody else sends it back, and only a fault ends one that serves.
ConsumersAdvance ==
    [][\A p \in Consumers :
          /\ Way(p) \in 0 .. LongestWay
          /\ Way(p)' <= Way(p)
          /\ Ensure(p) => Way(p)' < Way(p)
          /\ ~Serving(p) => \/ step[p] = 0
                            \/ At(p, Exchanges \cup Queues) /\ phase[p] \in {"look", "create"}
                            \/ At(p, Bindings)
          /\ Serving(p) /\ ~Serving(p)' => faults' > faults]_vars

LEMMA WayType ==
    ASSUME TypeOK, NEW p \in Consumers
    PROVE  /\ step[p] \in 0 .. 5 /\ Ahead(p) \in 0 .. 11 /\ Way(p) \in 0 .. LongestWay
           /\ MaxFaults \in Nat /\ faults \in 0 .. MaxFaults
           /\ Serving(p) <=> step[p] = 5
<1>1. p \in Procs /\ Len(Plan(p)) = 4
  BY ConsumerPlanFacts DEF Procs
<1>2. step[p] \in 0 .. 5 /\ MaxFaults \in Nat /\ faults \in 0 .. MaxFaults
  <2>1. step[p] \in Nat /\ step[p] <= Len(Plan(p)) + 1 /\ faults \in 0 .. MaxFaults
    BY <1>1 DEF TypeOK
  <2>2. MaxFaults \in Nat
    BY TopologyAssumption
  <2> QED BY <1>1, <2>1, <2>2
<1>3. Ahead(p) \in 0 .. 11
  BY <1>2 DEF Ahead
<1> QED
  BY <1>1, <1>2, <1>3 DEF Way, LongestWay, Serving

\* The processes other than p leave its place alone, and a fault of theirs
\* can only make its way shorter.
LEMMA OthersStep ==
    ASSUME Inv, TypeOK', NEW p \in Consumers, Grows, step'[p] = step[p], phase'[p] = phase[p],
           faults' >= faults
    PROVE  Way(p)' <= Way(p) /\ Ahead(p)' = Ahead(p) /\ (Misled(p)' <=> Misled(p))
<1>1. obj'["queue"] = "other" <=> obj["queue"] = "other"
  BY DEF Grows, Things, Queues
<1>2. Ahead(p)' = Ahead(p) /\ (Misled(p)' <=> Misled(p))
  BY <1>1 DEF Ahead, Misled
<1>3. /\ MaxFaults \in Nat /\ faults \in 0 .. MaxFaults /\ faults' \in 0 .. MaxFaults
      /\ Ahead(p) \in 0 .. 11
  BY WayType DEF Inv, TypeOK
<1> QED BY <1>2, <1>3 DEF Way

LEMMA EnsureStep ==
    ASSUME Inv, TypeOK', NEW p \in Consumers, Ensure(p)
    PROVE  Way(p)' < Way(p) /\ ~Serving(p)
<1> USE TopologyAssumption
<1>0. /\ p \in Procs /\ step \in [Procs -> Nat] /\ phase \in [Procs -> {"look", "declare", "create"}]
      /\ step[p] \in 0 .. 5 /\ Ahead(p) \in 0 .. 11 /\ (Serving(p) <=> step[p] = 5)
      /\ MaxFaults \in Nat /\ faults \in 0 .. MaxFaults
  BY WayType DEF Inv, TypeOK, Procs
<1>1. faults' = faults
  BY DEF Ensure, Start, Look, Redeclare, Create, Bind, ScriptEnds
<1>2. ASSUME step[p] < 5, step'[p] = step[p] + 1, phase'[p] = "look"
      PROVE  Way(p)' < Way(p) /\ ~Serving(p)
  <2>1. Ahead(p)' < Ahead(p) /\ Ahead(p)' \in 0 .. 11 /\ ~Misled(p)'
    BY <1>0, <1>2 DEF Ahead, Misled
  <2> QED BY <1>0, <1>1, <1>2, <2>1 DEF Way
<1>3. CASE Start(p)
  BY <1>0, <1>2, <1>3 DEF Start, Advance
<1>4. CASE Look(p)
  <2>1. At(p, Exchanges \cup Queues) /\ step[p] \in 1 .. 3 /\ phase[p] = "look"
    BY <1>0, <1>4, ConsumerAt DEF Look
  <2>2. CASE Present(Target(p))
    BY <1>0, <1>2, <1>4, <2>1, <2>2 DEF Look, Advance
  <2>3. CASE ~Present(Target(p))
    <3>1. step'[p] = step[p] /\ phase'[p] = "create" /\ obj' = obj
      BY <1>0, <1>4, <2>3 DEF Look, Phase
    <3>2. ~Misled(p)' /\ ~Misled(p)
      BY <1>0, <2>1, <2>3, <3>1, ConsumerAt DEF Misled, Present
    <3>3. Ahead(p)' = Ahead(p) - 1
      BY <1>0, <2>1, <3>1 DEF Ahead
    <3> QED BY <1>0, <1>1, <2>1, <3>2, <3>3 DEF Way
  <2> QED BY <2>2, <2>3
<1>5. CASE Create(p)
  <2>1. At(p, Exchanges \cup Queues) /\ step[p] \in 1 .. 3 /\ phase[p] = "create"
    BY <1>0, <1>5, ConsumerAt DEF Create
  <2>2. CASE ~Refused(Target(p))
    BY <1>0, <1>2, <1>5, <2>1, <2>2 DEF Create, Advance
  <2>3. CASE Refused(Target(p))
    <3>1. step'[p] = 0 /\ phase'[p] = "look"
      BY <1>0, <1>5, <2>3 DEF Create, Stop
    <3>2. Misled(p)
      BY <1>0, <2>1, <2>3, ConsumerAt DEF Misled, Refused, Inv, OnlyQueueIsOther
    <3>3. ~Misled(p)' /\ Ahead(p)' = 11
      BY <3>1 DEF Misled, Ahead
    <3> QED BY <1>0, <1>1, <2>1, <3>2, <3>3 DEF Way
  <2> QED BY <2>2, <2>3
<1>6. CASE Bind(p)
  <2>1. At(p, Bindings) /\ step[p] = 4
    BY <1>0, <1>6, ConsumerAt DEF Bind
  <2>2. Advance(p)
    BY <1>0, <1>6, <2>1, NeverRefused DEF Bind
  <2> QED BY <1>0, <1>2, <2>1, <2>2 DEF Advance
<1>7. ~Redeclare(p) /\ ~ScriptEnds(p)
  BY DEF Inv, ScriptsRedeclare, Redeclare, ScriptEnds
<1> QED BY <1>3, <1>4, <1>5, <1>6, <1>7 DEF Ensure

LEMMA FaultStep ==
    ASSUME Inv, TypeOK', NEW p \in Consumers, Cut(p) \/ ChannelError(p)
    PROVE  Way(p)' < Way(p) /\ faults' > faults
<1> USE TopologyAssumption
<1>0. /\ p \in Procs /\ step \in [Procs -> Nat] /\ phase \in [Procs -> {"look", "declare", "create"}]
      /\ step[p] \in 0 .. 5 /\ Ahead(p) \in 0 .. 11
      /\ MaxFaults \in Nat /\ faults \in 0 .. MaxFaults
  BY WayType DEF Inv, TypeOK, Procs
<1>1. faults' = faults + 1
  BY DEF Cut, ChannelError
<1>2. CASE Cut(p)
  <2>1. step'[p] = 0 /\ phase'[p] = "look" /\ step[p] > 0
    BY <1>0, <1>2 DEF Cut, Stop
  <2>2. ~Misled(p)' /\ Ahead(p)' = 11
    BY <2>1 DEF Misled, Ahead
  <2> QED BY <1>0, <1>1, <2>2 DEF Way
<1>3. CASE ChannelError(p)
  <2>1. phase[p] # "create" /\ step'[p] = step[p] /\ phase'[p] = "create"
    BY <1>0, <1>3 DEF ChannelError, Phase
  <2>2. Ahead(p)' = Ahead(p) - 1 /\ ~Misled(p)
    BY <1>0, <2>1 DEF Ahead, Misled
  <2> QED BY <1>0, <1>1, <2>2 DEF Way
<1> QED BY <1>2, <1>3

LEMMA ConsumersStep ==
    ASSUME Inv, [Next]_vars, NEW p \in Consumers
    PROVE  /\ Way(p)' <= Way(p)
           /\ Ensure(p) => Way(p)' < Way(p)
           /\ Serving(p) /\ ~Serving(p)' => faults' > faults
<1> USE TopologyAssumption
<1>0. /\ TypeOK' /\ p \in Procs /\ step \in [Procs -> Nat]
      /\ phase \in [Procs -> {"look", "declare", "create"}]
      /\ MaxFaults \in Nat /\ faults \in 0 .. MaxFaults
      /\ Way(p) \in Int
  <2>1. TypeOK /\ TypeOK'
    BY StepInv DEF Inv
  <2>2. Way(p) \in 0 .. LongestWay /\ MaxFaults \in Nat /\ faults \in 0 .. MaxFaults
    BY <2>1, WayType
  <2>3. Way(p) \in Int
    BY <2>2 DEF LongestWay
  <2> QED BY <2>1, <2>2, <2>3 DEF TypeOK, Procs
<1>1. /\ Serving(p) <=> step[p] = 5
      /\ Serving(p)' <=> step'[p] = 5
      /\ Way(p)' \in Int
  <2>1. (TypeOK => (Serving(p) <=> step[p] = 5) /\ Way(p) \in 0 .. LongestWay)'
    BY WayType, PTL
  <2>2. LongestWay \in Int
    BY DEF LongestWay
  <2> QED BY <1>0, <2>1, <2>2, WayType DEF Inv
<1>2. CASE Ensure(p)
  BY <1>0, <1>1, <1>2, EnsureStep
<1>3. CASE Cut(p) \/ ChannelError(p)
  <2>1. ~Ensure(p)
    <3>1. faults' = faults + 1
      BY <1>3 DEF Cut, ChannelError
    <3> QED BY <1>0, <3>1 DEF Ensure, Start, Look, Redeclare, Create, Bind, ScriptEnds
  <2> QED BY <1>0, <1>1, <1>3, <2>1, FaultStep
<1>4. ASSUME Grows, step'[p] = step[p], phase'[p] = phase[p], faults' >= faults, ~Ensure(p)
      PROVE  /\ Way(p)' <= Way(p)
             /\ Ensure(p) => Way(p)' < Way(p)
             /\ Serving(p) /\ ~Serving(p)' => faults' > faults
  BY <1>0, <1>1, <1>4, OthersStep
<1>5. CASE ~Ensure(p) /\ (UNCHANGED vars \/ LoadDefinitions \/ (\E m \in Msgs : Publish(m))
                          \/ (\E q \in Procs, m \in Msgs : Handle(q, m)))
  <2>1. Grows /\ UNCHANGED <<step, phase, faults>>
    BY <1>5 DEF vars, LoadDefinitions, Publish, Handle, Grows
  <2> QED BY <1>0, <1>4, <1>5, <2>1
<1>6. ASSUME NEW q \in Procs, q # p, Ensure(q) \/ Cut(q) \/ ChannelError(q), ~Ensure(p)
      PROVE  /\ Way(p)' <= Way(p)
             /\ Ensure(p) => Way(p)' < Way(p)
             /\ Serving(p) /\ ~Serving(p)' => faults' > faults
  <2>1. step'[p] = step[p] /\ phase'[p] = phase[p] /\ faults' >= faults
    BY <1>0, <1>6 DEF Ensure, Start, Look, Redeclare, Create, Bind, BindRefused, ScriptEnds, Cut,
       ChannelError, Advance, Stop, Phase
  <2>2. CASE obj' = obj
    BY <1>4, <1>6, <2>1, <2>2 DEF Grows
  <2>3. CASE Make(Target(q)) /\ Target(q) \in Things
    BY <1>4, <1>6, <2>1, <2>3, MakeGrows DEF Inv
  <2>4. obj' = obj \/ (Make(Target(q)) /\ Target(q) \in Things)
    BY <1>6 DEF Ensure, Start, Look, Redeclare, Create, Bind, BindRefused, ScriptEnds, Cut,
       ChannelError, At, Target, Things
  <2> QED BY <2>2, <2>3, <2>4
<1> QED BY <1>2, <1>3, <1>5, <1>6 DEF Next

\* The safety half of ConsumersServe: whatever scripts and other consumers do,
\* and with a queue of other arguments too, a consumer of rabbitmq.py's
\* declare_topology() that is started again after each end serves after at
\* most LongestWay steps of its own.
THEOREM ConsumersGetThere == Spec => ConsumersAdvance
<1>1. ASSUME Inv, NEW p \in Consumers, ~Serving(p)
      PROVE  \/ step[p] = 0
             \/ At(p, Exchanges \cup Queues) /\ phase[p] \in {"look", "create"}
             \/ At(p, Bindings)
  <2>1. step[p] \in 0 .. 4 /\ p \in Procs
    BY <1>1, WayType DEF Inv, Procs
  <2>2. phase[p] \in {"look", "create"}
    <3>1. phase[p] \in {"look", "declare", "create"} /\ phase[p] # "declare"
      BY <1>1, <2>1 DEF Inv, TypeOK, ScriptsRedeclare
    <3> QED BY <3>1
  <2>3. CASE step[p] \in {1, 2, 3, 4}
    BY <2>2, <2>3, ConsumerPlanFacts DEF At, Running, Exchanges, Queues, Bindings
  <2> QED BY <2>1, <2>3
<1>2. Inv /\ [Next]_vars =>
         [\A p \in Consumers :
             /\ Way(p) \in 0 .. LongestWay
             /\ Way(p)' <= Way(p)
             /\ Ensure(p) => Way(p)' < Way(p)
             /\ ~Serving(p) => \/ step[p] = 0
                               \/ At(p, Exchanges \cup Queues) /\ phase[p] \in {"look", "create"}
                               \/ At(p, Bindings)
             /\ Serving(p) /\ ~Serving(p)' => faults' > faults]_vars
  BY <1>1, ConsumersStep, WayType DEF Inv
<1> QED BY <1>2, SpecInv, PTL DEF Spec, ConsumersAdvance
=============================================================================
