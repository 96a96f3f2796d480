----------------------- MODULE TenantOnboardingProofs -----------------------
(***************************************************************************)
(* Theorems about module TenantOnboarding, for every set of tenants, every *)
(* number of concurrent runs and of faults, and every first format of the  *)
(* registry.                                                               *)
(***************************************************************************)
EXTENDS TenantOnboarding, SequenceTheorems, TLAPS

(* Lists of entries *)

LEMMA EmptyEntries == <<>> \in Seq(Entry) /\ DOMAIN <<>> = {} /\ IdsOf(<<>>) = {} /\ Unique(<<>>)
<1>1. <<>> \in Seq(Entry) /\ DOMAIN <<>> = {}
  BY EmptySeq
<1> QED BY <1>1 DEF IdsOf, Unique

LEMMA OneEntry ==
    ASSUME NEW e \in Entry
    PROVE  /\ <<e>> \in Seq(Entry) /\ DOMAIN <<e>> = {1} /\ <<e>>[1] = e
           /\ IdsOf(<<e>>) = {e.id} /\ Unique(<<e>>)
<1>1. <<e>> \in Seq(Entry) /\ DOMAIN <<e>> = {1} /\ <<e>>[1] = e
  OBVIOUS
<1> QED BY <1>1 DEF IdsOf, Unique

LEMMA AddEntry ==
    ASSUME NEW s \in Seq(Entry), NEW e \in Entry
    PROVE  /\ Append(s, e) \in Seq(Entry)
           /\ \A i \in DOMAIN Append(s, e) : \/ i \in DOMAIN s /\ Append(s, e)[i] = s[i]
                                             \/ i = Len(s) + 1 /\ Append(s, e)[i] = e
           /\ IdsOf(Append(s, e)) = IdsOf(s) \cup {e.id}
           /\ Unique(s) /\ e.id \notin IdsOf(s) => Unique(Append(s, e))
<1> DEFINE t == Append(s, e)
<1>1. /\ t \in Seq(Entry) /\ Len(t) = Len(s) + 1 /\ Len(s) \in Nat
      /\ \A i \in 1 .. Len(s) : t[i] = s[i]
      /\ t[Len(s) + 1] = e
  BY AppendProperties, LenProperties
<1>2. DOMAIN s = 1 .. Len(s) /\ DOMAIN t = 1 .. Len(t)
  BY <1>1, LenProperties
<1> HIDE DEF t
<1>3. \A i \in DOMAIN t : \/ i \in DOMAIN s /\ t[i] = s[i]
                          \/ i = Len(s) + 1 /\ t[i] = e
  BY <1>1, <1>2
<1>4. Len(s) + 1 \in DOMAIN t /\ DOMAIN s \subseteq DOMAIN t /\ Len(s) + 1 \notin DOMAIN s
  BY <1>1, <1>2
<1>5. IdsOf(t) = IdsOf(s) \cup {e.id}
  <2>1. IdsOf(t) \subseteq IdsOf(s) \cup {e.id}
    BY <1>3 DEF IdsOf
  <2>2. IdsOf(s) \subseteq IdsOf(t)
    BY <1>1, <1>2, <1>4 DEF IdsOf
  <2>3. e.id \in IdsOf(t)
    BY <1>1, <1>4 DEF IdsOf
  <2> QED BY <2>1, <2>2, <2>3
<1>6. Unique(s) /\ e.id \notin IdsOf(s) => Unique(t)
  <2> SUFFICES ASSUME Unique(s), e.id \notin IdsOf(s), NEW i \in DOMAIN t, NEW j \in DOMAIN t,
                      t[i].id = t[j].id
               PROVE  i = j
    BY DEF Unique
  <2>1. \A k \in DOMAIN s : s[k].id # e.id
    BY DEF IdsOf
  <2> QED BY <1>3, <2>1 DEF Unique
<1> QED BY <1>1, <1>3, <1>5, <1>6 DEF t

LEMMA RestEntries ==
    ASSUME NEW s \in Seq(Entry), s # <<>>
    PROVE  /\ Head(s) = s[1] /\ 1 \in DOMAIN s /\ Head(s) \in Entry /\ Head(s).id \in Tenants
           /\ Tail(s) \in Seq(Entry)
           /\ \A i \in DOMAIN Tail(s) : i + 1 \in DOMAIN s /\ Tail(s)[i] = s[i + 1] /\ i \in Int
           /\ Len(s) # 1 => Tail(s) # <<>>
           /\ Unique(s) => Unique(Tail(s))
<1> DEFINE t == Tail(s)
<1>1. /\ Head(s) \in Entry /\ t \in Seq(Entry) /\ Len(t) = Len(s) - 1
      /\ \A i \in 1 .. Len(t) : t[i] = s[i + 1]
  BY HeadTailProperties
<1>2. Len(s) \in Nat \ {0} /\ DOMAIN s = 1 .. Len(s) /\ DOMAIN t = 1 .. Len(t) /\ Head(s) = s[1]
  BY <1>1, EmptySeq, LenProperties
<1>3. Head(s).id \in Tenants
  BY <1>1 DEF Entry
<1> HIDE DEF t
<1>7. Len(s) # 1 => t # <<>>
  <2>1. Len(s) # 1 => Len(t) # 0
    BY <1>1, <1>2
  <2> QED BY <2>1, EmptySeq
<1>4. 1 \in DOMAIN s
  BY <1>2
<1>5. \A i \in DOMAIN t : i + 1 \in DOMAIN s /\ t[i] = s[i + 1] /\ i \in Int
  BY <1>1, <1>2
<1>8. Unique(s) => Unique(t)
  <2> SUFFICES ASSUME Unique(s), NEW i \in DOMAIN t, NEW j \in DOMAIN t, t[i].id = t[j].id
               PROVE  i = j
    BY DEF Unique
  <2>1. i + 1 = j + 1 /\ i \in Int /\ j \in Int
    BY <1>5 DEF Unique
  <2> QED BY <2>1
<1> QED BY <1>1, <1>2, <1>3, <1>4, <1>5, <1>7, <1>8 DEF t

-----------------------------------------------------------------------------
(* Steps *)

\* A step of one run leaves the others where they are.
LEMMA RunStep ==
    ASSUME TypeOK, NEW r \in Runs, NEW x, run' = [run EXCEPT ![r] = x]
    PROVE  run'[r] = x /\ \A q \in Runs : q # r => run'[q] = run[q]
BY DEF TypeOK

LEMMA RunsType ==
    ASSUME TypeOK, NEW r \in Runs,
           NEW pc \in {"off", "save", "write", "create"}, NEW t \in Tenants, NEW data \in Seq(Entry),
           run' = [run EXCEPT ![r] = RunAt(pc, t, data)]
    PROVE  /\ run' \in [Runs -> [pc : {"off", "save", "write", "create"}, tenant : Tenants,
                                 data : Seq(Entry)]]
           /\ run'[r].pc = pc /\ run'[r].tenant = t /\ run'[r].data = data
<1>1. /\ RunAt(pc, t, data) \in [pc : {"off", "save", "write", "create"}, tenant : Tenants,
                                 data : Seq(Entry)]
      /\ RunAt(pc, t, data).pc = pc /\ RunAt(pc, t, data).tenant = t
      /\ RunAt(pc, t, data).data = data
  BY DEF RunAt
<1> QED BY <1>1, RunStep DEF TypeOK

LEMMA IdleRun == Idle = RunAt("off", Default, <<>>) /\ Idle.pc = "off" /\ Idle.data = <<>>
BY DEF Idle, RunAt

LEMMA RunFields ==
    ASSUME TypeOK, NEW r \in Runs
    PROVE  run[r].tenant \in Tenants /\ run[r].data \in Seq(Entry)
           /\ run[r].pc \in {"off", "save", "write", "create"}
<1>1. run[r] \in [pc : {"off", "save", "write", "create"}, tenant : Tenants, data : Seq(Entry)]
  BY DEF TypeOK
<1> QED BY <1>1

LEMMA PolFields ==
    /\ \A pc, rest : PolAt(pc, rest).pc = pc /\ PolAt(pc, rest).rest = rest
    /\ PolIdle.pc = "off" /\ PolIdle.rest = <<>>
BY DEF PolAt, PolIdle

LEMMA PolType ==
    ASSUME TypeOK
    PROVE  /\ pol.pc \in {"off", "check", "create", "alias"} /\ pol.rest \in Seq(Entry)
           /\ pol.pc # "off" =>
                 /\ pol.rest # <<>> /\ Head(pol.rest) \in Entry /\ Head(pol.rest).id \in Tenants
                 /\ PolNext.pc \in {"off", "check"} /\ PolNext.rest \in Seq(Entry)
                 /\ PolNext.pc # "off" => PolNext.rest # <<>>
                 /\ PolNext.rest \in {<<>>, Tail(pol.rest)}
<1>1. pol.pc \in {"off", "check", "create", "alias"} /\ pol.rest \in Seq(Entry)
      /\ (pol.pc # "off" => pol.rest # <<>>)
  BY DEF TypeOK
<1>2. ASSUME pol.pc # "off"
      PROVE  /\ pol.rest # <<>> /\ Head(pol.rest) \in Entry /\ Head(pol.rest).id \in Tenants
             /\ Tail(pol.rest) \in Seq(Entry) /\ (Len(pol.rest) # 1 => Tail(pol.rest) # <<>>)
  BY <1>1, <1>2, RestEntries
<1>3. \/ PolNext.pc = "off" /\ PolNext.rest = <<>>
      \/ PolNext.pc = "check" /\ PolNext.rest = Tail(pol.rest) /\ Len(pol.rest) # 1
  BY PolFields DEF PolNext
<1>4. <<>> \in Seq(Entry)
  BY EmptyEntries
<1> QED BY <1>1, <1>2, <1>3, <1>4

LEMMA PolMoves ==
    ASSUME NEW pc \in {"off", "check", "create", "alias"}, NEW rest \in Seq(Entry),
           pc # "off" => rest # <<>>
    PROVE  /\ PolAt(pc, rest) \in [pc : {"off", "check", "create", "alias"}, rest : Seq(Entry)]
           /\ PolIdle \in [pc : {"off", "check", "create", "alias"}, rest : Seq(Entry)]
           /\ PolAt(pc, rest).pc # "off" => PolAt(pc, rest).rest # <<>>
BY EmptyEntries DEF PolAt, PolIdle

LEMMA FileFields ==
    ASSUME TypeOK
    PROVE  /\ file.format \in FileFormats /\ file.entries \in Seq(Entry) /\ Unique(file.entries)
           /\ LoadTenants \in {<<>>, file.entries} /\ LoadTenants \in Seq(Entry)
           /\ Unique(LoadTenants)
<1>1. file.format \in FileFormats /\ file.entries \in Seq(Entry) /\ Unique(file.entries)
  BY DEF TypeOK
<1> QED BY <1>1, EmptyEntries DEF LoadTenants

\* The file after a run has emptied or spoilt it, and after it has written it.
LEMMA FilesType ==
    /\ LET f == [format |-> "unreadable", entries |-> <<>>] IN
         /\ f \in [format : FileFormats, entries : Seq(Entry)]
         /\ f.format = "unreadable" /\ f.entries = <<>> /\ Unique(f.entries)
    /\ \A es \in Seq(Entry) :
          LET f == [format |-> "objects", entries |-> es] IN
            /\ f \in [format : FileFormats, entries : Seq(Entry)]
            /\ f.format = "objects" /\ f.entries = es
BY EmptyEntries DEF FileFormats

LEMMA NoteType ==
    ASSUME TypeOK, NEW s \in {"overlap", "early", "fault"}, NEW met \in BOOLEAN, Note(s, met)
    PROVE  /\ slips' \in SUBSET {"overlap", "early", "fault"}
           /\ slips \subseteq slips' /\ (met => s \in slips')
           /\ slips' \subseteq slips \cup {s}
BY DEF TypeOK, Note

LEMMA FaultType ==
    ASSUME TypeOK, Fault
    PROVE  /\ slips' \in SUBSET {"overlap", "early", "fault"}
           /\ "fault" \in slips' /\ faults' \in 0 .. MaxFaults
BY OnboardingAssumption DEF TypeOK, Fault, Note, OnboardingAssumption

LEMMA PutIndexType ==
    ASSUME TypeOK, NEW t \in Tenants
    PROVE  /\ PutIndex(t) \in [Tenants -> FirstIndex]
           /\ \A u \in Tenants : PutIndex(t)[u] = first[u] \/ (u = t /\ PutIndex(t)[u] = "member")
           /\ first[t] = "absent" /\ t \notin concrete => PutIndex(t)[t] = "member"
BY DEF TypeOK, PutIndex, FirstIndex
-----------------------------------------------------------------------------
(* Types, and what the file and the copies of it are *)

LEMMA FirstEntries ==
    ASSUME Init
    PROVE  /\ file \in [format : FileFormats, entries : Seq(Entry)] /\ Unique(file.entries)
           /\ \/ /\ file.entries = <<>> /\ file.format = "missing" /\ first[Default] = "write"
              \/ /\ DOMAIN file.entries = {1} /\ file.entries[1].id = Default
                 /\ IdsOf(file.entries) = {Default} /\ file.format \notin {"missing", "unreadable"}
                 /\ first[Default] \in {"absent", "write"}
                 /\ first[Default] = "absent" => pending = {Default}
<1>1. PICK f \in Formats :
         file = [format |-> f,
                 entries |-> IF f = "missing" THEN <<>>
                             ELSE <<[id |-> Default, policy |-> f = "objects"]>>]
  BY DEF Init
<1>2. f \in FileFormats /\ f # "unreadable" /\ Default \in Tenants
  BY OnboardingAssumption DEF OnboardingAssumption, FileFormats
<1>3. PICK s \in {"absent", "write"} :
         /\ first = [t \in Tenants |-> IF t = Default THEN s ELSE "absent"]
         /\ file.format # "objects" => s = "write"
  BY DEF Init
<1>4. first[Default] = s
  BY <1>2, <1>3
<1>5. first[Default] = "absent" => pending = {Default}
  BY DEF Init
<1>6. CASE f = "missing"
  <2>1. file = [format |-> f, entries |-> <<>>]
    BY <1>1, <1>6
  <2>2. file.format = "missing" /\ file.entries = <<>>
        /\ file \in [format : FileFormats, entries : Seq(Entry)]
    BY <1>2, <1>6, <2>1, EmptyEntries
  <2> QED BY <1>3, <1>4, <2>2, EmptyEntries
<1>7. CASE f # "missing"
  <2> DEFINE e == [id |-> Default, policy |-> f = "objects"]
  <2>1. file = [format |-> f, entries |-> <<e>>]
    BY <1>1, <1>7
  <2>2. e \in Entry /\ e.id = Default
    BY <1>2 DEF Entry
  <2> HIDE DEF e
  <2>3. file.format = f /\ file.entries = <<e>>
    BY <2>1
  <2>4. <<e>> \in Seq(Entry)
    BY <2>2, OneEntry
  <2>5. file \in [format : FileFormats, entries : Seq(Entry)]
    BY <1>2, <2>1, <2>4
  <2>6. /\ DOMAIN file.entries = {1} /\ file.entries[1].id = Default
        /\ IdsOf(file.entries) = {Default} /\ Unique(file.entries)
    BY <2>2, <2>3, OneEntry
  <2> QED BY <1>2, <1>4, <1>5, <1>7, <2>3, <2>5, <2>6
<1> QED BY <1>6, <1>7

LEMMA InitInv == Init => TypeOK /\ FileInv /\ StaysInv /\ AliasInv /\ BareInv
<1> SUFFICES ASSUME Init PROVE TypeOK /\ FileInv /\ StaysInv /\ AliasInv /\ BareInv
  OBVIOUS
<1>1. Default \in Tenants /\ MaxFaults \in Nat
  BY OnboardingAssumption DEF OnboardingAssumption
<1>2. \A r \in Runs : run[r] = Idle
  BY DEF Init
<1>3. \A r \in Runs : run[r].pc = "off" /\ run[r].data = <<>>
  BY <1>2, IdleRun
<1>4. pol.pc = "off" /\ pol.rest = <<>>
  BY PolFields DEF Init
<1>5. TypeOK
  <2>1. run \in [Runs -> [pc : {"off", "save", "write", "create"}, tenant : Tenants,
                          data : Seq(Entry)]]
    <3>1. Idle \in [pc : {"off", "save", "write", "create"}, tenant : Tenants, data : Seq(Entry)]
      BY <1>1, EmptyEntries DEF Idle, RunAt
    <3> QED BY <3>1 DEF Init
  <2>2. pol \in [pc : {"off", "check", "create", "alias"}, rest : Seq(Entry)]
    BY PolMoves, EmptyEntries DEF Init
  <2>3. first \in [Tenants -> FirstIndex]
    BY DEF Init, FirstIndex
  <2>4. onboarded \in SUBSET Tenants /\ pending \in SUBSET Tenants
    BY <1>1, FirstEntries, EmptyEntries DEF Init
  <2>5. file \in [format : FileFormats, entries : Seq(Entry)] /\ Unique(file.entries)
    BY FirstEntries
  <2>6. /\ concrete \in SUBSET Tenants /\ up \in BOOLEAN /\ known \in SUBSET Tenants
        /\ slips \in SUBSET {"overlap", "early", "fault"} /\ faults \in 0 .. MaxFaults
    <3>1. concrete = {} /\ up = FALSE /\ known = {} /\ slips = {} /\ faults = 0
      BY DEF Init
    <3>2. faults \in 0 .. MaxFaults
      BY <1>1, <3>1
    <3> QED BY <3>1, <3>2
  <2> QED BY <1>4, <2>1, <2>2, <2>3, <2>4, <2>5, <2>6 DEF TypeOK
<1>6. FileInv
  BY <1>3, <1>4, FirstEntries, EmptyEntries DEF FileInv
<1>7. StaysInv
  BY <1>3 DEF StaysInv, Active, Init
<1>8. AliasInv
  <2>1. EntriesDue(file.entries)
    BY FirstEntries, EmptyEntries DEF EntriesDue, EntryDue, AliasDue, Aliased
  <2>2. \A t \in Tenants : first[t] # "bare"
    BY DEF Init
  <2> QED BY <1>3, <1>4, <2>1, <2>2, EmptyEntries DEF AliasInv, Init, EntriesDue
<1>9. BareInv
  BY DEF BareInv, Init
<1> QED BY <1>5, <1>6, <1>7, <1>8, <1>9

\* A run that moves on with a list in which nobody is twice.
LEMMA FileRun ==
    ASSUME TypeOK, FileInv, NEW r \in Runs,
           NEW pc \in {"off", "save", "write", "create"}, NEW t \in Tenants, NEW data \in Seq(Entry),
           run' = [run EXCEPT ![r] = RunAt(pc, t, data)],
           Unique(data), pc \in {"save", "write"} => t \notin IdsOf(data)
    PROVE  /\ run' \in [Runs -> [pc : {"off", "save", "write", "create"}, tenant : Tenants,
                                 data : Seq(Entry)]]
           /\ \A q \in Runs :
                 /\ Unique(run'[q].data)
                 /\ run'[q].pc \in {"save", "write"} => run'[q].tenant \notin IdsOf(run'[q].data)
<1>1. /\ run' \in [Runs -> [pc : {"off", "save", "write", "create"}, tenant : Tenants,
                            data : Seq(Entry)]]
      /\ run'[r].pc = pc /\ run'[r].tenant = t /\ run'[r].data = data
  BY RunsType
<1>2. \A q \in Runs : q # r => run'[q] = run[q]
  BY RunStep
<1> QED BY <1>1, <1>2 DEF FileInv

LEMMA TypeStep ==
    ASSUME TypeOK, FileInv, [Next]_vars
    PROVE  TypeOK' /\ FileInv'
<1> USE DEF fileVars, searchVars, consumerVars, history
<1>1. ASSUME UNCHANGED <<file, run>>,
             pol' \in [pc : {"off", "check", "create", "alias"}, rest : Seq(Entry)],
             pol'.pc # "off" => pol'.rest # <<>>, Unique(pol'.rest)
      PROVE  FileInv'
  BY <1>1 DEF FileInv
<1>2. ASSUME UNCHANGED pol, \A q \in Runs :
                 /\ Unique(run'[q].data)
                 /\ run'[q].pc \in {"save", "write"} => run'[q].tenant \notin IdsOf(run'[q].data),
             file'.format \in {"missing", "unreadable"} => file'.entries = <<>>,
             file'.format = "objects" => file'.entries # <<>>
      PROVE  FileInv'
  BY <1>2 DEF FileInv
<1>3. /\ file.format \in {"missing", "unreadable"} => file.entries = <<>>
      /\ file.format = "objects" => file.entries # <<>>
  BY DEF FileInv
<1>4. Unique(<<>>) /\ <<>> \in Seq(Entry) /\ Default \in Tenants /\ MaxFaults \in Nat
  BY EmptyEntries, OnboardingAssumption DEF OnboardingAssumption
<1>5. Unique(pol.rest) /\ (pol.pc # "off" => Unique(Tail(pol.rest)))
  BY PolType, RestEntries DEF FileInv
<1>6. pol.pc # "off" =>
         /\ PolNext \in [pc : {"off", "check", "create", "alias"}, rest : Seq(Entry)]
         /\ PolNext.pc # "off" => PolNext.rest # <<>>
         /\ Unique(PolNext.rest)
  <2>1. PolNext = PolIdle \/ PolNext = PolAt("check", Tail(pol.rest))
    BY DEF PolNext
  <2> QED BY <1>4, <1>5, <2>1, PolType, PolMoves, PolFields, RestEntries DEF PolIdle
<1>10. CASE UNCHANGED vars
  BY <1>10 DEF vars, TypeOK, FileInv
<1>11. ASSUME NEW r \in Runs, NEW t \in Tenants, Load(r, t) PROVE TypeOK' /\ FileInv'
  <2>1. PICK pc \in {"save", "create"}, data \in {<<>>, LoadTenants} :
           /\ run' = [run EXCEPT ![r] = RunAt(pc, t, data)]
           /\ pc = "save" => t \notin IdsOf(data)
    BY <1>11 DEF Load
  <2>2. data \in Seq(Entry) /\ Unique(data)
    BY <1>4, <2>1, FileFields
  <2>3. /\ run' \in [Runs -> [pc : {"off", "save", "write", "create"}, tenant : Tenants,
                              data : Seq(Entry)]]
        /\ \A q \in Runs :
              /\ Unique(run'[q].data)
              /\ run'[q].pc \in {"save", "write"} => run'[q].tenant \notin IdsOf(run'[q].data)
    BY <2>1, <2>2, FileRun
  <2>4. slips' \in SUBSET {"overlap", "early", "fault"}
    BY <1>11, NoteType DEF Load
  <2>5. TypeOK'
    BY <1>11, <2>3, <2>4 DEF Load, TypeOK
  <2> QED BY <1>2, <1>3, <1>11, <2>3, <2>5 DEF Load
<1>12. ASSUME NEW r \in Runs, Truncate(r) PROVE TypeOK' /\ FileInv'
  <2>1. run' = [run EXCEPT ![r] = RunAt("write", run[r].tenant, run[r].data)]
        /\ run[r].pc = "save"
    BY <1>12 DEF Truncate
  <2>2. /\ run' \in [Runs -> [pc : {"off", "save", "write", "create"}, tenant : Tenants,
                              data : Seq(Entry)]]
        /\ \A q \in Runs :
              /\ Unique(run'[q].data)
              /\ run'[q].pc \in {"save", "write"} => run'[q].tenant \notin IdsOf(run'[q].data)
    BY <2>1, RunFields, FileRun DEF FileInv
  <2>3. /\ file' \in [format : FileFormats, entries : Seq(Entry)]
        /\ file'.entries = <<>> /\ Unique(file'.entries) /\ file'.format # "objects"
    BY <1>12, FilesType DEF Truncate
  <2>4. TypeOK'
    BY <1>12, <2>2, <2>3 DEF Truncate, TypeOK
  <2> QED BY <1>2, <1>12, <2>2, <2>3, <2>4 DEF Truncate
<1>13. ASSUME NEW r \in Runs, Write(r) PROVE TypeOK' /\ FileInv'
  <2>1. run' = [run EXCEPT ![r] = RunAt("create", run[r].tenant, <<>>)] /\ run[r].pc = "write"
    BY <1>13 DEF Write
  <2>2. /\ run' \in [Runs -> [pc : {"off", "save", "write", "create"}, tenant : Tenants,
                              data : Seq(Entry)]]
        /\ \A q \in Runs :
              /\ Unique(run'[q].data)
              /\ run'[q].pc \in {"save", "write"} => run'[q].tenant \notin IdsOf(run'[q].data)
    BY <1>4, <2>1, RunFields, FileRun
  <2> DEFINE e == [id |-> run[r].tenant, policy |-> FALSE]
             es == Append(run[r].data, e)
  <2>3. e \in Entry /\ e.id = run[r].tenant
    BY RunFields DEF Entry
  <2>4. run[r].data \in Seq(Entry) /\ Unique(run[r].data)
        /\ run[r].tenant \notin IdsOf(run[r].data)
    BY <2>1, RunFields DEF FileInv
  <2> HIDE DEF e
  <2>5. es \in Seq(Entry) /\ Unique(es) /\ es # <<>>
    <3>1. es \in Seq(Entry) /\ Unique(es) /\ e.id \in IdsOf(es)
      BY <2>3, <2>4, AddEntry
    <3> QED BY <3>1, EmptyEntries
  <2> HIDE DEF es
  <2>6. \/ file' = [format |-> "objects", entries |-> es]
        \/ file' = [format |-> "unreadable", entries |-> <<>>]
    BY <1>13 DEF Write, es, e
  <2>7. /\ file' \in [format : FileFormats, entries : Seq(Entry)]
        /\ Unique(file'.entries)
        /\ file'.format \in {"missing", "unreadable"} => file'.entries = <<>>
        /\ file'.format = "objects" => file'.entries # <<>>
    BY <2>5, <2>6, FilesType
  <2>8. TypeOK'
    BY <1>13, <2>2, <2>7 DEF Write, TypeOK
  <2> QED BY <1>2, <1>13, <2>2, <2>7, <2>8 DEF Write
<1>14. ASSUME NEW r \in Runs, Create(r) \/ CreateFails(r) \/ RunKilled(r) PROVE TypeOK' /\ FileInv'
  <2>1. run' = [run EXCEPT ![r] = RunAt("off", Default, <<>>)] /\ UNCHANGED <<file, pol>>
    BY <1>14, IdleRun DEF Create, CreateFails, RunKilled
  <2>2. /\ run' \in [Runs -> [pc : {"off", "save", "write", "create"}, tenant : Tenants,
                              data : Seq(Entry)]]
        /\ \A q \in Runs :
              /\ Unique(run'[q].data)
              /\ run'[q].pc \in {"save", "write"} => run'[q].tenant \notin IdsOf(run'[q].data)
    BY <1>4, <2>1, FileRun
  <2>3. run[r].tenant \in Tenants
    BY RunFields
  <2>4. first' \in [Tenants -> FirstIndex]
    BY <1>14, <2>3, PutIndexType DEF Create, CreateFails, RunKilled, TypeOK
  <2>5. slips' \in SUBSET {"overlap", "early", "fault"} /\ faults' \in 0 .. MaxFaults
    BY <1>14, FaultType DEF Create, CreateFails, RunKilled, TypeOK
  <2>6. onboarded' \in SUBSET Tenants
    BY <1>14, <2>3 DEF Create, CreateFails, RunKilled, TypeOK
  <2>7. UNCHANGED <<concrete, up, known, pending>>
    BY <1>14 DEF Create, CreateFails, RunKilled
  <2>8. TypeOK'
    BY <2>1, <2>2, <2>4, <2>5, <2>6, <2>7 DEF TypeOK
  <2> QED BY <1>2, <1>3, <2>1, <2>2, <2>8
<1>15. CASE PolStart \/ PolCheck \/ PolCreate \/ PolAlias \/ PolKilled \/ PolRefused
  <2>1. /\ pol' \in [pc : {"off", "check", "create", "alias"}, rest : Seq(Entry)]
        /\ pol'.pc # "off" => pol'.rest # <<>>
        /\ Unique(pol'.rest)
    <3>1. CASE PolStart
      <4>1. file.entries # <<>> /\ pol' = PolAt("check", file.entries)
        BY <1>3, <3>1 DEF PolStart
      <4> QED BY <4>1, FileFields, PolMoves, PolFields
    <3>2. CASE PolCheck
      <4>1. \/ pol' = PolIdle
            \/ \E pc \in {"create", "alias"} : pol' = PolAt(pc, pol.rest)
        BY <3>2 DEF PolCheck
      <4>2. pol.rest # <<>> /\ pol.rest \in Seq(Entry)
        BY <3>2, PolType DEF PolCheck
      <4>3. CASE pol' = PolIdle
        BY <1>4, <4>2, <4>3, PolMoves, PolFields
      <4>4. ASSUME NEW pc \in {"create", "alias"}, pol' = PolAt(pc, pol.rest)
            PROVE  /\ pol' \in [pc : {"off", "check", "create", "alias"}, rest : Seq(Entry)]
                   /\ pol'.rest = pol.rest
        BY <4>2, <4>4, PolMoves, PolFields
      <4> QED BY <1>4, <1>5, <4>1, <4>2, <4>3, <4>4, PolFields
    <3>3. CASE PolCreate
      <4>1. pol' = PolNext \/ pol' = PolAt("alias", pol.rest)
        BY <3>3 DEF PolCreate
      <4>2. pol.pc # "off" /\ pol.rest # <<>> /\ pol.rest \in Seq(Entry)
        BY <3>3, PolType DEF PolCreate
      <4> QED BY <1>5, <1>6, <4>1, <4>2, PolMoves, PolFields
    <3>4. CASE PolAlias \/ PolRefused
      BY <1>6, <3>4 DEF PolAlias, PolRefused
    <3>5. CASE PolKilled
      BY <1>4, <3>5, PolMoves, PolFields, EmptyEntries DEF PolKilled
    <3> QED BY <1>15, <3>1, <3>2, <3>3, <3>4, <3>5
  <2>2. first' \in [Tenants -> FirstIndex]
    BY <1>15 DEF PolStart, PolCheck, PolCreate, PolAlias, PolKilled, PolRefused, TypeOK, FirstIndex
  <2>3. slips' \in SUBSET {"overlap", "early", "fault"} /\ faults' \in 0 .. MaxFaults
    BY <1>15, FaultType DEF PolStart, PolCheck, PolCreate, PolAlias, PolKilled, PolRefused, TypeOK
  <2>4. pending' \subseteq pending /\ UNCHANGED <<file, run, concrete, up, known, onboarded>>
    BY <1>15 DEF PolStart, PolCheck, PolCreate, PolAlias, PolKilled, PolRefused
  <2>5. TypeOK'
    BY <2>1, <2>2, <2>3, <2>4 DEF TypeOK
  <2> QED BY <1>1, <2>1, <2>4, <2>5
<1>16. CASE StartConsumer
  <2>1. Registry \subseteq Tenants
    <3>1. \A i \in DOMAIN file.entries : file.entries[i] \in Entry
      BY FileFields
    <3> QED BY <3>1 DEF Registry, IdsOf, Entry
  <2>2. slips' \in SUBSET {"overlap", "early", "fault"}
    BY <1>16, NoteType DEF StartConsumer
  <2> QED BY <1>16, <2>1, <2>2 DEF StartConsumer, TypeOK, FileInv
<1>17. ASSUME NEW t \in Tenants, Index(t) PROVE TypeOK' /\ FileInv'
  BY <1>17 DEF Index, TypeOK, FileInv
<1> QED BY <1>10, <1>11, <1>12, <1>13, <1>14, <1>15, <1>16, <1>17 DEF Next, Onboarding, Policies
-----------------------------------------------------------------------------
(* Who was listed stays listed *)

LEMMA StaysStep ==
    ASSUME TypeOK, FileInv, StaysInv, [Next]_vars
    PROVE  StaysInv'
<1> USE DEF fileVars, searchVars, consumerVars, history
<1> SUFFICES ASSUME slips' \cap {"overlap", "fault"} = {}
             PROVE  /\ \A r, q \in Active' : r = q
                    /\ \A r \in Runs :
                          /\ run'[r].pc \in {"save", "write"} => onboarded' \subseteq IdsOf(run'[r].data)
                          /\ run'[r].pc = "write" => file'.format = "unreadable"
                          /\ run'[r].pc = "create" => run'[r].tenant \in IdsOf(file'.entries)
                    /\ (\A r \in Runs : run'[r].pc # "write") => onboarded' \subseteq IdsOf(file'.entries)
  BY DEF StaysInv
<1> DEFINE goal == /\ \A r, q \in Active' : r = q
                   /\ \A r \in Runs :
                         /\ run'[r].pc \in {"save", "write"} => onboarded' \subseteq IdsOf(run'[r].data)
                         /\ run'[r].pc = "write" => file'.format = "unreadable"
                         /\ run'[r].pc = "create" => run'[r].tenant \in IdsOf(file'.entries)
                   /\ (\A r \in Runs : run'[r].pc # "write") => onboarded' \subseteq IdsOf(file'.entries)
<1>0. slips \subseteq slips' \/ UNCHANGED slips
  BY DEF Next, vars, Onboarding, Policies, Load, Truncate, Write, Create, CreateFails, RunKilled,
     PolStart, PolCheck, PolCreate, PolAlias, PolKilled, PolRefused, StartConsumer, Index, Fault, Note
<1>1. /\ \A r, q \in Active : r = q
      /\ \A r \in Runs :
            /\ run[r].pc \in {"save", "write"} => onboarded \subseteq IdsOf(run[r].data)
            /\ run[r].pc = "write" => file.format = "unreadable"
            /\ run[r].pc = "create" => run[r].tenant \in IdsOf(file.entries)
      /\ (\A r \in Runs : run[r].pc # "write") => onboarded \subseteq IdsOf(file.entries)
  BY <1>0 DEF StaysInv
<1>2. ASSUME UNCHANGED <<run, file, onboarded>> PROVE goal
  BY <1>1, <1>2 DEF Active
<1>3. ASSUME NEW r \in Runs, NEW t \in Tenants, Load(r, t) PROVE goal
  <2>1. PICK pc \in {"save", "create"}, data \in {<<>>, LoadTenants} :
           /\ run' = [run EXCEPT ![r] = RunAt(pc, t, data)]
           /\ pc = "create" => t \in IdsOf(LoadTenants)
           /\ pc = "save" => data = LoadTenants
    BY <1>3 DEF Load
  <2>2. data \in Seq(Entry)
    BY <2>1, FileFields, EmptyEntries
  <2>3. run'[r].pc = pc /\ run'[r].tenant = t /\ run'[r].data = data
    BY <2>1, <2>2, RunsType
  <2>4. \A q \in Runs : q # r => run'[q] = run[q]
    BY <2>1, RunStep
  <2>5. Active = {}
    <3>1. Note("overlap", Active # {})
      BY <1>3 DEF Load
    <3> QED BY <3>1 DEF Note
  <2>6. \A q \in Runs : run[q].pc = "off"
    BY <2>5 DEF Active
  <2>7. IdsOf(LoadTenants) = IdsOf(file.entries)
    <3>1. file.format \in FileFormats /\ file.format # "wrapped"
      BY <1>3, FileFields DEF Load
    <3> QED BY <3>1 DEF LoadTenants, FileInv, FileFormats
  <2>8. Active' \subseteq {r}
    BY <2>4, <2>6 DEF Active
  <2>9. UNCHANGED <<file, onboarded>> /\ onboarded \subseteq IdsOf(file.entries)
    BY <1>1, <1>3, <2>6 DEF Load
  <2> QED BY <2>1, <2>3, <2>4, <2>6, <2>7, <2>8, <2>9
<1>4. ASSUME NEW r \in Runs, run[r].pc # "off" PROVE \A q \in Runs : q # r => run[q].pc = "off"
  BY <1>1, <1>4 DEF Active
<1>5. ASSUME NEW r \in Runs, Truncate(r) PROVE goal
  <2>1. run' = [run EXCEPT ![r] = RunAt("write", run[r].tenant, run[r].data)]
        /\ run[r].pc = "save" /\ UNCHANGED onboarded
    BY <1>5 DEF Truncate
  <2>2. run'[r].pc = "write" /\ run'[r].data = run[r].data
    <3>1. run[r].tenant \in Tenants /\ run[r].data \in Seq(Entry)
      BY RunFields
    <3>2. RunAt("write", run[r].tenant, run[r].data).pc = "write"
          /\ RunAt("write", run[r].tenant, run[r].data).data = run[r].data
      BY DEF RunAt
    <3> QED BY <2>1, <3>2, RunStep
  <2>3. \A q \in Runs : q # r => run'[q] = run[q] /\ run[q].pc = "off"
    BY <1>4, <2>1, RunStep
  <2>4. file'.format = "unreadable"
    BY <1>5, FilesType DEF Truncate
  <2>5. Active' \subseteq {r}
    BY <2>3 DEF Active
  <2> QED BY <1>1, <2>1, <2>2, <2>3, <2>4, <2>5
<1>6. ASSUME NEW r \in Runs, Write(r) PROVE goal
  <2> DEFINE e == [id |-> run[r].tenant, policy |-> FALSE]
             es == Append(run[r].data, e)
  <2>1. run' = [run EXCEPT ![r] = RunAt("create", run[r].tenant, <<>>)]
        /\ run[r].pc = "write" /\ UNCHANGED onboarded
    BY <1>6 DEF Write
  <2>2. run'[r].pc = "create" /\ run'[r].tenant = run[r].tenant
    BY <2>1, RunFields, RunsType, EmptyEntries
  <2>3. \A q \in Runs : q # r => run'[q] = run[q] /\ run[q].pc = "off"
    BY <1>4, <2>1, RunStep
  <2>4. file.format = "unreadable"
    BY <1>1, <2>1
  <2>5. file' = [format |-> "objects", entries |-> es]
    BY <1>6, <2>4 DEF Write
  <2>6. e \in Entry /\ e.id = run[r].tenant /\ run[r].data \in Seq(Entry)
    BY RunFields DEF Entry
  <2> HIDE DEF e
  <2>7. IdsOf(es) = IdsOf(run[r].data) \cup {run[r].tenant}
    BY <2>6, AddEntry
  <2> HIDE DEF es
  <2>8. file'.entries = es
    BY <2>5
  <2>9. Active' \subseteq {r}
    BY <2>3 DEF Active
  <2>10. onboarded \subseteq IdsOf(run[r].data)
    BY <1>1, <2>1
  <2> QED BY <2>1, <2>2, <2>3, <2>7, <2>8, <2>9, <2>10
<1>7. ASSUME NEW r \in Runs, Create(r) PROVE goal
  <2>1. run' = [run EXCEPT ![r] = RunAt("off", Default, <<>>)] /\ run[r].pc = "create"
        /\ UNCHANGED file /\ onboarded' = onboarded \cup {run[r].tenant}
    BY <1>7, IdleRun DEF Create
  <2>2. run'[r].pc = "off"
    BY <2>1, RunsType, EmptyEntries, OnboardingAssumption DEF OnboardingAssumption
  <2>3. \A q \in Runs : q # r => run'[q] = run[q] /\ run[q].pc = "off"
    BY <1>4, <2>1, RunStep
  <2>4. Active' = {}
    BY <2>2, <2>3 DEF Active
  <2>5. onboarded \subseteq IdsOf(file.entries) /\ run[r].tenant \in IdsOf(file.entries)
    BY <1>1, <2>1, <2>3
  <2> QED BY <2>1, <2>2, <2>3, <2>4, <2>5
<1>8. ASSUME Fault PROVE FALSE
  BY <1>8, FaultType
<1>9. ASSUME NEW r \in Runs, CreateFails(r) \/ RunKilled(r) PROVE goal
  BY <1>8, <1>9 DEF CreateFails, RunKilled
<1> QED BY <1>2, <1>3, <1>5, <1>6, <1>7, <1>8, <1>9
       DEF Next, vars, Onboarding, Policies, PolStart, PolCheck, PolCreate, PolAlias, PolKilled,
           PolRefused, StartConsumer, Index

-----------------------------------------------------------------------------
(* The names *)

LEMMA BareStep ==
    ASSUME TypeOK, BareInv, [Next]_vars
    PROVE  BareInv'
<1> USE DEF fileVars, searchVars, consumerVars, history
<1> SUFFICES ASSUME "fault" \notin slips', NEW t \in Tenants, first'[t] = "bare"
             PROVE  t \in concrete' \/ (pol'.pc = "alias" /\ Head(pol'.rest).id = t)
  BY DEF BareInv
<1> DEFINE goal == t \in concrete' \/ (pol'.pc = "alias" /\ Head(pol'.rest).id = t)
<1>0. slips \subseteq slips'
  BY DEF Next, vars, Onboarding, Policies, Load, Truncate, Write, Create, CreateFails, RunKilled,
     PolStart, PolCheck, PolCreate, PolAlias, PolKilled, PolRefused, StartConsumer, Index, Fault, Note
<1>1. first[t] = "bare" => t \in concrete \/ (pol.pc = "alias" /\ Head(pol.rest).id = t)
  BY <1>0 DEF BareInv
<1>2. ASSUME first'[t] = first[t], UNCHANGED pol, concrete \subseteq concrete' PROVE goal
  BY <1>1, <1>2
<1>3. ASSUME Fault PROVE FALSE
  BY <1>3, FaultType
<1>4. ASSUME NEW r \in Runs, Create(r) PROVE goal
  <2>1. run[r].tenant \in Tenants /\ first' = PutIndex(run[r].tenant)
        /\ UNCHANGED <<pol, concrete>>
    BY <1>4, RunFields DEF Create
  <2>2. first'[t] = first[t]
    BY <2>1, PutIndexType
  <2> QED BY <1>2, <2>1, <2>2
<1>5. CASE PolStart \/ PolCheck
  <2>1. pol.pc # "alias" /\ UNCHANGED <<first, concrete>>
    BY <1>5 DEF PolStart, PolCheck
  <2> QED BY <1>1, <2>1
<1>6. CASE PolCreate
  <2>1. pol.pc = "create" /\ Head(pol.rest).id \in Tenants /\ UNCHANGED concrete
    BY <1>6, PolType DEF PolCreate
  <2>2. CASE first' = first
    BY <1>1, <2>1, <2>2
  <2>3. CASE first' # first
    <3>1. first' = [first EXCEPT ![Head(pol.rest).id] = "bare"] /\ pol' = PolAt("alias", pol.rest)
      BY <1>6, <2>3 DEF PolCreate
    <3>2. pol'.pc = "alias" /\ pol'.rest = pol.rest
      BY <3>1, PolFields
    <3>3. Head(pol.rest).id # t => first[t] = "bare"
      BY <2>1, <3>1 DEF TypeOK
    <3> QED BY <1>1, <2>1, <3>2, <3>3
  <2> QED BY <2>2, <2>3
<1>7. CASE PolAlias
  <2>1. Head(pol.rest).id \in Tenants /\ UNCHANGED concrete
        /\ first' = IF Head(pol.rest).id \in concrete THEN first
                    ELSE [first EXCEPT ![Head(pol.rest).id] = "write"]
    BY <1>7, PolType DEF PolAlias
  <2>2. first[t] = "bare" /\ (Head(pol.rest).id = t => t \in concrete)
    BY <2>1 DEF TypeOK
  <2> QED BY <1>1, <2>1, <2>2
<1>8. CASE PolKilled \/ PolRefused
  BY <1>3, <1>8 DEF PolKilled, PolRefused
<1>9. ASSUME NEW r \in Runs, CreateFails(r) \/ RunKilled(r) PROVE goal
  BY <1>3, <1>9 DEF CreateFails, RunKilled
<1>10. CASE \/ UNCHANGED vars \/ StartConsumer \/ \E u \in Tenants : Index(u)
            \/ \E r \in Runs : (\E u \in Tenants : Load(r, u)) \/ Truncate(r) \/ Write(r)
  <2>1. UNCHANGED <<first, pol>> /\ concrete \subseteq concrete'
    BY <1>10 DEF vars, StartConsumer, Index, Load, Truncate, Write
  <2> QED BY <1>2, <2>1
<1> QED BY <1>4, <1>5, <1>6, <1>7, <1>8, <1>9, <1>10 DEF Next, Onboarding, Policies
LEMMA AliasStep ==
    ASSUME TypeOK, FileInv, AliasInv, [Next]_vars
    PROVE  AliasInv'
<1> USE DEF fileVars, searchVars, consumerVars, history
\* The invariant spelt out, before the step and after it.
<1> DEFINE al(t) == first[t] \in {"member", "write"}
           due(t) == al(t) \/ t \in pending \/ \E r \in Runs : run[r].pc = "create" /\ run[r].tenant = t
           fine(e) == due(e.id) /\ (e.policy => al(e.id) \/ e.id \in pending)
           al2(t) == first'[t] \in {"member", "write"}
           due2(t) == al2(t) \/ t \in pending'
                      \/ \E r \in Runs : run'[r].pc = "create" /\ run'[r].tenant = t
           fine2(e) == due2(e.id) /\ (e.policy => al2(e.id) \/ e.id \in pending')
           names == /\ concrete' = {}
                    /\ \A t \in known' : al2(t)
                    /\ \A t \in Tenants : first'[t] = "bare" => t \in pending'
           files == \A i \in DOMAIN file'.entries : fine2(file'.entries[i])
           runs == \A r \in Runs : \A i \in DOMAIN run'[r].data : fine2(run'[r].data[i])
           rests == /\ \A i \in DOMAIN pol'.rest :
                          pol'.rest[i].policy => al2(pol'.rest[i].id) \/ pol'.rest[i].id \in pending'
                    /\ pol'.pc \in {"create", "alias"} => Head(pol'.rest).policy
<1> SUFFICES ASSUME slips' \cap {"early", "fault"} = {}
             PROVE  names /\ files /\ runs /\ rests
  BY DEF AliasInv, EntriesDue, EntryDue, AliasDue, Aliased
<1>1. slips \subseteq slips' \/ UNCHANGED slips
  BY DEF Next, vars, Onboarding, Policies, Load, Truncate, Write, Create, CreateFails, RunKilled,
     PolStart, PolCheck, PolCreate, PolAlias, PolKilled, PolRefused, StartConsumer, Index, Fault, Note
<1>2. /\ concrete = {}
      /\ \A t \in known : al(t)
      /\ \A t \in Tenants : first[t] = "bare" => t \in pending
      /\ \A i \in DOMAIN file.entries : fine(file.entries[i])
      /\ \A r \in Runs : \A i \in DOMAIN run[r].data : fine(run[r].data[i])
      /\ \A i \in DOMAIN pol.rest :
            pol.rest[i].policy => al(pol.rest[i].id) \/ pol.rest[i].id \in pending
      /\ pol.pc \in {"create", "alias"} => Head(pol.rest).policy
  BY <1>1 DEF AliasInv, EntriesDue, EntryDue, AliasDue, Aliased
<1>3. /\ \A i \in DOMAIN file.entries : file.entries[i] \in Entry /\ file.entries[i].id \in Tenants
      /\ \A r \in Runs : \A i \in DOMAIN run[r].data :
            run[r].data[i] \in Entry /\ run[r].data[i].id \in Tenants
      /\ \A i \in DOMAIN pol.rest : pol.rest[i] \in Entry /\ pol.rest[i].id \in Tenants
      /\ known \subseteq Tenants /\ \A t \in Tenants : first[t] \in FirstIndex
  <2>1. \A s \in Seq(Entry) : \A i \in DOMAIN s : s[i] \in Entry /\ s[i].id \in Tenants
    <3>1. \A s \in Seq(Entry) : \A i \in DOMAIN s : s[i] \in Entry
      OBVIOUS
    <3>2. \A e \in Entry : e.id \in Tenants
      BY DEF Entry
    <3> QED BY <3>1, <3>2
  <2>2. file.entries \in Seq(Entry) /\ pol.rest \in Seq(Entry)
        /\ \A r \in Runs : run[r].data \in Seq(Entry)
    BY FileFields, RunFields, PolType
  <2>3. known \subseteq Tenants /\ \A t \in Tenants : first[t] \in FirstIndex
    BY DEF TypeOK
  <2> QED BY <2>1, <2>2, <2>3
<1> DEFINE keeps == \A t \in Tenants : /\ due(t) => due2(t)
                                       /\ al(t) => al2(t)
                                       /\ al(t) \/ t \in pending => al2(t) \/ t \in pending'
\* Lists that stay the same stay fine.
<1>4. ASSUME keeps, UNCHANGED file PROVE files
  BY <1>2, <1>3, <1>4
<1>5. ASSUME keeps, NEW r \in Runs, run'[r].data = run[r].data
      PROVE  \A i \in DOMAIN run'[r].data : fine2(run'[r].data[i])
  BY <1>2, <1>3, <1>5
<1>6. ASSUME keeps, UNCHANGED pol PROVE rests
  BY <1>2, <1>3, <1>6
<1>7. ASSUME Fault PROVE FALSE
  BY <1>7, FaultType
<1>8. ASSUME UNCHANGED <<first, pending, run>> PROVE keeps
  BY <1>8
\* So do those apply_policies.py has still to go through.
<1>9. ASSUME keeps, pol.pc # "off", pol' = PolNext \/ pol' = PolIdle PROVE rests
  <2>1. pol.rest # <<>> /\ pol.rest \in Seq(Entry)
    BY <1>9, PolType
  <2>2. \/ pol'.pc = "off" /\ pol'.rest = <<>>
        \/ pol'.pc = "check" /\ pol'.rest = Tail(pol.rest)
    BY <1>9, PolFields DEF PolNext
  <2>3. CASE pol'.rest = <<>>
    BY <2>2, <2>3, EmptyEntries
  <2>4. CASE pol'.rest = Tail(pol.rest)
    <3>1. \A i \in DOMAIN pol'.rest : i + 1 \in DOMAIN pol.rest /\ pol'.rest[i] = pol.rest[i + 1]
      BY <2>1, <2>4, RestEntries
    <3> QED BY <1>2, <1>3, <1>9, <2>2, <3>1
  <2> QED BY <2>2, <2>3, <2>4
<1>10. ASSUME keeps, UNCHANGED <<concrete, known>>,
              \A t \in Tenants : first'[t] = "bare" => t \in pending'
       PROVE  names
  BY <1>2, <1>3, <1>10
<1>20. CASE UNCHANGED vars \/ StartConsumer \/ \E t \in Tenants : Index(t)
  <2>1. UNCHANGED <<first, pending, run, file, pol>>
    BY <1>20 DEF vars, StartConsumer, Index
  <2>2. keeps
    BY <1>8, <2>1
  <2>3. files /\ runs /\ rests
    BY <1>4, <1>5, <1>6, <2>1, <2>2
  <2>4. names
    <3>1. CASE UNCHANGED vars
      BY <1>2, <3>1 DEF vars
    <3>2. CASE StartConsumer
      <4>1. Active = {} /\ pending = {}
        <5>1. Note("early", Active # {} \/ pending # {})
          BY <3>2 DEF StartConsumer
        <5> QED BY <5>1 DEF Note
      <4>2. \A r \in Runs : run[r].pc = "off"
        BY <4>1 DEF Active
      <4>3. \A t \in IdsOf(file.entries) : al(t)
        BY <1>2, <4>1, <4>2 DEF IdsOf
      <4>4. known' \subseteq IdsOf(file.entries)
        BY <3>2 DEF StartConsumer, Registry
      <4> QED BY <1>2, <2>1, <3>2, <4>3, <4>4 DEF StartConsumer
    <3>3. ASSUME NEW t \in Tenants, Index(t) PROVE names
      BY <1>2, <3>3 DEF Index, Aliased
    <3> QED BY <1>20, <3>1, <3>2, <3>3
  <2> QED BY <2>3, <2>4
<1>21. ASSUME NEW r \in Runs, NEW t \in Tenants, Load(r, t) PROVE names /\ files /\ runs /\ rests
  <2>1. PICK pc \in {"save", "create"}, data \in {<<>>, LoadTenants} :
           run' = [run EXCEPT ![r] = RunAt(pc, t, data)]
    BY <1>21 DEF Load
  <2>2. data \in {<<>>, file.entries} /\ run[r].pc = "off"
        /\ UNCHANGED <<file, pol, first, concrete, known, pending>>
    BY <1>21, <2>1, FileFields DEF Load
  <2>3. run'[r].data = data /\ \A q \in Runs : q # r => run'[q] = run[q]
    <3>1. RunAt(pc, t, data).data = data
      BY DEF RunAt
    <3> QED BY <2>1, <3>1, RunStep
  <2>4. keeps
    BY <2>2, <2>3
  <2>5. files /\ rests /\ names
    BY <1>2, <1>4, <1>6, <1>10, <2>2, <2>4
  <2>6. \A i \in DOMAIN run'[r].data : fine2(run'[r].data[i])
    BY <2>2, <2>3, <2>5, EmptyEntries
  <2> QED BY <1>5, <2>3, <2>4, <2>5, <2>6
<1>22. ASSUME NEW r \in Runs, Truncate(r) PROVE names /\ files /\ runs /\ rests
  <2>1. run' = [run EXCEPT ![r] = RunAt("write", run[r].tenant, run[r].data)]
        /\ run[r].pc = "save" /\ UNCHANGED <<pol, first, concrete, known, pending>>
    BY <1>22 DEF Truncate
  <2>2. run'[r].data = run[r].data /\ \A q \in Runs : q # r => run'[q] = run[q]
    <3>1. RunAt("write", run[r].tenant, run[r].data).data = run[r].data
      BY DEF RunAt
    <3> QED BY <2>1, <3>1, RunStep
  <2>3. keeps
    BY <2>1, <2>2
  <2>4. file'.entries = <<>>
    BY <1>22, FilesType DEF Truncate
  <2>5. files
    BY <2>4, EmptyEntries
  <2>6. runs
    BY <1>5, <2>2, <2>3
  <2>7. rests
    BY <1>6, <2>1, <2>3
  <2>8. names
    BY <1>2, <1>10, <2>1, <2>3
  <2> QED BY <2>5, <2>6, <2>7, <2>8
<1>23. ASSUME NEW r \in Runs, Write(r) PROVE names /\ files /\ runs /\ rests
  <2> DEFINE e == [id |-> run[r].tenant, policy |-> FALSE]
             es == Append(run[r].data, e)
  <2>1. run' = [run EXCEPT ![r] = RunAt("create", run[r].tenant, <<>>)]
        /\ run[r].pc = "write" /\ UNCHANGED <<pol, first, concrete, known, pending>>
    BY <1>23 DEF Write
  <2>2. /\ run'[r].pc = "create" /\ run'[r].tenant = run[r].tenant /\ run'[r].data = <<>>
        /\ \A q \in Runs : q # r => run'[q] = run[q]
    <3>1. /\ RunAt("create", run[r].tenant, <<>>).pc = "create"
          /\ RunAt("create", run[r].tenant, <<>>).tenant = run[r].tenant
          /\ RunAt("create", run[r].tenant, <<>>).data = <<>>
      BY DEF RunAt
    <3> QED BY <2>1, <3>1, RunStep
  <2>3. keeps
    BY <2>1, <2>2
  <2>4. due2(run[r].tenant)
    BY <2>2
  <2>5. e \in Entry /\ e.id = run[r].tenant /\ e.policy = FALSE /\ run[r].data \in Seq(Entry)
    BY RunFields DEF Entry
  <2>6. \/ file' = [format |-> "objects", entries |-> es]
        \/ file' = [format |-> "unreadable", entries |-> <<>>]
    BY <1>23 DEF Write
  <2> HIDE DEF e
  <2>7. \A i \in DOMAIN es : \/ i \in DOMAIN run[r].data /\ es[i] = run[r].data[i]
                             \/ es[i] = e
    BY <2>5, AddEntry
  <2> HIDE DEF es
  <2>8. file'.entries = es \/ file'.entries = <<>>
    BY <2>6
  <2>9. \A i \in DOMAIN run[r].data : fine2(run[r].data[i])
    BY <1>2, <1>3, <2>3
  <2>10. fine2(e)
    BY <2>4, <2>5
  <2>11. files
    BY <2>7, <2>8, <2>9, <2>10, EmptyEntries
  <2>12. runs
    BY <1>5, <2>2, <2>3, EmptyEntries
  <2> QED BY <1>2, <1>6, <1>10, <2>1, <2>3, <2>11, <2>12
<1>24. ASSUME NEW r \in Runs, Create(r) PROVE names /\ files /\ runs /\ rests
  <2>1. /\ run' = [run EXCEPT ![r] = RunAt("off", Default, <<>>)] /\ run[r].pc = "create"
        /\ run[r].tenant \in Tenants /\ first' = PutIndex(run[r].tenant)
        /\ UNCHANGED <<file, pol, concrete, known, pending>>
    BY <1>24, IdleRun, RunFields DEF Create
  <2>2. /\ run'[r].data = <<>> /\ \A q \in Runs : q # r => run'[q] = run[q]
    <3>1. RunAt("off", Default, <<>>).data = <<>>
      BY DEF RunAt
    <3> QED BY <2>1, <3>1, RunStep
  <2>3. /\ \A u \in Tenants : first'[u] = first[u] \/ first'[u] = "member"
        /\ first[run[r].tenant] = "absent" => first'[run[r].tenant] = "member"
    BY <1>2, <2>1, PutIndexType
  <2>4. al2(run[r].tenant) \/ run[r].tenant \in pending'
    BY <1>2, <1>3, <2>1, <2>3 DEF FirstIndex
  <2>5. keeps
    BY <2>1, <2>2, <2>3, <2>4
  <2>6. \A t \in Tenants : first'[t] = "bare" => t \in pending'
    BY <1>2, <2>1, <2>3
  <2>7. runs
    BY <1>5, <2>2, <2>5, EmptyEntries
  <2> QED BY <1>4, <1>6, <1>10, <2>1, <2>5, <2>6, <2>7
<1>25. CASE PolStart
  <2>1. UNCHANGED <<first, pending, run, file, concrete, known>> /\ pol' = PolAt("check", file.entries)
    BY <1>25 DEF PolStart
  <2>2. keeps
    BY <1>8, <2>1
  <2>3. files /\ runs /\ names
    BY <1>2, <1>4, <1>5, <1>10, <2>1, <2>2
  <2>4. pol'.pc = "check" /\ pol'.rest = file.entries
    BY <2>1, PolFields
  <2>5. rests
    BY <2>1, <2>3, <2>4
  <2> QED BY <2>3, <2>5
<1>26. CASE PolCheck
  <2>1. UNCHANGED <<first, pending, run, file, concrete, known>> /\ pol.pc = "check"
    BY <1>26 DEF PolCheck
  <2>2. keeps
    BY <1>8, <2>1
  <2>3. files /\ runs /\ names
    BY <1>2, <1>4, <1>5, <1>10, <2>1, <2>2
  <2>4. CASE pol' = PolIdle
    BY <1>9, <2>1, <2>2, <2>3, <2>4
  <2>5. CASE pol' # PolIdle
    <3>1. pol'.rest = pol.rest /\ Head(pol.rest).policy
      BY <1>26, <2>5, PolFields DEF PolCheck
    <3> QED BY <1>2, <2>1, <2>3, <3>1
  <2> QED BY <2>4, <2>5
<1>27. CASE PolCreate
  <2> DEFINE t == Head(pol.rest).id
  <2>1. pol.pc = "create" /\ t \in Tenants /\ UNCHANGED <<pending, run, file, concrete, known>>
    BY <1>27, PolType DEF PolCreate
  <2>2. CASE pol' = PolNext /\ UNCHANGED first
    <3>1. keeps
      BY <1>8, <2>1, <2>2
    <3>2. rests
      BY <1>9, <2>1, <2>2, <3>1
    <3> QED BY <1>2, <1>4, <1>5, <1>10, <2>1, <2>2, <3>1, <3>2
  <2>3. CASE /\ first[t] = "absent" /\ first' = [first EXCEPT ![t] = "bare"]
             /\ pol' = PolAt("alias", pol.rest)
    <3>1. Head(pol.rest) = pol.rest[1] /\ 1 \in DOMAIN pol.rest
      BY <2>1, PolType, RestEntries
    <3>2. t \in pending
      BY <1>2, <2>1, <2>3, <3>1
    <3>3. \A u \in Tenants : u # t => first'[u] = first[u]
      BY <2>3 DEF TypeOK
    <3>4. keeps
      BY <2>1, <2>3, <3>3
    <3>5. \A u \in Tenants : first'[u] = "bare" => u \in pending'
      BY <1>2, <2>1, <3>2, <3>3
    <3>6. pol'.rest = pol.rest /\ Head(pol.rest).policy
      BY <1>2, <2>1, <2>3, PolFields
    <3>7. rests
      BY <1>2, <1>3, <3>4, <3>6
    <3> QED BY <1>4, <1>5, <1>10, <2>1, <3>4, <3>5, <3>7
  <2> QED BY <1>27, <2>2, <2>3 DEF PolCreate
<1>28. CASE PolAlias
  <2> DEFINE t == Head(pol.rest).id
  <2>1. pol.pc = "alias" /\ t \in Tenants /\ UNCHANGED <<run, file, concrete, known>>
        /\ first' = [first EXCEPT ![t] = "write"] /\ pending' = pending \ {t} /\ pol' = PolNext
    BY <1>2, <1>28, PolType DEF PolAlias
  <2>2. first'[t] = "write" /\ \A u \in Tenants : u # t => first'[u] = first[u]
    BY <2>1 DEF TypeOK
  <2>3. keeps
    BY <2>1, <2>2
  <2>4. \A u \in Tenants : first'[u] = "bare" => u \in pending'
    BY <1>2, <2>1, <2>2
  <2>5. rests
    BY <1>9, <2>1, <2>3
  <2> QED BY <1>4, <1>5, <1>10, <2>1, <2>3, <2>4, <2>5
<1>29. CASE \/ PolKilled \/ PolRefused \/ \E r \in Runs : CreateFails(r) \/ RunKilled(r)
  BY <1>7, <1>29 DEF PolKilled, PolRefused, CreateFails, RunKilled
<1> QED BY <1>20, <1>21, <1>22, <1>23, <1>24, <1>25, <1>26, <1>27, <1>28, <1>29
       DEF Next, Onboarding, Policies

-----------------------------------------------------------------------------

LEMMA IndInv == Spec => [](TypeOK /\ FileInv /\ StaysInv /\ AliasInv /\ BareInv)
<1>1. TypeOK /\ FileInv /\ StaysInv /\ AliasInv /\ BareInv /\ [Next]_vars
      => TypeOK' /\ FileInv' /\ StaysInv' /\ AliasInv' /\ BareInv'
  BY TypeStep, StaysStep, AliasStep, BareStep
<1> QED BY <1>1, InitInv, PTL DEF Spec

\* Every variable keeps its type, and no tenant is ever listed twice, however
\* many runs of onboard_tenant.py read and write the file at a time.
THEOREM TypeCorrect == Spec => []TypeOK
BY IndInv, PTL

\* However many tenants are onboarded one after the other, none that was
\* listed is dropped.
THEOREM OnboardedAlwaysStays == Spec => []OnboardedStays
<1>1. StaysInv => OnboardedStays
  BY DEF StaysInv, OnboardedStays
<1> QED BY <1>1, IndInv, PTL

\* Though the runs of the scripts overlap as they like, the first event of a
\* tenant finds its alias if the consumer is started between them.
THEOREM AliasNeverTaken == Spec => []AliasNotTaken
<1>1. AliasInv => AliasNotTaken
  BY DEF AliasInv, AliasNotTaken
<1> QED BY <1>1, IndInv, PTL

\* apply_policies.py ends without a bare index behind it.
THEOREM NoBareIndexEverLeft == Spec => []NoBareIndexLeft
<1>1. BareInv => NoBareIndexLeft
  BY DEF BareInv, NoBareIndexLeft
<1> QED BY <1>1, IndInv, PTL
=============================================================================
