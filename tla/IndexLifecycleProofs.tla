------------------------ MODULE IndexLifecycleProofs ------------------------
(***************************************************************************)
(* Proofs about IndexLifecycle.  WriterStays rests on WriterInv: the       *)
(* policy deletes only what has rolled over, and the write index has not.  *)
(* VisibleKept rests on VisibleInv: what housekeeping.sh has listed, and   *)
(* what the bootstrap script is about to delete uncopied, holds no event   *)
(* that a script found visible, because an event that arrives later was    *)
(* not there to be seen.                                                   *)
(***************************************************************************)
EXTENDS IndexLifecycle, TLAPS

WriterInv ==
    ~unwritten =>
        /\ writer = top
        /\ writer \notin rolled
        /\ top = None => rolled = {}

VisibleInv ==
    /\ \A i \in Indices \cup {Direct} : docs[i] \cap unsent = {}
    /\ expired \cap unsent = {}
    /\ safe \cap (unsent \cup fresh) = {}
    /\ \A j \in Jobs : pc[j] # "delete" => todo[j] = {}
    /\ \A j \in Jobs : \A g \in todo[j] : docs[g] \cap safe = {}
    /\ ~taken => docs[Direct] = {}
    /\ \A j \in Jobs : pc[j] = "drop" /\ ~botched => docs[Direct] \cap safe \subseteq docs[Boot]
    /\ VisibleKept

-----------------------------------------------------------------------------

\* The initial state: no index, no event, no script.
LEMMA InitInv == Init => TypeOK /\ WriterInv /\ VisibleInv
<1> SUFFICES ASSUME Init PROVE TypeOK /\ WriterInv /\ VisibleInv
  OBVIOUS
<1>1. TypeOK
  <2>1. faults \in 0 .. MaxFaults
    BY LifecycleAssumption DEF Init, LifecycleAssumption
  <2>2. /\ pc \in [Jobs -> Pcs] /\ todo \in [Jobs -> SUBSET Gens]
        /\ seen \in [Jobs -> {"nothing", "current", "stale"}]
        /\ docs \in [Indices \cup {Direct} -> SUBSET Events]
    BY DEF Init, Pcs
  <2> QED BY <2>1, <2>2 DEF Init, TypeOK
<1>2. WriterInv
  BY DEF Init, WriterInv
<1>3. VisibleInv
  BY DEF Init, VisibleInv, VisibleKept
<1> QED BY <1>1, <1>2, <1>3

\* Every step keeps the types.
LEMMA TypeOKStep ==
    ASSUME TypeOK, [Next]_vars
    PROVE  TypeOK'
<1> USE LifecycleAssumption DEF TypeOK, Pcs, LifecycleAssumption
<1>1. CASE UNCHANGED vars
  BY <1>1 DEF vars, aliasVars
<1>2. ASSUME Rollover PROVE TypeOK'
  BY <1>2 DEF Rollover, NewWriter, eventVars, job, past, Indices, Gens, Boot, None
<1>3. ASSUME Refresh PROVE TypeOK'
  BY <1>3 DEF Refresh, aliasVars, job, past
<1>4. ASSUME EditPolicy PROVE TypeOK'
  BY <1>4 DEF EditPolicy, Outdated, aliasVars, eventVars, past
<1>5. ASSUME NEW g \in Gens, Retain(g) PROVE TypeOK'
  BY <1>5 DEF Retain, DeleteIndex, job, past
<1>6. ASSUME NEW e \in Events, Index(e) PROVE TypeOK'
  <2>1. writer \in Indices \cup {Direct} /\ taken' \in BOOLEAN
    BY <1>6 DEF Index, None, Direct
  <2>2. docs' \in [Indices \cup {Direct} -> SUBSET Events] /\ fresh' \in SUBSET Events
    BY <1>6, <2>1 DEF Index
  <2> QED BY <1>6, <2>1, <2>2 DEF Index, job, past
<1>7. ASSUME NEW j \in Jobs, NEW l \in Firsts, Start(j, l) PROVE TypeOK'
  BY <1>7 DEF Start, Goto, Firsts, aliasVars, eventVars, Stored
<1>8. ASSUME NEW j \in Jobs, Killed(j) PROVE TypeOK'
  BY <1>8 DEF Killed, End, aliasVars, eventVars, past
<1>9. ASSUME NEW j \in Jobs, PolicyGet(j) PROVE TypeOK'
  BY <1>9 DEF PolicyGet, Goto, aliasVars, eventVars, past
<1>10. ASSUME NEW j \in Jobs, PolicyPut(j) PROVE TypeOK'
  BY <1>10 DEF PolicyPut, Outdated, aliasVars, eventVars, past
<1>11. ASSUME NEW j \in Jobs, PolLoad(j) PROVE TypeOK'
  BY <1>11 DEF PolLoad, Goto, aliasVars, eventVars, past
<1>12. ASSUME NEW j \in Jobs, PolStop(j) PROVE TypeOK'
  BY <1>12 DEF PolStop, End, aliasVars, eventVars, past
<1>13. ASSUME NEW j \in Jobs, PolCheck(j) PROVE TypeOK'
  BY <1>13 DEF PolCheck, Goto, aliasVars, eventVars, past
<1>14. ASSUME NEW j \in Jobs, PolCreate(j) PROVE TypeOK'
  <2>1. 1 \in Indices
    BY DEF Indices, Gens
  <2>2. pc' \in [Jobs -> Pcs] /\ todo' \in [Jobs -> SUBSET Gens]
        /\ seen' \in [Jobs -> {"nothing", "current", "stale"}]
    BY <1>14 DEF PolCreate, Goto, End
  <2> QED BY <1>14, <2>1, <2>2 DEF PolCreate, eventVars, past
<1>15. ASSUME NEW j \in Jobs, PolAlias(j) PROVE TypeOK'
  <2>1. 1 \in Indices
    BY DEF Indices, Gens
  <2>2. pc' \in [Jobs -> Pcs] /\ todo' \in [Jobs -> SUBSET Gens]
        /\ seen' \in [Jobs -> {"nothing", "current", "stale"}]
    BY <1>15 DEF PolAlias, End
  <2>3. top' \in Indices \cup {None}
    BY <1>15, <2>1 DEF PolAlias, NewWriter
  <2> QED BY <1>15, <2>1, <2>2, <2>3 DEF PolAlias, NewWriter, eventVars, past
<1>16. ASSUME NEW j \in Jobs, SetupLook(j) PROVE TypeOK'
  BY <1>16 DEF SetupLook, Goto, aliasVars, eventVars, past
<1>17. ASSUME NEW j \in Jobs, SetupMake(j) PROVE TypeOK'
  <2>1. 1 \in Indices
    BY DEF Indices, Gens
  <2>2. pc' \in [Jobs -> Pcs] /\ UNCHANGED <<todo, seen>>
    BY <1>17 DEF SetupMake, Goto
  <2>3. top' \in Indices \cup {None}
    BY <1>17, <2>1 DEF SetupMake, NewWriter
  <2> QED BY <1>17, <2>1, <2>2, <2>3 DEF SetupMake, NewWriter, eventVars, past
<1>18. ASSUME NEW j \in Jobs, SetupDetect(j) PROVE TypeOK'
  BY <1>18 DEF SetupDetect, Goto, End, aliasVars, eventVars, past
<1>19. ASSUME NEW j \in Jobs, SetupPolicy(j) PROVE TypeOK'
  BY <1>19 DEF SetupPolicy, End, aliasVars, eventVars, past
<1>20. ASSUME NEW j \in Jobs, HouseList(j) PROVE TypeOK'
  BY <1>20 DEF HouseList, aliasVars, eventVars, past
<1>21. ASSUME NEW j \in Jobs, HouseDelete(j) PROVE TypeOK'
  <2>1. PICK g \in todo[j] : DeleteIndex(g) /\ todo' = [todo EXCEPT ![j] = @ \ {g}]
    BY <1>21 DEF HouseDelete
  <2>2. unwritten' \in BOOLEAN
    BY <1>21 DEF HouseDelete
  <2>3. todo' \in [Jobs -> SUBSET Gens]
    BY <2>1
  <2>4. docs' \in [Indices \cup {Direct} -> SUBSET Events]
    BY <2>1 DEF DeleteIndex
  <2> QED BY <1>21, <2>1, <2>2, <2>3, <2>4 DEF HouseDelete, DeleteIndex
<1>22. ASSUME NEW j \in Jobs, HouseEnd(j) PROVE TypeOK'
  BY <1>22 DEF HouseEnd, End, aliasVars, eventVars, past
<1>23. ASSUME NEW j \in Jobs, BootFirst(j) PROVE TypeOK'
  <2>1. Boot \in Indices
    BY DEF Indices
  <2> QED BY <1>23, <2>1 DEF BootFirst, Goto, eventVars, past
<1>24. ASSUME NEW j \in Jobs, BootMove(j) PROVE TypeOK'
  <2>1. Boot \in Indices
    BY DEF Indices
  <2>3. top' \in Indices \cup {None}
    BY <1>24, <2>1 DEF BootMove, NewWriter
  <2> QED BY <1>24, <2>3 DEF BootMove, Goto, NewWriter, eventVars, past
<1>25. ASSUME NEW j \in Jobs, BootDirect(j) PROVE TypeOK'
  BY <1>25 DEF BootDirect, Goto, End, aliasVars, eventVars, past
<1>26. ASSUME NEW j \in Jobs, BootCopy(j) PROVE TypeOK'
  <2>1. Boot \in Indices
    BY DEF Indices
  <2>2. \A i \in members \cup {Direct} : docs[i] \in SUBSET Events
    OBVIOUS
  <2>3. docs' \in [Indices \cup {Direct} -> SUBSET Events]
    <3> DEFINE source == IF taken THEN {Direct} ELSE members
    <3>1. \/ docs' = docs
          \/ docs' = [docs EXCEPT ![Boot] = @ \cup ((UNION {docs[i] : i \in source}) \ fresh)]
      BY <1>26 DEF BootCopy
    <3>2. UNION {docs[i] : i \in source} \subseteq Events
      BY <2>2
    <3> QED BY <2>1, <3>1, <3>2
  <2>4. botched' \in BOOLEAN
    BY <1>26 DEF BootCopy
  <2>6. faults' \in 0 .. MaxFaults
    <3>1. faults' = faults \/ (faults < MaxFaults /\ faults' = faults + 1)
      BY <1>26 DEF BootCopy
    <3> QED BY <3>1
  <2>5. pc' \in [Jobs -> Pcs] /\ UNCHANGED <<todo, seen>>
    BY <1>26 DEF BootCopy, Goto
  <2> QED BY <1>26, <2>3, <2>4, <2>5, <2>6 DEF BootCopy, aliasVars
<1>27. ASSUME NEW j \in Jobs, BootDrop(j) PROVE TypeOK'
  BY <1>27 DEF BootDrop, End, past
<1> QED
  BY <1>1, <1>2, <1>3, <1>4, <1>5, <1>6, <1>7, <1>8, <1>9, <1>10, <1>11, <1>12,
     <1>13, <1>14, <1>15, <1>16, <1>17, <1>18, <1>19, <1>20, <1>21, <1>22, <1>23,
     <1>24, <1>25, <1>26, <1>27
  DEF Next, Script, Policies, Setup, Housekeeping, Bootstrap

\* A script gives the alias a write index only where it has none, while
\* housekeeping has not deleted one that is before the first; or it is the
\* bootstrap script.
LEMMA WriterInvStep ==
    ASSUME TypeOK, WriterInv, [Next]_vars
    PROVE  WriterInv'
<1> USE LifecycleAssumption DEF TypeOK, WriterInv, LifecycleAssumption
<1>1. CASE UNCHANGED vars
  BY <1>1 DEF vars, aliasVars
<1>2. ASSUME Rollover PROVE WriterInv'
  BY <1>2 DEF Rollover, NewWriter, eventVars, job, past, Indices, Gens, Boot, None
<1>3. ASSUME Refresh PROVE WriterInv'
  BY <1>3 DEF Refresh, aliasVars, job, past
<1>4. ASSUME EditPolicy PROVE WriterInv'
  BY <1>4 DEF EditPolicy, Outdated, aliasVars, eventVars, past
<1>5. ASSUME NEW g \in Gens, Retain(g) PROVE WriterInv'
  BY <1>5 DEF Retain, DeleteIndex, job, past
<1>6. ASSUME NEW e \in Events, Index(e) PROVE WriterInv'
  BY <1>6 DEF Index, job, past
<1>7. ASSUME NEW j \in Jobs, NEW l \in Firsts, Start(j, l) PROVE WriterInv'
  BY <1>7 DEF Start, Goto, Firsts, aliasVars, eventVars
<1>8. ASSUME NEW j \in Jobs, Killed(j) PROVE WriterInv'
  BY <1>8 DEF Killed, End, aliasVars, eventVars, past
<1>9. ASSUME NEW j \in Jobs, PolicyGet(j) PROVE WriterInv'
  BY <1>9 DEF PolicyGet, Goto, aliasVars, eventVars, past
<1>10. ASSUME NEW j \in Jobs, PolicyPut(j) PROVE WriterInv'
  BY <1>10 DEF PolicyPut, Outdated, aliasVars, eventVars, past
<1>11. ASSUME NEW j \in Jobs, PolLoad(j) PROVE WriterInv'
  BY <1>11 DEF PolLoad, Goto, aliasVars, eventVars, past
<1>12. ASSUME NEW j \in Jobs, PolStop(j) PROVE WriterInv'
  BY <1>12 DEF PolStop, End, aliasVars, eventVars, past
<1>13. ASSUME NEW j \in Jobs, PolCheck(j) PROVE WriterInv'
  BY <1>13 DEF PolCheck, Goto, aliasVars, eventVars, past
<1>14. ASSUME NEW j \in Jobs, PolCreate(j) PROVE WriterInv'
  BY <1>14 DEF PolCreate, Goto, End, eventVars, past
<1>15. ASSUME NEW j \in Jobs, PolAlias(j) PROVE WriterInv'
  BY <1>15 DEF PolAlias, End, NewWriter, eventVars, past, None
<1>16. ASSUME NEW j \in Jobs, SetupLook(j) PROVE WriterInv'
  BY <1>16 DEF SetupLook, Goto, aliasVars, eventVars, past
<1>17. ASSUME NEW j \in Jobs, SetupMake(j) PROVE WriterInv'
  BY <1>17 DEF SetupMake, Goto, NewWriter, eventVars, past, None
<1>18. ASSUME NEW j \in Jobs, SetupDetect(j) PROVE WriterInv'
  BY <1>18 DEF SetupDetect, Goto, End, aliasVars, eventVars, past
<1>19. ASSUME NEW j \in Jobs, SetupPolicy(j) PROVE WriterInv'
  BY <1>19 DEF SetupPolicy, End, aliasVars, eventVars, past
<1>20. ASSUME NEW j \in Jobs, HouseList(j) PROVE WriterInv'
  BY <1>20 DEF HouseList, aliasVars, eventVars, past
<1>21. ASSUME NEW j \in Jobs, HouseDelete(j) PROVE WriterInv'
  BY <1>21 DEF HouseDelete, DeleteIndex
<1>22. ASSUME NEW j \in Jobs, HouseEnd(j) PROVE WriterInv'
  BY <1>22 DEF HouseEnd, End, aliasVars, eventVars, past
<1>23. ASSUME NEW j \in Jobs, BootFirst(j) PROVE WriterInv'
  BY <1>23 DEF BootFirst, Goto, eventVars, past
<1>24. ASSUME NEW j \in Jobs, BootMove(j) PROVE WriterInv'
  <2>1. Boot \notin Gens /\ Boot # None /\ (top # Boot => Boot > top)
    BY DEF Boot, Gens, None, Indices
  <2>2. CASE ~(Boot \in exists /\ ~taken)
    BY <1>24, <2>2 DEF BootMove, Goto, eventVars, past
  <2>3. CASE Boot \in exists /\ ~taken
    <3>1. writer' = Boot /\ top' = Boot /\ UNCHANGED <<rolled, unwritten>>
      BY <1>24, <2>1, <2>3 DEF BootMove, NewWriter, past
    <3> QED BY <2>1, <3>1
  <2> QED BY <2>2, <2>3
<1>25. ASSUME NEW j \in Jobs, BootDirect(j) PROVE WriterInv'
  BY <1>25 DEF BootDirect, Goto, End, aliasVars, eventVars, past
<1>26. ASSUME NEW j \in Jobs, BootCopy(j) PROVE WriterInv'
  BY <1>26 DEF BootCopy, Goto, aliasVars
<1>27. ASSUME NEW j \in Jobs, BootDrop(j) PROVE WriterInv'
  BY <1>27 DEF BootDrop, End, past
<1> QED
  BY <1>1, <1>2, <1>3, <1>4, <1>5, <1>6, <1>7, <1>8, <1>9, <1>10, <1>11, <1>12,
     <1>13, <1>14, <1>15, <1>16, <1>17, <1>18, <1>19, <1>20, <1>21, <1>22, <1>23,
     <1>24, <1>25, <1>26, <1>27
  DEF Next, Script, Policies, Setup, Housekeeping, Bootstrap

\* Each source of a copy is part of it.
LEMMA PartOfUnion ==
    ASSUME NEW f, NEW S, NEW i \in S
    PROVE  f[i] \subseteq UNION {f[k] : k \in S}
OBVIOUS

\* A step that moves no event keeps VisibleInv, if no script comes to a deletion.
LEMMA QuietVisible ==
    ASSUME TypeOK, VisibleInv,
           UNCHANGED <<docs, unsent, expired, fresh, safe, taken, botched>>,
           \A k \in Jobs : /\ todo'[k] \subseteq todo[k]
                           /\ pc'[k] # "delete" => todo'[k] = {}
                           /\ pc'[k] = "drop" => pc[k] = "drop"
    PROVE  VisibleInv'
BY DEF VisibleInv, VisibleKept, Stored

\* An event is visible only after it was sent, once, and refreshed.
LEMMA VisibleInvStep ==
    ASSUME TypeOK, VisibleInv, [Next]_vars
    PROVE  VisibleInv'
<1> USE LifecycleAssumption DEF TypeOK, VisibleInv, VisibleKept, Stored, LifecycleAssumption
<1>1. CASE UNCHANGED vars
  BY <1>1 DEF vars, aliasVars
<1>2. ASSUME Rollover PROVE VisibleInv'
  <2>1. UNCHANGED <<docs, unsent, expired, fresh, safe, taken, botched>>
    BY <1>2 DEF Rollover, eventVars, past, job
  <2>2. \A k \in Jobs : /\ todo'[k] \subseteq todo[k]
                        /\ pc'[k] # "delete" => todo'[k] = {}
                        /\ pc'[k] = "drop" => pc[k] = "drop"
    BY <1>2 DEF Rollover, eventVars, past, job
  <2> QED BY <2>1, <2>2, QuietVisible
<1>3. ASSUME Refresh PROVE VisibleInv'
  BY <1>3 DEF Refresh, aliasVars, job, past
<1>4. ASSUME EditPolicy PROVE VisibleInv'
  BY <1>4 DEF EditPolicy, Outdated, aliasVars, eventVars, past
<1>5. ASSUME NEW g \in Gens, Retain(g) PROVE VisibleInv'
  <2>0. Gens \subseteq Indices /\ Boot \in Indices /\ Boot \notin Gens /\ Direct \notin Gens
    BY DEF Indices, Gens, Boot, Direct
  <2>1. /\ docs' = [docs EXCEPT ![g] = {}] /\ expired' = expired \cup docs[g]
        /\ UNCHANGED <<taken, fresh, unsent, pc, todo, safe, botched>>
    BY <1>5 DEF Retain, DeleteIndex, job, past
  <2>2. /\ docs'[g] = {}
        /\ \A k \in (Indices \cup {Direct}) \ {g} : docs'[k] = docs[k]
    BY <2>0, <2>1
  <2>3. VisibleKept'
    BY <2>1, <2>2
  <2>4. \A k \in Indices \cup {Direct} : docs'[k] \subseteq docs[k]
    BY <2>2
  <2>5. /\ \A k \in Indices \cup {Direct} : docs'[k] \cap unsent' = {}
        /\ expired' \cap unsent' = {}
    BY <2>0, <2>1, <2>4
  <2>6. \A j \in Jobs : \A h \in todo'[j] : docs'[h] \cap safe' = {}
    BY <2>0, <2>1, <2>4
  <2>7. docs'[Direct] = docs[Direct] /\ docs'[Boot] = docs[Boot]
    BY <2>0, <2>2
  <2> QED BY <2>1, <2>3, <2>5, <2>6, <2>7
<1>6. ASSUME NEW e \in Events, Index(e) PROVE VisibleInv'
  <2>0. Direct \notin Indices
    BY DEF Direct, Indices, Gens, Boot
  <2>1. PICK i \in Indices \cup {Direct} :
          /\ ~taken' => i # Direct
          /\ \/ docs' = [docs EXCEPT ![i] = @ \cup {e}] /\ fresh' = fresh \cup {e}
             \/ UNCHANGED <<docs, fresh>>
    <3>1. CASE taken'
      BY <1>6, <3>1 DEF Index
    <3>2. CASE ~taken' /\ writer = None
      <4>1. UNCHANGED <<docs, fresh>> /\ \E i \in Indices : i # Direct
        BY <1>6, <2>0, <3>2 DEF Index, Indices
      <4> QED BY <4>1
    <3>3. CASE ~taken' /\ writer # None
      <4>1. writer \in Indices /\ writer # Direct
        BY <2>0, <3>3
      <4>2. docs' = [docs EXCEPT ![writer] = @ \cup {e}] /\ fresh' = fresh \cup {e}
        BY <1>6, <3>3 DEF Index
      <4> QED BY <4>1, <4>2
    <3> QED BY <3>1, <3>2, <3>3
  <2>2. /\ e \in unsent /\ unsent' = unsent \ {e} /\ (~taken' => ~taken)
        /\ UNCHANGED <<pc, todo, safe, expired, botched>>
    BY <1>6 DEF Index, job, past
  <2>3. e \notin safe
    BY <2>2
  <2>4. \A k \in Indices \cup {Direct} : docs'[k] = docs[k] \/ docs'[k] = docs[k] \cup {e}
    BY <2>1
  <2>5. \A k \in Indices \cup {Direct} : docs'[k] \cap unsent' = {}
    BY <2>2, <2>4
  <2>6. safe' \cap (unsent' \cup fresh') = {} /\ expired' \cap unsent' = {}
    BY <2>1, <2>2, <2>3
  <2>7. \A j \in Jobs : \A g \in todo'[j] : docs'[g] \cap safe' = {}
    <3>1. Gens \subseteq Indices
      BY DEF Indices
    <3> QED BY <2>2, <2>3, <2>4, <3>1
  <2>8. VisibleKept'
    BY <2>2, <2>4
  <2>9. ~taken' => docs'[Direct] = {}
    BY <2>1, <2>2
  <2>10. \A j \in Jobs : pc'[j] = "drop" /\ ~botched' => docs'[Direct] \cap safe' \subseteq docs'[Boot]
    BY <2>2, <2>3, <2>4 DEF Indices
  <2> QED BY <2>2, <2>5, <2>6, <2>7, <2>8, <2>9, <2>10
<1>7. ASSUME NEW j \in Jobs, NEW l \in Firsts, Start(j, l) PROVE VisibleInv'
  <2>1. CASE Running = {}
    <3>1. \A k \in Jobs : pc[k] = "off" /\ todo[k] = {}
      BY <2>1 DEF Running
    <3>2. \A k \in Jobs : todo'[k] = {} /\ pc'[k] # "drop"
      BY <1>7, <3>1 DEF Start, Goto, Firsts
    <3>3. /\ UNCHANGED <<docs, unsent, expired, fresh, taken, botched>>
          /\ safe' = safe \cup (Stored \ fresh)
      BY <1>7, <2>1 DEF Start, aliasVars, eventVars
    <3>4. safe' \cap (unsent' \cup fresh') = {}
      BY <3>3
    <3>5. VisibleKept'
      BY <3>3
    <3> QED BY <3>2, <3>3, <3>4, <3>5
  <2>2. CASE Running # {}
    <3>1. UNCHANGED <<docs, unsent, expired, fresh, taken, botched, safe, todo>>
      BY <1>7, <2>2 DEF Start, Goto, aliasVars, eventVars
    <3>2. \A k \in Jobs : /\ pc'[k] = "drop" => pc[k] = "drop"
                          /\ pc'[k] # "delete" => pc[k] # "delete" \/ todo[k] = {}
      BY <1>7 DEF Start, Goto, Firsts
    <3> QED BY <3>1, <3>2
  <2> QED BY <2>1, <2>2
<1>8. ASSUME NEW j \in Jobs, Killed(j) PROVE VisibleInv'
  <2>1. UNCHANGED <<docs, unsent, expired, fresh, safe, taken, botched>>
    BY <1>8 DEF Killed, aliasVars, eventVars, past, End
  <2>2. \A k \in Jobs : /\ todo'[k] \subseteq todo[k]
                        /\ pc'[k] # "delete" => todo'[k] = {}
                        /\ pc'[k] = "drop" => pc[k] = "drop"
    BY <1>8 DEF Killed, aliasVars, eventVars, past, End
  <2> QED BY <2>1, <2>2, QuietVisible
<1>9. ASSUME NEW j \in Jobs, PolicyGet(j) PROVE VisibleInv'
  <2>1. UNCHANGED <<docs, unsent, expired, fresh, safe, taken, botched>>
    BY <1>9 DEF PolicyGet, aliasVars, eventVars, past, Goto
  <2>2. \A k \in Jobs : /\ todo'[k] \subseteq todo[k]
                        /\ pc'[k] # "delete" => todo'[k] = {}
                        /\ pc'[k] = "drop" => pc[k] = "drop"
    BY <1>9 DEF PolicyGet, aliasVars, eventVars, past, Goto
  <2> QED BY <2>1, <2>2, QuietVisible
<1>10. ASSUME NEW j \in Jobs, PolicyPut(j) PROVE VisibleInv'
  <2>1. UNCHANGED <<docs, unsent, expired, fresh, safe, taken, botched>>
    BY <1>10 DEF PolicyPut, aliasVars, eventVars, past
  <2>2. \A k \in Jobs : /\ todo'[k] \subseteq todo[k]
                        /\ pc'[k] # "delete" => todo'[k] = {}
                        /\ pc'[k] = "drop" => pc[k] = "drop"
    BY <1>10 DEF PolicyPut, aliasVars, eventVars, past
  <2> QED BY <2>1, <2>2, QuietVisible
<1>11. ASSUME NEW j \in Jobs, PolLoad(j) PROVE VisibleInv'
  <2>1. UNCHANGED <<docs, unsent, expired, fresh, safe, taken, botched>>
    BY <1>11 DEF PolLoad, aliasVars, eventVars, past, Goto
  <2>2. \A k \in Jobs : /\ todo'[k] \subseteq todo[k]
                        /\ pc'[k] # "delete" => todo'[k] = {}
                        /\ pc'[k] = "drop" => pc[k] = "drop"
    BY <1>11 DEF PolLoad, aliasVars, eventVars, past, Goto
  <2> QED BY <2>1, <2>2, QuietVisible
<1>12. ASSUME NEW j \in Jobs, PolStop(j) PROVE VisibleInv'
  <2>1. UNCHANGED <<docs, unsent, expired, fresh, safe, taken, botched>>
    BY <1>12 DEF PolStop, aliasVars, eventVars, past, End
  <2>2. \A k \in Jobs : /\ todo'[k] \subseteq todo[k]
                        /\ pc'[k] # "delete" => todo'[k] = {}
                        /\ pc'[k] = "drop" => pc[k] = "drop"
    BY <1>12 DEF PolStop, aliasVars, eventVars, past, End
  <2> QED BY <2>1, <2>2, QuietVisible
<1>13. ASSUME NEW j \in Jobs, PolCheck(j) PROVE VisibleInv'
  <2>1. UNCHANGED <<docs, unsent, expired, fresh, safe, taken, botched>>
    BY <1>13 DEF PolCheck, aliasVars, eventVars, past, Goto
  <2>2. \A k \in Jobs : /\ todo'[k] \subseteq todo[k]
                        /\ pc'[k] # "delete" => todo'[k] = {}
                        /\ pc'[k] = "drop" => pc[k] = "drop"
    BY <1>13 DEF PolCheck, aliasVars, eventVars, past, Goto
  <2> QED BY <2>1, <2>2, QuietVisible
<1>14. ASSUME NEW j \in Jobs, PolCreate(j) PROVE VisibleInv'
  <2>1. UNCHANGED <<docs, unsent, expired, fresh, safe, taken, botched>>
    BY <1>14 DEF PolCreate, eventVars, past, Goto, End
  <2>2. \A k \in Jobs : /\ todo'[k] \subseteq todo[k]
                        /\ pc'[k] # "delete" => todo'[k] = {}
                        /\ pc'[k] = "drop" => pc[k] = "drop"
    BY <1>14 DEF PolCreate, eventVars, past, Goto, End
  <2> QED BY <2>1, <2>2, QuietVisible
<1>15. ASSUME NEW j \in Jobs, PolAlias(j) PROVE VisibleInv'
  <2>1. UNCHANGED <<docs, unsent, expired, fresh, safe, taken, botched>>
    BY <1>15 DEF PolAlias, eventVars, past, End
  <2>2. \A k \in Jobs : /\ todo'[k] \subseteq todo[k]
                        /\ pc'[k] # "delete" => todo'[k] = {}
                        /\ pc'[k] = "drop" => pc[k] = "drop"
    BY <1>15 DEF PolAlias, eventVars, past, End
  <2> QED BY <2>1, <2>2, QuietVisible
<1>16. ASSUME NEW j \in Jobs, SetupLook(j) PROVE VisibleInv'
  <2>1. UNCHANGED <<docs, unsent, expired, fresh, safe, taken, botched>>
    BY <1>16 DEF SetupLook, aliasVars, eventVars, past, Goto
  <2>2. \A k \in Jobs : /\ todo'[k] \subseteq todo[k]
                        /\ pc'[k] # "delete" => todo'[k] = {}
                        /\ pc'[k] = "drop" => pc[k] = "drop"
    BY <1>16 DEF SetupLook, aliasVars, eventVars, past, Goto
  <2> QED BY <2>1, <2>2, QuietVisible
<1>17. ASSUME NEW j \in Jobs, SetupMake(j) PROVE VisibleInv'
  <2>1. UNCHANGED <<docs, unsent, expired, fresh, safe, taken, botched>>
    BY <1>17 DEF SetupMake, eventVars, past, Goto
  <2>2. \A k \in Jobs : /\ todo'[k] \subseteq todo[k]
                        /\ pc'[k] # "delete" => todo'[k] = {}
                        /\ pc'[k] = "drop" => pc[k] = "drop"
    BY <1>17 DEF SetupMake, eventVars, past, Goto
  <2> QED BY <2>1, <2>2, QuietVisible
<1>18. ASSUME NEW j \in Jobs, SetupDetect(j) PROVE VisibleInv'
  <2>1. UNCHANGED <<docs, unsent, expired, fresh, safe, taken, botched>>
    BY <1>18 DEF SetupDetect, aliasVars, eventVars, past, Goto, End
  <2>2. \A k \in Jobs : /\ todo'[k] \subseteq todo[k]
                        /\ pc'[k] # "delete" => todo'[k] = {}
                        /\ pc'[k] = "drop" => pc[k] = "drop"
    BY <1>18 DEF SetupDetect, aliasVars, eventVars, past, Goto, End
  <2> QED BY <2>1, <2>2, QuietVisible
<1>19. ASSUME NEW j \in Jobs, SetupPolicy(j) PROVE VisibleInv'
  <2>1. UNCHANGED <<docs, unsent, expired, fresh, safe, taken, botched>>
    BY <1>19 DEF SetupPolicy, aliasVars, eventVars, past, End
  <2>2. \A k \in Jobs : /\ todo'[k] \subseteq todo[k]
                        /\ pc'[k] # "delete" => todo'[k] = {}
                        /\ pc'[k] = "drop" => pc[k] = "drop"
    BY <1>19 DEF SetupPolicy, aliasVars, eventVars, past, End
  <2> QED BY <2>1, <2>2, QuietVisible
<1>20. ASSUME NEW j \in Jobs, HouseList(j) PROVE VisibleInv'
  <2>1. UNCHANGED <<docs, unsent, expired, fresh, safe, taken, botched>>
    BY <1>20 DEF HouseList, aliasVars, eventVars, past
  <2>2. /\ todo' = [todo EXCEPT ![j] = {g \in exists \cap Gens : docs[g] \subseteq fresh}]
        /\ pc' = [pc EXCEPT ![j] = "delete"]
    BY <1>20 DEF HouseList
  <2>3. \A k \in Jobs : \A g \in todo'[k] : docs'[g] \cap safe' = {}
    BY <2>1, <2>2
  <2> QED BY <2>1, <2>2, <2>3
<1>21. ASSUME NEW j \in Jobs, HouseDelete(j) PROVE VisibleInv'
  <2>0. Gens \subseteq Indices /\ Boot \in Indices /\ Boot \notin Gens /\ Direct \notin Gens
    BY DEF Indices, Gens, Boot, Direct
  <2>1. PICK g \in todo[j] : /\ docs' = [docs EXCEPT ![g] = {}]
                             /\ todo' = [todo EXCEPT ![j] = @ \ {g}]
    BY <1>21 DEF HouseDelete, DeleteIndex
  <2>2. UNCHANGED <<taken, fresh, unsent, pc, safe, expired, botched>>
    BY <1>21 DEF HouseDelete
  <2>3. g \in Gens /\ docs[g] \cap safe = {}
    BY <2>1
  <2>4. /\ docs'[g] = {}
        /\ \A k \in (Indices \cup {Direct}) \ {g} : docs'[k] = docs[k]
    BY <2>0, <2>1, <2>3
  <2>5. VisibleKept'
    BY <2>2, <2>3, <2>4
  <2>6. \A k \in Indices \cup {Direct} : docs'[k] \subseteq docs[k]
    BY <2>4
  <2>7. \A k \in Indices \cup {Direct} : docs'[k] \cap unsent' = {}
    BY <2>2, <2>6
  <2>8. \A k \in Jobs : todo'[k] \subseteq todo[k]
    BY <2>1
  <2>9. \A k \in Jobs : \A h \in todo'[k] : docs'[h] \cap safe' = {}
    BY <2>0, <2>2, <2>6, <2>8
  <2>10. docs'[Direct] = docs[Direct] /\ docs'[Boot] = docs[Boot]
    BY <2>0, <2>3, <2>4
  <2> QED BY <2>2, <2>5, <2>7, <2>8, <2>9, <2>10
<1>22. ASSUME NEW j \in Jobs, HouseEnd(j) PROVE VisibleInv'
  <2>1. UNCHANGED <<docs, unsent, expired, fresh, safe, taken, botched>>
    BY <1>22 DEF HouseEnd, aliasVars, eventVars, past, End
  <2>2. \A k \in Jobs : /\ todo'[k] \subseteq todo[k]
                        /\ pc'[k] # "delete" => todo'[k] = {}
                        /\ pc'[k] = "drop" => pc[k] = "drop"
    BY <1>22 DEF HouseEnd, aliasVars, eventVars, past, End
  <2> QED BY <2>1, <2>2, QuietVisible
<1>23. ASSUME NEW j \in Jobs, BootFirst(j) PROVE VisibleInv'
  <2>1. UNCHANGED <<docs, unsent, expired, fresh, safe, taken, botched>>
    BY <1>23 DEF BootFirst, eventVars, past, Goto
  <2>2. \A k \in Jobs : /\ todo'[k] \subseteq todo[k]
                        /\ pc'[k] # "delete" => todo'[k] = {}
                        /\ pc'[k] = "drop" => pc[k] = "drop"
    BY <1>23 DEF BootFirst, eventVars, past, Goto
  <2> QED BY <2>1, <2>2, QuietVisible
<1>24. ASSUME NEW j \in Jobs, BootMove(j) PROVE VisibleInv'
  <2>1. UNCHANGED <<docs, unsent, expired, fresh, safe, taken, botched>>
    BY <1>24 DEF BootMove, eventVars, past, Goto
  <2>2. \A k \in Jobs : /\ todo'[k] \subseteq todo[k]
                        /\ pc'[k] # "delete" => todo'[k] = {}
                        /\ pc'[k] = "drop" => pc[k] = "drop"
    BY <1>24 DEF BootMove, eventVars, past, Goto
  <2> QED BY <2>1, <2>2, QuietVisible
<1>25. ASSUME NEW j \in Jobs, BootDirect(j) PROVE VisibleInv'
  <2>1. UNCHANGED <<docs, unsent, expired, fresh, safe, taken, botched>>
    BY <1>25 DEF BootDirect, aliasVars, eventVars, past, Goto, End
  <2>2. \A k \in Jobs : /\ todo'[k] \subseteq todo[k]
                        /\ pc'[k] # "delete" => todo'[k] = {}
                        /\ pc'[k] = "drop" => pc[k] = "drop"
    BY <1>25 DEF BootDirect, aliasVars, eventVars, past, Goto, End
  <2> QED BY <2>1, <2>2, QuietVisible
<1>26. ASSUME NEW j \in Jobs, BootCopy(j) PROVE VisibleInv'
  <2>0. Boot \in Indices /\ Direct \notin Indices /\ Boot \notin Gens /\ Gens \subseteq Indices
    BY DEF Direct, Indices, Gens, Boot
  <2>1. /\ pc' = [pc EXCEPT ![j] = "drop"]
        /\ UNCHANGED <<todo, taken, fresh, unsent, expired, safe>>
    BY <1>26 DEF BootCopy, Goto, aliasVars
  <2> DEFINE source == IF taken THEN {Direct} ELSE members
             copied == (UNION {docs[i] : i \in source}) \ fresh
  <2>2. CASE botched' = TRUE /\ UNCHANGED docs
    <3>1. \A k \in Jobs : pc'[k] # "delete" => todo'[k] = {}
      BY <1>26, <2>1 DEF BootCopy
    <3> QED BY <2>1, <2>2, <3>1
  <2>3. CASE /\ docs' = IF Boot \in source THEN docs ELSE [docs EXCEPT ![Boot] = @ \cup copied]
             /\ UNCHANGED botched
    <3>1. /\ docs'[Boot] = docs[Boot] \/ docs'[Boot] = docs[Boot] \cup copied
          /\ \A k \in (Indices \cup {Direct}) \ {Boot} : docs'[k] = docs[k]
      BY <2>0, <2>3
    <3>2. \A k \in Indices \cup {Direct} : docs[k] \subseteq docs'[k]
      BY <3>1
    <3>3. source \subseteq Indices \cup {Direct}
      OBVIOUS
    <3>4. copied \cap unsent = {}
      BY <3>3
    <3>5. \A k \in Indices \cup {Direct} : docs'[k] \cap unsent' = {}
      BY <2>1, <3>1, <3>4
    <3>6. \A k \in Jobs : \A g \in todo'[k] : docs'[g] \cap safe' = {}
      BY <2>0, <2>1, <3>1
    <3>7. docs[Direct] \cap safe \subseteq docs'[Boot]
      <4>1. CASE taken
        <5>1. Direct \in source /\ Boot \notin source
          BY <2>0, <4>1
        <5>2. docs[Direct] \subseteq UNION {docs[i] : i \in source}
          BY <5>1, PartOfUnion
        <5>3. docs'[Boot] = docs[Boot] \cup copied
          BY <2>0, <2>3, <5>1
        <5>4. safe \cap fresh = {}
          OBVIOUS
        <5> HIDE DEF source
        <5>5. docs[Direct] \ fresh \subseteq docs'[Boot]
          BY <5>2, <5>3
        <5> QED BY <5>4, <5>5
      <4>2. CASE ~taken
        BY <4>2
      <4> QED BY <4>1, <4>2
    <3>8. docs'[Direct] = docs[Direct]
      BY <2>0, <3>1
    <3>9. VisibleKept'
      BY <2>1, <2>3, <3>2
    <3>10. \A k \in Jobs : pc'[k] = "drop" /\ ~botched' => docs'[Direct] \cap safe' \subseteq docs'[Boot]
      BY <2>1, <2>3, <3>7, <3>8
    <3>11. \A k \in Jobs : pc'[k] # "delete" => todo'[k] = {}
      BY <1>26, <2>1 DEF BootCopy
    <3> QED BY <2>1, <2>3, <3>5, <3>6, <3>8, <3>9, <3>10, <3>11
  <2> QED BY <1>26, <2>2, <2>3 DEF BootCopy
<1>27. ASSUME NEW j \in Jobs, BootDrop(j) PROVE VisibleInv'
  <2>0. Boot \in Indices /\ Direct \notin Indices /\ Gens \subseteq Indices
    BY DEF Direct, Indices, Gens, Boot
  <2>1. /\ pc[j] = "drop" /\ taken' = FALSE /\ docs' = [docs EXCEPT ![Direct] = {}]
        /\ UNCHANGED <<fresh, unsent, expired, safe, botched>>
    BY <1>27 DEF BootDrop, past
  <2>2. \A k \in Jobs : /\ todo'[k] \subseteq todo[k]
                        /\ pc'[k] # "delete" => todo'[k] = {}
                        /\ pc'[k] = "drop" => pc[k] = "drop"
    BY <1>27 DEF BootDrop, End
  <2>3. docs'[Direct] = {} /\ \A k \in Indices : docs'[k] = docs[k]
    BY <2>0, <2>1
  <2>4. VisibleKept'
    <3>1. ~botched => docs[Direct] \cap safe \subseteq docs[Boot]
      BY <2>1
    <3> QED BY <2>0, <2>1, <2>3, <3>1
  <2>5. \A k \in Indices \cup {Direct} : docs'[k] \cap unsent' = {}
    BY <2>1, <2>3
  <2>6. \A k \in Jobs : \A g \in todo'[k] : docs'[g] \cap safe' = {}
    BY <2>0, <2>1, <2>2, <2>3
  <2> QED BY <2>1, <2>2, <2>3, <2>4, <2>5, <2>6
<1> QED
  BY <1>1, <1>2, <1>3, <1>4, <1>5, <1>6, <1>7, <1>8, <1>9, <1>10, <1>11, <1>12,
     <1>13, <1>14, <1>15, <1>16, <1>17, <1>18, <1>19, <1>20, <1>21, <1>22, <1>23,
     <1>24, <1>25, <1>26, <1>27
  DEF Next, Script, Policies, Setup, Housekeeping, Bootstrap

LEMMA IndInv == Spec => [](TypeOK /\ WriterInv /\ VisibleInv)
<1>1. TypeOK /\ WriterInv /\ VisibleInv /\ [Next]_vars
      => TypeOK' /\ WriterInv' /\ VisibleInv'
  BY TypeOKStep, WriterInvStep, VisibleInvStep
<1> QED BY <1>1, InitInv, PTL DEF Spec

\* The alias, the indices and the scripts keep their types: in particular the
\* alias never names an index that was deleted.
THEOREM TypeCorrect == Spec => []TypeOK
BY IndInv, PTL

\* For every number of terminals, indices and killed scripts: until
\* housekeeping.sh deletes a write index the alias writes to the newest one,
\* which after bootstrap_alias_logs_default.sh is that script's own.
THEOREM WriterAlwaysStays == Spec => []WriterStays
<1>1. WriterInv => WriterStays
  BY DEF WriterInv, WriterStays
<1> QED BY <1>1, IndInv, PTL

\* The scripts delete no event that was visible before they started, unless
\* the _reindex of the bootstrap script fails.
THEOREM VisibleAlwaysKept == Spec => []VisibleKept
<1>1. VisibleInv => VisibleKept
  BY DEF VisibleInv
<1> QED BY <1>1, IndInv, PTL

\* An edit of the policy is overwritten only by a run that has read it.
THEOREM EditsAlwaysSurvive == Spec => EditsSurvive
<1> DEFINE Survives == policy = "edited" /\ policy' = "file" =>
                          \E j \in Jobs : pc[j] = "put" /\ pc'[j] = "load" /\ seen[j] = "current"
<1>1. TypeOK /\ [Next]_vars => [Survives]_vars
  <2> SUFFICES ASSUME TypeOK, [Next]_vars, policy = "edited", policy' = "file"
               PROVE  Survives
    OBVIOUS
  <2>1. PICK j \in Jobs : PolicyPut(j)
    BY DEF Next, vars, Rollover, Refresh, EditPolicy, Retain, Index, Start, Script,
           Policies, Setup, Housekeeping, Bootstrap, Killed, PolicyGet, PolLoad, PolStop,
           PolCheck, PolCreate, PolAlias, SetupLook, SetupMake, SetupDetect, SetupPolicy,
           HouseList, HouseDelete, HouseEnd, BootFirst, BootMove, BootDirect, BootCopy,
           BootDrop
  <2> QED BY <2>1 DEF PolicyPut, TypeOK
<1> QED BY <1>1, IndInv, PTL DEF Spec, EditsSurvive
=============================================================================
