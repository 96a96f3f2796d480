--------------------------- MODULE IndexLifecycle ---------------------------
(***************************************************************************)
(* The alias logs-default and the indices logs-default-00000N behind it:   *)
(* made by scripts/apply_policies.py or setup.sh, written by the consumer, *)
(* rolled over and deleted by age in OpenSearch under the policy of        *)
(* policies/ism_logs_default.json, cleaned by housekeeping.sh, and taken   *)
(* over by bootstrap_alias_logs_default.sh for an index of its own (the    *)
(* shell scripts are in docs/operational/opensearch).  The scripts look,   *)
(* and act on what they saw one or more requests later.  TenantOnboarding  *)
(* has the time before the alias exists, this module the time after.       *)
(***************************************************************************)
EXTENDS Naturals, FiniteSets

CONSTANTS Jobs,         \* terminals in which the operator runs scripts
          Events,
          MaxIndex,     \* bound: indices the alias rolls through
          MaxFaults     \* bound: killed scripts and failed requests

ASSUME LifecycleAssumption ==
    /\ MaxIndex \in Nat \ {0}
    /\ MaxFaults \in Nat

Gens == 1 .. MaxIndex
Boot == MaxIndex + 1    \* logs_default_000001, of the bootstrap script
Indices == Gens \cup {Boot}
None == 0       \* no write index
Direct == 0     \* in docs: the index of the name logs-default itself

VARIABLES
    \* OpenSearch
    exists,     \* the indices there are
    members,    \* those the alias names
    writer,     \* the one with is_write_index, or None
    rolled,     \* those that have rolled over, and wait for their deletion
    taken,      \* logs-default is an index
    docs,       \* the events each index holds
    fresh,      \* stored events no refresh has made visible yet
    policy,     \* the policy: absent, as in the file, or edited by hand; or that
                \* of setup.sh, of the same pattern and priority, in its place
    \* the others
    pc,         \* of each terminal: where the script is that runs in it
    todo,       \* the indices housekeeping.sh has yet to delete
    seen,       \* the policy that was read: there still, changed since, or none
    unsent,     \* events the consumer has not indexed yet
    \* history
    top,        \* the newest index that ever was the write index; Boot is the newest
    unwritten,  \* housekeeping has deleted a write index
    safe,       \* events that were visible when a script started and no other ran
    expired,    \* events the policy has deleted
    botched,    \* a _reindex of the bootstrap script has failed
    faults

aliasVars == <<exists, members, writer, rolled, taken>>
eventVars == <<docs, fresh, unsent, expired>>
job == <<pc, todo, seen>>
past == <<unwritten, safe, botched>>
vars == <<exists, members, writer, rolled, taken, docs, fresh, unsent, expired,
          policy, pc, todo, seen, top, unwritten, safe, botched, faults>>

\* off; apply_policies.py: get, put, load, check, create, alias; setup.sh:
\* look, make, detect, policy; housekeeping.sh: list, delete; the bootstrap
\* script: first, move, direct, copy, drop
Pcs == {"off", "get", "put", "load", "check", "create", "alias", "look", "make", "detect",
        "policy", "list", "delete", "first", "move", "direct", "copy", "drop"}
Firsts == {"get", "look", "list", "first"}

Stored == UNION {docs[i] : i \in Indices \cup {Direct}}

TypeOK ==
    /\ exists \in SUBSET Indices
    /\ members \in SUBSET exists
    /\ writer \in members \cup {None}
    /\ rolled \in SUBSET (exists \cap Gens)
    /\ taken \in BOOLEAN
    /\ docs \in [Indices \cup {Direct} -> SUBSET Events]
    /\ fresh \in SUBSET Events
    /\ policy \in {"absent", "file", "edited", "setup"}
    /\ pc \in [Jobs -> Pcs]
    /\ todo \in [Jobs -> SUBSET Gens]
    /\ seen \in [Jobs -> {"nothing", "current", "stale"}]
    /\ unsent \in SUBSET Events
    /\ top \in Indices \cup {None}
    /\ unwritten \in BOOLEAN
    /\ safe \in SUBSET Events
    /\ expired \in SUBSET Events
    /\ botched \in BOOLEAN
    /\ faults \in 0 .. MaxFaults

Init ==
    /\ exists = {} /\ members = {} /\ writer = None /\ rolled = {}
    /\ taken = FALSE
    /\ docs = [i \in Indices \cup {Direct} |-> {}]
    /\ fresh = {}
    /\ policy = "absent"
    /\ pc = [j \in Jobs |-> "off"]
    /\ todo = [j \in Jobs |-> {}]
    /\ seen = [j \in Jobs |-> "nothing"]
    /\ unsent = Events
    /\ top = None
    /\ unwritten = FALSE
    /\ safe = {}
    /\ expired = {}
    /\ botched = FALSE
    /\ faults = 0

-----------------------------------------------------------------------------
(* OpenSearch *)

NewWriter(g) ==
    /\ writer' = g
    /\ top' = IF g > top THEN g ELSE top

\* What deleting an index takes with it.
DeleteIndex(g) ==
    /\ exists' = exists \ {g}
    /\ members' = members \ {g}
    /\ writer' = IF writer = g THEN None ELSE writer
    /\ rolled' = rolled \ {g}
    /\ docs' = [docs EXCEPT ![g] = {}]

\* Rollover, by the policy or by hand (POST logs-default/_rollover): refused
\* when the next name exists, and for Boot, whose name ends in no -NNNNNN.
Rollover ==
    /\ writer # None
    /\ writer + 1 \in Gens \ exists
    /\ exists' = exists \cup {writer + 1}
    /\ members' = members \cup {writer + 1}
    /\ rolled' = rolled \cup {writer}
    /\ NewWriter(writer + 1)
    /\ UNCHANGED <<taken, eventVars, policy, job, past, faults>>

\* The state delete comes after the rollover, at the age in the policy, which
\* is some time or other here.
Retain(g) ==
    /\ g \in rolled
    /\ DeleteIndex(g)
    /\ expired' = expired \cup docs[g]
    /\ UNCHANGED <<taken, fresh, policy, job, unsent, top, past, faults>>

Refresh ==
    /\ fresh' = {}
    /\ UNCHANGED <<aliasVars, docs, policy, job, unsent, top, past, expired, faults>>

\* index_event() into logs-default: an index of that name, made for the event
\* if there is no alias; or the write index; or a refusal, and the DLQ.
Index(e) ==
    /\ e \in unsent
    /\ unsent' = unsent \ {e}
    /\ taken' = (taken \/ members = {})
    /\ LET i == IF taken' THEN Direct ELSE writer IN
       IF taken' \/ writer # None
       THEN docs' = [docs EXCEPT ![i] = @ \cup {e}] /\ fresh' = fresh \cup {e}
       ELSE UNCHANGED <<docs, fresh>>
    /\ UNCHANGED <<exists, members, writer, rolled, policy, job, top, past, expired,
                   faults>>

-----------------------------------------------------------------------------
(* The scripts *)

Running == {j \in Jobs : pc[j] # "off"}
Goto(j, l) == pc' = [pc EXCEPT ![j] = l] /\ UNCHANGED <<todo, seen>>

End(j) ==
    /\ pc' = [pc EXCEPT ![j] = "off"]
    /\ todo' = [todo EXCEPT ![j] = {}]
    /\ seen' = [seen EXCEPT ![j] = "nothing"]

\* A script starts, at the label first.
Start(j, first) ==
    /\ pc[j] = "off"
    /\ Goto(j, first)
    /\ safe' = IF Running = {} THEN safe \cup (Stored \ fresh) ELSE safe
    /\ UNCHANGED <<aliasVars, eventVars, policy, top, unwritten, botched, faults>>

Killed(j) ==
    /\ pc[j] # "off"
    /\ faults < MaxFaults
    /\ faults' = faults + 1
    /\ End(j)
    /\ UNCHANGED <<aliasVars, eventVars, policy, top, past>>

(* scripts/apply_policies.py *)

\* get_existing_policy() and the comparison, which APPLY_POLICIES_FORCE does
\* without.  Any answer but 200 reads as "there is none".
PolicyGet(j) ==
    /\ pc[j] = "get"
    /\ \/ policy = "file" /\ Goto(j, "load")
       \/ /\ policy \in {"file", "edited"}
          /\ pc' = [pc EXCEPT ![j] = "put"]
          /\ seen' = [seen EXCEPT ![j] = "current"]
          /\ UNCHANGED todo
       \/ Goto(j, "put")
    /\ UNCHANGED <<aliasVars, eventVars, policy, top, past, faults>>

\* What the scripts have seen once the policy has changed.
Outdated == [j \in Jobs |-> IF seen[j] = "current" THEN "stale" ELSE seen[j]]

PolicyPutUnconditional(j) ==  \* mutant
    /\ pc[j] = "put"
    /\ pc' = [pc EXCEPT ![j] = "load"]
    /\ policy' = "file"
    /\ seen' = [Outdated EXCEPT ![j] = "nothing"]
    /\ UNCHANGED <<aliasVars, todo, eventVars, top, past, faults>>

\* The update carries if_seq_no and is refused if the policy has changed; so
\* is a creation if there is one, or another of the same pattern and priority.
\* A refusal is logged, not retried.
PolicyPut(j) ==
    /\ pc[j] = "put"
    /\ pc' = [pc EXCEPT ![j] = "load"]
    /\ IF \/ seen[j] = "nothing" /\ policy = "absent"
          \/ seen[j] = "current"
       THEN policy' = "file" /\ seen' = [Outdated EXCEPT ![j] = "nothing"]
       ELSE seen' = [seen EXCEPT ![j] = "nothing"] /\ UNCHANGED policy
    /\ UNCHANGED <<aliasVars, todo, eventVars, top, past, faults>>

\* main() goes on to the tenants, and comes to the default one ...
PolLoad(j) ==
    /\ pc[j] = "load"
    /\ Goto(j, "check")
    /\ UNCHANGED <<aliasVars, eventVars, policy, top, past, faults>>

\* ... unless there is no config/tenants.json, or no JSON or no list in it, or an
\* entry before raises (one that is no object, or has no policy_id), or that of
\* the default tenant is missing, inactive or without a policy_id.  The file may
\* be edited at any time.
PolStop(j) ==
    /\ pc[j] = "load"
    /\ End(j)
    /\ UNCHANGED <<aliasVars, eventVars, policy, top, past, faults>>

PolCheckTrusts(j) ==  \* mutant
    /\ pc[j] = "check"
    /\ IF 1 \in exists THEN End(j) ELSE Goto(j, "create")
    /\ UNCHANGED <<aliasVars, eventVars, policy, top, past, faults>>

\* ensure_index_and_alias(): GET of the first index.
PolCheck(j) ==
    /\ pc[j] = "check"
    /\ Goto(j, IF 1 \in exists THEN "alias" ELSE "create")
    /\ UNCHANGED <<aliasVars, eventVars, policy, top, past, faults>>

\* PUT of the index; a refusal ends the work on this tenant.
PolCreate(j) ==
    /\ pc[j] = "create"
    /\ exists' = exists \cup {1}
    /\ IF 1 \in exists THEN End(j) ELSE Goto(j, "alias")
    /\ UNCHANGED <<members, writer, rolled, taken, eventVars, policy, top, past,
                   faults>>

PolAliasMoves(j) ==  \* mutant
    /\ pc[j] = "alias"
    /\ End(j)
    /\ IF 1 \in exists /\ ~taken
       THEN members' = members \cup {1} /\ NewWriter(1)
       ELSE UNCHANGED <<members, writer, top>>
    /\ UNCHANGED <<exists, rolled, taken, eventVars, policy, past, faults>>

\* POST _aliases with is_write_index.  OpenSearch refuses a second write index,
\* a missing index and the name of an index.  Then the policy is attached,
\* which the index has by its name already.
PolAlias(j) ==
    /\ pc[j] = "alias"
    /\ End(j)
    /\ IF 1 \in exists /\ ~taken /\ writer \in {None, 1}
       THEN members' = members \cup {1} /\ NewWriter(1)
       ELSE UNCHANGED <<members, writer, top>>
    /\ UNCHANGED <<exists, rolled, taken, eventVars, policy, past, faults>>

Policies(j) ==
    PolicyGet(j) \/ PolicyPut(j) \/ PolLoad(j) \/ PolStop(j) \/ PolCheck(j)
    \/ PolCreate(j) \/ PolAlias(j)

(* setup.sh *)

\* grep finds "index" in OpenSearch's answer whether the first index is there or
\* not, and so the script makes one only after no answer at all.
SetupLook(j) ==
    /\ pc[j] = "look"
    /\ \/ Goto(j, "detect") /\ UNCHANGED faults
       \/ Goto(j, "make") /\ faults < MaxFaults /\ faults' = faults + 1
    /\ UNCHANGED <<aliasVars, eventVars, policy, top, past>>

\* PUT of the first index with the alias; what OpenSearch refuses is printed.
SetupMake(j) ==
    /\ pc[j] = "make"
    /\ Goto(j, "detect")
    /\ IF 1 \notin exists /\ ~taken /\ writer = None
       THEN exists' = exists \cup {1} /\ members' = members \cup {1} /\ NewWriter(1)
       ELSE UNCHANGED <<exists, members, writer, top>>
    /\ UNCHANGED <<rolled, taken, eventVars, policy, past, faults>>

\* The write index is looked up; jq fails when there is no alias, and with it
\* the script.  The settings it then gives that index are those of the template.
SetupDetect(j) ==
    /\ pc[j] = "detect"
    /\ IF members = {} THEN End(j) ELSE Goto(j, "policy")
    /\ UNCHANGED <<aliasVars, eventVars, policy, top, past, faults>>

\* PUT of logs-default-ism: refused when it is there, or the policy of
\* apply_policies.py, which has its pattern and its priority.  Attaching it, and
\* the _update_by_query, which writes every event of the write index again in
\* its place, change nothing here.
SetupPolicy(j) ==
    /\ pc[j] = "policy"
    /\ End(j)
    /\ policy' = IF policy = "absent" THEN "setup" ELSE policy
    /\ UNCHANGED <<aliasVars, eventVars, top, past, faults>>

(* housekeeping.sh *)

ListEverything(j) ==  \* mutant
    /\ pc[j] = "list"
    /\ pc' = [pc EXCEPT ![j] = "delete"]
    /\ todo' = [todo EXCEPT ![j] = exists \cap Gens]
    /\ UNCHANGED <<seen, aliasVars, eventVars, policy, top, past, faults>>

\* docs.count = 0: what no refresh has shown yet does not count.  Boot is not
\* logs-default-*.
HouseList(j) ==
    /\ pc[j] = "list"
    /\ pc' = [pc EXCEPT ![j] = "delete"]
    /\ todo' = [todo EXCEPT ![j] = {g \in exists \cap Gens : docs[g] \subseteq fresh}]
    /\ UNCHANGED <<seen, aliasVars, eventVars, policy, top, past, faults>>

HouseDelete(j) ==
    /\ pc[j] = "delete"
    /\ \E g \in todo[j] :
          /\ DeleteIndex(g)
          /\ unwritten' = (unwritten \/ g = writer)
          /\ todo' = [todo EXCEPT ![j] = @ \ {g}]
    /\ UNCHANGED <<pc, seen, taken, fresh, policy, unsent, top, safe, botched, expired, faults>>

HouseEnd(j) ==
    /\ pc[j] = "delete" /\ todo[j] = {}
    /\ End(j)
    /\ UNCHANGED <<aliasVars, eventVars, policy, top, past, faults>>

(* bootstrap_alias_logs_default.sh *)

\* HEAD and PUT of its index: there before or not, it is there now.
BootFirst(j) ==
    /\ pc[j] = "first"
    /\ Goto(j, "move")
    /\ exists' = exists \cup {Boot}
    /\ UNCHANGED <<members, writer, rolled, taken, eventVars, policy, top, past,
                   faults>>

\* POST _aliases: away from every index and to this one, both or, when an index
\* has the name or this one is not there, neither.
BootMove(j) ==
    /\ pc[j] = "move"
    /\ Goto(j, "direct")
    /\ IF Boot \in exists /\ ~taken
       THEN members' = {Boot} /\ NewWriter(Boot)
       ELSE UNCHANGED <<members, writer, top>>
    /\ UNCHANGED <<exists, rolled, taken, eventVars, policy, past, faults>>

\* HEAD of logs-default, which answers 200 for an alias too.
BootDirect(j) ==
    /\ pc[j] = "direct"
    /\ IF taken \/ members # {} THEN Goto(j, "copy") ELSE End(j)
    /\ UNCHANGED <<aliasVars, eventVars, policy, top, past, faults>>

\* POST _reindex: what a search finds under the name is copied; OpenSearch
\* refuses to copy an index into itself.  Or it fails, and the script goes on.
BootCopy(j) ==
    /\ pc[j] = "copy"
    /\ Goto(j, "drop")
    /\ LET source == IF taken THEN {Direct} ELSE members IN
       \/ /\ docs' = IF Boot \in source
                    THEN docs
                    ELSE [docs EXCEPT ![Boot] = @ \cup ((UNION {docs[i] : i \in source}) \ fresh)]
          /\ UNCHANGED <<botched, faults>>
       \/ /\ faults < MaxFaults
          /\ faults' = faults + 1
          /\ botched' = TRUE
          /\ UNCHANGED docs
    /\ UNCHANGED <<aliasVars, fresh, unsent, expired, policy, top, unwritten, safe>>

\* DELETE of logs-default, which OpenSearch refuses for an alias.
BootDrop(j) ==
    /\ pc[j] = "drop"
    /\ End(j)
    /\ taken' = FALSE
    /\ docs' = [docs EXCEPT ![Direct] = {}]
    /\ UNCHANGED <<exists, members, writer, rolled, fresh, unsent, expired, policy,
                   top, past, faults>>

Setup(j) == SetupLook(j) \/ SetupMake(j) \/ SetupDetect(j) \/ SetupPolicy(j)
Housekeeping(j) == HouseList(j) \/ HouseDelete(j) \/ HouseEnd(j)
Bootstrap(j) ==
    BootFirst(j) \/ BootMove(j) \/ BootDirect(j) \/ BootCopy(j) \/ BootDrop(j)
Script(j) == Policies(j) \/ Setup(j) \/ Housekeeping(j) \/ Bootstrap(j)

\* Somebody edits the policy in OpenSearch.
EditPolicy ==
    /\ policy \in {"file", "edited"}
    /\ policy' = "edited"
    /\ seen' = Outdated
    /\ UNCHANGED <<pc, todo, aliasVars, eventVars, top, past, faults>>

Next ==
    \/ Rollover \/ Refresh \/ EditPolicy
    \/ \E g \in Gens : Retain(g)
    \/ \E e \in Events : Index(e)
    \/ \E j \in Jobs : \E l \in Firsts : Start(j, l)
    \/ \E j \in Jobs : Script(j) \/ Killed(j)

Spec == Init /\ [][Next]_vars

\* Scripts end, and the operator runs apply_policies.py again and again.
FairSpec ==
    /\ Spec
    /\ \A j \in Jobs : WF_vars(Script(j)) /\ SF_vars(Start(j, "get"))

-----------------------------------------------------------------------------
(* Properties *)

\* From the first write index on the alias writes to the newest one, though
\* apply_policies.py asks for the first index again on every run and the policy
\* deletes indices at any time; and from bootstrap_alias_logs_default.sh on to
\* the index of that script, which no other script takes the alias from and
\* none deletes.  This ends when housekeeping.sh deletes a write index that
\* has no visible event yet, as every new one.  (That an alias has at most
\* one write index is OpenSearch's rule; what README_OPERATIONS.md:169 does by
\* hand to the alias is not modelled.)
WriterStays == top # None /\ ~unwritten => writer = top

\* An event that could be seen before the scripts started is in some index
\* until the policy deletes it: the empty indices housekeeping.sh deletes
\* hold none, and the bootstrap script deletes logs-default after it has
\* copied it, unless the _reindex has failed.  (An event stored later, or
\* shortly before, has no such promise.)
VisibleKept == ~botched => safe \subseteq Stored \cup expired

\* apply_policies.py never overwrites an edit of the policy it has not read,
\* and what it does overwrite it has compared with its file.
EditsSurvive ==
    [][policy = "edited" /\ policy' = "file" =>
          \E j \in Jobs : pc[j] = "put" /\ pc'[j] = "load" /\ seen[j] = "current"]_vars

\* Whatever housekeeping.sh has deleted and the bootstrap script has moved,
\* running apply_policies.py again makes the alias writable again, unless an
\* event came first and took its name.  It takes a config/tenants.json that from
\* some time on always brings main() to the default tenant, and that
\* housekeeping.sh is not run for ever (beside it, it can delete each first
\* index before its alias is made).
AliasComesBack ==
    /\ <>[][\A j \in Jobs : ~PolStop(j)]_vars
    /\ <>[](\A j \in Jobs : pc[j] \notin {"list", "delete"})
    => []<>(writer # None \/ taken)
=============================================================================
