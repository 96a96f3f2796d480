------------------------------ MODULE Delivery ------------------------------
(***************************************************************************)
(* What the delivery pipeline promises its producers, without its          *)
(* machinery: a published message is pending until it is settled, it is    *)
(* settled only once a copy of it is held in the tenant's index or in the  *)
(* dead-letter queue, an invalid event never gets into an index, and       *)
(* nothing more happens to a message after it is settled.  A copy may be   *)
(* made any number of times before that: the promise is at-least-once.     *)
(***************************************************************************)

CONSTANTS Msgs,
          Invalid     \* the messages whose body the pipeline rejects

VARIABLES status,     \* of each message: unsent, pending or settled
          held        \* where copies of it are kept

vars == <<status, held>>

Places == {"index", "dlq"}

TypeOK ==
    /\ status \in [Msgs -> {"unsent", "pending", "settled"}]
    /\ held \in [Msgs -> SUBSET Places]

Init ==
    /\ status = [m \in Msgs |-> "unsent"]
    /\ held = [m \in Msgs |-> {}]

Publish(m) ==
    /\ status[m] = "unsent"
    /\ status' = [status EXCEPT ![m] = "pending"]
    /\ UNCHANGED held

Hold(m, place) ==
    /\ status[m] = "pending"
    /\ m \in Invalid => place = "dlq"
    /\ held' = [held EXCEPT ![m] = @ \cup {place}]
    /\ UNCHANGED status

Settle(m) ==
    /\ status[m] = "pending"
    /\ held[m] # {}
    /\ status' = [status EXCEPT ![m] = "settled"]
    /\ UNCHANGED held

\* The broker dead-letters and settles a message in one step.
SettleDead(m) ==
    /\ status[m] = "pending"
    /\ status' = [status EXCEPT ![m] = "settled"]
    /\ held' = [held EXCEPT ![m] = @ \cup {"dlq"}]

Next ==
    \E m \in Msgs :
        \/ Publish(m)
        \/ \E place \in Places : Hold(m, place)
        \/ Settle(m)
        \/ SettleDead(m)

Spec == Init /\ [][Next]_vars

\* A pending message does not stay pending for ever.
LiveSpec == Spec /\ \A m \in Msgs : WF_vars(Settle(m) \/ SettleDead(m))
=============================================================================
