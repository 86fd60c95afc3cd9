------------------------------ MODULE PaidWork ------------------------------
(***************************************************************************)
(* What the paid-work adapter of delta/providers/acp.py promises, without   *)
(* attempts, heads, calls, commands or crashes: a job is opened, funded and *)
(* completed only with money reserved for just that, within the plan's cap; *)
(* an input has at most one live job; and what is handed out for an input   *)
(* is a completed job of its own.  Nothing is said of how often a           *)
(* reservation is made or a result replaced.                               *)
(***************************************************************************)
EXTENDS Naturals

CONSTANTS
    Inputs,     \* what work may be asked for
    Jobs,       \* the provider's jobs
    Actions,    \* what money may be reserved for
    Totals,     \* the totals of the plan's approvals
    None

VARIABLES
    reserved,   \* the inputs and actions there is a reservation for
    spent,      \* the sum of the reservations
    status,     \* [Jobs -> job states and "absent"]
    asker,      \* [Jobs -> Inputs \cup {None}]: whom a job is for
    result      \* [Inputs -> Jobs \cup {None}]: the job whose output is reused

vars == <<reserved, spent, status, asker, result>>

Live == {"open", "funded"}

Init ==
    /\ reserved = {}
    /\ spent = 0
    /\ status = [j \in Jobs |-> "absent"]
    /\ asker = [j \in Jobs |-> None]
    /\ result = [i \in Inputs |-> None]

Reserve(i, action) ==
    /\ reserved' = reserved \cup {<<i, action>>}
    /\ spent' >= spent
    /\ \E total \in Totals : spent' <= total
    /\ UNCHANGED <<status, asker, result>>

Open(i, j) ==
    /\ <<i, "create_job">> \in reserved
    /\ status[j] = "absent"
    /\ \A other \in Jobs : status[other] \in Live => asker[other] # i
    /\ status' = [status EXCEPT ![j] = "open"]
    /\ asker' = [asker EXCEPT ![j] = i]
    /\ UNCHANGED <<reserved, spent, result>>

Move(j, from, to) ==
    /\ status[j] \in from
    /\ status' = [status EXCEPT ![j] = to]
    /\ UNCHANGED <<reserved, spent, asker, result>>

Fund(j) == <<asker[j], "fund">> \in reserved /\ Move(j, {"open"}, "funded")
Complete(j) == <<asker[j], "complete">> \in reserved /\ Move(j, {"funded"}, "completed")
End(j) == Move(j, Live, "rejected") \/ Move(j, Live, "expired")

Deliver(i, j) ==
    /\ status[j] = "completed"
    /\ asker[j] = i
    /\ result' = [result EXCEPT ![i] = j]
    /\ UNCHANGED <<reserved, spent, status, asker>>

Next ==
    \/ \E i \in Inputs, action \in Actions : Reserve(i, action)
    \/ \E i \in Inputs, j \in Jobs : Open(i, j) \/ Deliver(i, j)
    \/ \E j \in Jobs : Fund(j) \/ Complete(j) \/ End(j)

Spec == Init /\ [][Next]_vars
=============================================================================
