---------------------------- MODULE JobLifecycle ----------------------------
(***************************************************************************)
(* What the shared ledger promises about the rows of one domain, whatever  *)
(* the processes that write them go through: a row starts queued, may run, *)
(* ends once, and stays as it ended until an operator deletes history.     *)
(* Only the recovery of a later process may call unfinished work           *)
(* interrupted.                                                            *)
(***************************************************************************)
CONSTANT Job

VARIABLES
  ledger,  \* status of each job's row, "none" without a row
  ended    \* jobs whose row was terminal once

vars == <<ledger, ended>>

Unfinished == {"queued", "running"}
Terminal == {"finished", "cancelled", "interrupted"}

Init == ledger = [j \in Job |-> "none"] /\ ended = {}

Create(j) ==
  /\ ledger[j] = "none" /\ j \notin ended
  /\ ledger' = [ledger EXCEPT ![j] = "queued"]
  /\ UNCHANGED ended

Start(j) ==
  /\ ledger[j] = "queued"
  /\ ledger' = [ledger EXCEPT ![j] = "running"]
  /\ UNCHANGED ended

End(j) ==
  /\ ledger[j] \in Unfinished
  /\ \E s \in {"finished", "cancelled"} : ledger' = [ledger EXCEPT ![j] = s]
  /\ ended' = ended \cup {j}

\* A new process marks everything its predecessor left unfinished.
Interrupt ==
  /\ \E j \in Job : ledger[j] \in Unfinished
  /\ ledger' = [j \in Job |-> IF ledger[j] \in Unfinished THEN "interrupted"
                              ELSE ledger[j]]
  /\ ended' = {j \in Job : ledger'[j] \in Terminal} \cup ended

\* History deletion takes terminal rows only.
Delete ==
  /\ \E j \in Job : ledger[j] \in Terminal
  /\ ledger' = [j \in Job |-> IF ledger[j] \in Terminal THEN "none" ELSE ledger[j]]
  /\ UNCHANGED ended

Next == Interrupt \/ Delete \/ \E j \in Job : Create(j) \/ Start(j) \/ End(j)

Spec == Init /\ [][Next]_vars

=============================================================================
