----------------------------- MODULE CallContract -----------------------------
(***************************************************************************)
(* What one Evaluate or ListModels call promises its caller about attempts *)
(* (docs/retries-and-timeouts.md): it makes at most MaxRetries extra       *)
(* attempts, starts one only after a failure the policy retries, makes     *)
(* none once an attempt was answered or failed for good, and then returns  *)
(* exactly one outcome, the answer when the last attempt brought one.      *)
(*                                                                         *)
(* Time, contexts and waits are absent: ClientCall implements this.        *)
(***************************************************************************)
EXTENDS Integers

VARIABLES
    budget,   \* attempts the call may make in all
    tries,    \* attempts started
    last,     \* what the latest attempt came to
    outcome   \* "none" until the call returns

vars == <<budget, tries, last, outcome>>

Verdicts == {"answered", "retryable", "final"}

TypeOK ==
    /\ budget \in Nat \ {0}
    /\ tries \in 0..budget
    /\ last \in Verdicts \cup {"idle", "pending"}
    /\ outcome \in {"none", "answer", "error"}

Init ==
    /\ budget \in Nat \ {0}
    /\ tries = 0
    /\ last = "idle"
    /\ outcome = "none"

(* A new attempt: the first one, or one after a retryable failure. *)
Try ==
    /\ outcome = "none"
    /\ last \in {"idle", "retryable"}
    /\ tries < budget
    /\ tries' = tries + 1
    /\ last' = "pending"
    /\ UNCHANGED <<budget, outcome>>

(* The attempt under way comes to an end. *)
Resolve ==
    /\ last = "pending"
    /\ last' \in Verdicts
    /\ UNCHANGED <<budget, tries, outcome>>

(* A retryable failure may be returned too: the caller's context may end,   *)
(* or leave no room for the wait.                                           *)
Return ==
    /\ outcome = "none"
    /\ last \in Verdicts
    /\ outcome' = IF last = "answered" THEN "answer" ELSE "error"
    /\ UNCHANGED <<budget, tries, last>>

Next == Try \/ Resolve \/ Return

Spec == Init /\ [][Next]_vars
=============================================================================
