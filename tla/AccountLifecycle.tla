-------------------------- MODULE AccountLifecycle --------------------------
(* What the registrar workflow promises about one student account: it is     *)
(* created pending by a finished sign-up, a staff decision moves it between  *)
(* pending, approved and rejected, and an administrator may remove it.  A    *)
(* sign-in that overlaps the removal leaves a bare row behind, and a review  *)
(* that overlaps both may still decide that row.  An administrator's own row *)
(* never moves, and no row is born decided or decided while it is gone.      *)
(* Onboarding.tla, where every step is one statement of a handler, is shown  *)
(* to implement this module.                                                 *)
-----------------------------------------------------------------------------
CONSTANTS Emails,  \* the addresses that may own an account
          Staff    \* the addresses of administrators

VARIABLE status    \* the onboarding status stored for each address

\* The three states a submission can be in, and the decisions staff can take.
Decisions == {"pending", "approved", "rejected"}

\* "absent" is no row at all, "none" a row that never submitted a record.
Statuses == Decisions \cup {"absent", "none"}

TypeOK == status \in [Emails -> Statuses]

Init == status = [e \in Emails |-> IF e \in Staff THEN "none" ELSE "absent"]

\* A finished sign-up: the account starts its life waiting for a decision.
SignUp(e) == /\ status[e] = "absent"
             /\ status' = [status EXCEPT ![e] = "pending"]

\* A late sign-in of a removed account: a row without a submission.
Reappear(e) == /\ status[e] = "absent"
               /\ status' = [status EXCEPT ![e] = "none"]

\* Approve, reject or disapprove a submission.
Decide(e, d) == /\ e \notin Staff
                /\ status[e] # "absent"
                /\ status' = [status EXCEPT ![e] = d]

\* Remove a student's record.
Remove(e) == /\ e \notin Staff
             /\ status[e] # "absent"
             /\ status' = [status EXCEPT ![e] = "absent"]

Next == \E e \in Emails : \/ SignUp(e)
                          \/ Reappear(e)
                          \/ \E d \in Decisions : Decide(e, d)
                          \/ Remove(e)

Spec == Init /\ [][Next]_status
=============================================================================
