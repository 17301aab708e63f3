----------------------------- MODULE Approvals ------------------------------
(***************************************************************************)
(* The approvals (approval/service.py), their executors and validators and *)
(* the loop that expires them (main.py), for one request.  An operation    *)
(* reads the row, decides, and writes its status later; nothing compares   *)
(* what it read with what it overwrites.  An approval runs its executor    *)
(* after the row says approved.                                            *)
(***************************************************************************)
EXTENDS Commands

VARIABLES
    req,       \* the row: status, type, late (its deadline is over)
    executed,  \* its executor has succeeded
    cut,       \* the daemon died, or a write of the outcome failed, after the row said
               \* approved
    expire     \* _approval_expire_loop: sleep, write or dead

approvalVars == <<req, executed, cut, expire>>

\* _approval_expire_loop is a task of its own.
Expirer == "expirer"
ASSUME ExpirerAssumption == Expirer \notin Tasks

ApprovalOps == RequestOps \cup ReviewOps

InitApprovals ==
    /\ req \in [status : {"none"}, type : {"rule_change"}, late : {FALSE}]
               \cup [status : {"pending"}, type : {"rule_change", "legacy"}, late : {FALSE}]
    /\ executed = FALSE /\ cut = FALSE /\ expire = "sleep"

Resolvable == {"pending", "execution_failed"}

\* The statuses and types an operation accepts.  hold and resume have no caller, so no
\* request is on hold.
MayCreate == req.status = "none"
MayApprove == req.type # "legacy" /\ req.status \in Resolvable
MayReject == req.status \in Resolvable
MayCancel == req.status \in Resolvable
MayCancelInvalid == req.type = "legacy" /\ req.status \in Resolvable
MayReopen == req.status = "rejected"

MayResolve(op) ==
    CASE op = "request" -> MayCreate
      [] op = "approve" -> MayApprove
      [] op = "reject" -> MayReject
      [] op = "cancel" -> MayCancel
      [] op = "cancel_invalid" -> MayCancelInvalid
      [] op = "reopen" -> MayReopen

Resolution(op) ==
    CASE op = "approve" -> "approved"
      [] op = "reject" -> "rejected"
      [] op \in {"cancel", "cancel_invalid"} -> "cancelled"
      [] op \in {"reopen", "request"} -> "pending"

-----------------------------------------------------------------------------
(* The operations *)

\* _validate_params: the validator of the type may refuse a request, or one opened again.
ValidatorRefuses(t) == task[t].op \in {"request", "reopen"} /\ Ends(t)

\* should_auto_approve: a request may be approved at once.
AutoApproves(t) == task[t].op = "request" /\ Requests(t, "write", "approved")

\* The row is read and judged.
ApprovalRead(t) ==
    /\ task[t].op \in ApprovalOps /\ task[t].pc = "go"
    /\ \/ ~MayResolve(task[t].op) /\ Ends(t)
       \/ /\ MayResolve(task[t].op)
          /\ \/ Requests(t, "write", Resolution(task[t].op))
             \/ AutoApproves(t)
             \/ ValidatorRefuses(t)
    /\ UNCHANGED <<approvalVars, up, ops, faults>>

\* The row is written; what is approved is executed.
ApprovalWrite(t) ==
    /\ task[t].op \in ApprovalOps /\ task[t].pc = "write" /\ HasLock(t)
    /\ req' = [req EXCEPT !.status = task[t].seen]
    /\ IF task[t].seen = "approved" THEN Goes(t, "exec", "-") ELSE Ends(t)
    /\ UNCHANGED <<executed, cut, expire, up, ops, faults>>

\* The executor succeeds; the history is to be written.
ExecutorEnds(t) ==
    /\ task[t].op \in ApprovalOps /\ task[t].pc = "exec"
    /\ executed' = TRUE
    /\ Requests(t, "history", "-")
    /\ UNCHANGED <<req, cut, expire, up, ops, faults>>

\* Mutant: the error of the executor reaches the caller and the row stays as it is.
ExecutorRaisesOut(t) ==
    /\ task[t].op \in ApprovalOps /\ task[t].pc = "exec" /\ Fault
    /\ Ends(t)
    /\ UNCHANGED <<approvalVars, up, ops>>

\* The executor raises: the request is to be marked.
ExecutorRaises(t) ==
    /\ task[t].op \in ApprovalOps /\ task[t].pc = "exec" /\ Fault
    /\ Requests(t, "failed", "-")
    /\ UNCHANGED <<approvalVars, up, ops>>

OutcomeWritten(t) ==
    /\ task[t].op \in ApprovalOps /\ task[t].pc \in {"history", "failed"} /\ HasLock(t)
    /\ req' = IF task[t].pc = "failed" THEN [req EXCEPT !.status = "execution_failed"] ELSE req
    /\ Ends(t)
    /\ UNCHANGED <<executed, cut, expire, up, ops, faults>>

\* A write raises.  The error of the history is taken for one of the executor.
ApprovalFails(t) ==
    /\ task[t].op \in ApprovalOps /\ HasLock(t) /\ Fault
    /\ IF task[t].pc = "history" THEN Requests(t, "failed", "-") ELSE Ends(t)
    /\ cut' = (cut \/ task[t].pc = "failed")
    /\ UNCHANGED <<req, executed, expire, up, ops>>

ApprovalStep(t) ==
    \/ ApprovalRead(t) \/ ApprovalWrite(t) \/ ExecutorEnds(t) \/ ExecutorRaises(t)
    \/ OutcomeWritten(t) \/ ApprovalFails(t)

\* Those who are between the row that says approved and the outcome.
Executing == {t \in Tasks : task[t].op \in ApprovalOps /\ task[t].pc \in {"exec", "history", "failed"}}

ApprovalsDie ==
    /\ cut' = (cut \/ Executing # {})
    /\ expire' = "sleep"
    /\ UNCHANGED <<req, executed>>

-----------------------------------------------------------------------------
(* Expiry *)

DeadlinePasses ==
    /\ req.status # "none" /\ ~req.late
    /\ req' = [req EXCEPT !.late = TRUE]
    /\ UNCHANGED <<executed, cut, expire, commandVars>>

\* expire_stale: the pending requests past their deadline are read, and each is written.
ExpireRead ==
    /\ up /\ expire = "sleep" /\ req.status = "pending" /\ req.late
    /\ expire' = "write" /\ wq' = Append(wq, Expirer)
    /\ UNCHANGED <<req, executed, cut, up, task, ops, faults>>

ExpireWrite ==
    /\ expire = "write" /\ HasLock(Expirer)
    /\ req' = [req EXCEPT !.status = "expired"]
    /\ expire' = "sleep" /\ wq' = Without(wq, Expirer)
    /\ UNCHANGED <<executed, cut, up, task, ops, faults>>

\* Mutant: the error ends the loop.
ExpireFailsOut ==
    /\ expire = "write" /\ HasLock(Expirer) /\ Fault
    /\ expire' = "dead" /\ wq' = Without(wq, Expirer)
    /\ UNCHANGED <<req, executed, cut, up, task, ops>>

\* The error is logged and the loop goes on.
ExpireFails ==
    /\ expire = "write" /\ HasLock(Expirer) /\ Fault
    /\ expire' = "sleep" /\ wq' = Without(wq, Expirer)
    /\ UNCHANGED <<req, executed, cut, up, task, ops>>

ExpireStep == ExpireRead \/ ExpireWrite \/ ExpireFails

-----------------------------------------------------------------------------

(* No silent success: when nobody is executing it, a request whose row says approved has
   been executed, whatever decisions overlapped its approval; a failed executor, and a
   failed record of its success, leave it marked execution_failed (_execute_approved).  A
   daemon that dies in between, or cannot write the mark, is left out. *)
ApprovedIsExecuted ==
    (req.status = "approved" /\ Executing = {} /\ ~cut) => executed

(* A pending request past its deadline does not stay pending while the daemon runs, though
   writes fail (_approval_expire_loop). *)
ExpiryHappens == []<>(~up \/ req.status # "pending" \/ ~req.late)

=============================================================================
