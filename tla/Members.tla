------------------------------ MODULE Members -------------------------------
(***************************************************************************)
(* The members, their tokens and the authentication of a command           *)
(* (member/service.py, token_manager.py, recovery_key_manager.py,          *)
(* auth_service.py, cli/middleware.py): one master and one agent.          *)
(*                                                                         *)
(* The command line authenticates by reading the row of its token, then    *)
(* hands the command to the daemon, which trusts the name of the actor.    *)
(* Every operation on a member reads the row, decides, and writes some     *)
(* columns of the row later.  A token is the number of its issue; it stands *)
(* for its hash.                                                           *)
(***************************************************************************)
EXTENDS Commands

VARIABLES
    row,       \* the table members: status, token, whether it has expired, the scopes
    issued,    \* the tokens that have been issued to each member
    gone       \* the agent's revocation has returned, with no other change of its status
               \* in flight

memberVars == <<row, issued, gone>>

MemberIds == {"master", "agent"}
NoToken == 0

\* Bootstrapped: the master, and perhaps the agent, have a token.
InitMembers ==
    \E s \in {"active", "none"} :
      /\ row = [m \in MemberIds |->
                  [status |-> IF m = "agent" THEN s ELSE "active",
                   token |-> CASE m = "master" -> 1 [] s = "active" -> 2 [] OTHER -> NoToken,
                   expired |-> FALSE, scoped |-> TRUE]]
      /\ issued = [m \in MemberIds |-> {row[m].token} \ {NoToken}]
      /\ gone = FALSE

NextToken == Cardinality(UNION {issued[m] : m \in MemberIds}) + 1

StatusOps == {"m_suspend", "m_reactivate"}
MemberOps == {"register", "m_suspend", "m_reactivate", "m_revoke", "m_rotate", "m_scopes",
              "reset", "regenerate"}

-----------------------------------------------------------------------------
(* Authentication *)

\* Mutant: the status of the member is not looked at.
AuthenticatesAnyStatus(m, token) ==
    /\ row[m].token = token /\ token # NoToken
    /\ ~row[m].expired

\* The row of the token, its status and its expiry.
Authenticates(m, token) ==
    /\ row[m].token = token /\ token # NoToken
    /\ row[m].status = "active"
    /\ ~row[m].expired

RequireMaster(m) == m = "master"
\* The master has every scope.
RequireScope(m) == m = "master" \/ row[m].scoped
Allows(m, op) == IF op \in MasterOps THEN RequireMaster(m) ELSE RequireScope(m)

\* A member gives a command with a token it was issued.
Authorised(op) ==
    \/ op \in ExemptOps
    \/ \E m \in MemberIds, token \in 1..NextToken :
          token \in issued[m] /\ Authenticates(m, token) /\ Allows(m, op)

-----------------------------------------------------------------------------
(* The operations.  Every one but reset and regenerate is about the agent. *)

\* Each checks the row it reads; a member that exists is not registered again.
MayRegister == row["agent"].status = "none"
MaySuspend == row["agent"].status = "active"
MayReactivate == row["agent"].status = "suspended"
MayRevoke == row["agent"].status \in {"active", "suspended"}
MayRotate == row["agent"].status = "active"
MayUpdateScopes == row["agent"].status = "active"
\* The recovery key, or the password, is the right one.
MayReset == TRUE
MayRegenerate == row["master"].status = "active"

MayChange(op) ==
    CASE op = "register" -> MayRegister
      [] op = "m_suspend" -> MaySuspend
      [] op = "m_reactivate" -> MayReactivate
      [] op = "m_revoke" -> MayRevoke
      [] op = "m_rotate" -> MayRotate
      [] op = "m_scopes" -> MayUpdateScopes
      [] op = "reset" -> MayReset
      [] op = "regenerate" -> MayRegenerate

MemberRead(t) ==
    /\ task[t].op \in MemberOps /\ task[t].pc = "go"
    /\ IF MayChange(task[t].op) THEN Requests(t, "write", "-") ELSE Ends(t)
    /\ UNCHANGED <<memberVars, up, ops, faults>>

\* A new token, for as long as the time to live says.
RotateToken ==
    /\ row' = [row EXCEPT !["agent"].token = NextToken, !["agent"].expired = FALSE]
    /\ issued' = [issued EXCEPT !["agent"] = @ \cup {NextToken}]

\* The INSERT fails when another registration has written the row since it was read.
Register ==
    IF row["agent"].status # "none" THEN UNCHANGED <<row, issued>>
    ELSE /\ row' = [row EXCEPT !["agent"].status = "active", !["agent"].token = NextToken]
         /\ issued' = [issued EXCEPT !["agent"] = @ \cup {NextToken}]

Suspend == row' = [row EXCEPT !["agent"].status = "suspended"] /\ UNCHANGED issued
Reactivate == row' = [row EXCEPT !["agent"].status = "active"] /\ UNCHANGED issued
Revoke ==
    /\ row' = [row EXCEPT !["agent"].status = "revoked", !["agent"].token = NoToken]
    /\ UNCHANGED issued
UpdateScopes == row' = [row EXCEPT !["agent"].scoped = ~@] /\ UNCHANGED issued

\* The columns each operation writes.
MemberWrites(op) ==
    CASE op = "register" -> Register
      [] op = "m_suspend" -> Suspend
      [] op = "m_reactivate" -> Reactivate
      [] op = "m_revoke" -> Revoke
      [] op = "m_rotate" -> RotateToken
      [] op = "m_scopes" -> UpdateScopes
      [] op \in {"reset", "regenerate"} -> UNCHANGED <<row, issued>>

\* The write; a reset has a second one, for the token.
MemberWrite(t) ==
    /\ task[t].op \in MemberOps /\ task[t].pc = "write" /\ HasLock(t)
    /\ MemberWrites(task[t].op)
    /\ IF task[t].op = "reset" THEN Requests(t, "token", "-") ELSE Ends(t)
    /\ gone' = \/ gone
               \/ task[t].op = "m_revoke"
                  /\ \A u \in Tasks : task[u].op \notin StatusOps
    /\ UNCHANGED <<up, ops, faults>>

\* _invalidate_token: the token of the master is deleted.
InvalidateToken(t) ==
    /\ At(t, "reset", "token") /\ HasLock(t)
    /\ row' = [row EXCEPT !["master"].token = NoToken, !["master"].expired = FALSE]
    /\ Ends(t)
    /\ UNCHANGED <<issued, gone, up, ops, faults>>

MemberFails(t) ==
    /\ task[t].op \in MemberOps /\ task[t].pc \in {"write", "token"} /\ HasLock(t) /\ Fault
    /\ Ends(t)
    /\ UNCHANGED <<memberVars, up, ops>>

MemberStep(t) == MemberRead(t) \/ MemberWrite(t) \/ InvalidateToken(t) \/ MemberFails(t)

\* The time to live of a token is over.
TokenExpires ==
    /\ Fault
    /\ \E m \in MemberIds :
          ~row[m].expired /\ row[m].token # NoToken /\ row' = [row EXCEPT ![m].expired = TRUE]
    /\ UNCHANGED <<issued, gone, up, task, wq, ops>>

-----------------------------------------------------------------------------

(* A member whose revocation has returned never authenticates again, whatever rotations of its
   token were in flight and whatever order the rows were written in (revoke, rotate_token,
   authenticate); a command it authenticated before goes on.  A suspension or a reactivation that had read the row before the
   revocation wrote it is left out: it writes its own status over the revocation. *)
RevokedStaysOut == gone => \A token \in issued["agent"] : ~Authenticates("agent", token)

=============================================================================
