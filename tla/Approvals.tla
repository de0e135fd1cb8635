------------------------------- MODULE Approvals -------------------------------
(***************************************************************************)
(* The approval endpoints behind the agents' authentication: request_access *)
(* files a request when the rules ask for one, the agent polls              *)
(* approval_status, and approvers approve or deny. ClientAuth says who the   *)
(* caller is.                                                               *)
(*                                                                         *)
(* Each statement of a handler that reaches the database is a step: the     *)
(* UPDATE and the SELECT of resolve_approval_request run in one closure     *)
(* under the write mutex, and so in one step. The approver sends the id: of  *)
(* any request there is, at any time, which covers lists of pending         *)
(* requests of any age; the id of no request changes nothing and is left    *)
(* out, and so are expires_at and approval_token, which nothing reads. What *)
(* else request_access does is in AccessControl.                            *)
(*                                                                         *)
(* Definitions named Bug... are altered forms of the definition that        *)
(* follows them; no specification uses them.                                *)
(***************************************************************************)
EXTENDS ClientAuth

CONSTANTS
    Approver,   \* the approver ids the operators send
    Id,         \* approval request ids, each used once; bound: how many
    Nobody      \* NULL in agent_id and approver_id

ASSUME NobodyAssumption == Nobody \notin Agent \cup Approver
ASSUME IdAssumption == Id # {}
\* A name for who is who in the words told: the code takes any approver_id.
ASSUME RolesAssumption == Agent \cap Approver = {}

VARIABLES
    board,   \* the approval_requests table
    job,     \* [Client -> where its handler is]
    desk,    \* [Approver -> its call of approve_request or deny_request]
    told     \* history: the decisions, and refusals, that were told

boardVars == <<board, job, desk, told>>
vars == <<authVars, boardVars>>

Status == {"pending", "approved", "denied"}
Row == [agent : Agent \cup {Nobody}, status : Status,
        approver : Approver \cup {Nobody}]
Unfiled == [agent |-> Nobody, status |-> "pending", approver |-> Nobody]
Filed == {i \in Id : board[i].agent # Nobody}

\* read: the row approval_status has read.
Job == [stage : {"none", "evaluated", "filed", "polled"}, id : Id, read : Row]
AnyId == CHOOSE i \in Id : TRUE
NoJob == [stage |-> "none", id |-> AnyId, read |-> Unfiled]

Desk == [stage : {"none", "resolved", "refused"}, id : Id, read : Row]
FreeDesk == [stage |-> "none", id |-> AnyId, read |-> Unfiled]

Init ==
    /\ AuthInit
    /\ board = [i \in Id |-> Unfiled]
    /\ job = [c \in Client |-> NoJob]
    /\ desk = [p \in Approver |-> FreeDesk]
    /\ told = {}

noAuth == <<hash, madeFor, prov, shown, sure>>

-----------------------------------------------------------------------------
\* request_access for the agent a, up to create_approval_request: 403 when the key
\* is another agent's; else the rules answer require_approval.
RequestAccess(c, a) ==
    /\ caller[c].stage = "admitted"
    /\ job[c].stage = "none"
    /\ \/ a # caller[c].agent /\ End(c) /\ UNCHANGED job
       \/ /\ a = caller[c].agent
          /\ job' = [job EXCEPT ![c].stage = "evaluated"]
          /\ UNCHANGED caller
    /\ UNCHANGED <<noAuth, board, desk, told>>

\* create_approval_request: INSERT under a fresh id.
CreateApproval(c) ==
    /\ job[c].stage = "evaluated"
    /\ \E i \in Id \ Filed :
         /\ board' = [board EXCEPT ![i] = [Unfiled EXCEPT !.agent = caller[c].agent]]
         /\ job' = [job EXCEPT ![c] = [NoJob EXCEPT !.stage = "filed", !.id = i]]
    /\ UNCHANGED <<authVars, desk, told>>

\* approval_status of the id i: an error when there is no such row, 403 when it is
\* another agent's. (Altered: the owner is not looked at.)
BugReadable(c, i) == i \in Filed
Readable(c, i) == i \in Filed /\ board[i].agent = caller[c].agent
ApprovalStatus(c, i) ==
    /\ caller[c].stage = "admitted"
    /\ job[c].stage = "none"
    /\ \/ ~Readable(c, i) /\ End(c) /\ UNCHANGED job
       \/ /\ Readable(c, i)
          /\ job' = [job EXCEPT ![c] = [stage |-> "polled", id |-> i, read |-> board[i]]]
          /\ UNCHANGED caller
    /\ UNCHANGED <<noAuth, board, desk, told>>

\* What the reader w of the row r of request i has heard once the answer arrives.
Word(w, i, r) == [to |-> w, id |-> i, verdict |-> r.status, approver |-> r.approver]

\* The answer reaches the agent.
Reply(c) ==
    /\ job[c].stage \in {"filed", "polled"}
    /\ told' = IF job[c].stage = "polled" /\ job[c].read.status # "pending"
               THEN told \cup {Word(caller[c].agent, job[c].id, job[c].read)}
               ELSE told
    /\ job' = [job EXCEPT ![c] = NoJob]
    /\ End(c)
    /\ UNCHANGED <<noAuth, board, desk>>

\* A statement fails, the audit append after the INSERT fails, or the client is gone.
Drop(c) ==
    /\ caller[c].stage # "idle"
    /\ job' = [job EXCEPT ![c] = NoJob]
    /\ End(c)
    /\ UNCHANGED <<noAuth, board, desk, told>>

-----------------------------------------------------------------------------
\* The row resolve_approval_request writes.
Resolved(r, p, s) == [r EXCEPT !.status = s, !.approver = p]

\* approve_request and deny_request of the request i, from whatever list: the UPDATE
\* takes a pending row only, and no row updated is an error. (Altered: any row.)
BugResolve(p, i, s) ==
    /\ desk[p].stage = "none"
    /\ board' = [board EXCEPT ![i] = Resolved(@, p, s)]
    /\ desk' = [desk EXCEPT ![p] = [stage |-> "resolved", id |-> i, read |-> board'[i]]]
    /\ UNCHANGED <<authVars, job, told>>
Resolve(p, i, s) ==
    /\ desk[p].stage = "none"
    /\ \/ /\ board[i].status = "pending"
          /\ board' = [board EXCEPT ![i] = Resolved(@, p, s)]
          /\ desk' = [desk EXCEPT ![p] =
               [stage |-> "resolved", id |-> i, read |-> board'[i]]]
       \/ /\ board[i].status # "pending"
          /\ desk' = [desk EXCEPT ![p] =
               [stage |-> "refused", id |-> i, read |-> Unfiled]]
          /\ UNCHANGED board
    /\ UNCHANGED <<authVars, job, told>>

\* The approver hears that its decision is made, or that there is one already.
ReplyApprover(p) ==
    /\ desk[p].stage # "none"
    /\ told' = told \cup
         {IF desk[p].stage = "resolved" THEN Word(p, desk[p].id, desk[p].read)
          ELSE [to |-> p, id |-> desk[p].id, verdict |-> "closed", approver |-> Nobody]}
    /\ desk' = [desk EXCEPT ![p] = FreeDesk]
    /\ UNCHANGED <<authVars, board, job>>

\* The answer is lost, or the statement fails: the approver may try again.
DropApprover(p) ==
    /\ desk[p].stage # "none"
    /\ desk' = [desk EXCEPT ![p] = FreeDesk]
    /\ UNCHANGED <<authVars, board, job, told>>

-----------------------------------------------------------------------------
Authenticate ==
    /\ \/ \E p \in Console : Rotate(p)
       \/ \E c \in Client : Admit(c) \/ \E k \in shown : Present(c, k)
    /\ UNCHANGED boardVars

Serve(c) ==
    \/ \E a \in Agent : RequestAccess(c, a)
    \/ CreateApproval(c)
    \/ \E i \in Id : ApprovalStatus(c, i)
    \/ Reply(c)
    \/ Drop(c)

Approve(p) ==
    \/ \E i \in Filed, s \in {"approved", "denied"} : Resolve(p, i, s)
    \/ ReplyApprover(p)
    \/ DropApprover(p)

Next ==
    \/ Authenticate
    \/ \E c \in Client : Serve(c)
    \/ \E p \in Approver : Approve(p)

Spec == Init /\ [][Next]_vars

-----------------------------------------------------------------------------
\* The type invariant.
TypeOK ==
    /\ AuthTypeOK
    /\ board \in [Id -> Row]
    /\ job \in [Client -> Job]
    /\ desk \in [Approver -> Desk]

\* The table as the abstract ballot sees it.
CardOf(r) == [agent |-> r.agent, verdict |-> r.status, approver |-> r.approver]
B == INSTANCE Ballot WITH card <- [i \in Id |-> CardOf(board[i])], told <- told

\* The endpoints implement the ballot: a request is decided once, by whoever comes
\* first, and what an approver or the agent hears of it is so and stays so, however late
\* decisions come, answers are lost and calls repeated.
Implements == B!Spec
=============================================================================
