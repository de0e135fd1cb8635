---------------------------- MODULE AccessControl ----------------------------
(***************************************************************************)
(* The access pipeline and the emergency stop. Workers are the request      *)
(* handlers in flight: each runs request_access or check_access through its *)
(* separate critical sections and database calls, while operators kill and  *)
(* restore agents and sessions, clients go away and the process restarts.   *)
(*                                                                         *)
(* A session id is whatever the client sends; a session belongs to the      *)
(* agent whose request came first with its id. The policy is a rule per     *)
(* action; a refusal by rate limit, spend cap or trust level is a choice.   *)
(* A trajectory is the set of the actions in it.                            *)
(*                                                                         *)
(* Definitions named Bug... are altered forms of the definition that        *)
(* follows them; no specification uses them.                                *)
(***************************************************************************)
EXTENDS Naturals, Sequences, FiniteSets

CONSTANTS
    Worker,      \* request handlers
    Agent,       \* agents
    Sid,         \* session ids clients send
    NoSid,       \* a dry run without one
    Action,      \* actions (each stands for an action on a resource)
    NoAction,    \* no require_prior_action
    Rule,        \* [Action -> the first rule that matches it]
    Console,     \* operators' consoles, one request at a time each
    AdminOps,    \* what operators do, of "kill", "restore" and "session"
    MaxTokens,   \* bound: tokens recorded
    MaxActions,  \* bound: a session with so many takes no further request
    MaxRestarts  \* bound: restarts

Rules == [decision : {"allow", "deny", "approval"}, maxActions : Nat,
          prior : Action \cup {NoAction}]

\* A process has finitely many handlers in flight, a policy finitely many rules.
ASSUME WorkerAssumption == IsFiniteSet(Worker) /\ Worker # {}
ASSUME RuleAssumption ==
    Rule \in [Action -> Rules] /\ IsFiniteSet({Rule[x] : x \in Action})
ASSUME AgentAssumption == Agent # {} /\ Action # {} /\ NoSid \notin Sid
ASSUME BoundAssumption == MaxTokens \in Nat /\ MaxActions \in Nat /\ MaxRestarts \in Nat

VARIABLES
    sessions,      \* SessionStore.sessions: [Sid -> session]
    killedAgents,  \* SessionStore.killed_agents
    req,           \* [Worker -> the request it handles]
    tokens,        \* the tokens table, rows of request_access
    approvals,     \* pending rows of approval_requests
    logged,        \* tokens named by an "allow" row of the audit log
    delivered,     \* tokens returned to a client
    admin,         \* [Console -> the kill_agent or restore_agent in flight]
    killedDone,    \* history: agents whose kill_agent has returned, since then
                   \* neither restored nor forgotten
    restarts       \* restarts so far

store == <<sessions, killedAgents>>
db == <<tokens, approvals, logged>>
vars == <<store, req, db, delivered, admin, killedDone, restarts>>

Session == [open : BOOLEAN, agent : Agent, killed : BOOLEAN, actions : Nat,
            seen : SUBSET Action]
Stage == {"idle", "check", "eval", "decided", "recorded", "acted", "answer"}
\* stops is history: the stops that have applied ever since the request arrived.
Request == [stage : Stage, dry : BOOLEAN, agent : Agent, sid : Sid \cup {NoSid},
            action : Action, decision : {"none", "allow", "deny", "approval"},
            token : Nat, stops : SUBSET {"agent", "session"}]
TokenRow == [agent : Agent, sid : Sid, boot : Nat, revoked : BOOLEAN]
Admin == [op : {"none", "kill", "restore"}, agent : Agent]

AnyAgent == CHOOSE a \in Agent : TRUE
NoSession == [open |-> FALSE, agent |-> AnyAgent, killed |-> FALSE, actions |-> 0,
              seen |-> {}]
Idle == [stage |-> "idle", dry |-> FALSE, agent |-> AnyAgent, sid |-> NoSid,
         action |-> CHOOSE x \in Action : TRUE, decision |-> "none", token |-> 0,
         stops |-> {}]
NoAdmin == [op |-> "none", agent |-> AnyAgent]

Init ==
    /\ sessions = [s \in Sid |-> NoSession]
    /\ killedAgents = {}
    /\ req = [w \in Worker |-> Idle]
    /\ tokens = <<>>
    /\ approvals = {}
    /\ logged = {}
    /\ delivered = {}
    /\ admin = [o \in Console |-> NoAdmin]
    /\ killedDone = {}
    /\ restarts = 0

Open(s) == s \in Sid /\ sessions[s].open

\* The stops that apply to agent a in session s.
Stops(killed, session, a, s) ==
    (IF a \in killed THEN {"agent"} ELSE {})
      \cup (IF s \in Sid /\ session[s].open /\ session[s].killed
            THEN {"session"} ELSE {})

-----------------------------------------------------------------------------
\* SessionStore::get_or_create_session. (Altered: the new session is returned
\* and never kept.)
BugOpenSession(s, a) == sessions
OpenSession(s, a) ==
    IF Open(s) THEN sessions
    ELSE [sessions EXCEPT ![s] = [NoSession EXCEPT !.open = TRUE, !.agent = a]]

\* request_access up to the check of session.killed: a killed session answers
\* at once, with no audit entry.
Arrive(w, a, s, x) ==
    /\ req[w].stage = "idle"
    /\ sessions[s].actions < MaxActions
    /\ sessions' = OpenSession(s, a)
    /\ req' = [req EXCEPT ![w] =
         [Idle EXCEPT !.stage = IF sessions'[s].killed THEN "answer" ELSE "check",
                      !.decision = IF sessions'[s].killed THEN "deny" ELSE "none",
                      !.agent = a, !.sid = s, !.action = x,
                      !.stops = Stops(killedAgents, sessions', a, s)]]
    /\ UNCHANGED <<killedAgents, db, delivered, admin, killedDone, restarts>>

\* check_access, the dry run: it opens no session.
ArriveDry(w, a, s, x) ==
    /\ req[w].stage = "idle"
    /\ req' = [req EXCEPT ![w] =
         [Idle EXCEPT !.stage = "check", !.dry = TRUE, !.agent = a, !.sid = s,
                      !.action = x,
                      !.stops = Stops(killedAgents, sessions, a, s)]]
    /\ UNCHANGED <<store, db, delivered, admin, killedDone, restarts>>

\* is_agent_killed, in both handlers; the denial is not audited. (Altered: the
\* session's own flag is trusted.)
BugCheckAgent(w) ==
    /\ req[w].stage = "check"
    /\ req' = [req EXCEPT ![w].stage = "eval"]
    /\ UNCHANGED <<store, db, delivered, admin, killedDone, restarts>>
CheckAgent(w) ==
    /\ req[w].stage = "check"
    /\ req' = IF req[w].agent \in killedAgents
              THEN [req EXCEPT ![w].stage = "answer", ![w].decision = "deny"]
              ELSE [req EXCEPT ![w].stage = "eval"]
    /\ UNCHANGED <<store, db, delivered, admin, killedDone, restarts>>

\* check_temporal_conditions, on the session as it is now; without a session
\* there is none. (Altered: one action more than the rule says.)
BugRefused(rule, s) ==
    /\ Open(s)
    /\ \/ sessions[s].killed
       \/ sessions[s].actions > rule.maxActions
       \/ rule.prior # NoAction /\ rule.prior \notin sessions[s].seen
Refused(rule, s) ==
    /\ Open(s)
    /\ \/ sessions[s].killed
       \/ sessions[s].actions >= rule.maxActions
       \/ rule.prior # NoAction /\ rule.prior \notin sessions[s].seen

Decisions(w) ==
    LET rule == Rule[req[w].action] IN
    {"deny"} \cup (IF Refused(rule, req[w].sid) THEN {} ELSE {rule.decision})

\* eval_engine. A dry run goes straight to its audit entry.
Evaluate(w) ==
    /\ req[w].stage = "eval"
    /\ \E d \in Decisions(w) :
         req' = [req EXCEPT ![w].decision = d,
                            ![w].stage = IF req[w].dry THEN "acted" ELSE "decided"]
    /\ UNCHANGED <<store, db, delivered, admin, killedDone, restarts>>

\* request_access, allow: issue and record_token.
RecordToken(w) ==
    /\ req[w].stage = "decided" /\ req[w].decision = "allow"
    /\ Len(tokens) < MaxTokens
    /\ tokens' = Append(tokens, [agent |-> req[w].agent, sid |-> req[w].sid,
                                 boot |-> restarts, revoked |-> FALSE])
    /\ req' = [req EXCEPT ![w].stage = "recorded", ![w].token = Len(tokens) + 1]
    /\ UNCHANGED <<store, approvals, logged, delivered, admin, killedDone,
                   restarts>>

\* request_access, require_approval: create_approval_request.
CreateApproval(w) ==
    /\ req[w].stage = "decided" /\ req[w].decision = "approval"
    /\ approvals' = approvals \cup {<<req[w].agent, req[w].action>>}
    /\ req' = [req EXCEPT ![w].stage = "recorded"]
    /\ UNCHANGED <<store, tokens, logged, delivered, admin, killedDone, restarts>>

\* SessionStore::record_action, whatever was decided.
RecordAction(w) ==
    /\ req[w].stage = "recorded" \/ (req[w].stage = "decided" /\ req[w].decision = "deny")
    /\ sessions' = [sessions EXCEPT ![req[w].sid].actions = @ + 1,
                                    ![req[w].sid].seen = @ \cup {req[w].action}]
    /\ req' = [req EXCEPT ![w].stage = "acted"]
    /\ UNCHANGED <<killedAgents, db, delivered, admin, killedDone, restarts>>

\* create_audit_entry (its own steps are in AuditLog).
Audit(w) ==
    /\ req[w].stage = "acted"
    /\ logged' = IF req[w].token = 0 THEN logged ELSE logged \cup {req[w].token}
    /\ req' = [req EXCEPT ![w].stage = "answer"]
    /\ UNCHANGED <<store, tokens, approvals, delivered, admin, killedDone, restarts>>

\* The response reaches the client.
Respond(w) ==
    /\ req[w].stage = "answer"
    /\ delivered' = IF req[w].token = 0 THEN delivered
                    ELSE delivered \cup {req[w].token}
    /\ req' = [req EXCEPT ![w] = Idle]
    /\ UNCHANGED <<store, db, admin, killedDone, restarts>>

\* Where a handler waits for the database, or has an answer to send.
AtAwait(w) ==
    \/ req[w].stage = "decided" /\ req[w].decision # "deny"
    \/ req[w].stage \in {"recorded", "acted", "answer"}

\* A database call fails and the handler returns its error, or the client is
\* gone and the handler is dropped at an await. A call that the blocking pool has
\* taken ends all the same, and its handler counts as one until it has.
\* (Altered: a failed audit is logged and the answer sent all the same.)
BugDrop(w) ==
    /\ AtAwait(w)
    /\ req' = IF req[w].stage = "acted" THEN [req EXCEPT ![w].stage = "answer"]
              ELSE [req EXCEPT ![w] = Idle]
    /\ UNCHANGED <<store, db, delivered, admin, killedDone, restarts>>
Drop(w) ==
    /\ AtAwait(w)
    /\ req' = [req EXCEPT ![w] = Idle]
    /\ UNCHANGED <<store, db, delivered, admin, killedDone, restarts>>

-----------------------------------------------------------------------------
\* Some stops no longer apply.
Released(killed, session) ==
    [w \in Worker |->
       [req[w] EXCEPT !.stops = @ \cap Stops(killed, session, req[w].agent,
                                             req[w].sid)]]

SetKilled(a, k) ==
    [s \in Sid |-> IF Open(s) /\ sessions[s].agent = a
                  THEN [sessions[s] EXCEPT !.killed = k] ELSE sessions[s]]

\* SessionStore::kill_agent, under both locks ...
KillAgent(o, a) ==
    /\ "kill" \in AdminOps /\ admin[o].op = "none"
    /\ killedAgents' = killedAgents \cup {a}
    /\ sessions' = SetKilled(a, TRUE)
    /\ admin' = [admin EXCEPT ![o] = [op |-> "kill", agent |-> a]]
    /\ UNCHANGED <<req, db, delivered, killedDone, restarts>>

\* ... then revoke_agent_tokens, and the answer.
KillTokens(o) ==
    /\ admin[o].op = "kill"
    /\ tokens' = [t \in 1..Len(tokens) |->
                    IF tokens[t].agent = admin[o].agent
                    THEN [tokens[t] EXCEPT !.revoked = TRUE] ELSE tokens[t]]
    /\ killedDone' = killedDone \cup ({admin[o].agent} \cap killedAgents)
    /\ admin' = [admin EXCEPT ![o] = NoAdmin]
    /\ UNCHANGED <<store, req, approvals, logged, delivered, restarts>>

\* revoke_agent_tokens fails.
KillFails(o) ==
    /\ admin[o].op = "kill"
    /\ admin' = [admin EXCEPT ![o] = NoAdmin]
    /\ UNCHANGED <<store, req, db, delivered, killedDone, restarts>>

\* SessionStore::restore_agent gives up the first lock before it takes the
\* second.
RestoreAgent(o, a) ==
    /\ "restore" \in AdminOps /\ admin[o].op = "none"
    /\ killedAgents' = killedAgents \ {a}
    /\ admin' = [admin EXCEPT ![o] = [op |-> "restore", agent |-> a]]
    /\ req' = Released(killedAgents', sessions)
    /\ killedDone' = killedDone \ {a}
    /\ UNCHANGED <<sessions, db, delivered, restarts>>

RestoreSessions(o) ==
    /\ admin[o].op = "restore"
    /\ sessions' = SetKilled(admin[o].agent, FALSE)
    /\ req' = Released(killedAgents, sessions')
    /\ admin' = [admin EXCEPT ![o] = NoAdmin]
    /\ UNCHANGED <<killedAgents, db, delivered, killedDone, restarts>>

\* SessionStore::kill_session
KillSession(s) ==
    /\ "session" \in AdminOps
    /\ Open(s) /\ ~sessions[s].killed
    /\ sessions' = [sessions EXCEPT ![s].killed = TRUE]
    /\ UNCHANGED <<killedAgents, req, db, delivered, admin, killedDone, restarts>>

\* The process stops and starts: only the database stays.
Restart ==
    /\ restarts < MaxRestarts
    /\ restarts' = restarts + 1
    /\ sessions' = [s \in Sid |-> NoSession]
    /\ killedAgents' = {}
    /\ req' = [w \in Worker |-> Idle]
    /\ admin' = [o \in Console |-> NoAdmin]
    /\ killedDone' = {}
    /\ UNCHANGED <<db, delivered>>

-----------------------------------------------------------------------------
Handler(w) ==
    \/ \E a \in Agent, s \in Sid, x \in Action : Arrive(w, a, s, x)
    \/ \E a \in Agent, s \in Sid \cup {NoSid}, x \in Action : ArriveDry(w, a, s, x)
    \/ CheckAgent(w)
    \/ Evaluate(w)
    \/ RecordToken(w)
    \/ CreateApproval(w)
    \/ RecordAction(w)
    \/ Audit(w)
    \/ Respond(w)
    \/ Drop(w)

Operator(o) ==
    \/ \E a \in Agent : KillAgent(o, a) \/ RestoreAgent(o, a)
    \/ KillTokens(o)
    \/ KillFails(o)
    \/ RestoreSessions(o)

Next ==
    \/ \E w \in Worker : Handler(w)
    \/ \E o \in Console : Operator(o)
    \/ \E s \in Sid : KillSession(s)
    \/ Restart

Spec == Init /\ [][Next]_vars

-----------------------------------------------------------------------------
\* The type invariant.
TypeOK ==
    /\ sessions \in [Sid -> Session]
    /\ killedAgents \subseteq Agent
    /\ req \in [Worker -> Request]
    /\ tokens \in Seq(TokenRow)
    /\ approvals \subseteq Agent \X Action
    /\ logged \subseteq 1..Len(tokens)
    /\ delivered \subseteq 1..Len(tokens)
    /\ admin \in [Console -> Admin]
    /\ killedDone \subseteq Agent
    /\ restarts \in Nat
    /\ \A w \in Worker : /\ req[w].token \in 0..Len(tokens)
                         /\ ~req[w].dry /\ req[w].stage # "idle" => Open(req[w].sid)

\* The emergency stop binds, whatever session id the client presents and for dry
\* runs too: while a kill of the agent, or of the session, that was there when a
\* request arrived lasts, the request is not allowed anything.
StopBinds ==
    \A w \in Worker : req[w].stops # {} => req[w].decision \in {"none", "deny"}

\* The token rows of the agent a that are not revoked.
Live(a) == {t \in 1..Len(tokens) : tokens[t].agent = a /\ ~tokens[t].revoked}

\* A kill that has returned leaves at most one live token row per handler: those
\* of requests that had passed the check before it.
KillLeakBounded ==
    \A a \in killedDone : Cardinality(Live(a)) <= Cardinality(Worker)

\* No token leaves the process without its audit entry, whatever failed or was
\* dropped on the way.
DeliveredLogged == delivered \subseteq logged

\* The largest max_actions_in_session of the rules that allow, 0 if none does.
AllowLimits ==
    {0} \cup {Rule[x].maxActions : x \in {y \in Action : Rule[y].decision = "allow"}}
SessionLimit == CHOOSE n \in AllowLimits : \A k \in AllowLimits : k <= n

\* The tokens delivered in the session s since the process started.
Granted(s) == {t \in delivered : tokens[t].sid = s /\ tokens[t].boot = restarts}

\* The count is read at evaluation and raised after the token is recorded, so
\* concurrent requests pass the limit together; never more than one per handler.
OvershootBounded ==
    \A s \in Sid : Cardinality(Granted(s)) <= SessionLimit + Cardinality(Worker) - 1
=============================================================================
