----------------------------- MODULE Delegation -----------------------------
(***************************************************************************)
(* Delegation tokens: principal_delegate mints a root token with a grant    *)
(* row, request_access mints a token bound to a resource, delegate verifies *)
(* a parent token and mints a narrower one for a sub-agent, revoke_token,   *)
(* revoke_grant and kill_agent withdraw them, and a restart empties the     *)
(* verifier's in-memory revocation set.                                     *)
(*                                                                         *)
(* Tokens are numbered in the order they are signed (the number stands for  *)
(* the jti). Time is in whole seconds; what num_seconds() cuts off a        *)
(* duration is a choice. "sub" stands for the two claims delegate copies    *)
(* from the parent, sub and constraints. Signing and recording a token are  *)
(* one step: nobody knows the jti in between. issue reads the clock twice,  *)
(* for iat and then for exp; iat, which no code reads, is left out.         *)
(*                                                                         *)
(* Definitions named Bug... are altered forms of the definition that        *)
(* follows them; no specification uses them.                                *)
(***************************************************************************)
EXTENDS Integers, Sequences, FiniteSets

CONSTANTS
    Agent,        \* agents
    User,         \* principals
    Owner,        \* [Agent -> User]: the agent's owner_id
    Scope,        \* scopes
    Resource,     \* audiences of request_access tokens
    MaxDepth,     \* policy.max_delegation_depth
    MaxTtl,       \* token.max_ttl_seconds
    DefaultTtl,   \* token.default_ttl_seconds
    Requests,     \* expires_in_seconds a caller may ask for
    Withdrawals,  \* what operators do, of "revoke", "kill" and "grant"
    MaxRoots,     \* bound: tokens signed with no parent
    MaxTokens,    \* bound: tokens signed
    MaxTime,      \* bound: the clock
    MaxRestarts   \* bound: restarts

ASSUME AgentAssumption == Agent # {}
ASSUME OwnerAssumption == Owner \in [Agent -> User]
ASSUME RequestAssumption == Requests \subseteq Nat
ASSUME NumberAssumption ==
    /\ MaxDepth \in Nat /\ MaxTtl \in Nat /\ DefaultTtl \in Nat
    /\ MaxRoots \in Nat /\ MaxTokens \in Nat /\ MaxTime \in Nat /\ MaxRestarts \in Nat

VARIABLES
    tokens,     \* every token signed, in order
    grants,     \* the grants table
    rowRevoked, \* tokens whose row in the tokens table has revoked = 1
    jtiStore,   \* TokenVerifier.jti_store, in memory
    held,       \* tokens returned to a caller
    call,       \* the delegate request each agent has in flight
    rootCall,   \* the principal_delegate request in flight
    admin,      \* the revoke_token or kill_agent request in flight
    now,        \* the clock, seconds
    restarts,   \* restarts so far
    revokedOk   \* history: tokens whose revoke_token has returned

dbVars == <<grants, rowRevoked>>
adminVars == <<admin, revokedOk>>
vars == <<tokens, dbVars, jtiStore, held, call, rootCall, adminVars, now,
          restarts>>

Jti == Nat \ {0}
Hop == [sub : User, act : Agent]

\* parent, root, by, seen and minted are history: the token delegated from, the
\* first of that line, the agent whose call minted it, when that call verified, and
\* the reading of the clock from which params.expiry() counts exp.
Token == [sub : User, act : Agent, aud : Agent \cup Resource,
          scope : SUBSET Scope, depth : Nat, chain : Seq(Hop), exp : Nat,
          grant : Nat, parent : Nat, root : Jti, by : Agent, seen : Nat,
          minted : Nat]
Grant == [agent : Agent, revoked : BOOLEAN]

Stage == {"idle", "verified", "recorded"}
Call == [stage : Stage, parent : Nat, to : Agent, scope : SUBSET Scope,
         req : Nat, seen : Nat, jti : Nat]
RootCall == [stage : {"idle", "granted"}, agent : Agent, scope : SUBSET Scope,
             ttl : Nat, grant : Nat]
Admin == [op : {"none", "revoke", "kill"}, jti : Nat, agent : Agent]

AnyAgent == CHOOSE a \in Agent : TRUE
IdleCall == [stage |-> "idle", parent |-> 0, to |-> AnyAgent, scope |-> {},
             req |-> 0, seen |-> 0, jti |-> 0]
IdleRoot == [stage |-> "idle", agent |-> AnyAgent, scope |-> {}, ttl |-> 0,
             grant |-> 0]
NoAdmin == [op |-> "none", jti |-> 0, agent |-> AnyAgent]

Smaller(x, y) == IF x <= y THEN x ELSE y
Signed == 1..Len(tokens)
Roots == {t \in Signed : tokens[t].parent = 0}

Init ==
    /\ tokens = <<>>
    /\ grants = <<>>
    /\ rowRevoked = {}
    /\ jtiStore = {}
    /\ held = {}
    /\ call = [a \in Agent |-> IdleCall]
    /\ rootCall = IdleRoot
    /\ admin = NoAdmin
    /\ now = 0
    /\ restarts = 0
    /\ revokedOk = {}

-----------------------------------------------------------------------------
\* principal_delegate, up to the commit of create_grant.
CreateGrant(a, s, ttl) ==
    /\ rootCall.stage = "idle"
    /\ Len(grants) < MaxRoots
    /\ grants' = Append(grants, [agent |-> a, revoked |-> FALSE])
    /\ rootCall' = [stage |-> "granted", agent |-> a, scope |-> s,
                    ttl |-> Smaller(ttl, MaxTtl), grant |-> Len(grants) + 1]
    /\ UNCHANGED <<tokens, rowRevoked, jtiStore, held, call, adminVars, now,
                   restarts>>

RootToken(u, a, s, aud, ttl, g) ==
    [sub |-> u, act |-> a, aud |-> aud, scope |-> s, depth |-> 0,
     chain |-> <<>>, exp |-> now + ttl, grant |-> g, parent |-> 0,
     root |-> Len(tokens) + 1, by |-> a, seen |-> now, minted |-> now]

\* principal_delegate, from issue to the response.
IssueRoot ==
    /\ rootCall.stage = "granted"
    /\ Len(tokens) < MaxTokens /\ Cardinality(Roots) < MaxRoots
    /\ tokens' = Append(tokens,
         RootToken(Owner[rootCall.agent], rootCall.agent, rootCall.scope,
                   rootCall.agent, rootCall.ttl, rootCall.grant))
    /\ held' = held \cup {Len(tokens) + 1}
    /\ rootCall' = IdleRoot
    /\ UNCHANGED <<dbVars, jtiStore, call, adminVars, now, restarts>>

\* principal_delegate fails after its grant is committed.
RootFails ==
    /\ rootCall.stage = "granted"
    /\ rootCall' = IdleRoot
    /\ UNCHANGED <<tokens, dbVars, jtiStore, held, call, adminVars, now,
                   restarts>>

\* request_access, decision allow: a token for a resource, no grant row. Its
\* subject is the owner, or that of a delegation token presented with the
\* request and verified; its scopes are those the policy approved. (Its steps
\* are in AccessControl.)
IssueAccess(u, a, s, r) ==
    /\ Len(tokens) < MaxTokens /\ Cardinality(Roots) < MaxRoots
    /\ u = Owner[a] \/ \E p \in held : tokens[p].aud = a /\ tokens[p].sub = u
    /\ tokens' = Append(tokens, RootToken(u, a, s, r, DefaultTtl, 0))
    /\ held' = held \cup {Len(tokens) + 1}
    /\ UNCHANGED <<dbVars, jtiStore, call, rootCall, adminVars, now, restarts>>

-----------------------------------------------------------------------------
\* TokenVerifier::verify with the audience of the presenting agent. (Altered: no
\* audience is expected; the revocation set is not looked at.)
BugVerifies(a, p) ==
    /\ tokens[p].exp >= now
    /\ p \notin jtiStore
BugVerifiesRevoked(a, p) ==
    /\ tokens[p].aud = a
    /\ tokens[p].exp >= now
Verifies(a, p) ==
    /\ tokens[p].aud = a
    /\ tokens[p].exp >= now
    /\ p \notin jtiStore

\* delegate: verify, the subset check and the depth check. (Altered: the depth of
\* the parent is checked and not the child's.)
BugDepth(a, p, b, s, req) ==
    /\ call[a].stage = "idle"
    /\ Verifies(a, p)
    /\ s \subseteq tokens[p].scope
    /\ tokens[p].depth <= MaxDepth
    /\ call' = [call EXCEPT ![a] =
         [IdleCall EXCEPT !.stage = "verified", !.parent = p, !.to = b,
          !.scope = s, !.req = req, !.seen = now]]
    /\ UNCHANGED <<tokens, dbVars, jtiStore, held, rootCall, adminVars, now,
                   restarts>>
Verify(a, p, b, s, req) ==
    /\ call[a].stage = "idle"
    /\ Verifies(a, p)
    /\ s \subseteq tokens[p].scope
    /\ tokens[p].depth + 1 <= MaxDepth
    /\ call' = [call EXCEPT ![a] =
         [IdleCall EXCEPT !.stage = "verified", !.parent = p, !.to = b,
          !.scope = s, !.req = req, !.seen = now]]
    /\ UNCHANGED <<tokens, dbVars, jtiStore, held, rootCall, adminVars, now,
                   restarts>>

\* (effective_expiry - Utc::now()).num_seconds().max(0): the requested expiry
\* is counted from one reading of the clock after verify, the remaining life
\* from a later one; the fraction of a second that is cut off may cost one.
Remaining(e, t) == IF e <= t THEN {0} ELSE {e - t, e - t - 1}

\* (Altered: the parent's expiry is forgotten.)
BugChildTtl(c) ==
    UNION {Remaining(r[1] + c.req, r[2]) :
             r \in {q \in (c.seen..now) \X (c.seen..now) : q[1] <= q[2]}}
ChildTtl(c) ==
    UNION {Remaining(Smaller(tokens[c.parent].exp, r[1] + c.req), r[2]) :
             r \in {q \in (c.seen..now) \X (c.seen..now) : q[1] <= q[2]}}

\* The claims of the child: everything but act, aud, scope and exp is inherited,
\* and the chain grows by the parent. (Altered: the hop names the recipient.)
BugChildToken(c, a, ttl) ==
    LET p == tokens[c.parent] IN
    [sub |-> p.sub, act |-> c.to, aud |-> c.to, scope |-> c.scope,
     depth |-> p.depth + 1,
     chain |-> Append(p.chain, [sub |-> p.sub, act |-> c.to]),
     exp |-> now + ttl, grant |-> 0, parent |-> c.parent, root |-> p.root,
     by |-> a, seen |-> c.seen, minted |-> now]
ChildToken(c, a, ttl) ==
    LET p == tokens[c.parent] IN
    [sub |-> p.sub, act |-> c.to, aud |-> c.to, scope |-> c.scope,
     depth |-> p.depth + 1,
     chain |-> Append(p.chain, [sub |-> p.sub, act |-> p.act]),
     exp |-> now + ttl, grant |-> 0, parent |-> c.parent, root |-> p.root,
     by |-> a, seen |-> c.seen, minted |-> now]

\* delegate: issue, with params.expiry() the last reading of the clock, and
\* record_token.
IssueChild(a) ==
    /\ call[a].stage = "verified"
    /\ Len(tokens) < MaxTokens
    /\ \E ttl \in ChildTtl(call[a]) :
         tokens' = Append(tokens, ChildToken(call[a], a, ttl))
    /\ call' = [call EXCEPT ![a].stage = "recorded", ![a].jti = Len(tokens) + 1]
    /\ UNCHANGED <<dbVars, jtiStore, held, rootCall, adminVars, now, restarts>>

\* delegate: the audit entry is written and the token returned. (Altered: the
\* answer is there before the token is.)
BugRespond(a) ==
    /\ call[a].stage # "idle"
    /\ held' = held \cup {call[a].jti}
    /\ call' = [call EXCEPT ![a] = IdleCall]
    /\ UNCHANGED <<tokens, dbVars, jtiStore, rootCall, adminVars, now, restarts>>
Respond(a) ==
    /\ call[a].stage = "recorded"
    /\ held' = held \cup {call[a].jti}
    /\ call' = [call EXCEPT ![a] = IdleCall]
    /\ UNCHANGED <<tokens, dbVars, jtiStore, rootCall, adminVars, now, restarts>>

\* delegate: record_token or the audit fails, or the client is gone.
CallFails(a) ==
    /\ call[a].stage # "idle"
    /\ call' = [call EXCEPT ![a] = IdleCall]
    /\ UNCHANGED <<tokens, dbVars, jtiStore, held, rootCall, adminVars, now,
                   restarts>>

-----------------------------------------------------------------------------
\* revoke_token: the row first, then the in-memory set.
BugRevokeRow(t) ==
    /\ admin.op = "none" /\ "revoke" \in Withdrawals
    /\ admin' = [NoAdmin EXCEPT !.op = "revoke", !.jti = t]
    /\ jtiStore' = jtiStore \cup {t}
    /\ UNCHANGED <<tokens, dbVars, held, call, rootCall, revokedOk,
                   now, restarts>>
RevokeRow(t) ==
    /\ admin.op = "none" /\ "revoke" \in Withdrawals
    /\ admin' = [NoAdmin EXCEPT !.op = "revoke", !.jti = t]
    /\ rowRevoked' = rowRevoked \cup {t}
    /\ UNCHANGED <<tokens, grants, jtiStore, held, call, rootCall, revokedOk,
                   now, restarts>>

RevokeMemory ==
    /\ admin.op = "revoke"
    /\ jtiStore' = jtiStore \cup {admin.jti}
    /\ admin' = NoAdmin
    /\ revokedOk' = revokedOk \cup {admin.jti}
    /\ UNCHANGED <<tokens, dbVars, held, call, rootCall, now,
                   restarts>>

\* kill_agent: the session store first (modelled in AccessControl) ...
KillStart(a) ==
    /\ admin.op = "none" /\ "kill" \in Withdrawals
    /\ admin' = [NoAdmin EXCEPT !.op = "kill", !.agent = a]
    /\ UNCHANGED <<tokens, dbVars, jtiStore, held, call, rootCall, revokedOk,
                   now, restarts>>

RowsOf(a) == {t \in Signed : tokens[t].act = a}

\* ... then revoke_agent_tokens: UPDATE tokens ... WHERE agent_id = ?.
KillRows ==
    /\ admin.op = "kill"
    /\ rowRevoked' = rowRevoked \cup RowsOf(admin.agent)
    /\ admin' = NoAdmin
    /\ UNCHANGED <<tokens, grants, jtiStore, held, call, rootCall, revokedOk,
                   now, restarts>>

\* The database refuses kill_agent's statement, or the operator's connection is
\* gone and the handler with it, before its second step.
AdminFails ==
    /\ admin.op # "none"
    /\ admin' = NoAdmin
    /\ UNCHANGED <<tokens, dbVars, jtiStore, held, call, rootCall, revokedOk,
                   now, restarts>>

\* revoke_grant: no grant has a child, the tokens are not touched.
RevokeGrant(g) ==
    /\ "grant" \in Withdrawals
    /\ ~grants[g].revoked
    /\ grants' = [grants EXCEPT ![g].revoked = TRUE]
    /\ UNCHANGED <<tokens, rowRevoked, jtiStore, held, call, rootCall,
                   adminVars, now, restarts>>

\* The process stops and starts: the database and the signing key stay.
Restart ==
    /\ restarts < MaxRestarts
    /\ restarts' = restarts + 1
    /\ jtiStore' = {}
    /\ call' = [a \in Agent |-> IdleCall]
    /\ rootCall' = IdleRoot
    /\ admin' = NoAdmin
    /\ UNCHANGED <<tokens, dbVars, held, revokedOk, now>>

Tick ==
    /\ now < MaxTime
    /\ now' = now + 1
    /\ UNCHANGED <<tokens, dbVars, jtiStore, held, call, rootCall, adminVars,
                   restarts>>

-----------------------------------------------------------------------------
Principal ==
    \/ \E a \in Agent, s \in SUBSET Scope, ttl \in Requests :
         CreateGrant(a, s, ttl)
    \/ IssueRoot
    \/ RootFails

AgentStep(a) ==
    \/ \E u \in User, s \in SUBSET Scope, r \in Resource : IssueAccess(u, a, s, r)
    \/ \E p \in held, b \in Agent, s \in SUBSET Scope, req \in Requests :
         Verify(a, p, b, s, req)
    \/ IssueChild(a)
    \/ Respond(a)
    \/ CallFails(a)

Operator ==
    \/ \E t \in Signed : RevokeRow(t)
    \/ RevokeMemory
    \/ \E a \in Agent : KillStart(a)
    \/ KillRows
    \/ AdminFails
    \/ \E g \in 1..Len(grants) : RevokeGrant(g)

Next ==
    \/ Principal
    \/ \E a \in Agent : AgentStep(a)
    \/ Operator
    \/ Restart
    \/ Tick

Spec == Init /\ [][Next]_vars

-----------------------------------------------------------------------------
\* The type invariant.
TypeOK ==
    /\ tokens \in Seq(Token)
    /\ grants \in Seq(Grant)
    /\ rowRevoked \subseteq Signed
    /\ jtiStore \subseteq Signed
    /\ held \subseteq Signed
    /\ call \in [Agent -> Call]
    /\ \A a \in Agent :
         /\ call[a].stage # "idle" => call[a].parent \in Signed
         /\ call[a].stage = "recorded" => call[a].jti \in Signed
    /\ rootCall \in RootCall
    /\ admin \in Admin
    /\ admin.op = "revoke" => admin.jti \in Signed
    /\ now \in Nat
    /\ restarts \in Nat
    /\ revokedOk \subseteq Signed

\* Monotonic attenuation down a whole line of delegations: no token carries a
\* scope, a subject or constraints its root was not given, and none is deeper
\* than the configured depth, whatever is interleaved with the calls.
Attenuation ==
    \A t \in Signed :
      LET k == tokens[t]
          r == tokens[k.root] IN
      /\ k.root <= t
      /\ k.scope \subseteq r.scope
      /\ k.sub = r.sub
      /\ k.depth <= MaxDepth

\* The delegation chain in the token is the line that led to it: one hop per
\* level, every hop for the root's subject, the first one the root's agent,
\* and each prefix of it the chain of the ancestor of that level.
ChainFaithful ==
    \A t \in Signed :
      LET k == tokens[t] IN
      /\ Len(k.chain) = k.depth
      /\ k.depth = 0 <=> k.parent = 0
      /\ \A i \in 1..Len(k.chain) : k.chain[i].sub = tokens[k.root].sub
      /\ k.depth > 0 =>
           /\ k.parent \in 1..(t - 1)
           /\ k.chain[1].act = tokens[k.root].act
           /\ k.chain = Append(tokens[k.parent].chain,
                               [sub |-> tokens[k.parent].sub,
                                act |-> tokens[k.parent].act])

\* Audience binding over hops: a child exists only because the agent its parent
\* is addressed to asked for it.
MintedByHolder ==
    \A t \in Signed :
      tokens[t].parent # 0 => tokens[t].by = tokens[tokens[t].parent].aud

\* A child outlives its parent by no more than passed between verify and the reading
\* its exp is counted from, whatever the readings in between; and however late and
\* often a token is passed on, what comes of it is given no longer, from that reading
\* on, than its root was from its own. (From iat, read before, it may be longer.)
ExpiryInherited ==
    \A t \in Signed :
      LET k == tokens[t]
          r == tokens[k.root] IN
      /\ k.parent # 0 => k.exp <= tokens[k.parent].exp + (k.minted - k.seen)
      /\ k.exp - k.minted <= r.exp - r.minted

\* revoke_token never leaves the process refusing a token that the table, and
\* so the operator, still shows as live.
MemoryImpliesRow == jtiStore \subseteq rowRevoked

\* Within one run of the process a token whose revoke_token returned is never
\* accepted again as the parent of a delegation.
RevokedStaysRejected ==
    [][\A a \in Agent :
         /\ call[a].stage = "idle" /\ call'[a].stage = "verified"
         /\ restarts = 0
         => call'[a].parent \notin revokedOk]_vars
=============================================================================
