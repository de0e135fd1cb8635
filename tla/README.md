# Patroclus: TLA+ models and proofs

Patroclus is an authorization server for AI agents. An agent asks it for access
to a resource; a policy decides; an allowed request gets a short-lived signed
token; agents delegate tokens to other agents; operators stop agents, revoke
tokens and grants, change the policy and verify the audit log.

This directory holds TLA+ models of that program, the TLC configurations that
check them on small instances, and proofs checked by TLAPS. Paths are relative
to the repository (`src/src/db/mod.rs` is the crate's database module).
`PROJECT.json` lists, for every definition that models code, the lines it
models; every hazard with the properties aimed at it; and every run.

Contents: 1 inventory, 2 the models, 3 the runs, 4 the proofs,
5 where the code and its documents differ, 6 what is not modelled, 7 plan.

## 1. Inventory

### 1.1 How the system works

One process (axum on tokio) with one SQLite database. The state that matters is
in five places, and most of what is hard comes from steps that touch two:

| Place | Contents | Survives a restart | Guarded by |
|---|---|---|---|
| database | `audit_log`, `tokens`, `grants`, `policies`, `approval_requests`, `principals`, `agents`, `vault_credentials` | yes | a mutex around the write connection; reads through a pool (files) or the same mutex (in memory) |
| `SessionStore` | sessions, trajectories, killed agents, rate limits | no | one lock per map |
| `TokenVerifier.jti_store` | revoked token ids | no | one lock |
| `AppState.policy_engine` | the rules in force | rebuilt from `policies` | a read-write lock |
| the key file and `AppState.vault` | the vault's key, on disk and in memory | the file does; the copy in memory is read from it at the start | nothing |

A handler takes each lock for one step and gives it up before the next `await`.
No transaction spans two statements. A handler whose client goes away is dropped
at its next `await`; a statement already handed to `spawn_blocking` runs to its
end. So a handler is modelled as a sequence of steps, one for each critical
section or database call, with other handlers, failures, drops and restarts in
between.

### 1.2 Components

| Component | State | Operations that change it | What is hard | What makes it correct |
|---|---|---|---|---|
| Audit log: `src/src/audit`, `create_audit_entry` in `src/src/db/mod.rs` | `audit_log` with `prev_hash`, `row_hash` | `create_audit_entry`; read by `verify-chain` | two calls chained to the same predecessor; a crash or a failure between SELECT and INSERT; the verifier reading a live table | one unbroken chain; the verdict is exact; no false alarm; a hash noted down vouches for all up to it; acknowledged rows stay |
| Tokens and delegation: `delegate`, `principal_delegate` in `src/src/api/routes.rs`, `src/src/token` | `tokens`, `grants`, `jti_store` | `delegate`, `principal_delegate`, `revoke_token`, `revoke_grant`, `kill_agent`, restart | authority over several hops; five clock readings in one call; revocation in two places; loss at a restart | scopes only narrow, depth bounded, chain claim true, holder only, expiry inherited, revoked stays refused |
| Access pipeline and stop: `request_access`, `check_access`, `src/src/session` | sessions, killed agents, `tokens`, `approval_requests` | the handlers; `kill_agent`, `restore_agent`, `kill_session`; restart | a kill between the check and the token; a count checked before and raised after an `await`; `restore_agent` with two locks in turn; other sessions and dry runs of a killed agent | the stop binds; few tokens escape a kill; nothing is delivered unlogged; the session limit is passed by a bounded number |
| Policy store: `create_policy`, `reload_policy`, `AppState::new` | `policies`, engine | `create_policy` (also from `idp_callback`), start | UPDATE and INSERT without a transaction; reload reads and swaps in two steps | the newest policy is the active one; a handler never undoes itself; alone it takes effect |
| Rate limiter: `check_rate_limit` | `rate_limits` | each evaluation of a rule with a limit | the boundary of two windows; the boundary of the comparison | at most the limit in a window, less than `k + 1` times the limit in the time of `k` windows |
| Policy rules: `src/src/policy/yaml_engine.rs` | none of their own | `evaluate` | their conditions read the session and the rate limiter under different locks | refusals and permissions agree with what was recorded |
| Approvals: `src/src/approval`, the approval routes | `approval_requests` | `request_access`, `approve_request`, `deny_request`; read by `approval_status` and the list | two approvers with stale lists; a lost answer and a second try; an agent that polls meanwhile | a request is decided once, and what anybody was told of it stays true |
| Grant tree: `revoke_grant_sync` | `grants` | recursive revocation | nothing the server can reach: no route makes a child grant | see section 6 |
| Identity federation: `src/src/idp`, `idp_authorize`, `idp_callback` | `PkceStore`, `principals` | `idp_authorize`, `idp_callback` | two callbacks with one state; the state of one login with the code of another; first login twice; each login replaces the policy | a state passes once and in time; a login is for the account that signed in with its state; a known person keeps her principal |
| Vault: `src/src/vault` | key in memory, key file, `vault_credentials` | `store_credential`, `vend_credential`, `generate_vault_key`, restart | the key in memory and in the file differ; a key file cut short; a vend beside a store | a vend uses the newest credential; what this life of the server stored opens in it, and under a first key file for good |
| Client keys: `src/src/api/auth.rs` | `agents.client_key_hash` | `provision_client_key`; read by `auth_middleware` | rotations that overlap; rotation with requests in flight | the old key stops working, the key shown works, a key is its agent's |
| Session counters: `src/src/session` | `spend_total`, trajectory, counts, trust level | `record_spend`, `record_action` | spend and actions recorded beside evaluations; the trajectory's cap of 1000 | the cap holds for acknowledged spend that is not taken back; the required prior action is looked for in exactly the last 1000 |
| Registry, migrations, start-up, configuration, keys, metrics, dashboard, SDK | rows or none | single statements | none of the above | see section 6 |

The hazards of the code, 40 of them, each at its line, are in `PROJECT.json`
under `hazards`, with the properties aimed at each or the reason there is none.

## 2. The models

Each component has a module `X` (state, actions, properties), a module `MCX`
that gives its constants model values, one `.cfg` per run, and `XProofs`.

Conventions. An action is one critical section or one database call of a
handler with everything it changes. History variables and fields, which no guard
reads, are marked *history*. Operators named `Bug...` are altered forms
of the definition below them, the way a plausible mistake would write it: with
one of them in place some property fails, which shows that the property depends
on the code. No specification uses them.

Common assumptions: signatures are not forged (a token exists only if the server
signed it); SHA-256 does not collide; the clock does not go back; a statement is
atomic and durable once it has committed.

### 2.1 AuditLog

`create_audit_entry_sync` is two autocommit statements under the connection
mutex; `verify_chain` walks the rows of one SELECT.

| Model | Code |
|---|---|
| `rows`, `nextId` | `audit_log` in order of `id`; AUTOINCREMENT |
| `Call` | a handler calls `create_audit_entry` and waits for the mutex |
| `Lock` | `spawn_write` takes the mutex |
| `SelectLast` | `SELECT row_hash ... DESC LIMIT 1`; with `SelectFaults` also its error, which `unwrap_or_else` turns into Genesis |
| `Insert`, `InsertFails` | the INSERT, and the guard dropped with the closure |
| `Return` | the row handed to the handler |
| `written`, `acked`, `receipts` | *history*, kept while nobody has altered the table: the rows, the ids answered, and each `row_hash` with the payloads up to it |
| `Crash` | the process dies; the table is left |
| `Alter`: `EditRow`, `DeleteRow`, `InsertRow`, `SwapRows` | alterations with another SQLite client, of the kinds that `audit/verifier.rs:41` names: a row edited with its hashes left, replaced or computed anew (`Forged`), removed, put in, or two rows swapped; several of them make what takes more than one |
| `Snapshot`, `VerifyRow`, `VerifyEnd` | `read_audit_entries_for_verification` and the loop of `verify_chain` |

A digest is the sequence of encodings it commits to: collision freedom made
concrete. `Encode` is not injective, since `compute_hash` concatenates fields
without separators; `Anchored` therefore speaks of equal encodings.

The hash has no key: whoever can write to the table can compute it. A last row that is
edited and hashed anew verifies, and so does a whole chain computed anew. So what
verifies is not thereby what was recorded, and no property says so. `Anchored` says
what the chain does give: keep one `row_hash` somewhere else, and a table that
verifies and has this hash in a row holds up to that row what was recorded, whatever
was done to it and however often.

`Ledger` is the abstract specification. The genuine histories are those that were the
whole log while nobody had altered it; a record extends what the log shows; an
alteration makes it show any history; an audit vouches for the very history that the
log showed when it began, genuine or not, and accuses nobody for a log that nobody
altered. `AuditLog` implements it (`L == INSTANCE Ledger WITH ...`, property
`Implements`): the hash of a row is the history it stands for, `Insert` records,
`Alter` alters, `Snapshot` asks, `VerifyEnd` vouches, a `VerifyRow` that finds a
fault accuses, all else stutters.

`FairSpec` adds the fairness of section 3, for `EveryCallEnds`.

### 2.2 Delegation

| Model | Code |
|---|---|
| `tokens`, `rowRevoked` | signed tokens with their rows; `revoked = 1` |
| `jtiStore` | `TokenVerifier.jti_store` |
| `CreateGrant`, `IssueRoot`, `RootFails` | `principal_delegate` up to the commit of the grant; the rest; its failure in between |
| `IssueAccess` | the token of `request_access` (its steps are in AccessControl) |
| `Verify` | `delegate` up to the depth check: signature, audience, expiry, `jti_store`, scopes, depth |
| `IssueChild` | the clock readings, the child's claims, `issue`, `record_token` |
| `Respond`, `CallFails` | audit and answer; any failure or a dropped handler |
| `RevokeRow`, `RevokeMemory` | `revoke_token`: the row, then the set |
| `KillStart`, `KillRows`, `AdminFails` | `kill_agent` as far as tokens go |
| `RevokeGrant` | `revoke_grant` of a grant without children |
| `Restart`, `Tick` | the set is empty, calls in flight are gone; the clock |

`delegate` reads the clock in `verify`, for the requested expiry, for the
remaining life and twice in `issue`, and cuts fractions of a second. `ChildTtl` is
the set of all lives that readings in that order can give. `issue` takes `iat` from
one reading (`token/issuer.rs:48`) and `exp` from the next (`params.expiry()`,
`token/mod.rs:57`); no code reads `iat`, so the model leaves it out, and `minted` is
the reading `exp` was counted from. `ExpiryInherited` is about that reading.

### 2.3 AccessControl

A worker is a handler of `request_access` or, with `dry`, of `check_access`.

| Model | Code |
|---|---|
| `Arrive`, `ArriveDry` | `get_or_create_session` and the test of `session.killed`; a dry run opens no session |
| `CheckAgent` | `is_agent_killed` (its denial is not audited) |
| `Evaluate` | `eval_engine`: `check_temporal_conditions` on the session as it is now; rate limit, spend cap and trust level are a choice to deny |
| `RecordToken`, `CreateApproval` | `issue` and `record_token`; `create_approval_request` |
| `RecordAction` | `record_action`, whatever was decided |
| `Audit`, `Respond` | `create_audit_entry`; the answer |
| `Drop` | a failed call, or the handler dropped at an `await` |
| `KillAgent`, `KillTokens`, `KillFails` | `SessionStore::kill_agent` under both locks, then `revoke_agent_tokens` or its failure |
| `RestoreAgent`, `RestoreSessions` | `restore_agent`: first one lock, then the other |
| `KillSession`, `Restart` | `kill_session`; only the database stays |

Sessions belong to the agent whose request came first with the id, and an id is
whatever a client sends, so agents may share a session. `stops` (history) holds
the stops that were there when the request arrived and have lasted since.

### 2.4 PolicyStore

| Model | Code |
|---|---|
| `rows`, `engine` | `policies`; the row the engine was built from, `Empty` for one without rules |
| `Create` | a handler of `create_policy`, or `idp_callback` with mapped groups |
| `Deprecate`, `Insert`, `WriteFails` | the UPDATE and the INSERT of `create_policy`, under the write mutex, in no transaction |
| `Build`, `Swap` | `reload_policy`: `build_engine_async`, then the swap under the write lock |
| `Drop` | a dropped handler, whose statements run to their end |
| `Crash`, `Start` | `AppState::new`: `create_default_policy` (a failed COUNT reads as 0), then the engine; a definition that does not parse ends the start |

`Pooled` says whether reads have connections of their own (a database file) or
share the write connection (in memory).

### 2.5 RateLimit and SessionRules

`RateLimit` is one key (session, action, resource). `CheckRateLimit` is the whole
function, which runs under the lock of its map: `Restarted` when the key is new or
its window over, else `Counted`. Keys do not interact and none is ever removed.
The limit may differ between calls, as a new policy may bring another one.

`SessionRules` extends it with what calls it: requests and dry runs of one session
under a rule with a spend cap, a required prior action and a rate limit.

| Model | Code |
|---|---|
| `session` | the `SessionState` of the session id: whether it is there, its trajectory and spend |
| `Request`, `Check` | `request_access`, which opens the session, and `check_access`, which does not |
| `Conditions` | `check_temporal_conditions` on one copy of the session: cap, then prior action; a session that is not there has no conditions |
| `Limited` | `check_rate_limit` after it, under another lock; the limit is that of the rule in force |
| `Unconditional` | the prior action, whose rule has no condition |
| `RecordAction`, `Kept` | `record_action`, whatever was decided, and the last `Cap` (1000) events |
| `Leave` | the answer of a dry run; a request that fails or is dropped before it is recorded |
| `RecordSpend`, `Acknowledge` | `record_spend`, which keeps nothing when the session is not there, and its answer |
| `reported`, `acked`, `upto` of a report | *history*: the sum of the amounts that reports added, what it was at a report and what the reports answered had brought it to, the last two lowered when a report takes some back. `reported` is also what the bound `MaxReports` cuts off, either way |
| `log`, `met`, fields of `call` | *history* |

`max_actions_in_session` and the stop are in AccessControl. A restart forgets all of
this state and is left out. Amounts are integers of either sign: `record_spend` checks
nothing and adds what it is sent. What `f64` rounds is left out.

### 2.6 IdpFederation

Login with an identity provider (OIDC with PKCE).

| Model | Code |
|---|---|
| `transactions` | `PkceStore.transactions`, in memory, keyed by the state |
| `principals` | the table, in the order of insertion |
| `call` | the callbacks in flight: what `idp_callback` holds across its awaits |
| `Authorize` | `idp_authorize` with `PkceStore::insert`, which also drops what has expired |
| `Consume`, `ConsumeLate` | `PkceStore::consume`: the entry is removed under the lock in any case, and returned only while it is live |
| `Exchange` | `exchange_oidc_token` and `fetch_userinfo` that succeed |
| `Found`, `NotFound` | `get_principal_by_email`: the first row of the email; an error reads as none (`Faults`) |
| `Create` | `create_principal` |
| `ApplyPolicy` | `create_policy` and `reload_policy` for an account in a mapped group (in steps in PolicyStore) |
| `Answer`, `Drop` | the answer; any failure, or the client gone. A write that is under way goes through although its handler is dropped: `Create`, then `Drop` |
| `Restart`, `Tick` | the store is empty and callbacks are gone; the clock |
| `asked`, `accepted`, `logins`, `call.rows`, `call.lookup` | *history* |

State and verifier are random, 24 and 32 bytes from the system's generator: the
n-th authorization draws state n and verifier n, which says that draws do not
collide. A callback may bring any state that is in the store with any code that
was issued; a state that is not is refused without effect and is no step.

`codes`, `spent` and `SignIn` are the provider, of which the code assumes what OIDC
says: a code is for the challenge of its authorization, is of that provider, and
gives a token once, to the verifier. `EmailOf` need not be injective: nothing
makes emails unique across providers, and an account without the claim has the
empty one.

### 2.7 Vault

| Model | Code |
|---|---|
| `keyFile`, `memKey` | the file at `encryption_key_path`; `AppState.vault`, read from it at the start |
| `rows` | `vault_credentials` in the order of `updated_at`: `INSERT OR REPLACE` under a fresh id only ever adds |
| `Encrypt`, `Insert` | `store_credential`: `encrypt` with the key in memory, then `store_vault_credential` |
| `Ask`, `Read`, `Exchange` | `vend_credential`: the call, `get_vault_credential` with `decrypt` and `create_provider`, a successful `exchange_refresh` of any of the three providers (a failed one is `Drop`) |
| `Answer`, `Drop` | the answer; a failure or a client that is gone |
| `OpenKeyFile`, `WriteKey`, `WriteKeyFails` | `fs::write` of `generate_key`: truncate, then write, or not |
| `Restart` | the process ends anywhere and starts with `Vault::from_file` |
| `acked`, `replaced`, `floor`, `boot` of a row | *history* |

Keys are numbers, and a ciphertext opens under its own key and no other (AES-GCM).
A file that was cut short counts as one more key, `TornKey`: `Vault::new` hashes
whatever it reads. Scopes are left out: the code passes the ones asked for to the
provider's form and back to the client, and what the provider grants is its own.

### 2.8 ClientAuth, Approvals and Ballot

`ClientAuth` is who a request is: `provision_client_key` and `auth_middleware`.
`Approvals` extends it with the handlers of the approval requests behind it.

| Model | Code |
|---|---|
| `hash`, `Holder` | `agents.client_key_hash`, and the lookup by it |
| `Generate`, `SetHash`, `Show`, `LoseKey` | `provision_client_key`: the new key, the UPDATE, the answer that shows it once; a failure or a lost answer |
| `Present`, `Admit`, `End` | a request with a key; the middleware's lookup; the end of the request |
| `board` | `approval_requests` |
| `RequestAccess`, `CreateApproval` | `request_access` for its own agent (else 403), whose rules ask for an approval; the INSERT |
| `ApprovalStatus`, `Readable` | `approval_status`: the row, if it is the caller's own |
| `Reply`, `Drop` | the answer reaches the agent, or does not |
| `Resolve` | `approve_request`, `deny_request`: the UPDATE of a pending row and the read back, in one closure under the write mutex; of any request there is at any time, and so from a list of any age |
| `ReplyApprover`, `DropApprover` | the answer reaches the approver, or does not and it tries again |
| `madeFor`, `shown`, `sure`, `told`, `alone`, `old` | *history* |

`Ballot` is the abstract specification: cards that are filed by one agent and
decided at most once, and words about them that are true when told. `Approvals`
implements it (`B == INSTANCE Ballot WITH card <- ...`, property `Implements`): a
row is a card, `CreateApproval` files it, `Resolve` of a pending row decides it,
`Reply` and `ReplyApprover` tell, and every other step stutters. An answer
tells what was read earlier, and `Ballot` requires it to be true when it arrives:
that is where stale reads and second decisions would show.

### 2.9 How the modules relate

Where components meet, one module has the operation in full and the other as one
step: the audit entry (`AuditLog`; one step `Audit` in
AccessControl), the token of `request_access` (`RecordToken` in AccessControl;
`IssueAccess` in Delegation), `kill_agent`, whose session half is in
AccessControl and whose effect on the verifier is in Delegation,
`create_policy`, in steps in PolicyStore and one step `ApplyPolicy` of a login,
`request_access`, in steps in AccessControl, with its caller and its approval in
Approvals, and `evaluate`, whose stop and session limit are in AccessControl, where
spend cap and rate limit are a choice, and whose other conditions are in SessionRules.
Two modules compose what runs together: SessionRules extends RateLimit, and
Approvals extends ClientAuth; their next-state relations interleave both, and the
proofs of the upper one use the lower one's.

## 3. The runs

Passing runs and what they show:

| Run | Instance | Properties |
|---|---|---|
| `audit_chain` | 2 writers, 2 payloads, up to 3 rows recorded (no call starts after 2, one may be under way), 1 alteration by any row made of either payload, the hashes found beside it, Genesis and the hash computed anew, crashes anywhere; 949 thousand states | `ChainIntact`, `VerdictExact`, `NoFalseAlarm`, `Anchored`, `AckedDurable`; refinement `Implements`; liveness `EveryCallEnds` |
| `delegation_authority` | 2 agents with different owners, 1 scope, depth limit 2, 4 tokens: a line as deep as allowed and one attempt beyond, an audience that is an agent; 3.4 million | `TypeOK`; `Attenuation`, `ChainFaithful`, `MintedByHolder` |
| `delegation_time` | a parent and a child, clock to 2, a request longer than the maximum life, every withdrawal, one restart; 1.1 million | `ExpiryInherited`, `MemoryImpliesRow`, `RevokedStaysRejected` |
| `access_stop` | 2 handlers, real and dry, 1 agent, 1 session, 2 operators with kill, restore and kill-session; 3.0 million | `StopBinds`, `KillLeakBounded` |
| `access_limit` | 2 handlers, "read" allowed once, "pay" by approval after "read", failures, 1 restart; 1.3 million | `TypeOK`; `DeliveredLogged`, `OvershootBounded` |
| `policy_store` | 2 handlers, valid and invalid definitions, faults, drops, pool, 5 rows, 3 starts; 84 thousand | `NewestActive`, `ReadsOwnWrite`, `AloneTakesEffect` |
| `session_rules` | 2 handlers with requests and dry runs, 1 reporter, limits 1 and 2, window of 1 tick, clock to 2, 4 evaluations, amounts 1 and -1, spend cap 1, trajectory of 1 event, 2 actions recorded; 9.8 million | `WindowLimit`, `LongRunRate`, `CapBinds`, `PriorRecent`, `DenialEarned` |
| `idp_login` | 2 callbacks, 1 person with an account at each of 2 providers under one email, 2 authorizations, 3 codes, lifetime 2, clock to 2, failing lookups, 1 restart; 1.5 million | `TypeOK`; `SingleUse`, `LoginBound`, `KnownPersonKept` |
| `vault` | 2 clients, accounts at GitHub, Slack and a provider nobody knows, 3 rows, 2 keys, 3 starts; 3.4 million | `TypeOK`; `ReadsNewest`, `SameLifeVends`, `FirstKeyLasts` |
| `agent_approvals` | 2 agents, 2 requests in flight, 2 rotations in flight, 2 keys, 2 approvers, 1 approval request; 0.3 million | `TypeOK`; `RotationBinds`, `ShownKeyWorks`; refinement `Implements` |

Runs that end in a violation are in section 5.

Why the bounds are enough. Two concurrent handlers suffice for every race here:
each is between one step that reads and one that writes. Three audit rows give a
first, a middle and a last one. Depth 2 lets a line pass the limit if the check
were off by one, and a cycle back to the first agent. Two consoles are needed
for a kill in the middle of a restore. Five policy rows and three starts let a
default row, two overlapping policies, a crash and a second default follow each
other. Three credentials and three starts let each start store one under what key it
finds. Windows of one tick and a clock to 2 give a window, its last tick and the one
after; they check `LongRunRate` for `k = 1` in earnest, and larger `k`, a limit of 0 and
longer windows are covered by the proofs. Two actions against
a trajectory of one event push one out. Two keys are an old and a new one; two starts
and two keys let a credential outlive its key. One approval request suffices, since
requests do not interact: what could go wrong is between two approvers and an agent
about one. Two authorizations and three codes give a state with the other's code, a
code brought twice and a second sign-in with one URL; a clock to 2 with a lifetime of
2 reaches the tick where a state expires. `access_stop` has one agent and one session
and no restart: that a stop binds across sessions that agents share, and what a restart
does to it, rests on the proof of `StopBinds` alone. Symmetry is used on writers and handlers,
and in `agent_approvals` on consoles and approvers too, whose properties quantify
over them. What larger instances could add is covered by the proofs: every safety
property of a run is proved for all values of the constants.

Bounds. `MaxRows`, `MaxEdits`, `MaxRoots`, `MaxTokens`, `MaxTime`,
`MaxRestarts`, `MaxActions`, `MaxStarts`, `MaxNow`, `MaxCalls`, `MaxLogins`,
`MaxCodes`, `MaxKeys`, `MaxEvents`, `MaxReports`, and the set `Id` of requests, cut
off counters in guards; the code has none of them. `Forgeable` holds the hashes that
somebody makes up who alters the audit log. `Withdrawals` and `AdminOps` choose which
operators' requests an instance contains. The 1000 events a trajectory
keeps are the constant `Cap` of SessionRules.

Deadlock. `AuditLog` is checked for deadlock: whatever happens the verifier can
start again and the process crash. The other configurations say `CHECK_DEADLOCK FALSE`: a server at rest is a legal last state, and the bounds on
tokens, keys, rows and time make such states.

Fairness. `FairSpec` of AuditLog is the one specification with fairness, because
the connection mutex is the one place where a handler waits for another. Strong
fairness of `Lock`: tasks that wait for a `parking_lot` mutex are queued, and its
eventual fairness hands it over rather than let others overtake for ever. Weak
fairness of `SelectLast`, of `Insert` or `InsertFails`, and of `Return`: a SQLite
statement that runs ends, either way, and the blocking pool reports it.
Nothing is assumed of calls, crashes, alterations, the verifier, or of an INSERT to
succeed. `EveryCallEnds` says that every call that waits for the mutex comes to an
end; it is checked without symmetry. All other properties are safety properties and
hold without fairness.

## 4. The proofs

All listed theorems hold for every value of the constants that satisfies the
named assumptions of the modules.

| Module | Theorems | Inductive invariant and why it is needed |
|---|---|---|
| `AuditLogProofs` | `TypeOK`, `ChainIntact`\*, `VerdictExact`, `NoFalseAlarm`\*, `Anchored`\*, `AckedDurable`, `ImplementsLedger`\* (`Spec => Implements`), `HistoriesEvident`\* | `ChainInv`: whoever is between SELECT and the end of INSERT holds the mutex, and what it read is still the last hash: without it the INSERT may break the chain. `WalkInv`: the verifier has accepted everything before its cursor. `AckedInv`: a row inserted and not yet returned is present. `ReceiptInv`: a hash recorded before any alteration is the sequence of the payloads up to its row, and the last hash of an unaltered table that of all. `LedgerInv`: so is every hash the verifier has accepted (`ReachedInv`), of whatever table; the two give `Anchored`, and the refinement its `VerifyEnd`; `HistoriesEvident` is proved of `Ledger` and carried over |
| `DelegationProofs` | `TypeOK`, `Attenuation`, `ChainFaithful`, `MintedByHolder`, `ExpiryInherited`, `MemoryImpliesRow`, `RevokedStaysRejected` | `IInv`: the lineage of every token, and, for a call past `verify`, that what it checked of its parent still holds when it signs. `LifeInv`: no token is passed on before it is signed, so that a child gets at most the life its parent was signed with, and so on up to the root. `RevokeInv`: before the first restart what was revoked is in the set |
| `AccessControlProofs` | `TypeOK`, `StopBinds`, `DeliveredLogged`, `KillLeakBounded`, `OvershootBounded` | `IInv`: for each request what its steps have established, above all that the stops it carries still apply and that it is past a check only if that check's stop is not among them. The two bounds count what is out together with who can still let one more out. `LeakInv`: after a kill, live rows and handlers past the check (`PastCheck`) are together at most the handlers; recording a token moves one from the second to the first, and nobody new comes past the check. `CountInv`: in each session, tokens delivered and allowed requests that have been counted (`Counted`) are at most its count, and tokens delivered and all allowed requests in flight (`Admitted`) at most the limit plus the other handlers: whoever is let through saw a count below the limit, so that delivered and counted were below it too, and what is not counted is in another handler's hands |
| `PolicyStoreProofs` | `TypeOK`, `NewestActive`, `ReadsOwnWrite`, `AloneTakesEffect` | `IInv`: no row is active while a write is half done or was cut short, else the newest is; what a handler saved and read at its stage; a handler marked alone is the only one in flight |
| `SessionRulesProofs` | of RateLimit: `TypeOK`, `WindowLimit`, `LongRunRate`; of SessionRules: `LimiterKept` (`RulesSpec => Spec`), and with it these three again, `RulesTypeOK`, `PriorRecent`, `DenialEarned`, `CapBinds` | `IInv`: the calls let through in the current window are within the limit, and below it after the call that started the window; of a stretch with the length of `k` windows that reaches into it, for every `k`, the part before it holds fewer than `k` limits (`PreviousOK`); such a stretch is covered by the two. The invariant speaks of every `k` at once, so no induction on `k` is needed. `RulesInv` adds that the trajectory is the last `Cap` of the log (`SuffixOK`), and that the limiter's count is at most the evaluations that met the conditions since its window began (`CountOK`). `SpendInv`, for `CapBinds`: what was answered for is at most what was reported, that at most the spend of the session, and a call not yet evaluated is owed at most what is answered for and not taken back |
| `IdpFederationProofs` | `TypeOK`, `SingleUse`, `LoginBound`, `KnownPersonKept` | One per property. `StoreOK`: an entry is exactly what its authorization drew, and none is of a state that was let through; so a removed entry has no twin left. `ChallengesOK`: challenges, codes, entries and callbacks each stand for one authorization, whose state was let through before anything is in flight. `PersonsOK`: what a callback has learnt of the rows that were there when it came, which later rows cannot change since rows are only appended |
| `VaultProofs` | `TypeOK`, `ReadsNewest`, `SameLifeVends`, `FirstKeyLasts` | `IInv`: what was stored since the start is under the key in memory (`RowsOK`); until a file is overwritten memory and file agree, and nothing is stored before there is a file (`FileOK`); `ORDER BY` has a last row to find (`LastsOK`); and what a call has established at its stage (`CallOK`) |
| `ApprovalsProofs` | `TypeOK`, `RotationBinds`, `ShownKeyWorks`, `ImplementsBallot` (`Spec => Implements`), `WordsStand` | `AuthInv`: each rotation in flight has a key of its own that nobody has seen, so an old key cannot come back; a rotation alone has its agent to itself. `BoardInv`: a decision a handler carries is the row's, which no later step changes. The refinement maps each action to `File`, `Decide`, `Tell` or a stutter under `IInv`; `WordsStand` is proved of `Ballot` and carried over |

\* Under `SelectFaults = FALSE`: section 5 shows that they fail otherwise.

Assumptions on constants: `EncodeAssumption`, `ForgeableAssumption`,
`NoWriterAssumption`, `FaultAssumption` (AuditLog); `AgentAssumption`, `OwnerAssumption`,
`RequestAssumption`, `NumberAssumption` (Delegation); `RuleAssumption`,
`AgentAssumption`, `WorkerAssumption` (AccessControl: a process has finitely many
handlers in flight, at least one, and a policy finitely many rules); `PolicyAssumption`, `SettingAssumption`
(PolicyStore); `RateAssumption`, `LimitAssumption` (RateLimit: a limit is a `u64`,
so there is a largest one); `AccountAssumption`, `SettingAssumption`
(IdpFederation); `ActionAssumption`, `SessionAssumption` (SessionRules);
`ProviderAssumption`, `AccountAssumption` (Vault);
`AgentAssumption`, `KeysAssumption` (ClientAuth); `NobodyAssumption`, `IdAssumption`,
`RolesAssumption` (Approvals: an agent's id is no approver's, so that a word told says
who heard it; the code takes any `approver_id`, and no action depends on it); and `BoundAssumption` of each. They type the
constants and say that what the code takes for granted is not empty. TLC
evaluates them in every run.

Layout. Each proof module states the invariant, then lemmas about the
operators, one lemma per action or group of like actions, `InitOK`, `NextStep`,
and the theorems, whose last step combines these by PTL.

Counting. `KillLeakBounded` and `OvershootBounded` compare cardinalities. Each step
adds or removes one member of the sets counted, which `CardAtMostOneMore` and
`CardOneLess` bound; `FiniteMax`, that a finite set of naturals has a greatest member,
gives the session limit its meaning. It is an induction over finite sets, done
with well-founded induction on sets as sets (`WFMin`) since the theorems that take an
operator cannot be instantiated here. `CapBinds` would need a sum over the reporters;
instead `reported` carries the sum along as history.

Only model-checked: `EveryCallEnds`, liveness under fairness, which is out of the
provers' reach, as are ENABLED and what a recursive definition computes for every
input (no model here has one).

## 5. Where the code and its documents differ

Two of these are runs that TLC ends with a counterexample.

| Run | Property | What happens |
|---|---|---|
| `audit_select_fault` | `NoFalseAlarm` | `src/src/db/mod.rs:484` takes the genesis hash on any error of the SELECT. One failed read chains the new row to Genesis, and `verify-chain` reports for good an alteration that nobody made |
| `policy_race` | `EngineCurrent` | `src/docs/LLD.md:283` says that the engine is rebuilt from the active policy; two overlapping reloads can swap in the opposite order of their reads, and the engine stays at the deprecated one |

Other differences, visible in the models, for which there is no run of their own:

- `src/README.md:78` promises revocation "with DB persistence"; `verify` reads only
  the in-memory set, which `Restart` empties. `RevokedStaysRejected` therefore speaks
  of one run of the process.
- `src/docs/LLD.md:351` says that a kill revokes "DB + in-memory"; `KillRows` marks
  rows only, and the tokens still verify as parents of a delegation.
- `src/README.md:51` describes approvals "with expiry"; `resolve_approval_request`
  does not look at `expires_at`, no row ever becomes expired, and so Approvals has
  no clock.
- Revoking a grant is described as revoking its descendants (`src/README.md:43`,
  `src/docs/HLD.md:154`, `src/docs/LLD.md:198`); no route creates a grant with a
  parent, so there are none.
- `record_spend` answers with the amount as recorded when the session is not there
  and nothing was kept (`RecordSpend`); `CapBinds` speaks of spend that was kept.
- `record_spend` takes a negative amount (`api/routes.rs:1033`, `:1045`), which brings the
  spend back below the cap; the next request then passes. `CapBinds` says so: it holds
  for spend that no report took back.
- A dry run counts against the rate limit of the real requests (`Limited` for a
  `dry` call), and a prior action that was itself denied satisfies
  `require_prior_action` (`RecordAction`).
- A token's `exp - iat` can exceed the life it was given by the pause between the two
  readings of the clock in `issue` (`token/issuer.rs:48`, `token/mod.rs:57`).
- A delegation whose parent was verified before `revoke_token` or `kill_agent` still
  mints its child (`Verify`, then `RevokeMemory`, then `IssueChild`).
- `restore_agent` also clears the flag of a session that was killed by itself before
  (`RestoreSessions`).
- `vend_credential` answers with the scopes that were asked for, not those granted;
  Slack's form leaves them out (`vault/providers.rs:257`), and the token may carry
  more. Not modelled: what is granted is the provider's.
- `audit/verifier.rs:6` says that the verifier answers "has the audit log been
  altered?". Rows deleted from the end are not noticed, since nothing anchors the end
  (`DeleteRow` of the last row). Rows edited, put in or moved whose hashes, with those
  of all later rows, are computed anew are not noticed either: the hash takes no key
  (`audit/mod.rs:30`; `EditRow` of the last row with `Hash`, then a walk that ends in
  "ok"). `verifier.rs:41` lists what the two reasons stand for, which is not all that
  can be done. `VerdictExact` holds since what verifies is an intact chain, `Anchored`
  says what a hash kept elsewhere adds.
- `revoke_grant` leaves the tokens of the grant alone (`RevokeGrant` changes
  `grants` only).
- A request past the kill check can still record a token after the kill.
  `KillLeakBounded` bounds them by one per handler.
- Denials by the stop are answered without an audit entry (`Arrive`,
  `CheckAgent`), where `src/README.md:84` says that every decision is logged.
- `max_actions_in_session` (`src/docs/LLD.md:250`, "max total actions in session") is
  compared at evaluation and raised after `record_token`, so concurrent requests
  pass it together; `OvershootBounded` says by how many. It also counts denials.
- `src/src/api/routes.rs:1165` speaks of the session policy; `ApplyPolicy` replaces
  the one policy of the server by that of the person who logs in.
- Two callbacks of a first login each create a principal (`NotFound`, `Create`);
  `KnownPersonKept` says that later ones settle on the first.
- The rate limiter counts in fixed windows that start with a call; `src/README.md:55`
  speaks of a sliding window. `LongRunRate` is what it keeps instead: in a minute
  less than twice the limit.

## 6. What is not modelled

- Which rule matches a request (patterns, first match) and the scope filter: a pure
  function of one request and the rules, with unit tests of its own. What depends on
  state, the conditions of the rule that matches, is in AccessControl and SessionRules.
- The recursion of `revoke_grant_sync`: `principal_delegate` alone calls
  `create_grant`, without a parent, so no state the server can reach has a child grant.
- The clock of approvals and the approval token: nothing reads them.
- The 64-bit conversion of `expires_in_seconds` (`u64` cast to `i64`,
  `src/src/api/routes.rs:616` and `:508`): one expression; clocks are small naturals here.
- `record_tokens` and `apply_trust_decay_all` have no caller in `src/src`, so
  trust stays at 1.0.
- The registry of agents, principals and resources: single INSERTs and SELECTs.
  The owner of an agent is a constant of Delegation.
- Migrations: idempotent DDL run once at the start.
- Command line, configuration, routing, CORS, dashboard, errors: I/O and layout.
- Key loading and JWKS: signatures are assumed.
- Metrics: no decision reads them.
- The Python SDK, scripts and examples are clients.

## 7. Plan

Done, in this order: AuditLog with Ledger, Delegation, AccessControl, PolicyStore, RateLimit,
IdpFederation, Vault, ClientAuth and Approvals with Ballot, SessionRules, and the
liveness of AuditLog, each with its proofs.

Next, most important first:

1. A composition of AccessControl with the verifier of Delegation, for a kill that
   reaches both and a parent token presented to `request_access`.
2. More abstract specifications: `Authority`, in which power is only passed on by who
   has it, for Delegation; a register set by `create_policy`, for PolicyStore when
   handlers do not overlap.
3. Liveness of `create_policy`: without failures a policy comes to be in force or is
   followed by another.
