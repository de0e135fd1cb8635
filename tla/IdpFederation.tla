---------------------------- MODULE IdpFederation ----------------------------
(***************************************************************************)
(* Login through an identity provider: idp_authorize draws a state and a    *)
(* PKCE verifier and keeps them in the PkceStore, the person signs in at    *)
(* the provider, and idp_callback consumes the state, exchanges the code,   *)
(* looks the principal up by email or creates one, and puts the policy of   *)
(* the person's groups in force. Callbacks overlap, are dropped and fail;   *)
(* any state may come back with any code, late or again; the process        *)
(* restarts.                                                               *)
(*                                                                         *)
(* The draws are numbered: the n-th authorization draws state n and         *)
(* verifier n. The provider, outside the server, issues a code for the      *)
(* challenge of an authorization and gives a token for it once, to whoever  *)
(* presents the verifier of that challenge. The steps of create_policy and  *)
(* reload_policy are in PolicyStore.                                        *)
(*                                                                         *)
(* Definitions named Bug... are altered forms of the definition that        *)
(* follows them; no specification uses them.                                *)
(***************************************************************************)
EXTENDS Integers, Sequences

CONSTANTS
    Callback,    \* handlers of idp_callback
    Provider,    \* config.idp.providers
    Account,     \* accounts of persons at the providers
    Home,        \* [Account -> Provider]
    Email,       \* emails
    EmailOf,     \* [Account -> Email]: two accounts may have the same
    Mapped,      \* accounts in a group with a policy
    Ttl,         \* PKCE_STATE_TTL_SECONDS, in ticks
    Faults,      \* the lookup of a principal may fail
    MaxLogins,   \* bound: authorizations
    MaxCodes,    \* bound: codes issued
    MaxTime,     \* bound: the clock
    MaxRestarts  \* bound: restarts

ASSUME AccountAssumption ==
    Account # {} /\ Home \in [Account -> Provider] /\ EmailOf \in [Account -> Email]
ASSUME SettingAssumption == Mapped \subseteq Account /\ Faults \in BOOLEAN /\ Ttl \in Nat
ASSUME BoundAssumption ==
    MaxLogins \in Nat /\ MaxCodes \in Nat /\ MaxTime \in Nat /\ MaxRestarts \in Nat

VARIABLES
    now,           \* the clock
    transactions,  \* PkceStore.transactions, in memory
    asked,         \* history: the authorizations, in order
    codes,         \* the codes the providers have issued
    spent,         \* the codes a provider has given a token for
    principals,    \* the principals table
    policy,        \* whose groups' policy was put in force last
    call,          \* [Callback -> the callback in flight]
    accepted,      \* history: the states that were let through, in order
    logins,        \* history: the logins answered
    restarts       \* restarts so far

outside == <<codes, spent>>
history == <<asked, accepted, logins>>
vars == <<now, transactions, outside, principals, policy, call, history, restarts>>

Number == Nat \ {0}
Challenge(v) == [s256 |-> v]
Transaction == [state : Number, provider : Provider, verifier : Number, created : Nat]
Asked == [provider : Provider, at : Nat, challenge : [s256 : Number]]
Code == [auth : Number, account : Account, challenge : [s256 : Number]]
Principal == [email : Email, provider : Provider]
Stage == {"idle", "exchange", "lookup", "create", "policy", "answer"}
Lookup == {"none", "found", "empty", "failed"}
\* rows is history: how many principals there were when the state was consumed;
\* lookup is what its lookup of the principal came to.
Call == [stage : Stage, state : Nat, provider : Provider, verifier : Nat, code : Nat,
         principal : Nat, rows : Nat, lookup : Lookup]
Login == [email : Email, principal : Nat, rows : Nat, lookup : Lookup]
NoCall == [stage |-> "idle", state |-> 0, provider |-> CHOOSE p \in Provider : TRUE,
           verifier |-> 0, code |-> 0, principal |-> 0, rows |-> 0, lookup |-> "none"]

Init ==
    /\ now = 0
    /\ transactions = {}
    /\ asked = <<>>
    /\ codes = <<>>
    /\ spent = {}
    /\ principals = <<>>
    /\ policy = 0
    /\ call = [c \in Callback |-> NoCall]
    /\ accepted = <<>>
    /\ logins = {}
    /\ restarts = 0

-----------------------------------------------------------------------------
\* generate_code_verifier at the n-th authorization. (Altered: always the same.)
BugDraw(n) == 1
Draw(n) == n

Live(t) == now - t.created < Ttl

\* idp_authorize; PkceStore::insert drops what has expired.
Authorize(p) ==
    /\ Len(asked) < MaxLogins
    /\ LET n == Len(asked) + 1 IN
       /\ asked' = Append(asked, [provider |-> p, at |-> now,
                                  challenge |-> Challenge(Draw(n))])
       /\ transactions' = {t \in transactions : Live(t)} \cup
            {[state |-> n, provider |-> p, verifier |-> Draw(n), created |-> now]}
    /\ UNCHANGED <<now, outside, principals, policy, call, accepted, logins, restarts>>

\* Outside: a person signs in to the account u with the n-th authorization URL.
SignIn(n, u) ==
    /\ Len(codes) < MaxCodes
    /\ Home[u] = asked[n].provider
    /\ codes' = Append(codes, [auth |-> n, account |-> u,
                               challenge |-> asked[n].challenge])
    /\ UNCHANGED <<now, transactions, spent, principals, policy, call, history, restarts>>

-----------------------------------------------------------------------------
\* idp_callback with a state and a code: PkceStore::consume removes the entry. A
\* state without one is refused. (Altered: the entry stays.)
BugConsume(c, t, k) ==
    /\ call[c].stage = "idle" /\ Live(t)
    /\ accepted' = Append(accepted, [state |-> t.state, at |-> now])
    /\ call' = [call EXCEPT ![c] =
         [NoCall EXCEPT !.stage = "exchange", !.state = t.state, !.provider = t.provider,
            !.verifier = t.verifier, !.code = k, !.rows = Len(principals)]]
    /\ UNCHANGED <<now, transactions, outside, principals, policy, asked, logins,
                   restarts>>
Consume(c, t, k) ==
    /\ call[c].stage = "idle" /\ Live(t)
    /\ transactions' = transactions \ {t}
    /\ accepted' = Append(accepted, [state |-> t.state, at |-> now])
    /\ call' = [call EXCEPT ![c] =
         [NoCall EXCEPT !.stage = "exchange", !.state = t.state, !.provider = t.provider,
            !.verifier = t.verifier, !.code = k, !.rows = Len(principals)]]
    /\ UNCHANGED <<now, outside, principals, policy, asked, logins, restarts>>

\* The entry is there and too old: it is removed all the same, and refused.
ConsumeLate(t) ==
    /\ ~Live(t)
    /\ transactions' = transactions \ {t}
    /\ UNCHANGED <<now, outside, principals, policy, call, history, restarts>>

AccountOf(c) == codes[call[c].code].account
MailOf(c) == EmailOf[AccountOf(c)]

\* exchange_oidc_token and fetch_userinfo: the provider of the transaction gives
\* a token for a code of its own, once, against the verifier.
Exchange(c) ==
    /\ call[c].stage = "exchange"
    /\ Home[AccountOf(c)] = call[c].provider
    /\ codes[call[c].code].challenge = Challenge(call[c].verifier)
    /\ call[c].code \notin spent
    /\ spent' = spent \cup {call[c].code}
    /\ call' = [call EXCEPT ![c].stage = "lookup"]
    /\ UNCHANGED <<now, transactions, codes, principals, policy, history, restarts>>

AfterPrincipal(c) == IF AccountOf(c) \in Mapped THEN "policy" ELSE "answer"

\* get_principal_by_email: the first row of that email; an error reads as none.
\* (Altered: the provider must be the same too.)
BugRowsOf(c) == {i \in 1..Len(principals) :
                   principals[i] = [email |-> MailOf(c), provider |-> call[c].provider]}
RowsOf(c) == {i \in 1..Len(principals) : principals[i].email = MailOf(c)}

Found(c) ==
    /\ call[c].stage = "lookup"
    /\ \E i \in RowsOf(c) :
         /\ \A j \in RowsOf(c) : i <= j
         /\ call' = [call EXCEPT ![c].stage = AfterPrincipal(c), ![c].principal = i,
                                 ![c].lookup = "found"]
    /\ UNCHANGED <<now, transactions, outside, principals, policy, history, restarts>>

NotFound(c) ==
    /\ call[c].stage = "lookup"
    /\ \E l \in {"empty", "failed"} :
         /\ IF l = "empty" THEN RowsOf(c) = {} ELSE Faults
         /\ call' = [call EXCEPT ![c].stage = "create", ![c].lookup = l]
    /\ UNCHANGED <<now, transactions, outside, principals, policy, history, restarts>>

\* create_principal. (Altered: the row is not inserted.)
BugCreate(c) ==
    /\ call[c].stage = "create"
    /\ call' = [call EXCEPT ![c].stage = AfterPrincipal(c),
                            ![c].principal = Len(principals) + 1]
    /\ UNCHANGED <<now, transactions, outside, principals, policy, history, restarts>>
Create(c) ==
    /\ call[c].stage = "create"
    /\ principals' = Append(principals, [email |-> MailOf(c),
                                         provider |-> call[c].provider])
    /\ call' = [call EXCEPT ![c].stage = AfterPrincipal(c),
                            ![c].principal = Len(principals) + 1]
    /\ UNCHANGED <<now, transactions, outside, policy, history, restarts>>

\* create_policy and reload_policy, with a policy in the name of the principal that
\* replaces everybody's; what comes between the two is in PolicyStore.
ApplyPolicy(c) ==
    /\ call[c].stage = "policy"
    /\ policy' = call[c].code
    /\ call' = [call EXCEPT ![c].stage = "answer"]
    /\ UNCHANGED <<now, transactions, outside, principals, history, restarts>>

Answer(c) ==
    /\ call[c].stage = "answer"
    /\ logins' = logins \cup {[email |-> MailOf(c), principal |-> call[c].principal,
                               rows |-> call[c].rows, lookup |-> call[c].lookup]}
    /\ call' = [call EXCEPT ![c] = NoCall]
    /\ UNCHANGED <<now, transactions, outside, principals, policy, asked, accepted,
                   restarts>>

\* The provider refuses or cannot be reached, a statement fails, or the client is
\* gone and the handler dropped (a write under way goes through: Create, then Drop).
Drop(c) ==
    /\ call[c].stage # "idle"
    /\ call' = [call EXCEPT ![c] = NoCall]
    /\ UNCHANGED <<now, transactions, outside, principals, policy, history, restarts>>

\* The process stops and starts: the store is in memory.
Restart ==
    /\ restarts < MaxRestarts
    /\ restarts' = restarts + 1
    /\ transactions' = {}
    /\ call' = [c \in Callback |-> NoCall]
    /\ UNCHANGED <<now, outside, principals, policy, history>>

Tick ==
    /\ now < MaxTime
    /\ now' = now + 1
    /\ UNCHANGED <<transactions, outside, principals, policy, call, history, restarts>>

-----------------------------------------------------------------------------
Handle(c) ==
    \/ \E t \in transactions, k \in 1..Len(codes) : Consume(c, t, k)
    \/ Exchange(c)
    \/ Found(c)
    \/ NotFound(c)
    \/ Create(c)
    \/ ApplyPolicy(c)
    \/ Answer(c)
    \/ Drop(c)

Next ==
    \/ \E p \in Provider : Authorize(p)
    \/ \E n \in 1..Len(asked), u \in Account : SignIn(n, u)
    \/ \E c \in Callback : Handle(c)
    \/ \E t \in transactions : ConsumeLate(t)
    \/ Restart
    \/ Tick

Spec == Init /\ [][Next]_vars

-----------------------------------------------------------------------------
\* The type invariant.
TypeOK ==
    /\ now \in Nat /\ restarts \in Nat
    /\ transactions \subseteq Transaction
    /\ asked \in Seq(Asked)
    /\ codes \in Seq(Code)
    /\ spent \subseteq 1..Len(codes)
    /\ principals \in Seq(Principal)
    /\ policy \in 0..Len(codes)
    /\ call \in [Callback -> Call]
    /\ \A c \in Callback : /\ call[c].code \in 0..Len(codes)
                           /\ call[c].principal \in 0..Len(principals)
                           /\ call[c].stage # "idle" => call[c].code # 0
    /\ accepted \in Seq([state : Number, at : Nat])
    /\ logins \subseteq Login

\* A state is let through once, however many callbacks bring it, before and
\* after a restart, and only while it is live: single use and expiry together.
SingleUse ==
    /\ \A i, j \in 1..Len(accepted) : accepted[i].state = accepted[j].state => i = j
    /\ \A i \in 1..Len(accepted) :
         /\ accepted[i].state \in 1..Len(asked)
         /\ accepted[i].at - asked[accepted[i].state].at < Ttl

\* PKCE binds a login to its authorization: whatever codes and states come
\* together, nothing is read or written for an account that did not sign in with
\* the very authorization whose state the callback brought, and the policy in force
\* is of a person whose state was let through.
LoginBound ==
    /\ \A c \in Callback :
         call[c].stage \in {"lookup", "create", "policy", "answer"} =>
           codes[call[c].code].auth = call[c].state
    /\ policy # 0 =>
         \E i \in 1..Len(accepted) : accepted[i].state = codes[policy].auth

\* A person who is known when a callback comes gets the first principal of that
\* email, however many logins of hers overlap, unless the lookup fails.
KnownPersonKept ==
    \A l \in logins :
      /\ l.lookup # "failed"
      /\ \E i \in 1..l.rows : principals[i].email = l.email
      => /\ l.principal \in 1..l.rows
         /\ principals[l.principal].email = l.email
         /\ \A i \in 1..(l.principal - 1) : principals[i].email # l.email
=============================================================================
