------------------------------ MODULE ClientAuth ------------------------------
(***************************************************************************)
(* The agents' client keys: provision_client_key makes a key, stores its    *)
(* hash over the agent's old one and shows the key once, and                *)
(* auth_middleware looks up the agent whose hash is that of the key a       *)
(* request presents.                                                       *)
(*                                                                         *)
(* A key is the number of its making, and stands for its SHA-256 digest.    *)
(* The agents are registered and active: nothing in the code changes an     *)
(* agent's status. A call whose client has gone is still served up to its   *)
(* last await, so a restart of the server is a Drop of every call.          *)
(*                                                                         *)
(* Definitions named Bug... are altered forms of the definition that        *)
(* follows them; no specification uses them.                                *)
(***************************************************************************)
EXTENDS Naturals, Sequences, FiniteSets

CONSTANTS
    Agent,     \* the agents
    Client,    \* requests in flight on /v1/agent/*
    Console,   \* calls of provision_client_key in flight
    MaxKeys    \* bound: keys made

ASSUME AgentAssumption == Agent # {}
ASSUME KeysAssumption == MaxKeys \in Nat

VARIABLES
    hash,      \* agents.client_key_hash
    madeFor,   \* history: the agent each key was made for
    prov,      \* [Console -> its call of provision_client_key]
    caller,    \* [Client -> what the middleware knows of its request]
    shown,     \* history: keys whose answer arrived
    sure       \* history: the key an agent's last rotation showed, if none overlapped

authVars == <<hash, madeFor, prov, caller, shown, sure>>

NoKey == 0
Keys == 1..Len(madeFor)
AnyAgent == CHOOSE a \in Agent : TRUE

Prov == [stage : {"idle", "generated", "set"}, agent : Agent, key : Nat,
         alone : BOOLEAN]
IdleProv == [stage |-> "idle", agent |-> AnyAgent, key |-> NoKey, alone |-> FALSE]

\* old is history: the key was not the agent's when the request arrived.
Caller == [stage : {"idle", "presented", "admitted"}, key : Nat, agent : Agent,
           old : BOOLEAN]
IdleCaller == [stage |-> "idle", key |-> NoKey, agent |-> AnyAgent, old |-> FALSE]

AuthInit ==
    /\ hash = [a \in Agent |-> NoKey]
    /\ madeFor = <<>>
    /\ prov = [p \in Console |-> IdleProv]
    /\ caller = [c \in Client |-> IdleCaller]
    /\ shown = {}
    /\ sure = [a \in Agent |-> NoKey]

-----------------------------------------------------------------------------
InFlight(a) == {p \in Console : prov[p].stage # "idle" /\ prov[p].agent = a}

\* provision_client_key, up to the call of set_agent_client_key_hash: get_agent and
\* generate_client_key. What it overlaps is no longer sure of its key.
Generate(p, a) ==
    /\ prov[p].stage = "idle"
    /\ Len(madeFor) < MaxKeys
    /\ madeFor' = Append(madeFor, a)
    /\ prov' = [q \in Console |->
         CASE q = p -> [stage |-> "generated", agent |-> a, key |-> Len(madeFor) + 1,
                        alone |-> InFlight(a) = {}]
           [] q \in InFlight(a) /\ q # p -> [prov[q] EXCEPT !.alone = FALSE]
           [] OTHER -> prov[q]]
    /\ sure' = [sure EXCEPT ![a] = NoKey]
    /\ UNCHANGED <<hash, caller, shown>>

\* set_agent_client_key_hash: UPDATE agents. (Altered: only an agent without a key
\* is given one.)
BugSetHash(p) ==
    /\ prov[p].stage = "generated"
    /\ hash' = [hash EXCEPT ![prov[p].agent] = IF @ = NoKey THEN prov[p].key ELSE @]
    /\ prov' = [prov EXCEPT ![p].stage = "set"]
    /\ UNCHANGED <<madeFor, caller, shown, sure>>
SetHash(p) ==
    /\ prov[p].stage = "generated"
    /\ hash' = [hash EXCEPT ![prov[p].agent] = prov[p].key]
    /\ prov' = [prov EXCEPT ![p].stage = "set"]
    /\ UNCHANGED <<madeFor, caller, shown, sure>>

\* The answer with the raw key arrives. (Altered: the call is cleared first.)
BugShow(p) ==
    /\ prov[p].stage = "set"
    /\ prov' = [prov EXCEPT ![p] = IdleProv]
    /\ shown' = shown \cup {prov'[p].key}
    /\ UNCHANGED <<hash, madeFor, caller, sure>>
Show(p) ==
    /\ prov[p].stage = "set"
    /\ prov' = [prov EXCEPT ![p] = IdleProv]
    /\ shown' = shown \cup {prov[p].key}
    /\ sure' = IF prov[p].alone THEN [sure EXCEPT ![prov[p].agent] = prov[p].key]
                                ELSE sure
    /\ UNCHANGED <<hash, madeFor, caller>>

\* The UPDATE fails, or the answer is lost and with it the key.
LoseKey(p) ==
    /\ prov[p].stage # "idle"
    /\ prov' = [prov EXCEPT ![p] = IdleProv]
    /\ UNCHANGED <<hash, madeFor, caller, shown, sure>>

-----------------------------------------------------------------------------
\* A request arrives with a key its client was shown.
Present(c, k) ==
    /\ caller[c].stage = "idle"
    /\ caller' = [caller EXCEPT ![c] =
         [IdleCaller EXCEPT !.stage = "presented", !.key = k,
                            !.old = hash[madeFor[k]] # k]]
    /\ UNCHANGED <<hash, madeFor, prov, shown, sure>>

\* get_agent_by_client_key_hash. (Altered: any key ever made for an agent is one.)
BugHolder(k, a) == madeFor[k] = a
Holder(k, a) == hash[a] = k

\* auth_middleware on a path of the agents: the agent goes into the extensions, or
\* the request is answered 401.
Admit(c) ==
    /\ caller[c].stage = "presented"
    /\ \/ \E a \in Agent :
            /\ Holder(caller[c].key, a)
            /\ caller' = [caller EXCEPT ![c].stage = "admitted", ![c].agent = a]
       \/ /\ \A a \in Agent : ~Holder(caller[c].key, a)
          /\ caller' = [caller EXCEPT ![c] = IdleCaller]
    /\ UNCHANGED <<hash, madeFor, prov, shown, sure>>

\* The request ends: with the handler's answer, a failure, or a client that is gone.
End(c) == caller' = [caller EXCEPT ![c] = IdleCaller]

Rotate(p) ==
    \/ \E a \in Agent : Generate(p, a)
    \/ SetHash(p)
    \/ Show(p)
    \/ LoseKey(p)

-----------------------------------------------------------------------------
\* The type invariant.
AuthTypeOK ==
    /\ hash \in [Agent -> Nat]
    /\ madeFor \in Seq(Agent)
    /\ prov \in [Console -> Prov]
    /\ caller \in [Client -> Caller]
    /\ shown \subseteq Keys
    /\ sure \in [Agent -> Nat]

\* A request is served only as the agent its key was made for, and only if no later
\* key of that agent was in place when it arrived: a rotation shuts out the old key,
\* but for the requests that were already in.
RotationBinds ==
    \A c \in Client : caller[c].stage = "admitted" =>
      /\ caller[c].key \in Keys
      /\ caller[c].agent = madeFor[caller[c].key]
      /\ ~caller[c].old

\* The key a rotation showed is the one the server knows, unless another rotation of
\* the agent was under way with it or has begun since.
ShownKeyWorks ==
    \A a \in Agent : sure[a] # NoKey => hash[a] = sure[a] /\ sure[a] \in shown
=============================================================================
