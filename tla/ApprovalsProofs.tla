---------------------------- MODULE ApprovalsProofs ----------------------------
(***************************************************************************)
(* Proofs about the clients' keys and the approval endpoints: a rotation    *)
(* shuts the old key out and the key it shows works, and the endpoints      *)
(* implement the Ballot, for any number of agents, clients, consoles,       *)
(* approvers, requests and keys.                                           *)
(***************************************************************************)
EXTENDS Approvals, TLAPS

Busy(p) == prov[p].stage # "idle"
MadeTo(k, a) == k \in Keys /\ madeFor[k] = a

\* Each call of provision_client_key has a key of its own, which nobody has seen.
ProvInv ==
    /\ \A p \in Console : Busy(p) =>
         MadeTo(prov[p].key, prov[p].agent) /\ prov[p].key \notin shown
    /\ \A p, q \in Console : Busy(p) /\ Busy(q) /\ prov[p].key = prov[q].key => p = q

\* A call that overlapped no other has the agent to itself, and once its UPDATE is
\* done the hash is its own.
AloneInv ==
    \A p \in Console : Busy(p) /\ prov[p].alone =>
      /\ \A q \in Console : Busy(q) /\ prov[q].agent = prov[p].agent => q = p
      /\ prov[p].stage = "set" => hash[prov[p].agent] = prov[p].key

HashInv == \A a \in Agent : hash[a] # NoKey => MadeTo(hash[a], a)

SureInv ==
    \A a \in Agent : sure[a] # NoKey =>
      /\ hash[a] = sure[a] /\ sure[a] \in shown
      /\ \A p \in Console : Busy(p) => prov[p].agent # a

\* A key that was old when its request arrived has not come back.
CallerInv ==
    \A c \in Client : caller[c].stage # "idle" =>
      /\ caller[c].key \in shown
      /\ caller[c].old => hash[madeFor[caller[c].key]] # caller[c].key
      /\ caller[c].stage = "admitted" =>
           caller[c].agent = madeFor[caller[c].key] /\ ~caller[c].old

AuthInv == AuthTypeOK /\ ProvInv /\ AloneInv /\ HashInv /\ SureInv /\ CallerInv

-----------------------------------------------------------------------------
LEMMA AuthInitOK ==
    ASSUME AuthInit
    PROVE  AuthInv
  <1>1. AnyAgent \in Agent
    BY AgentAssumption DEF AnyAgent
  <1>2. AuthTypeOK
    BY <1>1 DEF AuthInit, AuthTypeOK, IdleProv, IdleCaller, Prov, Caller, NoKey
  <1> QED
    BY <1>2 DEF AuthInit, AuthInv, ProvInv, AloneInv, HashInv, SureInv, CallerInv,
       Busy, IdleProv, IdleCaller

LEMMA IdleTypes == IdleProv \in Prov /\ IdleCaller \in Caller
  <1>1. AnyAgent \in Agent
    BY AgentAssumption DEF AnyAgent
  <1> QED BY <1>1 DEF IdleProv, IdleCaller, Prov, Caller, NoKey

\* A new key leaves the older ones as they are.
LEMMA KeysGrow ==
    ASSUME AuthTypeOK, NEW a \in Agent, madeFor' = Append(madeFor, a)
    PROVE  /\ madeFor' \in Seq(Agent)
           /\ Len(madeFor) + 1 \in Keys' /\ madeFor'[Len(madeFor) + 1] = a
           /\ Len(madeFor) + 1 \notin Keys /\ Len(madeFor) + 1 \in Nat
           /\ \A k \in Keys : k \in Keys' /\ madeFor'[k] = madeFor[k]
  BY DEF AuthTypeOK, Keys

\* provision_client_key makes a key.
LEMMA GenerateStep ==
    ASSUME AuthInv, NEW p \in Console, NEW a \in Agent, Generate(p, a)
    PROVE  AuthInv'
  <1> USE DEF AuthInv
  <1> DEFINE n == Len(madeFor) + 1
  <1>1. /\ madeFor' = Append(madeFor, a) /\ prov[p].stage = "idle"
        /\ sure' = [sure EXCEPT ![a] = NoKey]
        /\ UNCHANGED <<hash, caller, shown>>
    BY DEF Generate
  <1>2. /\ madeFor' \in Seq(Agent) /\ n \in Keys' /\ madeFor'[n] = a
        /\ n \notin Keys /\ n \in Nat
        /\ \A k \in Keys : k \in Keys' /\ madeFor'[k] = madeFor[k]
    BY <1>1, KeysGrow
  <1>3. /\ prov' \in [Console -> Prov]
        /\ prov'[p].stage = "generated" /\ prov'[p].agent = a /\ prov'[p].key = n
        /\ prov'[p].alone => InFlight(a) = {}
        /\ \A q \in Console \ {p} :
             /\ prov'[q].stage = prov[q].stage /\ prov'[q].agent = prov[q].agent
             /\ prov'[q].key = prov[q].key
             /\ prov'[q].alone => prov[q].alone /\ q \notin InFlight(a)
    <2>1. prov' = [q \in Console |->
         CASE q = p -> [stage |-> "generated", agent |-> a, key |-> n,
                        alone |-> InFlight(a) = {}]
           [] q \in InFlight(a) /\ q # p -> [prov[q] EXCEPT !.alone = FALSE]
           [] OTHER -> prov[q]]
      BY DEF Generate
    <2>2. prov'[p] = [stage |-> "generated", agent |-> a, key |-> n,
                      alone |-> InFlight(a) = {}]
      BY <2>1
    <2>3. [stage |-> "generated", agent |-> a, key |-> n,
           alone |-> InFlight(a) = {}] \in Prov
      BY <1>2 DEF Prov
    <2>4. ASSUME NEW q \in Console, q # p
          PROVE  /\ prov'[q] \in Prov
                 /\ prov'[q].stage = prov[q].stage /\ prov'[q].agent = prov[q].agent
                 /\ prov'[q].key = prov[q].key
                 /\ prov'[q].alone => prov[q].alone /\ q \notin InFlight(a)
      <3>1. prov[q] \in Prov
        BY DEF AuthTypeOK
      <3>2. CASE q \in InFlight(a)
        <4>1. prov'[q] = [prov[q] EXCEPT !.alone = FALSE]
          BY <2>1, <2>4, <3>2
        <4> QED BY <3>1, <4>1 DEF Prov
      <3>3. CASE q \notin InFlight(a)
        <4>1. prov'[q] = prov[q]
          BY <2>1, <2>4, <3>3
        <4> QED BY <3>1, <3>3, <4>1 DEF Prov
      <3> QED BY <3>2, <3>3
    <2>5. DOMAIN prov' = Console /\ prov' = [q \in Console |-> prov'[q]]
      BY <2>1
    <2>6. /\ prov'[p].stage = "generated" /\ prov'[p].agent = a /\ prov'[p].key = n
          /\ prov'[p].alone => InFlight(a) = {}
      <3>1. PICK x \in BOOLEAN : x = (InFlight(a) = {})
        OBVIOUS
      <3>2. prov'[p] = [stage |-> "generated", agent |-> a, key |-> n, alone |-> x]
        BY <2>2, <3>1, Zenon
      <3>3. prov'[p].stage = "generated" /\ prov'[p].agent = a /\ prov'[p].key = n
            /\ prov'[p].alone = x
        BY <3>2
      <3> QED BY <3>1, <3>3
    <2> QED BY <2>2, <2>3, <2>4, <2>5, <2>6
  <1>4. AuthTypeOK'
    <2>1. sure' \in [Agent -> Nat]
      BY <1>1 DEF AuthTypeOK, NoKey
    <2>2. shown' \subseteq Keys'
      BY <1>1, <1>2 DEF AuthTypeOK
    <2> QED BY <1>1, <1>2, <1>3, <2>1, <2>2 DEF AuthTypeOK
  <1>5. ProvInv'
    <2>1. ASSUME NEW q \in Console, Busy(q)'
          PROVE  /\ MadeTo(prov[q].key, prov[q].agent)' /\ prov'[q].key \notin shown'
                 /\ q # p => Busy(q) /\ prov'[q].key # n /\ prov'[q].key = prov[q].key
      <3>1. CASE q = p
        <4>1. n \notin shown'
          BY <1>1, <1>2 DEF AuthTypeOK
        <4>2. prov'[q].key = n /\ prov'[q].agent = a
          BY <1>3, <3>1
        <4> QED BY <1>2, <3>1, <4>1, <4>2 DEF MadeTo
      <3>2. CASE q # p
        <4>1. Busy(q) /\ prov'[q].key = prov[q].key /\ prov'[q].agent = prov[q].agent
          BY <1>3, <2>1, <3>2 DEF Busy
        <4>2. prov[q].key \in Keys /\ madeFor[prov[q].key] = prov[q].agent
              /\ prov[q].key \notin shown
          BY <4>1 DEF ProvInv, MadeTo
        <4> QED BY <1>1, <1>2, <4>1, <4>2 DEF MadeTo
      <3> QED BY <3>1, <3>2
    <2>2. prov'[p].key = n
      BY <1>3
    <2>3. ASSUME NEW q \in Console, NEW r \in Console, Busy(q)', Busy(r)',
                 prov'[q].key = prov'[r].key
          PROVE  q = r
      BY <2>1, <2>2, <2>3 DEF ProvInv
    <2> QED
      <3>1. \A q \in Console : Busy(q)' =>
              MadeTo(prov[q].key, prov[q].agent)' /\ prov'[q].key \notin shown'
        BY <2>1
      <3> QED BY <2>3, <3>1 DEF ProvInv
  <1>6. AloneInv'
    <2> SUFFICES ASSUME NEW q \in Console, Busy(q)', prov'[q].alone
                 PROVE  /\ \A r \in Console : Busy(r)' /\ prov'[r].agent = prov'[q].agent
                             => r = q
                        /\ prov'[q].stage = "set" => hash'[prov'[q].agent] = prov'[q].key
      BY DEF AloneInv
    <2>1. CASE q = p
      <3>1. InFlight(a) = {} /\ prov'[q].agent = a /\ prov'[q].stage = "generated"
        BY <1>3, <2>1
      <3>2. \A r \in Console \ {p} : Busy(r)' => prov'[r].agent # a
        BY <1>3, <3>1 DEF InFlight, Busy
      <3> QED BY <2>1, <3>1, <3>2
    <2>2. CASE q # p
      <3>1. Busy(q) /\ prov[q].alone /\ q \notin InFlight(a)
            /\ prov'[q].agent = prov[q].agent /\ prov'[q].key = prov[q].key
            /\ prov'[q].stage = prov[q].stage
        BY <1>3, <2>2 DEF Busy
      <3>2. prov[q].agent # a
        BY <3>1 DEF InFlight, Busy
      <3>3. \A r \in Console : Busy(r) /\ prov[r].agent = prov[q].agent => r = q
        BY <3>1 DEF AloneInv
      <3>4. prov[q].stage = "set" => hash[prov[q].agent] = prov[q].key
        BY <3>1 DEF AloneInv
      <3>5. prov'[p].agent = a
        BY <1>3
      <3>6. \A r \in Console : Busy(r)' /\ prov'[r].agent = prov'[q].agent => r = q
        BY <1>3, <3>1, <3>2, <3>3, <3>5 DEF Busy
      <3> QED BY <1>1, <3>1, <3>4, <3>6
    <2> QED BY <2>1, <2>2
  <1>7. HashInv'
    BY <1>1, <1>2 DEF HashInv, MadeTo
  <1>8. SureInv'
    <2> SUFFICES ASSUME NEW b \in Agent, sure'[b] # NoKey
                 PROVE  /\ hash'[b] = sure'[b] /\ sure'[b] \in shown'
                        /\ \A q \in Console : Busy(q)' => prov'[q].agent # b
      BY DEF SureInv
    <2>1. b # a /\ sure'[b] = sure[b]
      BY <1>1 DEF AuthTypeOK
    <2>2. hash[b] = sure[b] /\ sure[b] \in shown
          /\ \A q \in Console : Busy(q) => prov[q].agent # b
      BY <2>1 DEF SureInv
    <2>3. prov'[p].agent = a
      BY <1>3
    <2>4. \A q \in Console : Busy(q)' => prov'[q].agent # b
      BY <1>3, <2>1, <2>2, <2>3 DEF Busy
    <2> QED BY <1>1, <2>1, <2>2, <2>4
  <1>9. CallerInv'
    BY <1>1, <1>2 DEF CallerInv, AuthTypeOK
  <1> QED BY <1>4, <1>5, <1>6, <1>7, <1>8, <1>9

\* A step that keeps the keys and what was shown, and each call of
\* provision_client_key but p, which it ends.
LEMMA EndProv ==
    ASSUME AuthInv, NEW p \in Console, prov' = [prov EXCEPT ![p] = IdleProv]
    PROVE  /\ prov' \in [Console -> Prov]
           /\ prov'[p].stage = "idle"
           /\ \A q \in Console : Busy(q)' => q # p /\ prov'[q] = prov[q] /\ Busy(q)
  <1>1. prov \in [Console -> Prov]
    BY DEF AuthInv, AuthTypeOK
  <1>2. prov'[p].stage = "idle"
    BY <1>1 DEF IdleProv
  <1> QED BY <1>1, <1>2, IdleTypes DEF Busy

\* set_agent_client_key_hash replaces the old key.
LEMMA SetHashStep ==
    ASSUME AuthInv, NEW p \in Console, SetHash(p)
    PROVE  AuthInv'
  <1> USE DEF AuthInv
  <1>1. /\ prov[p].stage = "generated" /\ prov[p] \in Prov
        /\ hash' = [hash EXCEPT ![prov[p].agent] = prov[p].key]
        /\ prov' = [prov EXCEPT ![p].stage = "set"]
        /\ UNCHANGED <<madeFor, caller, shown, sure>>
    BY DEF SetHash, AuthTypeOK
  <1>2. /\ prov' \in [Console -> Prov]
        /\ prov'[p].stage = "set"
        /\ \A q \in Console :
             /\ prov'[q].agent = prov[q].agent
             /\ prov'[q].key = prov[q].key
             /\ prov'[q].alone => prov[q].alone
             /\ prov'[q].stage # "idle" => prov[q].stage # "idle"
             /\ q # p => prov'[q] = prov[q]
    <2>1. prov \in [Console -> Prov]
      BY DEF AuthTypeOK
    <2> QED BY <1>1, <2>1 DEF Prov, Busy
  <1>3. /\ hash' \in [Agent -> Nat]
        /\ hash'[prov[p].agent] = prov[p].key
        /\ \A b \in Agent : b # prov[p].agent => hash'[b] = hash[b]
    BY <1>1 DEF AuthTypeOK, Prov
  <1>4. Busy(p) /\ MadeTo(prov[p].key, prov[p].agent) /\ prov[p].key \notin shown
    BY <1>1 DEF ProvInv, Busy
  <1>5. AuthTypeOK'
    BY <1>1, <1>2, <1>3 DEF AuthTypeOK, Keys
  <1>6. ProvInv'
    BY <1>1, <1>2 DEF ProvInv, MadeTo, Keys, Busy
  <1>7. AloneInv'
    <2>1. \A q \in Console : Busy(q)' /\ prov'[q].alone => Busy(q) /\ prov[q].alone
      BY <1>2 DEF Busy
    <2>2. ASSUME NEW q \in Console, Busy(q) /\ prov[q].alone
          PROVE  /\ \A r \in Console : Busy(r)' /\ prov'[r].agent = prov'[q].agent
                             => r = q
                 /\ prov'[q].stage = "set" => hash'[prov'[q].agent] = prov'[q].key
      <3>1. \A r \in Console : Busy(r) /\ prov[r].agent = prov[q].agent => r = q
        BY <2>2 DEF AloneInv
      <3>2. prov[q].stage = "set" => hash[prov[q].agent] = prov[q].key
        BY <2>2 DEF AloneInv
      <3>3. \A r \in Console : Busy(r)' /\ prov'[r].agent = prov'[q].agent => r = q
        BY <1>2, <3>1 DEF Busy
      <3>4. CASE q = p
        BY <1>2, <1>3, <3>3, <3>4
      <3>5. CASE q # p
        <4>1. prov[q].agent # prov[p].agent /\ prov'[q] = prov[q]
          BY <1>2, <1>4, <3>1, <3>5
        <4>2. prov[q].agent \in Agent
          BY DEF AuthTypeOK, Prov
        <4> QED BY <1>3, <3>2, <3>3, <4>1, <4>2
      <3> QED BY <3>4, <3>5
    <2> QED BY <2>1, <2>2 DEF AloneInv
  <1>8. HashInv'
    BY <1>1, <1>3, <1>4 DEF HashInv, MadeTo, Keys
  <1>9. SureInv'
    <2>1. \A b \in Agent : sure[b] # NoKey => b # prov[p].agent
      BY <1>4 DEF SureInv
    <2> QED BY <1>1, <1>2, <1>3, <2>1 DEF SureInv, Busy
  <1>10. CallerInv'
    <2>1. \A k \in shown : k # prov[p].key /\ madeFor[k] \in Agent
      BY <1>4 DEF AuthTypeOK, Keys
    <2>2. \A k \in shown : hash[madeFor[k]] # k => hash'[madeFor[k]] # k
      BY <1>3, <2>1
    <2> QED BY <1>1, <2>2 DEF CallerInv
  <1> QED BY <1>5, <1>6, <1>7, <1>8, <1>9, <1>10

\* The answer arrives with the key.
LEMMA ShowStep ==
    ASSUME AuthInv, NEW p \in Console, Show(p)
    PROVE  AuthInv'
  <1> USE DEF AuthInv
  <1>1. /\ prov[p].stage = "set" /\ prov[p] \in Prov
        /\ prov' = [prov EXCEPT ![p] = IdleProv]
        /\ shown' = shown \cup {prov[p].key}
        /\ UNCHANGED <<hash, madeFor, caller>>
    BY DEF Show, AuthTypeOK
  <1>2. \/ prov[p].alone /\ sure' = [sure EXCEPT ![prov[p].agent] = prov[p].key]
        \/ sure' = sure
    BY DEF Show
  <1>3. /\ prov' \in [Console -> Prov]
        /\ \A q \in Console : Busy(q)' => q # p /\ prov'[q] = prov[q] /\ Busy(q)
    BY <1>1, EndProv
  <1>4. Busy(p) /\ MadeTo(prov[p].key, prov[p].agent)
    BY <1>1 DEF ProvInv, Busy
  <1>5. AuthTypeOK'
    <2>1. shown' \subseteq Keys'
      BY <1>1, <1>4 DEF AuthTypeOK, MadeTo, Keys
    <2>2. sure' \in [Agent -> Nat]
      BY <1>1, <1>2 DEF AuthTypeOK, Prov
    <2> QED BY <1>1, <1>3, <2>1, <2>2 DEF AuthTypeOK
  <1>6. ProvInv'
    <2>1. ASSUME NEW q \in Console, Busy(q)'
          PROVE  MadeTo(prov[q].key, prov[q].agent)' /\ prov'[q].key \notin shown'
      <3>1. q # p /\ prov'[q] = prov[q] /\ Busy(q)
        BY <1>3, <2>1
      <3>2. MadeTo(prov[q].key, prov[q].agent) /\ prov[q].key \notin shown
            /\ prov[q].key # prov[p].key
        BY <1>4, <3>1 DEF ProvInv
      <3> QED BY <1>1, <3>1, <3>2 DEF MadeTo, Keys
    <2>2. \A q, r \in Console :
            Busy(q)' /\ Busy(r)' /\ prov'[q].key = prov'[r].key => q = r
      BY <1>3 DEF ProvInv
    <2> QED BY <2>1, <2>2 DEF ProvInv
  <1>7. AloneInv'
    BY <1>1, <1>3 DEF AloneInv
  <1>8. HashInv'
    BY <1>1 DEF HashInv, MadeTo, Keys
  <1>9. SureInv'
    <2> SUFFICES ASSUME NEW b \in Agent, sure'[b] # NoKey
                 PROVE  /\ hash'[b] = sure'[b] /\ sure'[b] \in shown'
                        /\ \A q \in Console : Busy(q)' => prov'[q].agent # b
      BY DEF SureInv
    <2>1. CASE sure'[b] = sure[b]
      <3>1. hash[b] = sure[b] /\ sure[b] \in shown
            /\ \A q \in Console : Busy(q) => prov[q].agent # b
        BY <2>1 DEF SureInv
      <3> QED BY <1>1, <1>3, <2>1, <3>1
    <2>2. CASE sure'[b] # sure[b]
      <3>1. prov[p].alone /\ b = prov[p].agent /\ sure'[b] = prov[p].key
        BY <1>1, <1>2, <2>2 DEF AuthTypeOK, Prov
      <3>2. hash[b] = prov[p].key
            /\ \A q \in Console : Busy(q) /\ prov[q].agent = b => q = p
        BY <1>1, <1>4, <3>1 DEF AloneInv
      <3> QED BY <1>1, <1>3, <3>1, <3>2
    <2> QED BY <2>1, <2>2
  <1>10. CallerInv'
    BY <1>1 DEF CallerInv
  <1> QED BY <1>5, <1>6, <1>7, <1>8, <1>9, <1>10

LEMMA LoseKeyStep ==
    ASSUME AuthInv, NEW p \in Console, LoseKey(p)
    PROVE  AuthInv'
  <1> USE DEF AuthInv
  <1>1. /\ prov' = [prov EXCEPT ![p] = IdleProv]
        /\ UNCHANGED <<hash, madeFor, caller, shown, sure>>
    BY DEF LoseKey
  <1>2. /\ prov' \in [Console -> Prov]
        /\ \A q \in Console : Busy(q)' => q # p /\ prov'[q] = prov[q] /\ Busy(q)
    BY <1>1, EndProv
  <1>3. AuthTypeOK'
    BY <1>1, <1>2 DEF AuthTypeOK, Keys
  <1>4. ProvInv'
    BY <1>1, <1>2 DEF ProvInv, MadeTo, Keys
  <1>5. AloneInv'
    BY <1>1, <1>2 DEF AloneInv
  <1>6. HashInv' /\ CallerInv'
    BY <1>1 DEF HashInv, MadeTo, Keys, CallerInv
  <1>7. SureInv'
    BY <1>1, <1>2 DEF SureInv
  <1> QED BY <1>3, <1>4, <1>5, <1>6, <1>7

-----------------------------------------------------------------------------
\* A step that changes one request's caller only keeps what is known of keys.
LEMMA CallerStep ==
    ASSUME AuthInv, UNCHANGED noAuth, NEW c \in Client, NEW x \in Caller,
           caller' = [caller EXCEPT ![c] = x],
           x.stage # "idle" =>
             /\ x.key \in shown
             /\ x.old => hash[madeFor[x.key]] # x.key
             /\ x.stage = "admitted" => x.agent = madeFor[x.key] /\ ~x.old
    PROVE  AuthInv'
  <1> USE DEF AuthInv, noAuth
  <1>1. AuthTypeOK'
    BY DEF AuthTypeOK, Keys
  <1>2. ProvInv' /\ HashInv'
    BY DEF ProvInv, HashInv, MadeTo, Keys, Busy
  <1>3. AloneInv' /\ SureInv'
    BY DEF AloneInv, SureInv, Busy
  <1>4. CallerInv'
    BY DEF CallerInv, AuthTypeOK
  <1> QED BY <1>1, <1>2, <1>3, <1>4

LEMMA EndStep ==
    ASSUME AuthInv, UNCHANGED noAuth, NEW c \in Client, End(c)
    PROVE  AuthInv'
  <1>1. IdleCaller \in Caller /\ IdleCaller.stage = "idle"
    BY IdleTypes DEF IdleCaller
  <1>2. caller' = [caller EXCEPT ![c] = IdleCaller]
    BY DEF End
  <1> QED BY <1>1, <1>2, CallerStep

\* A key somebody was shown is presented.
LEMMA PresentStep ==
    ASSUME AuthInv, NEW c \in Client, NEW k \in shown, Present(c, k)
    PROVE  AuthInv'
  <1>1. UNCHANGED noAuth
    BY DEF Present, noAuth
  <1>2. k \in Nat /\ k \in Keys /\ AnyAgent \in Agent
    BY AgentAssumption DEF AuthInv, AuthTypeOK, Keys, AnyAgent
  <1>3. PICK o \in BOOLEAN : o = (hash[madeFor[k]] # k)
    OBVIOUS
  <1>4. PICK x \in Caller : /\ x = [IdleCaller EXCEPT !.stage = "presented", !.key = k,
                                                       !.old = o]
                            /\ x.stage = "presented" /\ x.key = k /\ x.old = o
    <2>1. IdleCaller \in Caller
      BY IdleTypes
    <2>2. PICK x : x = [IdleCaller EXCEPT !.stage = "presented", !.key = k, !.old = o]
      OBVIOUS
    <2>3. x \in Caller /\ x.stage = "presented" /\ x.key = k /\ x.old = o
      BY <1>2, <1>3, <2>1, <2>2 DEF Caller
    <2> QED BY <2>2, <2>3
  <1>5. caller' = [caller EXCEPT ![c] =
          [IdleCaller EXCEPT !.stage = "presented", !.key = k,
                             !.old = hash[madeFor[k]] # k]]
    BY DEF Present
  <1>6. caller' = [caller EXCEPT ![c] = x]
    BY <1>3, <1>4, <1>5, Zenon
  <1>7. x.stage # "idle" =>
             /\ x.key \in shown
             /\ x.old => hash[madeFor[x.key]] # x.key
             /\ x.stage = "admitted" => x.agent = madeFor[x.key] /\ ~x.old
    BY <1>3, <1>4
  <1> QED BY <1>1, <1>4, <1>6, <1>7, CallerStep

\* auth_middleware admits the holder of the key, who is its only owner.
LEMMA AdmitStep ==
    ASSUME AuthInv, NEW c \in Client, Admit(c)
    PROVE  AuthInv'
  <1>1. UNCHANGED noAuth /\ caller \in [Client -> Caller] /\ caller[c].stage = "presented"
    BY DEF Admit, noAuth, AuthInv, AuthTypeOK
  <1>2. CASE caller' = [caller EXCEPT ![c] = IdleCaller]
    BY <1>1, <1>2, EndStep DEF End
  <1>3. ASSUME NEW a \in Agent, Holder(caller[c].key, a),
               caller' = [caller EXCEPT ![c].stage = "admitted", ![c].agent = a]
        PROVE  AuthInv'
    <2>1. PICK x \in Caller : /\ x = [caller[c] EXCEPT !.stage = "admitted", !.agent = a]
                              /\ x.stage = "admitted" /\ x.agent = a
                              /\ x.key = caller[c].key /\ x.old = caller[c].old
      <3>1. PICK x : x = [caller[c] EXCEPT !.stage = "admitted", !.agent = a]
        OBVIOUS
      <3>2. caller[c] \in Caller
        BY <1>1
      <3>3. x \in Caller /\ x.stage = "admitted" /\ x.agent = a
            /\ x.key = caller[c].key /\ x.old = caller[c].old
        BY <3>1, <3>2 DEF Caller
      <3> QED BY <3>1, <3>3
    <2>2. caller' = [caller EXCEPT ![c] = x]
      BY <1>1, <1>3, <2>1
    <2>3. /\ caller[c].key \in shown /\ hash[a] = caller[c].key
          /\ caller[c].old => hash[madeFor[caller[c].key]] # caller[c].key
      BY <1>1, <1>3 DEF AuthInv, CallerInv, Holder
    <2>4. caller[c].key # NoKey
      BY <2>3 DEF AuthInv, AuthTypeOK, Keys, NoKey
    <2>5. a = madeFor[caller[c].key]
      BY <2>3, <2>4 DEF AuthInv, HashInv, MadeTo
    <2>6. ~caller[c].old
      BY <2>3, <2>5
    <2>7. x.stage # "idle" =>
             /\ x.key \in shown
             /\ x.old => hash[madeFor[x.key]] # x.key
             /\ x.stage = "admitted" => x.agent = madeFor[x.key] /\ ~x.old
      BY <2>1, <2>3, <2>5, <2>6
    <2> QED BY <1>1, <2>1, <2>2, <2>7, CallerStep
  <1> QED BY <1>2, <1>3 DEF Admit

\* What the middleware and the key endpoint do keeps what is known of keys.
LEMMA AuthenticateStep ==
    ASSUME AuthInv, Authenticate
    PROVE  AuthInv'
  BY GenerateStep, SetHashStep, ShowStep, LoseKeyStep, PresentStep, AdmitStep
     DEF Authenticate, Rotate

-----------------------------------------------------------------------------
\* What is known of the table, of the requests being served and of the approvers.
BoardTypeOK ==
    /\ board \in [Id -> Row]
    /\ job \in [Client -> Job]
    /\ desk \in [Approver -> Desk]

\* A row that is not filed is blank.
BlankInv == \A i \in Id : board[i].agent = Nobody => board[i] = Unfiled

\* The row r, once decided, is the row of request i.
Agrees(i, r) ==
    r.status # "pending" => board[i].status = r.status /\ board[i].approver = r.approver

\* Only an admitted request is being served, and what it has read of a decision is so.
JobInv ==
    \A c \in Client : job[c].stage # "none" =>
      /\ caller[c].stage = "admitted"
      /\ job[c].stage = "polled" =>
           /\ board[job[c].id].agent = caller[c].agent
           /\ Agrees(job[c].id, job[c].read)

\* What an approver is about to hear is so.
DeskInv ==
    \A p \in Approver :
      /\ desk[p].stage = "resolved" =>
           desk[p].read.status # "pending" /\ Agrees(desk[p].id, desk[p].read)
      /\ desk[p].stage = "refused" => board[desk[p].id].status # "pending"

BoardInv == BoardTypeOK /\ BlankInv /\ JobInv /\ DeskInv

IInv == AuthInv /\ BoardInv

\* A decided row stays as it is, and a filed row keeps its agent.
Kept ==
    \A i \in Id :
      /\ board[i].status # "pending" => board'[i] = board[i]
      /\ board[i].agent # Nobody => board'[i].agent = board[i].agent

LEMMA RowTypes == Unfiled \in Row /\ NoJob \in Job /\ FreeDesk \in Desk
  <1>1. AnyId \in Id
    BY IdAssumption DEF AnyId
  <1>2. Unfiled \in Row
    BY DEF Unfiled, Row, Status
  <1> QED BY <1>1, <1>2 DEF NoJob, Job, FreeDesk, Desk

LEMMA InitOK == Init => IInv
  <1> SUFFICES ASSUME Init PROVE IInv
    OBVIOUS
  <1>1. AuthInv
    BY AuthInitOK DEF Init
  <1>2. BoardTypeOK
    BY RowTypes DEF Init, BoardTypeOK
  <1>3. BlankInv
    BY DEF Init, BlankInv
  <1>4. JobInv /\ DeskInv
    BY DEF Init, JobInv, DeskInv, NoJob, FreeDesk
  <1> QED BY <1>1, <1>2, <1>3, <1>4 DEF IInv, BoardInv

LEMMA AgreesKept ==
    ASSUME Kept, NEW i \in Id, NEW r \in Row, Agrees(i, r)
    PROVE  Agrees(i, r)'
  BY DEF Kept, Agrees

\* What a call has read stays so in every step that keeps the table.
LEMMA JobKept ==
    ASSUME BoardInv, Kept, NEW c \in Client,
           job[c].stage # "none", job'[c] = job[c], caller'[c] = caller[c],
           caller[c].agent \in Agent
    PROVE  /\ caller'[c].stage = "admitted"
           /\ job'[c].stage = "polled" =>
                /\ board'[job'[c].id].agent = caller'[c].agent
                /\ Agrees(job[c].id, job[c].read)'
  <1>1. job[c].id \in Id /\ job[c].read \in Row
    BY DEF BoardInv, BoardTypeOK, Job
  <1>2. caller[c].stage = "admitted"
    BY DEF BoardInv, JobInv
  <1>3. CASE job[c].stage = "polled"
    <2>1. board[job[c].id].agent = caller[c].agent /\ Agrees(job[c].id, job[c].read)
      BY <1>3 DEF BoardInv, JobInv
    <2>2. board'[job[c].id].agent = caller[c].agent
      BY <1>1, <2>1, NobodyAssumption DEF Kept
    <2>3. board'[job[c].id].status = board[job[c].id].status
          \/ board[job[c].id].status = "pending"
      BY <1>1 DEF Kept
    <2>4. board'[job[c].id].approver = board[job[c].id].approver
          \/ board[job[c].id].status = "pending"
      BY <1>1 DEF Kept
    <2>5. Agrees(job[c].id, job[c].read)'
      BY <2>1, <2>3, <2>4 DEF Agrees
    <2> QED BY <1>2, <2>2, <2>5
  <1> QED BY <1>2, <1>3

LEMMA DeskKept ==
    ASSUME BoardInv, Kept, NEW p \in Approver, desk'[p] = desk[p]
    PROVE  /\ desk'[p].stage = "resolved" =>
                desk'[p].read.status # "pending" /\ Agrees(desk[p].id, desk[p].read)'
           /\ desk'[p].stage = "refused" => board'[desk'[p].id].status # "pending"
  <1>1. desk[p].id \in Id
    BY DEF BoardInv, BoardTypeOK, Desk
  <1>2. /\ desk[p].stage = "resolved" =>
             desk[p].read.status # "pending" /\ Agrees(desk[p].id, desk[p].read)
        /\ desk[p].stage = "refused" => board[desk[p].id].status # "pending"
    BY DEF BoardInv, DeskInv
  <1>3. board[desk[p].id].status # "pending" => board'[desk[p].id] = board[desk[p].id]
    BY <1>1 DEF Kept
  <1> QED BY <1>2, <1>3 DEF Agrees

-----------------------------------------------------------------------------
\* A step of one request's handler that leaves the table alone.
LEMMA ClientStep ==
    ASSUME IInv, UNCHANGED <<board, desk>>, NEW c \in Client,
           job' \in [Client -> Job],
           \A d \in Client \ {c} : job'[d] = job[d] /\ caller'[d] = caller[d],
           job'[c].stage # "none" =>
             /\ caller'[c].stage = "admitted"
             /\ job'[c].stage = "polled" =>
                  /\ board[job'[c].id].agent = caller'[c].agent
                  /\ Agrees(job[c].id, job[c].read)'
    PROVE  BoardInv'
  <1> USE DEF IInv, BoardInv
  <1>1. BoardTypeOK' /\ BlankInv'
    BY DEF BoardTypeOK, BlankInv, Filed
  <1>2. Kept
    BY DEF Kept
  <1>3. ASSUME NEW d \in Client, job'[d].stage # "none"
        PROVE  /\ caller'[d].stage = "admitted"
               /\ job'[d].stage = "polled" =>
                    /\ board'[job'[d].id].agent = caller'[d].agent
                    /\ Agrees(job[d].id, job[d].read)'
    <2>1. CASE d = c
      BY <1>3, <2>1
    <2>2. CASE d # c
      <3>1. job'[d] = job[d] /\ caller'[d] = caller[d] /\ job[d].stage # "none"
        BY <1>3, <2>2
      <3>2. caller[d].agent \in Agent
        BY DEF AuthInv, AuthTypeOK, Caller
      <3>3. BoardInv
        OBVIOUS
      <3> QED BY <1>2, <3>1, <3>2, <3>3, JobKept
    <2> QED BY <2>1, <2>2
  <1>4. JobInv'
    BY <1>3 DEF JobInv
  <1>5. DeskInv'
    BY DEF DeskInv, Agrees
  <1> QED BY <1>1, <1>4, <1>5

\* A step that leaves the keys and the requests' callers alone.
LEMMA AuthFrame ==
    ASSUME AuthInv, UNCHANGED authVars
    PROVE  AuthInv'
  BY DEF authVars, AuthInv, AuthTypeOK, Keys, ProvInv, AloneInv, HashInv, SureInv,
     CallerInv, Busy, MadeTo

\* request_access up to its INSERT; the refusal of another agent's key.
LEMMA RequestAccessStep ==
    ASSUME IInv, NEW c \in Client, NEW a \in Agent, RequestAccess(c, a)
    PROVE  IInv'
  <1>1. /\ UNCHANGED noAuth /\ UNCHANGED <<board, desk>>
        /\ caller[c].stage = "admitted" /\ job[c].stage = "none"
    BY DEF RequestAccess
  <1>2. job \in [Client -> Job] /\ caller \in [Client -> Caller] /\ AuthInv
    BY DEF IInv, BoardInv, BoardTypeOK, AuthInv, AuthTypeOK
  <1>3. CASE End(c) /\ UNCHANGED job
    <2>1. AuthInv'
      BY <1>1, <1>2, <1>3, EndStep
    <2>2. \A d \in Client \ {c} : job'[d] = job[d] /\ caller'[d] = caller[d]
      BY <1>2, <1>3 DEF End
    <2>3. job' \in [Client -> Job] /\ job'[c].stage = "none"
      BY <1>1, <1>2, <1>3
    <2>4. BoardInv'
      BY <1>1, <2>2, <2>3, ClientStep
    <2> QED BY <2>1, <2>4 DEF IInv
  <1>4. CASE job' = [job EXCEPT ![c].stage = "evaluated"] /\ UNCHANGED caller
    <2>1. AuthInv'
      <3>1. UNCHANGED authVars
        BY <1>1, <1>4 DEF noAuth, authVars
      <3> QED BY <1>2, <3>1, AuthFrame
    <2>2. /\ job' \in [Client -> Job] /\ job'[c].stage = "evaluated"
          /\ \A d \in Client \ {c} : job'[d] = job[d] /\ caller'[d] = caller[d]
      BY <1>2, <1>4 DEF Job
    <2>3. caller'[c].stage = "admitted"
      BY <1>1, <1>4
    <2>4. BoardInv'
      BY <1>1, <2>2, <2>3, ClientStep
    <2> QED BY <2>1, <2>4 DEF IInv
  <1> QED BY <1>3, <1>4 DEF RequestAccess

LEMMA ApprovalStatusStep ==
    ASSUME IInv, NEW c \in Client, NEW i \in Id, ApprovalStatus(c, i)
    PROVE  IInv'
  <1>1. /\ UNCHANGED noAuth /\ UNCHANGED <<board, desk>>
        /\ caller[c].stage = "admitted" /\ job[c].stage = "none"
    BY DEF ApprovalStatus
  <1>2. /\ job \in [Client -> Job] /\ caller \in [Client -> Caller] /\ AuthInv
        /\ board[i] \in Row
    BY DEF IInv, BoardInv, BoardTypeOK, AuthInv, AuthTypeOK
  <1>3. CASE End(c) /\ UNCHANGED job
    <2>1. AuthInv'
      BY <1>1, <1>2, <1>3, EndStep
    <2>2. \A d \in Client \ {c} : job'[d] = job[d] /\ caller'[d] = caller[d]
      BY <1>2, <1>3 DEF End
    <2>3. job' \in [Client -> Job] /\ job'[c].stage = "none"
      BY <1>1, <1>2, <1>3
    <2>4. BoardInv'
      BY <1>1, <2>2, <2>3, ClientStep
    <2> QED BY <2>1, <2>4 DEF IInv
  <1>4. CASE /\ Readable(c, i) /\ UNCHANGED caller
             /\ job' = [job EXCEPT ![c] = [stage |-> "polled", id |-> i, read |-> board[i]]]
    <2>1. UNCHANGED authVars
      BY <1>1, <1>4 DEF noAuth, authVars
    <2>2. AuthInv'
      BY <1>2, <2>1, AuthFrame
    <2>3. [stage |-> "polled", id |-> i, read |-> board[i]] \in Job
      BY <1>2 DEF Job
    <2>4. /\ job' \in [Client -> Job]
          /\ job'[c].stage = "polled" /\ job'[c].id = i /\ job'[c].read = board[i]
          /\ \A d \in Client \ {c} : job'[d] = job[d] /\ caller'[d] = caller[d]
      BY <1>2, <1>4, <2>3
    <2>5. board[i].agent = caller'[c].agent /\ caller'[c].stage = "admitted"
      BY <1>1, <1>4 DEF Readable
    <2>6. Agrees(job[c].id, job[c].read)'
      BY <1>1, <2>4 DEF Agrees
    <2>7. BoardInv'
      BY <1>1, <2>4, <2>5, <2>6, ClientStep
    <2> QED BY <2>2, <2>7 DEF IInv
  <1> QED BY <1>3, <1>4 DEF ApprovalStatus

\* The request ends, with its answer or without.
LEMMA LeaveStep ==
    ASSUME IInv, NEW c \in Client, Reply(c) \/ Drop(c)
    PROVE  IInv'
  <1>1. /\ UNCHANGED noAuth /\ UNCHANGED <<board, desk>>
        /\ job' = [job EXCEPT ![c] = NoJob] /\ End(c)
    BY DEF Reply, Drop
  <1>2. job \in [Client -> Job] /\ caller \in [Client -> Caller] /\ AuthInv
    BY DEF IInv, BoardInv, BoardTypeOK, AuthInv, AuthTypeOK
  <1>3. AuthInv'
    BY <1>1, <1>2, EndStep
  <1>4. \A d \in Client \ {c} : job'[d] = job[d] /\ caller'[d] = caller[d]
    BY <1>1, <1>2 DEF End
  <1>5. job' \in [Client -> Job] /\ job'[c].stage = "none"
    BY <1>1, <1>2, RowTypes DEF NoJob
  <1>6. BoardInv'
    BY <1>1, <1>4, <1>5, ClientStep
  <1> QED BY <1>3, <1>6 DEF IInv

\* create_approval_request files a blank row for the caller.
LEMMA CreateApprovalStep ==
    ASSUME IInv, NEW c \in Client, CreateApproval(c)
    PROVE  IInv' /\ Kept
  <1> USE DEF BoardInv
  <1>1. PICK i \in Id \ Filed :
          /\ board' = [board EXCEPT ![i] = [Unfiled EXCEPT !.agent = caller[c].agent]]
          /\ job' = [job EXCEPT ![c] = [NoJob EXCEPT !.stage = "filed", !.id = i]]
    BY DEF CreateApproval
  <1>2. /\ UNCHANGED authVars /\ UNCHANGED <<caller, desk>>
        /\ job[c].stage = "evaluated"
    BY DEF CreateApproval, authVars
  <1>3. /\ BoardInv /\ AuthInv /\ board \in [Id -> Row] /\ job \in [Client -> Job]
        /\ caller[c].agent \in Agent /\ caller[c].stage = "admitted"
    BY <1>2 DEF IInv, BoardTypeOK, AuthInv, AuthTypeOK, Caller, JobInv
  <1>4. board[i] = Unfiled /\ board[i].agent = Nobody
    BY <1>1, <1>3 DEF Filed, BlankInv
  <1>5. /\ [Unfiled EXCEPT !.agent = caller[c].agent] \in Row
        /\ [Unfiled EXCEPT !.agent = caller[c].agent].agent = caller[c].agent
    BY <1>3, RowTypes DEF Row
  <1>6. /\ board' \in [Id -> Row] /\ board'[i].agent = caller[c].agent
        /\ \A j \in Id : j # i => board'[j] = board[j]
    BY <1>1, <1>3, <1>5
  <1>7. Kept
    BY <1>4, <1>6 DEF Kept, Unfiled
  <1>8. /\ [NoJob EXCEPT !.stage = "filed", !.id = i] \in Job
        /\ [NoJob EXCEPT !.stage = "filed", !.id = i].stage = "filed"
    BY <1>1, RowTypes DEF Job
  <1>9. /\ job' \in [Client -> Job] /\ job'[c].stage = "filed"
        /\ \A d \in Client : d # c => job'[d] = job[d]
    BY <1>1, <1>3, <1>8
  <1>10. BoardTypeOK'
    BY <1>2, <1>6, <1>9 DEF IInv, BoardTypeOK
  <1>11. BlankInv'
    BY <1>3, <1>6, NobodyAssumption DEF BlankInv
  <1>12. JobInv'
    <2>1. ASSUME NEW d \in Client, job'[d].stage # "none"
          PROVE  /\ caller'[d].stage = "admitted"
                 /\ job'[d].stage = "polled" =>
                      /\ board'[job'[d].id].agent = caller'[d].agent
                      /\ Agrees(job[d].id, job[d].read)'
      <3>1. CASE d = c
        BY <1>2, <1>3, <1>9, <3>1
      <3>2. CASE d # c
        <4>1. job'[d] = job[d] /\ caller'[d] = caller[d] /\ job[d].stage # "none"
          BY <1>2, <1>9, <2>1, <3>2
        <4>2. caller[d].agent \in Agent
          BY <1>3 DEF AuthInv, AuthTypeOK, Caller
        <4> QED BY <1>3, <1>7, <4>1, <4>2, JobKept
      <3> QED BY <3>1, <3>2
    <2> QED BY <2>1 DEF JobInv
  <1>13. DeskInv'
    <2>1. \A p \in Approver : desk'[p] = desk[p]
      BY <1>2
    <2> QED BY <1>3, <1>7, <2>1, DeskKept DEF DeskInv
  <1>14. AuthInv'
    BY <1>2, <1>3, AuthFrame
  <1> QED BY <1>7, <1>10, <1>11, <1>12, <1>13, <1>14 DEF IInv

\* The rest of the table's invariant when the requests being served do not move.
LEMMA JobFrame ==
    ASSUME IInv, Kept, UNCHANGED <<job, caller>>
    PROVE  JobInv'
  <1>1. ASSUME NEW d \in Client, job'[d].stage # "none"
        PROVE  /\ caller'[d].stage = "admitted"
               /\ job'[d].stage = "polled" =>
                    /\ board'[job'[d].id].agent = caller'[d].agent
                    /\ Agrees(job[d].id, job[d].read)'
    <2>1. job'[d] = job[d] /\ caller'[d] = caller[d] /\ job[d].stage # "none"
      BY <1>1
    <2>2. caller[d].agent \in Agent /\ BoardInv
      BY DEF IInv, AuthInv, AuthTypeOK, Caller
    <2> QED BY <2>1, <2>2, JobKept
  <1> QED BY <1>1 DEF JobInv

\* An approver's step: only its own place changes, and the rows are kept.
LEMMA ApproverStep ==
    ASSUME IInv, Kept, NEW p \in Approver, UNCHANGED <<authVars, job>>,
           board' \in [Id -> Row], BlankInv', desk' \in [Approver -> Desk],
           \A q \in Approver \ {p} : desk'[q] = desk[q],
           desk'[p].stage = "resolved" =>
             desk'[p].read.status # "pending" /\ Agrees(desk[p].id, desk[p].read)',
           desk'[p].stage = "refused" => board'[desk'[p].id].status # "pending"
    PROVE  IInv'
  <1>1. AuthInv /\ BoardInv
    BY DEF IInv
  <1>2. AuthInv'
    BY <1>1, AuthFrame
  <1>3. BoardTypeOK'
    BY <1>1 DEF BoardInv, BoardTypeOK
  <1>4. JobInv'
    BY JobFrame DEF authVars
  <1>5. DeskInv'
    <2>1. ASSUME NEW q \in Approver
          PROVE  /\ desk'[q].stage = "resolved" =>
                      desk'[q].read.status # "pending" /\ Agrees(desk[q].id, desk[q].read)'
                 /\ desk'[q].stage = "refused" => board'[desk'[q].id].status # "pending"
      <3>1. CASE q = p
        BY <3>1
      <3>2. CASE q # p
        <4>1. desk'[q] = desk[q]
          BY <3>2
        <4> QED BY <1>1, <4>1, DeskKept
      <3> QED BY <3>1, <3>2
    <2> QED BY <2>1 DEF DeskInv
  <1> QED BY <1>2, <1>3, <1>4, <1>5 DEF IInv, BoardInv

\* The UPDATE decides a pending row; of a decided one the approver hears so.
LEMMA ResolveStep ==
    ASSUME IInv, NEW p \in Approver, NEW i \in Filed, NEW s \in {"approved", "denied"},
           Resolve(p, i, s)
    PROVE  IInv' /\ Kept
  <1>1. /\ board \in [Id -> Row] /\ desk \in [Approver -> Desk] /\ BlankInv
        /\ i \in Id /\ board[i].agent # Nobody /\ board[i] \in Row
    BY DEF IInv, BoardInv, BoardTypeOK, Filed
  <1>2. UNCHANGED <<authVars, job>>
    BY DEF Resolve
  <1>3. CASE /\ board[i].status = "pending"
             /\ board' = [board EXCEPT ![i] = Resolved(board[i], p, s)]
             /\ desk' = [desk EXCEPT ![p] =
                  [stage |-> "resolved", id |-> i, read |-> board'[i]]]
    <2>1. PICK r \in Row : /\ r = Resolved(board[i], p, s) /\ r.agent = board[i].agent
                           /\ r.status = s /\ r.approver = p
      <3>1. PICK r : r = [board[i] EXCEPT !.status = s, !.approver = p]
        OBVIOUS
      <3>2. /\ r \in Row /\ r.agent = board[i].agent
            /\ r.status = s /\ r.approver = p
        BY <1>1, <3>1 DEF Row, Status
      <3> QED BY <3>1, <3>2 DEF Resolved
    <2>2. /\ board' \in [Id -> Row] /\ board'[i] = r
          /\ \A j \in Id : j # i => board'[j] = board[j]
      BY <1>1, <1>3, <2>1
    <2>3. Kept
      BY <1>3, <2>1, <2>2 DEF Kept
    <2>4. BlankInv'
      BY <1>1, <2>1, <2>2 DEF BlankInv
    <2>5. [stage |-> "resolved", id |-> i, read |-> r] \in Desk
      BY <1>1 DEF Desk
    <2>6. /\ desk' \in [Approver -> Desk]
          /\ desk'[p].stage = "resolved" /\ desk'[p].id = i /\ desk'[p].read = r
          /\ \A q \in Approver \ {p} : desk'[q] = desk[q]
      BY <1>1, <1>3, <2>2, <2>5
    <2>7. Agrees(desk[p].id, desk[p].read)'
      BY <2>2, <2>6 DEF Agrees
    <2>8. desk'[p].read.status # "pending"
      BY <2>1, <2>6
    <2> QED BY <1>2, <2>2, <2>3, <2>4, <2>6, <2>7, <2>8, ApproverStep
  <1>4. CASE /\ board[i].status # "pending" /\ UNCHANGED board
             /\ desk' = [desk EXCEPT ![p] =
                  [stage |-> "refused", id |-> i, read |-> Unfiled]]
    <2>1. Kept /\ BlankInv'
      BY <1>1, <1>4 DEF Kept, BlankInv
    <2>2. [stage |-> "refused", id |-> i, read |-> Unfiled] \in Desk
      BY <1>1, RowTypes DEF Desk
    <2>3. /\ desk' \in [Approver -> Desk]
          /\ desk'[p].stage = "refused" /\ desk'[p].id = i
          /\ \A q \in Approver \ {p} : desk'[q] = desk[q]
      BY <1>1, <1>4, <2>2
    <2> QED BY <1>1, <1>2, <1>4, <2>1, <2>3, ApproverStep
  <1> QED BY <1>3, <1>4 DEF Resolve

LEMMA LeaveDeskStep ==
    ASSUME IInv, NEW p \in Approver, ReplyApprover(p) \/ DropApprover(p)
    PROVE  IInv'
  <1>1. /\ UNCHANGED <<authVars, board, job>>
        /\ desk' = [desk EXCEPT ![p] = FreeDesk]
    BY DEF ReplyApprover, DropApprover
  <1>2. /\ board \in [Id -> Row] /\ desk \in [Approver -> Desk] /\ BlankInv
    BY DEF IInv, BoardInv, BoardTypeOK
  <1>3. Kept /\ BlankInv'
    BY <1>1, <1>2 DEF Kept, BlankInv
  <1>4. /\ desk' \in [Approver -> Desk] /\ desk'[p].stage = "none"
        /\ \A q \in Approver \ {p} : desk'[q] = desk[q]
    BY <1>1, <1>2, RowTypes DEF FreeDesk
  <1>5. UNCHANGED <<authVars, job>> /\ board' \in [Id -> Row]
    BY <1>1, <1>2
  <1> QED BY <1>3, <1>4, <1>5, ApproverStep

\* The middleware and the keys do not touch a request that is being served.
LEMMA AuthenticateKeeps ==
    ASSUME IInv, Authenticate
    PROVE  IInv'
  <1>1. AuthInv /\ UNCHANGED boardVars
    BY DEF IInv, Authenticate
  <1>2. AuthInv'
    BY <1>1, AuthenticateStep
  <1>3. ASSUME NEW d \in Client, caller[d].stage = "admitted"
        PROVE  caller'[d] = caller[d]
    <2>1. caller \in [Client -> Caller]
      BY <1>1 DEF AuthInv, AuthTypeOK
    <2>2. ASSUME NEW c \in Client, Admit(c) \/ \E k \in shown : Present(c, k)
          PROVE  caller[c].stage # "admitted" /\ \E x : caller' = [caller EXCEPT ![c] = x]
      <3>1. CASE Admit(c)
        <4>1. ASSUME NEW a \in Agent,
                     caller' = [caller EXCEPT ![c].stage = "admitted", ![c].agent = a]
              PROVE  \E x : caller' = [caller EXCEPT ![c] = x]
          <5>1. PICK x : x = [caller[c] EXCEPT !.stage = "admitted", !.agent = a]
            OBVIOUS
          <5>2. caller' = [caller EXCEPT ![c] = x]
            BY <2>1, <4>1, <5>1
          <5> QED BY <5>2
        <4> QED BY <3>1, <4>1 DEF Admit
      <3>2. CASE \E k \in shown : Present(c, k)
        BY <3>2 DEF Present
      <3> QED BY <2>2, <3>1, <3>2
    <2>3. \A c \in Client : \A x :
            caller[c].stage # "admitted" /\ caller' = [caller EXCEPT ![c] = x]
              => caller'[d] = caller[d]
      BY <1>3, <2>1
    <2>4. ASSUME NEW p \in Console, Rotate(p) PROVE caller' = caller
      BY <2>4 DEF Rotate, Generate, SetHash, Show, LoseKey
    <2> QED BY <2>2, <2>3, <2>4 DEF Authenticate
  <1>4. BoardTypeOK' /\ BlankInv' /\ DeskInv'
    BY <1>1 DEF boardVars, IInv, BoardInv, BoardTypeOK, BlankInv, DeskInv, Agrees, Filed
  <1>5. JobInv'
    BY <1>1, <1>3 DEF boardVars, IInv, BoardInv, JobInv, Agrees
  <1> QED BY <1>2, <1>4, <1>5 DEF IInv, BoardInv

-----------------------------------------------------------------------------
LEMMA NextStep == IInv /\ [Next]_vars => IInv'
  <1> SUFFICES ASSUME IInv, [Next]_vars PROVE IInv'
    OBVIOUS
  <1>1. CASE Authenticate
    BY <1>1, AuthenticateKeeps
  <1>2. ASSUME NEW c \in Client, Serve(c) PROVE IInv'
    BY <1>2, RequestAccessStep, CreateApprovalStep, ApprovalStatusStep, LeaveStep
       DEF Serve
  <1>3. ASSUME NEW p \in Approver, Approve(p) PROVE IInv'
    BY <1>3, ResolveStep, LeaveDeskStep DEF Approve
  <1>4. CASE UNCHANGED vars
    <2>1. AuthInv'
      BY <1>4, AuthFrame DEF vars, IInv
    <2>2. BoardInv'
      BY <1>4 DEF vars, authVars, boardVars, IInv, BoardInv, BoardTypeOK, BlankInv,
         JobInv, DeskInv, Agrees, Filed
    <2> QED BY <2>1, <2>2 DEF IInv
  <1> QED BY <1>1, <1>2, <1>3, <1>4 DEF Next

\* The inductive invariant of the keys, the table and the calls in flight.
THEOREM InvariantHolds == Spec => []IInv
  BY InitOK, NextStep, PTL DEF Spec

\* THEOREM: type correctness of the keys, the table and the calls.
THEOREM TypeCorrect == Spec => []TypeOK
  <1>1. IInv => TypeOK
    BY DEF IInv, AuthInv, BoardInv, BoardTypeOK, TypeOK
  <1> QED BY <1>1, InvariantHolds, PTL

\* THEOREM: whoever a request is served as, its key was made for, and no later key
\* of that agent was in place when it arrived.
THEOREM RotationBindsCorrect == Spec => []RotationBinds
  <1>1. IInv => RotationBinds
    BY DEF IInv, AuthInv, AuthTypeOK, CallerInv, RotationBinds
  <1> QED BY <1>1, InvariantHolds, PTL

\* THEOREM: the key a rotation showed is the agent's, unless another one overlapped.
THEOREM ShownKeyWorksCorrect == Spec => []ShownKeyWorks
  <1>1. IInv => ShownKeyWorks
    BY DEF IInv, AuthInv, SureInv, ShownKeyWorks
  <1> QED BY <1>1, InvariantHolds, PTL

-----------------------------------------------------------------------------
Cards == [i \in Id |-> CardOf(board[i])]

\* Filing a request is what create_approval_request does to the ballot.
LEMMA FileMaps ==
    ASSUME IInv, NEW c \in Client, CreateApproval(c)
    PROVE  B!Next
  <1>1. PICK i \in Id \ Filed :
          board' = [board EXCEPT ![i] = [Unfiled EXCEPT !.agent = caller[c].agent]]
    BY DEF CreateApproval
  <1>2. /\ board \in [Id -> Row] /\ caller[c].agent \in Agent /\ board[i] = Unfiled
    BY <1>1 DEF IInv, BoardInv, BoardTypeOK, BlankInv, Filed, AuthInv, AuthTypeOK, Caller
  <1>3. CardOf(board[i]) = B!Blank
    BY <1>2 DEF CardOf, Unfiled, B!Blank
  <1>4. CardOf(board'[i]) = [CardOf(board[i]) EXCEPT !.agent = caller[c].agent]
    BY <1>1, <1>2 DEF CardOf, Unfiled
  <1>5. \A j \in Id : j # i => board'[j] = board[j]
    BY <1>1, <1>2
  <1>6. Cards' = [Cards EXCEPT ![i].agent = caller[c].agent]
    BY <1>4, <1>5 DEF Cards
  <1>7. UNCHANGED told
    BY DEF CreateApproval
  <1>8. B!File(i, caller[c].agent)
    BY <1>3, <1>6, <1>7 DEF B!File, Cards
  <1> QED BY <1>1, <1>2, <1>8 DEF B!Next

\* The UPDATE of a pending row decides it; on a decided row the ballot stutters.
LEMMA DecideMaps ==
    ASSUME IInv, NEW p \in Approver, NEW i \in Filed, NEW s \in {"approved", "denied"},
           Resolve(p, i, s)
    PROVE  B!Next \/ UNCHANGED <<Cards, told>>
  <1>1. board \in [Id -> Row] /\ i \in Id /\ board[i].agent # Nobody
    BY DEF IInv, BoardInv, BoardTypeOK, Filed
  <1>2. UNCHANGED told
    BY DEF Resolve
  <1>3. CASE /\ board[i].status = "pending"
             /\ board' = [board EXCEPT ![i] = Resolved(board[i], p, s)]
    <2>1. board'[i] = [board[i] EXCEPT !.status = s, !.approver = p]
      BY <1>1, <1>3 DEF Resolved
    <2>2. board'[i].agent = board[i].agent /\ board'[i].status = s /\ board'[i].approver = p
      BY <1>1, <2>1 DEF Row
    <2>3. CardOf(board'[i]) = [agent |-> board[i].agent, verdict |-> s, approver |-> p]
      BY <2>2 DEF CardOf
    <2>4. Cards' = [Cards EXCEPT ![i] =
                      [agent |-> board[i].agent, verdict |-> s, approver |-> p]]
      BY <1>1, <1>3, <2>3 DEF Cards
    <2>5. /\ Cards[i].agent # Nobody /\ Cards[i].verdict = "pending"
          /\ Cards[i].agent = board[i].agent
      BY <1>1, <1>3 DEF Cards, CardOf
    <2>6. B!Decide(i, p, s)
      BY <1>2, <2>4, <2>5 DEF B!Decide, Cards
    <2> QED BY <1>1, <2>6 DEF B!Next
  <1>4. CASE UNCHANGED board
    BY <1>2, <1>4 DEF Cards
  <1> QED BY <1>3, <1>4 DEF Resolve

\* The agent hears of its own request what the row says.
LEMMA ReplyMaps ==
    ASSUME IInv, NEW c \in Client, Reply(c)
    PROVE  B!Next \/ UNCHANGED <<Cards, told>>
  <1>1. UNCHANGED board
    BY DEF Reply
  <1>2. CASE UNCHANGED told
    BY <1>1, <1>2 DEF Cards
  <1>3. CASE /\ job[c].stage = "polled" /\ job[c].read.status # "pending"
             /\ told' = told \cup {Word(caller[c].agent, job[c].id, job[c].read)}
    <2>1. /\ job[c].id \in Id /\ job[c].read \in Row /\ caller[c].agent \in Agent
      BY DEF IInv, BoardInv, BoardTypeOK, Job, AuthInv, AuthTypeOK, Caller
    <2>2. /\ board[job[c].id].agent = caller[c].agent
          /\ board[job[c].id].status = job[c].read.status
          /\ board[job[c].id].approver = job[c].read.approver
      BY <1>3 DEF IInv, BoardInv, JobInv, Agrees
    <2>3. PICK w \in B!Word : w = Word(caller[c].agent, job[c].id, job[c].read)
      <3>1. /\ job[c].read.status \in {"approved", "denied", "closed"}
            /\ job[c].read.approver \in Approver \cup {Nobody}
        BY <1>3, <2>1 DEF Row, Status
      <3> QED BY <2>1, <3>1 DEF Word, B!Word
    <2>4. /\ w.to = caller[c].agent /\ w.id = job[c].id
          /\ w.verdict = job[c].read.status /\ w.approver = job[c].read.approver
      BY <2>3 DEF Word
    <2>5. w.verdict # "closed"
      BY <2>1, <2>4 DEF Row, Status
    <2>6. /\ Cards[w.id].verdict = w.verdict /\ Cards[w.id].approver = w.approver
          /\ Cards[w.id].agent = w.to
      BY <2>1, <2>2, <2>4 DEF Cards, CardOf
    <2>7. B!True(w) /\ B!Private(w)
      BY <2>5, <2>6 DEF B!True, B!Private, Cards
    <2>8. B!Tell(w)
      BY <1>1, <1>3, <2>3, <2>7 DEF B!Tell
    <2> QED BY <2>3, <2>8 DEF B!Next
  <1> QED BY <1>2, <1>3 DEF Reply

\* An approver hears of its own decision, or that there is one.
LEMMA ReplyApproverMaps ==
    ASSUME IInv, NEW p \in Approver, ReplyApprover(p)
    PROVE  B!Next
  <1>1. UNCHANGED board
    BY DEF ReplyApprover
  <1>2. /\ desk[p] \in Desk /\ desk[p].id \in Id /\ desk[p].read \in Row /\ p \notin Agent
    BY RolesAssumption DEF IInv, BoardInv, BoardTypeOK, Desk
  <1>3. CASE desk[p].stage = "resolved"
    <2>1. told' = told \cup {Word(p, desk[p].id, desk[p].read)}
      BY <1>3 DEF ReplyApprover
    <2>2. /\ desk[p].read.status # "pending"
          /\ board[desk[p].id].status = desk[p].read.status
          /\ board[desk[p].id].approver = desk[p].read.approver
      BY <1>3 DEF IInv, BoardInv, DeskInv, Agrees
    <2>3. PICK w \in B!Word : w = Word(p, desk[p].id, desk[p].read)
      <3>1. /\ desk[p].read.status \in {"approved", "denied", "closed"}
            /\ desk[p].read.approver \in Approver \cup {Nobody}
        BY <1>2, <2>2 DEF Row, Status
      <3> QED BY <1>2, <3>1 DEF Word, B!Word
    <2>4. /\ w.to = p /\ w.id = desk[p].id
          /\ w.verdict = desk[p].read.status /\ w.approver = desk[p].read.approver
      BY <2>3 DEF Word
    <2>5. w.verdict # "closed"
      BY <1>2, <2>4 DEF Row, Status
    <2>6. Cards[w.id].verdict = w.verdict /\ Cards[w.id].approver = w.approver
      BY <1>2, <2>2, <2>4 DEF Cards, CardOf
    <2>7. B!True(w) /\ B!Private(w)
      BY <1>2, <2>4, <2>5, <2>6 DEF B!True, B!Private, Cards
    <2>8. B!Tell(w)
      BY <1>1, <2>1, <2>3, <2>7 DEF B!Tell
    <2> QED BY <2>3, <2>8 DEF B!Next
  <1>4. CASE desk[p].stage = "refused"
    <2>1. PICK w \in B!Word : w = [to |-> p, id |-> desk[p].id, verdict |-> "closed",
                                  approver |-> Nobody]
      BY <1>2 DEF B!Word
    <2>2. told' = told \cup {w}
      BY <1>4, <2>1 DEF ReplyApprover
    <2>3. w.to = p /\ w.id = desk[p].id /\ w.verdict = "closed"
      BY <2>1
    <2>4. Cards[w.id].verdict # "pending"
      BY <1>2, <1>4, <2>3 DEF IInv, BoardInv, DeskInv, Cards, CardOf
    <2>5. B!True(w) /\ B!Private(w)
      BY <1>2, <2>3, <2>4 DEF B!True, B!Private, Cards
    <2>6. B!Tell(w)
      BY <1>1, <2>2, <2>5 DEF B!Tell
    <2> QED BY <2>1, <2>6 DEF B!Next
  <1> QED BY <1>2, <1>3, <1>4 DEF ReplyApprover, Desk

\* THEOREM: the approval endpoints implement the ballot.
THEOREM ImplementsBallot == Spec => Implements
  <1>1. Init => B!Init
    <2> SUFFICES ASSUME Init PROVE B!Init
      OBVIOUS
    <2>1. \A i \in Id : CardOf(board[i]) = B!Blank
      BY DEF Init, Unfiled, CardOf, B!Blank
    <2> QED BY <2>1 DEF Init, B!Init
  <1>2. IInv /\ [Next]_vars => [B!Next]_(B!ballotVars)
    <2> SUFFICES ASSUME IInv, [Next]_vars
                 PROVE  B!Next \/ UNCHANGED <<Cards, told>>
      BY DEF B!ballotVars, Cards
    <2>1. ASSUME NEW c \in Client, Serve(c)
          PROVE  B!Next \/ UNCHANGED <<Cards, told>>
      <3>1. CASE CreateApproval(c)
        BY <3>1, FileMaps
      <3>2. CASE Reply(c)
        BY <3>2, ReplyMaps
      <3>3. CASE ~CreateApproval(c) /\ ~Reply(c)
        <4>1. UNCHANGED <<board, told>>
          BY <2>1, <3>3 DEF Serve, RequestAccess, ApprovalStatus, Drop
        <4> QED BY <4>1 DEF Cards
      <3> QED BY <3>1, <3>2, <3>3
    <2>2. ASSUME NEW p \in Approver, Approve(p)
          PROVE  B!Next \/ UNCHANGED <<Cards, told>>
      <3>1. CASE ReplyApprover(p)
        BY <3>1, ReplyApproverMaps
      <3>2. CASE DropApprover(p)
        BY <3>2 DEF DropApprover, Cards
      <3>3. ASSUME NEW i \in Filed, NEW s \in {"approved", "denied"}, Resolve(p, i, s)
            PROVE  B!Next \/ UNCHANGED <<Cards, told>>
        BY <3>3, DecideMaps
      <3> QED BY <2>2, <3>1, <3>2, <3>3 DEF Approve
    <2>3. CASE Authenticate \/ UNCHANGED vars
      <3>1. UNCHANGED <<board, told>>
        BY <2>3 DEF Authenticate, vars, boardVars
      <3> QED BY <3>1 DEF Cards
    <2> QED BY <2>1, <2>2, <2>3 DEF Next
  <1> QED BY <1>1, <1>2, InvariantHolds, PTL DEF Spec, Implements, B!Spec

-----------------------------------------------------------------------------
WordsInv == told \subseteq B!Word /\ B!Stands

\* A step of the ballot leaves a true word true.
LEMMA WordKept ==
    ASSUME B!Next, NEW w \in B!Word, B!True(w), B!Private(w)
    PROVE  B!True(w)' /\ B!Private(w)'
  <1>0. w.id \in Id
    BY DEF B!Word
  <1>1. ASSUME NEW i \in Id, NEW a \in Agent, B!File(i, a)
        PROVE  B!True(w)' /\ B!Private(w)'
    <2>1. Cards[i] = B!Blank /\ Cards' = [Cards EXCEPT ![i].agent = a]
      BY <1>1 DEF B!File, Cards
    <2>2. CASE w.id = i
      <3>1. Cards[w.id].verdict = "pending" /\ Cards[w.id].agent = Nobody
        BY <2>1, <2>2 DEF B!Blank
      <3>2. w.verdict # "pending"
        BY DEF B!Word
      <3> QED BY <3>1, <3>2 DEF B!True, Cards
    <2>3. CASE w.id # i
      <3>1. Cards'[w.id] = Cards[w.id]
        BY <1>0, <2>1, <2>3 DEF Cards
      <3> QED BY <3>1 DEF B!True, B!Private, Cards
    <2> QED BY <2>2, <2>3
  <1>2. ASSUME NEW i \in Id, NEW p \in Approver, NEW v \in {"approved", "denied"},
               B!Decide(i, p, v)
        PROVE  B!True(w)' /\ B!Private(w)'
    <2>1. /\ Cards[i].verdict = "pending"
          /\ Cards' = [Cards EXCEPT ![i] =
               [agent |-> Cards[i].agent, verdict |-> v, approver |-> p]]
      BY <1>2 DEF B!Decide, Cards
    <2>2. CASE w.id = i
      <3>1. w.verdict # "pending"
        BY DEF B!Word
      <3> QED BY <2>1, <2>2, <3>1 DEF B!True, Cards
    <2>3. CASE w.id # i
      <3>1. Cards'[w.id] = Cards[w.id]
        BY <1>0, <2>1, <2>3 DEF Cards
      <3> QED BY <3>1 DEF B!True, B!Private, Cards
    <2> QED BY <2>2, <2>3
  <1>3. ASSUME NEW x \in B!Word, B!Tell(x)
        PROVE  B!True(w)' /\ B!Private(w)'
    <2>1. Cards' = Cards
      BY <1>3 DEF B!Tell, Cards
    <2> QED BY <2>1 DEF B!True, B!Private, Cards
  <1> QED BY <1>1, <1>2, <1>3 DEF B!Next

\* THEOREM: what an approver or an agent was told of a decision is true for ever, and
\* an agent was told of its own requests only.
THEOREM WordsStand == Spec => []B!Stands
  <1>1. B!Init => WordsInv
    BY DEF B!Init, WordsInv, B!Stands
  <1>2. WordsInv /\ [B!Next]_(B!ballotVars) => WordsInv'
    <2> SUFFICES ASSUME WordsInv, [B!Next]_(B!ballotVars) PROVE WordsInv'
      OBVIOUS
    <2>1. CASE B!Next
      <3>1. \A w \in told : B!True(w)' /\ B!Private(w)'
        BY <2>1, WordKept DEF WordsInv, B!Stands
      <3>2. told' = told \/ \E x \in B!Word : B!Tell(x)
        BY <2>1 DEF B!Next, B!File, B!Decide
      <3>3. ASSUME NEW x \in B!Word, B!Tell(x)
            PROVE  /\ told' = told \cup {x}
                   /\ B!True(x)' /\ B!Private(x)'
        <4>1. told' = told \cup {x} /\ B!True(x) /\ B!Private(x)
          BY <3>3 DEF B!Tell
        <4> QED BY <2>1, <4>1, WordKept
      <3> QED BY <3>1, <3>2, <3>3 DEF WordsInv, B!Stands
    <2>2. CASE UNCHANGED B!ballotVars
      BY <2>2 DEF B!ballotVars, WordsInv, B!Stands, B!True, B!Private
    <2> QED BY <2>1, <2>2
  <1>3. WordsInv => B!Stands
    BY DEF WordsInv
  <1> QED BY <1>1, <1>2, <1>3, ImplementsBallot, PTL DEF Implements, B!Spec
=============================================================================
