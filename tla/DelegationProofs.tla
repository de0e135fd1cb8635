-------------------------- MODULE DelegationProofs --------------------------
(***************************************************************************)
(* Proofs about Delegation. The invariant that is inductive says of every   *)
(* token how it descends from its parent and its root (Lineage), and of     *)
(* every delegate call past verify that what it checked still holds of the  *)
(* parent token (CallOK).                                                   *)
(***************************************************************************)
EXTENDS Delegation, TLAPS

\* What the token at t of the sequence q owes to its parent and to its root.
Lineage(q, t) ==
    /\ q[t].root \in 1..t
    /\ q[t].scope \subseteq q[q[t].root].scope
    /\ q[t].sub = q[q[t].root].sub
    /\ q[t].depth <= MaxDepth
    /\ Len(q[t].chain) = q[t].depth
    /\ \A i \in 1..Len(q[t].chain) : q[t].chain[i].sub = q[q[t].root].sub
    /\ q[t].depth > 0 => q[t].chain[1].act = q[q[t].root].act
    /\ q[t].depth = 0 <=> q[t].parent = 0
    /\ q[t].parent = 0 => q[t].root = t
    /\ q[t].parent # 0 =>
         /\ q[t].parent \in 1..(t - 1)
         /\ q[t].by = q[q[t].parent].aud
         /\ q[t].exp <= q[q[t].parent].exp + (q[t].minted - q[t].seen)
         /\ q[t].chain = Append(q[q[t].parent].chain,
                                [sub |-> q[q[t].parent].sub,
                                 act |-> q[q[t].parent].act])

TokensOK == \A t \in Signed : Lineage(tokens, t)

\* What delegate has checked of the parent, and still holds when it signs.
CallOK(a) ==
    call[a].stage = "verified" =>
      /\ call[a].scope \subseteq tokens[call[a].parent].scope
      /\ tokens[call[a].parent].depth + 1 <= MaxDepth
      /\ tokens[call[a].parent].aud = a
      /\ call[a].seen <= now
      /\ call[a].seen <= tokens[call[a].parent].exp
CallsOK == \A a \in Agent : CallOK(a)

IInv == TypeOK /\ TokensOK /\ CallsOK

-----------------------------------------------------------------------------
\* What Append does to a sequence of tokens.
LEMMA AppendToken ==
    ASSUME NEW q \in Seq(Token), NEW k \in Token
    PROVE  /\ Append(q, k) \in Seq(Token)
           /\ Len(Append(q, k)) = Len(q) + 1
           /\ Len(q) \in Nat
           /\ \A i \in 1..Len(q) : Append(q, k)[i] = q[i]
           /\ Append(q, k)[Len(q) + 1] = k
  <1> DEFINE T == Token
  <1>1. q \in Seq(T) /\ k \in T
    OBVIOUS
  <1> HIDE DEF T
  <1>2. /\ Append(q, k) \in Seq(T)
        /\ Len(Append(q, k)) = Len(q) + 1
        /\ Len(q) \in Nat
        /\ \A i \in 1..Len(q) : Append(q, k)[i] = q[i]
        /\ Append(q, k)[Len(q) + 1] = k
    BY <1>1
  <1> QED BY <1>2 DEF T

\* The fields of a token.
LEMMA TokenFields ==
    ASSUME NEW k \in Token
    PROVE  /\ k.sub \in User /\ k.act \in Agent /\ k.aud \in Agent \cup Resource
           /\ k.scope \in SUBSET Scope /\ k.depth \in Nat /\ k.chain \in Seq(Hop)
           /\ k.exp \in Nat /\ k.grant \in Nat /\ k.parent \in Nat
           /\ k.root \in Jti /\ k.by \in Agent /\ k.seen \in Nat /\ k.minted \in Nat
  BY DEF Token

\* The fields of a call.
LEMMA CallFields ==
    ASSUME NEW c \in Call
    PROVE  /\ c.stage \in Stage /\ c.parent \in Nat /\ c.to \in Agent
           /\ c.scope \in SUBSET Scope /\ c.req \in Nat /\ c.seen \in Nat
           /\ c.jti \in Nat
  BY DEF Call

\* Signing one more token takes nothing from the lineage of an earlier one.
LEMMA LineageExtends ==
    ASSUME NEW q \in Seq(Token), NEW k \in Token, NEW t \in 1..Len(q),
           Lineage(q, t)
    PROVE  Lineage(Append(q, k), t)
  <1> DEFINE Q == Append(q, k)
  <1>1. /\ Len(q) \in Nat /\ \A i \in 1..Len(q) : Q[i] = q[i]
    BY AppendToken
  <1>2. q[t].root \in 1..Len(q)
    BY <1>1 DEF Lineage
  <1>3. q[t].parent # 0 => q[t].parent \in 1..Len(q)
    BY <1>1 DEF Lineage
  <1>4. Q[t] = q[t] /\ Q[q[t].root] = q[q[t].root]
    BY <1>1, <1>2
  <1>5. q[t].parent # 0 => Q[q[t].parent] = q[q[t].parent]
    BY <1>1, <1>3
  <1> HIDE DEF Q
  <1>6. Lineage(Q, t)
    BY <1>4, <1>5 DEF Lineage
  <1> QED BY <1>6 DEF Q

\* The life delegate gives a child, whatever the clock readings were.
LEMMA ChildTtlBound ==
    ASSUME NEW c \in Call, NEW e \in Nat, tokens[c.parent].exp = e, now \in Nat,
           c.seen <= now, c.seen <= e, NEW ttl \in ChildTtl(c)
    PROVE  ttl \in Nat /\ now + ttl <= e + (now - c.seen)
  <1>1. c.seen \in Nat /\ c.req \in Nat
    BY CallFields
  <1>2. PICK r \in (c.seen..now) \X (c.seen..now) :
           /\ r[1] <= r[2]
           /\ ttl \in Remaining(Smaller(e, r[1] + c.req), r[2])
    BY DEF ChildTtl
  <1>3. r[1] \in c.seen..now /\ r[2] \in c.seen..now
    OBVIOUS
  <1>4. r[1] \in Nat /\ r[2] \in Nat /\ c.seen <= r[2] /\ r[2] <= now
    BY <1>1, <1>3
  <1> DEFINE x == Smaller(e, r[1] + c.req)
  <1>5. x \in Nat /\ x <= e
    BY <1>1, <1>4 DEF Smaller
  <1>6. ttl \in Remaining(x, r[2])
    BY <1>2
  <1> HIDE DEF x
  <1>7. CASE x <= r[2]
    BY <1>1, <1>4, <1>5, <1>6, <1>7 DEF Remaining
  <1>8. CASE x > r[2]
    <2>1. ttl \in {x - r[2], x - r[2] - 1}
      BY <1>4, <1>5, <1>6, <1>8 DEF Remaining
    <2> QED BY <2>1, <1>1, <1>4, <1>5, <1>8
  <1> QED BY <1>4, <1>5, <1>7, <1>8

\* A token without a parent is well typed and its own root.
LEMMA RootTokenOK ==
    ASSUME tokens \in Seq(Token), now \in Nat, MaxDepth \in Nat,
           NEW u \in User, NEW a \in Agent, NEW s \in SUBSET Scope,
           NEW aud \in Agent \cup Resource, NEW ttl \in Nat, NEW g \in Nat
    PROVE  /\ RootToken(u, a, s, aud, ttl, g) \in Token
           /\ Lineage(Append(tokens, RootToken(u, a, s, aud, ttl, g)),
                      Len(tokens) + 1)
  <1> DEFINE k == RootToken(u, a, s, aud, ttl, g)
             Q == Append(tokens, k)
             n == Len(tokens) + 1
  <1>1. Len(tokens) \in Nat
    OBVIOUS
  <1>2. /\ now + ttl \in Nat /\ n \in Jti /\ 0 \in Nat
        /\ <<>> \in Seq(Hop)
    BY <1>1 DEF Jti
  <1>3. k \in Token
    BY <1>2 DEF RootToken, Token
  <1>4. /\ k.sub = u /\ k.act = a /\ k.scope = s /\ k.depth = 0
        /\ k.chain = <<>> /\ k.parent = 0 /\ k.root = n
    BY DEF RootToken
  <1>5. Q[n] = k
    BY <1>3, AppendToken
  <1> HIDE DEF k, Q
  <1>6. Lineage(Q, n)
    BY <1>1, <1>4, <1>5 DEF Lineage
  <1> QED BY <1>3, <1>6 DEF k, Q

\* The token delegate mints: well typed, and of the parent's line.
LEMMA ChildTokenOK ==
    ASSUME tokens \in Seq(Token), now \in Nat, NEW a \in Agent,
           NEW c \in Call, c.parent \in Signed, Lineage(tokens, c.parent),
           c.scope \subseteq tokens[c.parent].scope,
           tokens[c.parent].depth + 1 <= MaxDepth, tokens[c.parent].aud = a,
           NEW ttl \in Nat,
           now + ttl <= tokens[c.parent].exp + (now - c.seen)
    PROVE  /\ ChildToken(c, a, ttl) \in Token
           /\ Lineage(Append(tokens, ChildToken(c, a, ttl)), Len(tokens) + 1)
  <1> DEFINE k == ChildToken(c, a, ttl)
             Q == Append(tokens, k)
             n == Len(tokens) + 1
             p == tokens[c.parent]
             h == [sub |-> p.sub, act |-> p.act]
  <1>1. Len(tokens) \in Nat /\ c.parent \in 1..Len(tokens) /\ p \in Token
    BY DEF Signed
  <1>2. /\ k.sub = p.sub /\ k.act = c.to /\ k.aud = c.to /\ k.scope = c.scope
        /\ k.depth = p.depth + 1 /\ k.chain = Append(p.chain, h)
        /\ k.exp = now + ttl /\ k.grant = 0 /\ k.parent = c.parent
        /\ k.root = p.root /\ k.by = a /\ k.seen = c.seen /\ k.minted = now
    BY DEF ChildToken
  <1>3. /\ p.sub \in User /\ p.act \in Agent /\ p.depth \in Nat
        /\ p.chain \in Seq(Hop) /\ p.root \in Jti /\ p.exp \in Nat
    BY <1>1, TokenFields
  <1>4. h \in Hop
    BY <1>3 DEF Hop
  <1>5. /\ Append(p.chain, h) \in Seq(Hop)
        /\ Len(Append(p.chain, h)) = Len(p.chain) + 1 /\ Len(p.chain) \in Nat
        /\ \A i \in 1..Len(p.chain) : Append(p.chain, h)[i] = p.chain[i]
        /\ Append(p.chain, h)[Len(p.chain) + 1] = h
    BY <1>3, <1>4
  <1>6. k \in Token
    <2>1. /\ c.to \in Agent /\ c.scope \in SUBSET Scope /\ c.seen \in Nat
          /\ c.parent \in Nat
      BY CallFields
    <2>2. p.depth + 1 \in Nat /\ now + ttl \in Nat /\ 0 \in Nat
      BY <1>3
    <2> QED BY <1>3, <1>5, <2>1, <2>2 DEF ChildToken, Token
  <1>7. /\ Q[n] = k
        /\ \A i \in 1..Len(tokens) : Q[i] = tokens[i]
    BY <1>6, AppendToken
  <1>8. Lineage(tokens, c.parent) /\ tokens[c.parent] = p
    OBVIOUS
  <1>9. Q[c.parent] = p /\ p.root \in 1..c.parent /\ Q[p.root] = tokens[p.root]
    BY <1>1, <1>7, <1>8 DEF Lineage
  <1> DEFINE r == tokens[p.root]
  <1>10. /\ p.scope \subseteq r.scope /\ p.sub = r.sub /\ Len(p.chain) = p.depth
         /\ \A i \in 1..Len(p.chain) : p.chain[i].sub = r.sub
         /\ p.depth > 0 => p.chain[1].act = r.act
         /\ p.depth = 0 => p = r
    BY <1>3, <1>8 DEF Lineage
  <1> HIDE DEF k, Q, p, r
  <1>11. \A i \in 1..Len(k.chain) : k.chain[i].sub = r.sub
    <2>1. \A i \in 1..Len(p.chain) : k.chain[i].sub = r.sub
      BY <1>2, <1>5, <1>10
    <2>2. k.chain[Len(p.chain) + 1].sub = r.sub
      BY <1>2, <1>5, <1>10
    <2>3. \A i \in 1..Len(k.chain) : i \in 1..Len(p.chain) \/ i = Len(p.chain) + 1
      BY <1>2, <1>5
    <2>4. SUFFICES ASSUME NEW i \in 1..Len(k.chain)
                   PROVE  k.chain[i].sub = r.sub
      OBVIOUS
    <2>5. CASE i \in 1..Len(p.chain)
      BY <2>1, <2>5
    <2>6. CASE i = Len(p.chain) + 1
      BY <2>2, <2>6
    <2> QED BY <2>3, <2>5, <2>6
  <1>12. k.chain[1].act = r.act
    <2>1. CASE p.depth = 0
      <3>1. k.chain[1] = h /\ p = r
        BY <2>1, <1>2, <1>5, <1>10
      <3> QED BY <3>1
    <2>2. CASE p.depth > 0
      <3>1. 1 \in 1..Len(p.chain)
        BY <2>2, <1>3, <1>10
      <3> QED BY <3>1, <2>2, <1>2, <1>5, <1>10
    <2> QED BY <2>1, <2>2, <1>3
  <1>13. Lineage(Q, n)
    <2>1. /\ Q[n] = k /\ k.root \in 1..n /\ Q[k.root] = r /\ Q[k.parent] = p
      BY <1>1, <1>2, <1>7, <1>9 DEF r
    <2>2. /\ k.scope \subseteq r.scope /\ k.sub = r.sub /\ k.depth <= MaxDepth
          /\ Len(k.chain) = k.depth /\ k.depth # 0 /\ k.parent # 0
          /\ k.parent \in 1..(n - 1)
      BY <1>1, <1>2, <1>3, <1>5, <1>10 DEF p
    <2>3. k.by = p.aud /\ k.exp <= p.exp + (k.minted - k.seen)
      BY <1>2 DEF p
    <2>4. k.chain = Append(p.chain, [sub |-> p.sub, act |-> p.act])
      BY <1>2
    <2> HIDE DEF h, n
    <2> QED BY <2>1, <2>2, <2>3, <2>4, <1>11, <1>12 DEF Lineage
  <1> QED BY <1>6, <1>13 DEF k, Q

-----------------------------------------------------------------------------
\* What the type invariant says about one call.
LEMMA CallTyped ==
    ASSUME TypeOK, NEW a \in Agent
    PROVE  /\ call[a] \in Call
           /\ call[a].stage # "idle" => /\ call[a].parent \in Signed
                                      /\ tokens[call[a].parent] \in Token
           /\ call[a].stage = "recorded" => call[a].jti \in Signed
  <1>1. call[a] \in Call
    BY DEF TypeOK
  <1>2. /\ call[a].stage # "idle" => call[a].parent \in Signed
        /\ call[a].stage = "recorded" => call[a].jti \in Signed
    BY DEF TypeOK
  <1>3. \A t \in Signed : tokens[t] \in Token
    <2> DEFINE T == Token
    <2>1. tokens \in Seq(T)
      BY DEF TypeOK
    <2> HIDE DEF T
    <2>2. \A t \in Signed : tokens[t] \in T
      BY <2>1 DEF Signed
    <2> QED BY <2>2 DEF T
  <1> QED BY <1>1, <1>2, <1>3

\* A signed token leaves every call's view of its parent as it was.
LEMMA CallsKeepParent ==
    ASSUME TypeOK, NEW k \in Token, tokens' = Append(tokens, k)
    PROVE  /\ tokens' \in Seq(Token)
           /\ Len(tokens') = Len(tokens) + 1
           /\ Signed' = Signed \cup {Len(tokens) + 1}
           /\ Len(tokens) + 1 \in Signed'
           /\ \A t \in Signed : tokens'[t] = tokens[t]
  <1>1. tokens \in Seq(Token)
    BY DEF TypeOK
  <1>2. /\ Append(tokens, k) \in Seq(Token)
        /\ Len(Append(tokens, k)) = Len(tokens) + 1
        /\ Len(tokens) \in Nat
        /\ \A i \in 1..Len(tokens) : Append(tokens, k)[i] = tokens[i]
    BY <1>1, AppendToken
  <1>3. Signed' = 1..(Len(tokens) + 1)
    BY <1>2 DEF Signed
  <1> QED BY <1>2, <1>3 DEF Signed

\* One more token of good lineage keeps the lineage of all.
LEMMA TokensStep ==
    ASSUME TypeOK, TokensOK, NEW k \in Token, tokens' = Append(tokens, k),
           Lineage(tokens', Len(tokens) + 1)
    PROVE  TokensOK'
  <1>1. Signed' = Signed \cup {Len(tokens) + 1}
    BY CallsKeepParent
  <1>2. \A t \in Signed : Lineage(tokens', t)
    <2>1. SUFFICES ASSUME NEW t \in 1..Len(tokens) PROVE Lineage(tokens', t)
      BY DEF Signed
    <2>2. tokens \in Seq(Token) /\ Lineage(tokens, t)
      BY DEF TypeOK, TokensOK, Signed
    <2>3. Lineage(Append(tokens, k), t)
      BY <2>2, LineageExtends
    <2> QED BY <2>3
  <1> QED BY <1>1, <1>2 DEF TokensOK

LEMMA TokensSame ==
    ASSUME TokensOK, tokens' = tokens
    PROVE  TokensOK'
  BY DEF TokensOK, Signed, Lineage

\* CallsOK' when every verified call was one before and no token has changed.
LEMMA CallsStep ==
    ASSUME TypeOK, CallsOK, now' = now \/ (now' = now + 1),
           \A t \in Signed : tokens'[t] = tokens[t],
           \A a \in Agent : call'[a].stage = "verified" => call'[a] = call[a]
    PROVE  CallsOK'
  <1>1. SUFFICES ASSUME NEW a \in Agent PROVE CallOK(a)'
    BY DEF CallsOK
  <1>2. SUFFICES ASSUME call'[a].stage = "verified" PROVE CallOK(a)'
    BY DEF CallOK
  <1>3. call'[a] = call[a] /\ CallOK(a) /\ call[a].stage = "verified"
    BY <1>2 DEF CallsOK
  <1>4. call[a] \in Call /\ call[a].parent \in Signed
    BY <1>3, CallTyped
  <1>5. tokens'[call[a].parent] = tokens[call[a].parent]
    BY <1>4
  <1>6. call[a].seen <= now'
    <2>1. call[a].seen \in Nat /\ now \in Nat /\ call[a].seen <= now
      BY <1>3, <1>4, CallFields DEF CallOK, TypeOK
    <2> QED BY <2>1
  <1> QED BY <1>3, <1>5, <1>6 DEF CallOK

LEMMA InitOK == Init => IInv
  <1> SUFFICES ASSUME Init PROVE IInv
    OBVIOUS
  <1>1. Signed = {}
    BY DEF Init, Signed
  <1>2. AnyAgent \in Agent
    BY AgentAssumption DEF AnyAgent
  <1>3. IdleCall \in Call /\ IdleRoot \in RootCall /\ NoAdmin \in Admin
    BY <1>2 DEF IdleCall, IdleRoot, NoAdmin, Call, RootCall, Admin, Stage
  <1>4. TypeOK
    <2>1. tokens \in Seq(Token) /\ grants \in Seq(Grant)
      <3> DEFINE T == Token G == Grant
      <3>1. tokens = <<>> /\ grants = <<>>
        BY DEF Init
      <3> HIDE DEF T, G
      <3>2. tokens \in Seq(T) /\ grants \in Seq(G)
        BY <3>1
      <3> QED BY <3>2 DEF T, G
    <2>2. /\ call \in [Agent -> Call]
          /\ \A a \in Agent : call[a].stage = "idle"
      BY <1>3 DEF Init, IdleCall
    <2>3. rootCall \in RootCall /\ admin \in Admin /\ admin.op = "none"
      BY <1>3 DEF Init, NoAdmin
    <2> QED BY <2>1, <2>2, <2>3 DEF Init, TypeOK
  <1>5. TokensOK
    BY <1>1 DEF TokensOK
  <1>6. CallsOK
    BY DEF Init, CallsOK, CallOK, IdleCall
  <1> QED BY <1>4, <1>5, <1>6 DEF IInv

-----------------------------------------------------------------------------
\* Setting one agent's call.
LEMMA SetCall ==
    ASSUME TypeOK, NEW a \in Agent, NEW c \in Call,
           call' = [call EXCEPT ![a] = c]
    PROVE  /\ call' \in [Agent -> Call]
           /\ call'[a] = c
           /\ \A b \in Agent \ {a} : call'[b] = call[b]
  <1>1. call \in [Agent -> Call]
    BY DEF TypeOK
  <1> DEFINE C == Call
  <1>2. call \in [Agent -> C] /\ c \in C
    BY <1>1
  <1> HIDE DEF C
  <1>3. call' \in [Agent -> C]
    BY <1>2
  <1>4. call'[a] = c /\ \A b \in Agent \ {a} : call'[b] = call[b]
    BY <1>1
  <1> QED BY <1>3, <1>4 DEF C

LEMMA IdleCallTyped ==
    ASSUME NEW a \in Agent
    PROVE  IdleCall \in Call /\ IdleCall.stage = "idle"
  <1>1. AnyAgent \in Agent
    BY DEF AnyAgent
  <1> QED BY <1>1 DEF IdleCall, Call, Stage

LEMMA IdleRootTyped == IdleRoot \in RootCall /\ NoAdmin \in Admin /\ NoAdmin.op = "none"
  <1>1. AnyAgent \in Agent
    BY AgentAssumption DEF AnyAgent
  <1> QED BY <1>1 DEF IdleRoot, RootCall, NoAdmin, Admin

-----------------------------------------------------------------------------
\* TypeOK' when no token and no call changes its place: what is left to look at
\* is the rest of the state.
LEMMA TypeRest ==
    ASSUME TypeOK, tokens' = tokens, call' = call,
           grants' \in Seq(Grant), rowRevoked' \subseteq Signed,
           jtiStore' \subseteq Signed, held' \subseteq Signed,
           rootCall' \in RootCall, admin' \in Admin,
           admin'.op = "revoke" => admin'.jti \in Signed,
           now' \in Nat, restarts' \in Nat,
           revokedOk' \subseteq Signed
    PROVE  TypeOK'
  BY DEF TypeOK, Signed

\* TypeOK' when one more token is signed and the withdrawals stay as they are.
LEMMA TypeAppend ==
    ASSUME TypeOK, NEW k \in Token, tokens' = Append(tokens, k),
           UNCHANGED <<dbVars, jtiStore, adminVars, now, restarts>>,
           held' \subseteq Signed', rootCall' \in RootCall,
           call' \in [Agent -> Call],
           \A a \in Agent :
             /\ call'[a].stage # "idle" => call'[a].parent \in Signed
             /\ call'[a].stage = "recorded" => call'[a].jti \in Signed'
    PROVE  TypeOK'
  <1>1. tokens' \in Seq(Token) /\ Signed \subseteq Signed'
    BY CallsKeepParent
  <1>2. /\ rowRevoked' \subseteq Signed' /\ jtiStore' \subseteq Signed'
        /\ revokedOk' \subseteq Signed'
        /\ admin' \in Admin /\ (admin'.op = "revoke" => admin'.jti \in Signed')
        /\ grants' \in Seq(Grant) /\ now' \in Nat /\ restarts' \in Nat
    BY <1>1 DEF TypeOK, dbVars, adminVars
  <1>3. \A a \in Agent :
          /\ call'[a].stage # "idle" => call'[a].parent \in Signed'
          /\ call'[a].stage = "recorded" => call'[a].jti \in Signed'
    BY <1>1
  <1> QED BY <1>1, <1>2, <1>3 DEF TypeOK

\* A root token signed while no call changes.
LEMMA RootStep ==
    ASSUME IInv, NEW u \in User, NEW a \in Agent, NEW s \in SUBSET Scope,
           NEW aud \in Agent \cup Resource, NEW ttl \in Nat, NEW g \in Nat,
           tokens' = Append(tokens, RootToken(u, a, s, aud, ttl, g)),
           held' = held \cup {Len(tokens) + 1},
           rootCall' \in RootCall,
           UNCHANGED <<dbVars, jtiStore, call, adminVars, now, restarts>>
    PROVE  IInv'
  <1> DEFINE k == RootToken(u, a, s, aud, ttl, g)
  <1>1. /\ tokens \in Seq(Token) /\ now \in Nat /\ held \subseteq Signed
        /\ call \in [Agent -> Call]
    BY DEF IInv, TypeOK
  <1>2. k \in Token /\ Lineage(Append(tokens, k), Len(tokens) + 1)
    BY <1>1, RootTokenOK, NumberAssumption
  <1>3. TypeOK /\ TokensOK /\ CallsOK
    BY DEF IInv
  <1> HIDE DEF k
  <1>4. /\ Signed' = Signed \cup {Len(tokens) + 1}
        /\ \A t \in Signed : tokens'[t] = tokens[t]
    BY <1>2, <1>3, CallsKeepParent DEF k
  <1>5. TypeOK'
    <2>1. \A b \in Agent :
            /\ call'[b].stage # "idle" => call'[b].parent \in Signed
            /\ call'[b].stage = "recorded" => call'[b].jti \in Signed'
      BY <1>3, <1>4, CallTyped
    <2>2. held' \subseteq Signed'
      BY <1>1, <1>4
    <2> QED BY <1>1, <1>2, <1>3, <2>1, <2>2, TypeAppend DEF k
  <1>6. TokensOK'
    BY <1>2, <1>3, TokensStep DEF k
  <1>7. CallsOK'
    BY <1>3, <1>4, CallsStep
  <1> QED BY <1>5, <1>6, <1>7 DEF IInv

\* The steps of principal_delegate and request_access.
LEMMA PrincipalStep ==
    ASSUME IInv, Principal \/ \E u \in User, a \in Agent, s \in SUBSET Scope,
                                r \in Resource : IssueAccess(u, a, s, r)
    PROVE  IInv'
  <1>1. TypeOK /\ TokensOK /\ CallsOK
    BY DEF IInv
  <1>2. rootCall \in RootCall /\ grants \in Seq(Grant)
    BY <1>1 DEF TypeOK
  <1>3. ASSUME NEW a \in Agent, NEW s \in SUBSET Scope, NEW ttl \in Requests,
               CreateGrant(a, s, ttl)
        PROVE  IInv'
    <2>1. /\ Len(grants) + 1 \in Nat /\ Smaller(ttl, MaxTtl) \in Nat
      BY <1>2, RequestAssumption, NumberAssumption DEF Smaller
    <2>2. rootCall' \in RootCall
      BY <2>1, <1>3 DEF CreateGrant, RootCall
    <2>3. grants' \in Seq(Grant)
      BY <1>2, <1>3 DEF CreateGrant, Grant
    <2>4. TypeOK'
      <3>1. UNCHANGED <<tokens, call, rowRevoked, jtiStore, held, adminVars, now,
                        restarts>>
        BY <1>3 DEF CreateGrant
      <3> QED BY <1>1, <2>2, <2>3, <3>1, TypeRest DEF TypeOK, adminVars
    <2>5. tokens' = tokens /\ call' = call /\ now' = now
      BY <1>3 DEF CreateGrant
    <2>6. TokensOK' /\ CallsOK'
      BY <1>1, <2>5, TokensSame, CallsStep
    <2> QED BY <2>4, <2>6 DEF IInv
  <1>4. ASSUME IssueRoot PROVE IInv'
    <2>1. /\ rootCall.agent \in Agent /\ rootCall.scope \in SUBSET Scope
          /\ rootCall.ttl \in Nat /\ rootCall.grant \in Nat
          /\ rootCall.agent \in Agent \cup Resource
          /\ Owner[rootCall.agent] \in User
      BY <1>2, OwnerAssumption DEF RootCall
    <2>2. rootCall' \in RootCall
      BY <1>4, IdleRootTyped DEF IssueRoot
    <2> QED BY <1>4, <2>1, <2>2, RootStep DEF IssueRoot
  <1>5. ASSUME RootFails PROVE IInv'
    <2>1. UNCHANGED <<tokens, call, dbVars, jtiStore, held, adminVars, now,
                      restarts>>
      BY <1>5 DEF RootFails
    <2>2. rootCall' \in RootCall
      BY <1>5, IdleRootTyped DEF RootFails
    <2>3. TypeOK'
      BY <1>1, <2>1, <2>2, TypeRest DEF TypeOK, adminVars, dbVars
    <2>4. TokensOK' /\ CallsOK'
      BY <1>1, <2>1, TokensSame, CallsStep
    <2> QED BY <2>3, <2>4 DEF IInv
  <1>6. ASSUME NEW u \in User, NEW a \in Agent, NEW s \in SUBSET Scope,
               NEW r \in Resource, IssueAccess(u, a, s, r)
        PROVE  IInv'
    <2>1. r \in Agent \cup Resource /\ DefaultTtl \in Nat /\ rootCall' \in RootCall
      BY <1>2, <1>6, NumberAssumption DEF IssueAccess
    <2> QED BY <1>6, <2>1, RootStep DEF IssueAccess
  <1> QED BY <1>3, <1>4, <1>5, <1>6 DEF Principal

\* delegate: verify.
LEMMA VerifyStep ==
    ASSUME IInv, NEW a \in Agent, NEW p \in held, NEW b \in Agent,
           NEW s \in SUBSET Scope, NEW req \in Requests, Verify(a, p, b, s, req)
    PROVE  IInv'
  <1> DEFINE c == [IdleCall EXCEPT !.stage = "verified", !.parent = p, !.to = b,
                                   !.scope = s, !.req = req, !.seen = now]
  <1>1. TypeOK /\ TokensOK /\ CallsOK /\ p \in Signed /\ now \in Nat
    BY DEF IInv, TypeOK
  <1>2. p \in Nat /\ req \in Nat
    BY <1>1, RequestAssumption DEF Signed
  <1>3. /\ c.stage = "verified" /\ c.parent = p /\ c.to = b /\ c.scope = s
        /\ c.req = req /\ c.seen = now
    BY DEF IdleCall
  <1>4. c \in Call
    BY <1>1, <1>2 DEF IdleCall, Call, Stage
  <1>5. /\ call' = [call EXCEPT ![a] = c]
        /\ UNCHANGED <<tokens, dbVars, jtiStore, held, rootCall, adminVars, now,
                       restarts>>
        /\ tokens[p].aud = a /\ tokens[p].exp >= now
        /\ s \subseteq tokens[p].scope /\ tokens[p].depth + 1 <= MaxDepth
    BY DEF Verify, Verifies
  <1> HIDE DEF c
  <1>6. /\ call' \in [Agent -> Call] /\ call'[a] = c
        /\ \A x \in Agent \ {a} : call'[x] = call[x]
    BY <1>1, <1>4, <1>5, SetCall
  <1>7. Signed' = Signed
    BY <1>5 DEF Signed
  <1>8. \A x \in Agent :
          /\ call'[x].stage # "idle" => call'[x].parent \in Signed
          /\ call'[x].stage = "recorded" => call'[x].jti \in Signed
    BY <1>1, <1>3, <1>6, CallTyped
  <1>9. TypeOK'
    BY <1>1, <1>5, <1>6, <1>7, <1>8 DEF TypeOK, dbVars, adminVars
  <1>10. CallsOK'
    <2>1. ASSUME NEW x \in Agent PROVE CallOK(x)'
      <3>1. CASE x = a
        <4>1. tokens[p] \in Token
          <5> DEFINE T == Token
          <5>1. tokens \in Seq(T)
            BY <1>1 DEF TypeOK
          <5> HIDE DEF T
          <5>2. tokens[p] \in T
            BY <5>1, <1>1 DEF Signed
          <5> QED BY <5>2 DEF T
        <4>2. tokens[p].exp \in Nat
          BY <4>1, TokenFields
        <4> QED BY <3>1, <4>2, <1>1, <1>3, <1>5, <1>6 DEF CallOK
      <3>2. CASE x # a
        BY <3>2, <1>1, <1>5, <1>6 DEF CallOK, CallsOK
      <3> QED BY <3>1, <3>2
    <2> QED BY <2>1 DEF CallsOK
  <1>11. TokensOK'
    BY <1>1, <1>5, TokensSame
  <1> QED BY <1>9, <1>10, <1>11 DEF IInv

\* delegate: issue.
LEMMA IssueChildStep ==
    ASSUME IInv, NEW a \in Agent, IssueChild(a)
    PROVE  IInv'
  <1> DEFINE c == call[a]
             d == [call[a] EXCEPT !.stage = "recorded", !.jti = Len(tokens) + 1]
  <1>1. TypeOK /\ TokensOK /\ CallsOK
    BY DEF IInv
  <1>2. /\ c.stage = "verified" /\ c \in Call /\ c.parent \in Signed
        /\ tokens[c.parent] \in Token
    BY <1>1, CallTyped DEF IssueChild
  <1>3. /\ tokens \in Seq(Token) /\ now \in Nat /\ rootCall \in RootCall
        /\ held \subseteq Signed
    BY <1>1 DEF TypeOK
  <1>4. /\ c.scope \subseteq tokens[c.parent].scope
        /\ tokens[c.parent].depth + 1 <= MaxDepth
        /\ tokens[c.parent].aud = a /\ c.seen <= now
        /\ c.seen <= tokens[c.parent].exp
    BY <1>1, <1>2 DEF CallsOK, CallOK
  <1>5. PICK ttl \in ChildTtl(c) : tokens' = Append(tokens, ChildToken(c, a, ttl))
    BY DEF IssueChild
  <1>6. tokens[c.parent].exp \in Nat
    BY <1>2, TokenFields
  <1>7. ttl \in Nat /\ now + ttl <= tokens[c.parent].exp + (now - c.seen)
    BY <1>2, <1>3, <1>4, <1>5, <1>6, ChildTtlBound
  <1> DEFINE k == ChildToken(c, a, ttl)
  <1>8. Lineage(tokens, c.parent)
    BY <1>1, <1>2 DEF TokensOK
  <1>9. k \in Token /\ Lineage(Append(tokens, k), Len(tokens) + 1)
    BY <1>2, <1>3, <1>4, <1>7, <1>8, ChildTokenOK
  <1>10. tokens' = Append(tokens, k)
    BY <1>5
  <1> HIDE DEF k
  <1>11. /\ Signed' = Signed \cup {Len(tokens) + 1}
         /\ \A t \in Signed : tokens'[t] = tokens[t]
    BY <1>1, <1>9, <1>10, CallsKeepParent
  <1>12. /\ call' = [call EXCEPT ![a] = d]
         /\ UNCHANGED <<dbVars, jtiStore, held, rootCall, adminVars, now, restarts>>
    <2>1. call \in [Agent -> Call]
      BY <1>1 DEF TypeOK
    <2> QED BY <2>1 DEF IssueChild
  <1>13. Len(tokens) + 1 \in Nat
    BY <1>3
  <1>14. d \in Call /\ d.stage = "recorded" /\ d.parent = c.parent
         /\ d.jti = Len(tokens) + 1
    BY <1>2, <1>13 DEF Call, Stage
  <1> HIDE DEF d
  <1>15. /\ call' \in [Agent -> Call] /\ call'[a] = d
         /\ \A x \in Agent \ {a} : call'[x] = call[x]
    BY <1>1, <1>12, <1>14, SetCall
  <1>16. TypeOK'
    <2>1. \A x \in Agent :
            /\ call'[x].stage # "idle" => call'[x].parent \in Signed
            /\ call'[x].stage = "recorded" => call'[x].jti \in Signed'
      BY <1>1, <1>2, <1>11, <1>14, <1>15, CallTyped
    <2>2. held' \subseteq Signed' /\ rootCall' \in RootCall
      BY <1>3, <1>11, <1>12
    <2> QED BY <1>1, <1>9, <1>10, <1>12, <1>15, <2>1, <2>2, TypeAppend
  <1>17. TokensOK'
    BY <1>1, <1>9, <1>10, TokensStep
  <1>18. CallsOK'
    <2>1. \A x \in Agent : call'[x].stage = "verified" => call'[x] = call[x]
      BY <1>14, <1>15
    <2> QED BY <1>1, <1>11, <1>12, <2>1, CallsStep
  <1> QED BY <1>16, <1>17, <1>18 DEF IInv

\* delegate: the answer, or the failure.
LEMMA EndCallStep ==
    ASSUME IInv, NEW a \in Agent, Respond(a) \/ CallFails(a)
    PROVE  IInv'
  <1>1. TypeOK /\ TokensOK /\ CallsOK
    BY DEF IInv
  <1>2. /\ call' = [call EXCEPT ![a] = IdleCall]
        /\ UNCHANGED <<tokens, dbVars, jtiStore, rootCall, adminVars, now, restarts>>
    BY DEF Respond, CallFails
  <1>3. /\ call' \in [Agent -> Call] /\ call'[a] = IdleCall
        /\ \A x \in Agent \ {a} : call'[x] = call[x]
    BY <1>1, <1>2, IdleCallTyped, SetCall
  <1>4. IdleCall.stage = "idle"
    BY IdleCallTyped
  <1>5. held' \subseteq Signed
    BY <1>1, CallTyped DEF Respond, CallFails, TypeOK
  <1>6. \A x \in Agent :
          /\ call'[x].stage # "idle" => call'[x].parent \in Signed
          /\ call'[x].stage = "recorded" => call'[x].jti \in Signed
    BY <1>1, <1>3, <1>4, CallTyped
  <1>7. TypeOK'
    BY <1>1, <1>2, <1>3, <1>5, <1>6 DEF TypeOK, dbVars, adminVars, Signed
  <1>8. CallsOK'
    <2>1. \A x \in Agent : call'[x].stage = "verified" => call'[x] = call[x]
      BY <1>3, <1>4
    <2> QED BY <1>1, <1>2, <2>1, CallsStep
  <1>9. TokensOK'
    BY <1>1, <1>2, TokensSame
  <1> QED BY <1>7, <1>8, <1>9 DEF IInv

\* revoke_token, kill_agent and revoke_grant.
LEMMA OperatorStep ==
    ASSUME IInv, Operator
    PROVE  IInv'
  <1>1. TypeOK /\ TokensOK /\ CallsOK
    BY DEF IInv
  <1>2. UNCHANGED <<tokens, held, call, rootCall, now, restarts>>
    BY DEF Operator, RevokeRow, RevokeMemory, KillStart, KillRows, AdminFails,
           RevokeGrant, dbVars, adminVars
  <1>3. TokensOK' /\ CallsOK'
    BY <1>1, <1>2, TokensSame, CallsStep
  <1>4. admin \in Admin /\ admin.agent \in Agent /\ AnyAgent \in Agent
    BY <1>1, AgentAssumption DEF TypeOK, Admin, AnyAgent
  <1>5. ASSUME NEW t \in Signed, RevokeRow(t) PROVE TypeOK'
    <2>1. t \in Nat
      BY DEF Signed
    <2>2. admin' \in Admin /\ (admin'.op = "revoke" => admin'.jti \in Signed)
      BY <1>4, <1>5, <2>1 DEF RevokeRow, NoAdmin, Admin
    <2> QED BY <1>1, <1>2, <1>5, <2>2, TypeRest DEF RevokeRow, TypeOK
  <1>6. ASSUME RevokeMemory PROVE TypeOK'
    BY <1>1, <1>2, <1>6, IdleRootTyped, TypeRest DEF RevokeMemory, TypeOK, dbVars
  <1>7. ASSUME NEW a \in Agent, KillStart(a) PROVE TypeOK'
    <2>1. admin' \in Admin /\ admin'.op = "kill"
      BY <1>4, <1>7 DEF KillStart, NoAdmin, Admin
    <2> QED BY <1>1, <1>2, <1>7, <2>1, TypeRest DEF KillStart, TypeOK, dbVars
  <1>8. ASSUME KillRows PROVE TypeOK'
    <2>1. RowsOf(admin.agent) \subseteq Signed
      BY DEF RowsOf
    <2> QED BY <1>1, <1>2, <1>8, <2>1, IdleRootTyped, TypeRest DEF KillRows, TypeOK
  <1>9. ASSUME AdminFails PROVE TypeOK'
    BY <1>1, <1>2, <1>9, IdleRootTyped, TypeRest DEF AdminFails, TypeOK, dbVars
  <1>10. ASSUME NEW g \in 1..Len(grants), RevokeGrant(g) PROVE TypeOK'
    <2>1. grants' \in Seq(Grant)
      <3>1. grants \in Seq(Grant) /\ grants[g] \in Grant
        BY <1>1 DEF TypeOK
      <3>2. [grants[g] EXCEPT !.revoked = TRUE] \in Grant
        BY <3>1 DEF Grant
      <3>3. grants' = [grants EXCEPT ![g] = [grants[g] EXCEPT !.revoked = TRUE]]
        BY <1>10, <3>1 DEF RevokeGrant
      <3> QED BY <3>1, <3>2, <3>3
    <2> QED BY <1>1, <1>2, <1>10, <2>1, TypeRest
            DEF RevokeGrant, TypeOK, adminVars
  <1>11. TypeOK'
    BY <1>5, <1>6, <1>7, <1>8, <1>9, <1>10 DEF Operator
  <1> QED BY <1>3, <1>11 DEF IInv

LEMMA NextStep ==
    ASSUME IInv, [Next]_vars
    PROVE  IInv'
  <1>1. TypeOK /\ TokensOK /\ CallsOK
    BY DEF IInv
  <1>2. ASSUME NEW a \in Agent, AgentStep(a) PROVE IInv'
    BY <1>2, PrincipalStep, VerifyStep, IssueChildStep, EndCallStep DEF AgentStep
  <1>3. ASSUME Restart PROVE IInv'
    <2>1. /\ call' = [a \in Agent |-> IdleCall] /\ rootCall' = IdleRoot
          /\ admin' = NoAdmin /\ jtiStore' = {} /\ restarts' = restarts + 1
          /\ UNCHANGED <<tokens, dbVars, held, revokedOk, now>>
      BY <1>3 DEF Restart
    <2>2. \A a \in Agent : call'[a] = IdleCall /\ IdleCall.stage = "idle"
      BY <2>1, IdleCallTyped
    <2>3. call' \in [Agent -> Call]
      BY <2>1, IdleCallTyped
    <2>4. TypeOK'
      BY <1>1, <2>1, <2>2, <2>3, IdleRootTyped DEF TypeOK, Signed, dbVars
    <2>5. TokensOK' /\ CallsOK'
      BY <1>1, <2>1, <2>2, TokensSame, CallsStep
    <2> QED BY <2>4, <2>5 DEF IInv
  <1>4. ASSUME Tick PROVE IInv'
    <2>1. /\ now' = now + 1
          /\ UNCHANGED <<tokens, dbVars, jtiStore, held, call, rootCall, adminVars,
                         restarts>>
      BY <1>4 DEF Tick
    <2>2. TypeOK'
      BY <1>1, <2>1, TypeRest DEF TypeOK, dbVars, adminVars
    <2>3. TokensOK' /\ CallsOK'
      BY <1>1, <2>1, TokensSame, CallsStep
    <2> QED BY <2>2, <2>3 DEF IInv
  <1>5. ASSUME UNCHANGED vars PROVE IInv'
    <2>1. UNCHANGED <<tokens, dbVars, jtiStore, held, call, rootCall, adminVars,
                      now, restarts>>
      BY <1>5 DEF vars
    <2>2. TypeOK'
      BY <1>1, <2>1, TypeRest DEF TypeOK, dbVars, adminVars
    <2>3. TokensOK' /\ CallsOK'
      BY <1>1, <2>1, TokensSame, CallsStep
    <2> QED BY <2>2, <2>3 DEF IInv
  <1> QED BY <1>2, <1>3, <1>4, <1>5, PrincipalStep, OperatorStep DEF Next

\* The inductive invariant holds of every reachable state.
THEOREM IInvCorrect == Spec => []IInv
  <1>1. Init => IInv
    BY InitOK
  <1>2. IInv /\ [Next]_vars => IInv'
    BY NextStep
  <1> QED BY <1>1, <1>2, PTL DEF Spec

\* Every variable of the delegation model keeps its type.
THEOREM TypeCorrect == Spec => []TypeOK
  <1>1. IInv => TypeOK
    BY DEF IInv
  <1> QED BY <1>1, IInvCorrect, PTL

\* No line of delegations ever widens what its root was given, or grows deeper
\* than policy.max_delegation_depth.
THEOREM AttenuationCorrect == Spec => []Attenuation
  <1>1. IInv => Attenuation
    <2>1. SUFFICES ASSUME IInv, NEW t \in Signed
                   PROVE  Attenuation!(t)
      BY DEF Attenuation
    <2>2. Lineage(tokens, t) /\ t \in Nat
      BY <2>1 DEF IInv, TokensOK, Signed
    <2> QED BY <2>2 DEF Lineage
  <1> QED BY <1>1, IInvCorrect, PTL

\* The delegation_chain claim tells the line a token came by.
THEOREM ChainFaithfulCorrect == Spec => []ChainFaithful
  <1>1. IInv => ChainFaithful
    <2>1. SUFFICES ASSUME IInv, NEW t \in Signed
                   PROVE  ChainFaithful!(t)
      BY DEF ChainFaithful
    <2>2. Lineage(tokens, t) /\ tokens[t] \in Token
      <3> DEFINE T == Token
      <3>1. tokens \in Seq(T) /\ TokensOK
        BY <2>1 DEF IInv, TypeOK
      <3> HIDE DEF T
      <3>2. tokens[t] \in T
        BY <3>1 DEF Signed
      <3> QED BY <3>1, <3>2 DEF T, TokensOK
    <2>3. tokens[t].depth \in Nat
      BY <2>2, TokenFields
    <2> QED BY <2>2, <2>3 DEF Lineage
  <1> QED BY <1>1, IInvCorrect, PTL

\* A child token exists only because the agent its parent is addressed to asked.
THEOREM MintedByHolderCorrect == Spec => []MintedByHolder
  <1>1. IInv => MintedByHolder
    BY DEF IInv, TokensOK, Lineage, MintedByHolder
  <1> QED BY <1>1, IInvCorrect, PTL

-----------------------------------------------------------------------------
\* No token is passed on before it is signed, so a child gets at most the life that
\* its parent was signed with.
LifeOK(q, t) == q[t].exp - q[t].minted <= q[q[t].root].exp - q[q[t].root].minted

LifeInv ==
    /\ \A t \in Signed : tokens[t].minted <= now /\ LifeOK(tokens, t)
    /\ \A a \in Agent :
         call[a].stage = "verified" => tokens[call[a].parent].minted <= call[a].seen

LEMMA RootSigned ==
    ASSUME IInv, NEW t \in Signed
    PROVE  tokens[t].root \in Signed
  <1>1. Lineage(tokens, t) /\ tokens \in Seq(Token)
    BY DEF IInv, TypeOK, TokensOK
  <1>2. t \in 1..Len(tokens) /\ Len(tokens) \in Nat
    BY <1>1 DEF Signed
  <1>3. tokens[t].root \in 1..t
    BY <1>1 DEF Lineage
  <1> QED BY <1>2, <1>3 DEF Signed

\* One token is signed and no call comes past verify.
LEMMA LifeAppend ==
    ASSUME IInv, LifeInv, NEW k \in Token, tokens' = Append(tokens, k), now' = now,
           k.minted <= now, LifeOK(tokens', Len(tokens) + 1),
           \A a \in Agent : call'[a].stage = "verified" => call'[a] = call[a]
    PROVE  LifeInv'
  <1>1. /\ Signed' = Signed \cup {Len(tokens) + 1}
        /\ \A t \in Signed : tokens'[t] = tokens[t]
    BY CallsKeepParent DEF IInv
  <1>2. tokens'[Len(tokens) + 1] = k
    BY AppendToken DEF IInv, TypeOK
  <1>3. ASSUME NEW t \in Signed
        PROVE  tokens'[t].minted <= now' /\ LifeOK(tokens', t)
    <2>1. tokens[t].root \in Signed
      BY RootSigned
    <2> QED BY <1>1, <2>1 DEF LifeInv, LifeOK
  <1>4. ASSUME NEW a \in Agent, call'[a].stage = "verified"
        PROVE  tokens'[call'[a].parent].minted <= call'[a].seen
    <2>1. call'[a] = call[a] /\ call[a].parent \in Signed
      BY <1>4, CallTyped DEF IInv
    <2> QED BY <1>1, <1>4, <2>1 DEF LifeInv
  <1> QED BY <1>1, <1>2, <1>3, <1>4 DEF LifeInv

\* No token is signed, and a call comes past verify at most now.
LEMMA LifeSame ==
    ASSUME IInv, LifeInv, tokens' = tokens, now' = now \/ now' = now + 1,
           \A a \in Agent :
             call'[a].stage = "verified" =>
               call'[a] = call[a] \/ (call'[a].parent \in Signed /\ call'[a].seen = now)
    PROVE  LifeInv'
  <1>1. now \in Nat /\ Signed' = Signed
    BY DEF IInv, TypeOK, Signed
  <1>2. \A t \in Signed : tokens[t] \in Token
    <2> DEFINE T == Token
    <2>1. tokens \in Seq(T)
      BY DEF IInv, TypeOK
    <2> HIDE DEF T
    <2>2. \A t \in Signed : tokens[t] \in T
      BY <2>1 DEF Signed
    <2> QED BY <2>2 DEF T
  <1>3. \A t \in Signed : tokens[t].minted \in Nat
    BY <1>2, TokenFields
  <1> QED BY <1>1, <1>3 DEF LifeInv, LifeOK

LEMMA LifeRoot ==
    ASSUME IInv, LifeInv, NEW u \in User, NEW a \in Agent, NEW s \in SUBSET Scope,
           NEW aud \in Agent \cup Resource, NEW ttl \in Nat, NEW g \in Nat,
           tokens' = Append(tokens, RootToken(u, a, s, aud, ttl, g)),
           UNCHANGED <<call, now>>
    PROVE  LifeInv'
  <1> DEFINE k == RootToken(u, a, s, aud, ttl, g)
             n == Len(tokens) + 1
  <1>1. tokens \in Seq(Token) /\ now \in Nat
    BY DEF IInv, TypeOK
  <1>2. k \in Token
    BY <1>1, RootTokenOK, NumberAssumption
  <1>3. k.minted = now /\ k.root = n /\ k.exp \in Nat
    BY <1>1 DEF RootToken
  <1> HIDE DEF k
  <1>4. tokens'[n] = k
    BY <1>1, <1>2, AppendToken DEF k
  <1>5. LifeOK(tokens', n)
    BY <1>1, <1>3, <1>4 DEF LifeOK
  <1> HIDE DEF n
  <1> QED BY <1>1, <1>2, <1>3, <1>5, LifeAppend DEF k, n

LEMMA LifeChild ==
    ASSUME IInv, LifeInv, NEW a \in Agent, IssueChild(a)
    PROVE  LifeInv'
  <1> DEFINE c == call[a]
             p == tokens[c.parent]
             n == Len(tokens) + 1
  <1>1. /\ c.stage = "verified" /\ c \in Call /\ c.parent \in Signed
        /\ p \in Token /\ tokens \in Seq(Token) /\ now \in Nat
    BY CallTyped DEF IInv, IssueChild, TypeOK
  <1>2. /\ c.scope \subseteq p.scope /\ p.depth + 1 <= MaxDepth /\ p.aud = a
        /\ c.seen <= now /\ c.seen <= p.exp /\ p.minted <= c.seen
        /\ Lineage(tokens, c.parent) /\ LifeOK(tokens, c.parent)
    BY <1>1 DEF IInv, CallsOK, CallOK, LifeInv, TokensOK
  <1>3. PICK ttl \in ChildTtl(c) : tokens' = Append(tokens, ChildToken(c, a, ttl))
    BY DEF IssueChild
  <1>4. p.exp \in Nat /\ p.minted \in Nat /\ c.seen \in Nat
    BY <1>1, TokenFields, CallFields
  <1>5. ttl \in Nat /\ now + ttl <= p.exp + (now - c.seen)
    BY <1>1, <1>2, <1>3, <1>4, ChildTtlBound
  <1> DEFINE k == ChildToken(c, a, ttl)
  <1>6. k \in Token
    BY <1>1, <1>2, <1>5, ChildTokenOK
  <1>7. k.minted = now /\ k.exp = now + ttl /\ k.root = p.root
    BY DEF ChildToken
  <1>8. tokens' = Append(tokens, k)
    BY <1>3
  <1> HIDE DEF k
  <1>9. tokens'[n] = k /\ \A t \in Signed : tokens'[t] = tokens[t]
    BY <1>1, <1>6, <1>8, AppendToken DEF Signed
  <1>10. p.root \in Signed
    BY <1>1, RootSigned
  <1>11. /\ tokens[p.root] = tokens'[p.root]
         /\ tokens[p.root] \in Token
    <2> DEFINE T == Token
    <2>1. tokens \in Seq(T)
      BY <1>1
    <2> HIDE DEF T
    <2>2. tokens[p.root] \in T
      BY <1>10, <2>1 DEF Signed
    <2> QED BY <1>9, <1>10, <2>2 DEF T
  <1>12. tokens[p.root].exp \in Nat /\ tokens[p.root].minted \in Nat
    BY <1>11, TokenFields
  <1>13. p.exp - p.minted <= tokens[p.root].exp - tokens[p.root].minted
    BY <1>2 DEF LifeOK
  <1>14. k.exp - k.minted <= p.exp - p.minted
    BY <1>1, <1>2, <1>4, <1>5, <1>7
  <1>15. LifeOK(tokens', n)
    <2>1. k.exp \in Nat /\ k.minted \in Nat
      BY <1>6, TokenFields
    <2> DEFINE r == tokens[p.root]
    <2>2. tokens'[n] = k /\ tokens'[k.root] = r
      BY <1>7, <1>9, <1>11
    <2>3. k.exp - k.minted <= r.exp - r.minted
      <3> HIDE DEF p, r
      <3>1. r.exp \in Nat /\ r.minted \in Nat /\ p.exp - p.minted <= r.exp - r.minted
        BY <1>12, <1>13 DEF r
      <3> QED BY <1>4, <1>14, <2>1, <3>1
    <2> QED BY <2>2, <2>3 DEF LifeOK
  <1>16. \A x \in Agent : call'[x].stage = "verified" => call'[x] = call[x]
    <2>1. call \in [Agent -> Call]
      BY DEF IInv, TypeOK
    <2>2. call' = [call EXCEPT ![a] =
                     [call[a] EXCEPT !.stage = "recorded", !.jti = n]]
      BY <2>1 DEF IssueChild
    <2>3. [call[a] EXCEPT !.stage = "recorded", !.jti = n].stage = "recorded"
      BY <1>1 DEF Call
    <2> QED BY <2>1, <2>2, <2>3
  <1>17. now' = now
    BY DEF IssueChild
  <1> HIDE DEF n
  <1> QED BY <1>1, <1>6, <1>7, <1>8, <1>15, <1>16, <1>17, LifeAppend DEF n

LEMMA LifeStep ==
    ASSUME IInv, LifeInv, [Next]_vars
    PROVE  LifeInv'
  <1>1. ASSUME IssueRoot PROVE LifeInv'
    <2>1. rootCall \in RootCall
      BY DEF IInv, TypeOK
    <2>2. /\ rootCall.agent \in Agent /\ rootCall.scope \in SUBSET Scope
          /\ rootCall.ttl \in Nat /\ rootCall.grant \in Nat
          /\ rootCall.agent \in Agent \cup Resource
          /\ Owner[rootCall.agent] \in User
      BY <2>1, OwnerAssumption DEF RootCall
    <2> QED BY <1>1, <2>2, LifeRoot DEF IssueRoot
  <1>2. ASSUME NEW u \in User, NEW a \in Agent, NEW s \in SUBSET Scope,
               NEW r \in Resource, IssueAccess(u, a, s, r)
        PROVE  LifeInv'
    BY <1>2, LifeRoot, NumberAssumption DEF IssueAccess
  <1>3. ASSUME NEW a \in Agent, NEW p \in held, NEW b \in Agent,
               NEW s \in SUBSET Scope, NEW req \in Requests, Verify(a, p, b, s, req)
        PROVE  LifeInv'
    <2> DEFINE c == [IdleCall EXCEPT !.stage = "verified", !.parent = p, !.to = b,
                                     !.scope = s, !.req = req, !.seen = now]
    <2>1. c.parent = p /\ c.seen = now
      BY DEF IdleCall
    <2>2. /\ call' = [call EXCEPT ![a] = c] /\ UNCHANGED <<tokens, now>>
      BY <1>3 DEF Verify
    <2>3. call \in [Agent -> Call] /\ p \in Signed
      BY DEF IInv, TypeOK
    <2> HIDE DEF c
    <2>4. \A x \in Agent : call'[x] = c \/ call'[x] = call[x]
      BY <2>2, <2>3
    <2>5. \A x \in Agent : call'[x] = call[x]
                           \/ (call'[x].parent \in Signed /\ call'[x].seen = now)
      BY <2>1, <2>3, <2>4
    <2>6. tokens' = tokens /\ now' = now
      BY <2>2
    <2> QED BY <2>5, <2>6, LifeSame
  <1>4. ASSUME NEW a \in Agent, IssueChild(a) PROVE LifeInv'
    BY <1>4, LifeChild
  <1>5. ASSUME NEW a \in Agent, Respond(a) \/ CallFails(a) PROVE LifeInv'
    <2>1. /\ call' = [call EXCEPT ![a] = IdleCall] /\ UNCHANGED <<tokens, now>>
          /\ call \in [Agent -> Call] /\ IdleCall.stage = "idle"
      BY <1>5, IdleCallTyped DEF Respond, CallFails, IInv, TypeOK
    <2>2. \A x \in Agent : call'[x].stage = "verified" => call'[x] = call[x]
      BY <2>1
    <2>3. tokens' = tokens /\ now' = now
      BY <2>1
    <2> QED BY <2>2, <2>3, LifeSame
  <1>6. ASSUME Restart PROVE LifeInv'
    <2>1. \A a \in Agent : call'[a].stage = "idle"
      BY <1>6, IdleCallTyped DEF Restart
    <2>2. tokens' = tokens /\ now' = now
      BY <1>6 DEF Restart
    <2> QED BY <2>1, <2>2, LifeSame
  <1>7. CASE UNCHANGED <<tokens, call>> /\ (now' = now \/ now' = now + 1)
    <2>1. \A x \in Agent : call'[x] = call[x]
      BY <1>7
    <2> QED BY <1>7, <2>1, LifeSame
  <1> QED
    BY <1>1, <1>2, <1>3, <1>4, <1>5, <1>6, <1>7
    DEF Next, vars, Principal, AgentStep, Operator, Tick, CreateGrant, RootFails,
        RevokeRow, RevokeMemory, KillStart, KillRows, AdminFails, RevokeGrant

\* A child outlives its parent by no more than its own call took, and no line of
\* delegations renews what its root was given.
THEOREM ExpiryInheritedCorrect == Spec => []ExpiryInherited
  <1>1. Init => LifeInv
    BY DEF Init, LifeInv, Signed, IdleCall
  <1>2. IInv /\ LifeInv /\ [Next]_vars => LifeInv'
    BY LifeStep
  <1>3. IInv /\ LifeInv => ExpiryInherited
    BY DEF IInv, TokensOK, Lineage, LifeInv, LifeOK, ExpiryInherited
  <1> QED BY <1>1, <1>2, <1>3, IInvCorrect, PTL DEF Spec

-----------------------------------------------------------------------------
\* revoke_token writes the row before the set, and returns after both.
RevokeInv ==
    /\ jtiStore \subseteq rowRevoked
    /\ admin.op = "revoke" => admin.jti \in rowRevoked
    /\ restarts \in Nat
    /\ restarts = 0 => revokedOk \subseteq jtiStore

LEMMA RevokeInvStep ==
    ASSUME RevokeInv, [Next]_vars
    PROVE  RevokeInv'
  <1>1. CASE Operator
    BY <1>1, IdleRootTyped DEF Operator, RevokeRow, RevokeMemory, KillStart,
       KillRows, AdminFails, RevokeGrant, NoAdmin, dbVars, adminVars, RevokeInv
  <1>2. CASE Restart
    BY <1>2 DEF Restart, NoAdmin, dbVars, RevokeInv
  <1>3. CASE Principal
    BY <1>3 DEF Principal, CreateGrant, IssueRoot, RootFails, dbVars, adminVars,
       RevokeInv
  <1>4. CASE \E a \in Agent : AgentStep(a)
    BY <1>4 DEF AgentStep, IssueAccess, Verify, IssueChild, Respond, CallFails,
       dbVars, adminVars, RevokeInv
  <1>5. CASE Tick
    BY <1>5 DEF Tick, dbVars, adminVars, RevokeInv
  <1>6. CASE UNCHANGED vars
    BY <1>6 DEF vars, dbVars, adminVars, RevokeInv
  <1> QED BY <1>1, <1>2, <1>3, <1>4, <1>5, <1>6 DEF Next

THEOREM RevokeInvCorrect == Spec => []RevokeInv
  <1>1. Init => RevokeInv
    BY DEF Init, NoAdmin, RevokeInv
  <1>2. RevokeInv /\ [Next]_vars => RevokeInv'
    BY RevokeInvStep
  <1> QED BY <1>1, <1>2, PTL DEF Spec

\* The process never refuses a token the table shows as live.
THEOREM MemoryImpliesRowCorrect == Spec => []MemoryImpliesRow
  <1>1. RevokeInv => MemoryImpliesRow
    BY DEF RevokeInv, MemoryImpliesRow
  <1> QED BY <1>1, RevokeInvCorrect, PTL

\* Within one run of the process a token whose revoke_token returned is never
\* again accepted as the parent of a delegation.
THEOREM RevokedStaysRejectedCorrect == Spec => RevokedStaysRejected
  <1> DEFINE Accepts ==
        \A a \in Agent :
          /\ call[a].stage = "idle" /\ call'[a].stage = "verified"
          /\ restarts = 0
          => call'[a].parent \notin revokedOk
  <1>1. ASSUME IInv, RevokeInv, [Next]_vars PROVE Accepts
    <2>1. SUFFICES ASSUME NEW a \in Agent, call[a].stage = "idle",
                          call'[a].stage = "verified", restarts = 0
                   PROVE  call'[a].parent \notin revokedOk
      OBVIOUS
    <2>2. TypeOK
      BY <1>1 DEF IInv
    <2>3. ASSUME NEW x \in Agent, NEW p \in held, NEW b \in Agent,
                 NEW s \in SUBSET Scope, NEW req \in Requests,
                 Verify(x, p, b, s, req)
          PROVE  call'[a].parent \notin revokedOk
      <3> DEFINE c == [IdleCall EXCEPT !.stage = "verified", !.parent = p, !.to = b,
                                       !.scope = s, !.req = req, !.seen = now]
      <3>1. c.parent = p /\ p \notin jtiStore /\ call' = [call EXCEPT ![x] = c]
        BY <2>3 DEF Verify, Verifies, IdleCall
      <3> HIDE DEF c
      <3>2. call'[a] = IF a = x THEN c ELSE call[a]
        BY <2>2, <3>1 DEF TypeOK
      <3>3. revokedOk \subseteq jtiStore
        BY <1>1, <2>1 DEF RevokeInv
      <3> QED BY <2>1, <3>1, <3>2, <3>3
    <2>4. ASSUME NEW x \in Agent, IssueChild(x) PROVE FALSE
      <3>1. call'[a] = IF a = x THEN [call[a] EXCEPT !.stage = "recorded",
                                                      !.jti = Len(tokens) + 1]
                       ELSE call[a]
        BY <2>2, <2>4 DEF IssueChild, TypeOK
      <3>2. call[x].stage = "verified"
        BY <2>4 DEF IssueChild
      <3> QED BY <2>1, <3>1, <3>2
    <2>5. ASSUME NEW x \in Agent, Respond(x) \/ CallFails(x) PROVE FALSE
      <3>1. call'[a] = IF a = x THEN IdleCall ELSE call[a]
        BY <2>2, <2>5 DEF Respond, CallFails, TypeOK
      <3> QED BY <2>1, <3>1, IdleCallTyped
    <2>6. ASSUME call' = call \/ Restart PROVE FALSE
      <3>1. call'[a] = call[a] \/ call'[a] = IdleCall
        BY <2>6 DEF Restart
      <3> QED BY <2>1, <3>1, IdleCallTyped
    <2>7. ASSUME Principal \/ Operator \/ Tick \/ UNCHANGED vars PROVE FALSE
      BY <2>6, <2>7 DEF Principal, CreateGrant, IssueRoot, RootFails, Operator,
         RevokeRow, RevokeMemory, KillStart, KillRows, AdminFails, RevokeGrant,
         Tick, vars
    <2>8. ASSUME NEW u \in User, NEW x \in Agent, NEW s \in SUBSET Scope,
                 NEW r \in Resource, IssueAccess(u, x, s, r)
          PROVE  FALSE
      BY <2>6, <2>8 DEF IssueAccess
    <2>9. ASSUME NEW x \in Agent, AgentStep(x)
          PROVE  call'[a].parent \notin revokedOk
      BY <2>3, <2>4, <2>5, <2>8, <2>9 DEF AgentStep
    <2> QED BY <1>1, <2>6, <2>7, <2>9 DEF Next
  <1>2. IInv /\ RevokeInv /\ [Next]_vars => [Accepts]_vars
    BY <1>1
  <1>3. Spec => [][Next]_vars
    BY DEF Spec
  <1> QED BY <1>2, <1>3, IInvCorrect, RevokeInvCorrect, PTL DEF RevokedStaysRejected
=============================================================================
