------------------------- MODULE IdpFederationProofs -------------------------
(***************************************************************************)
(* Proofs about IdpFederation: type correctness, then one inductive         *)
(* invariant for each property. What a state or a code stands for is fixed  *)
(* when it is drawn (StoreOK, CodesOK), and principals are only appended.   *)
(***************************************************************************)
EXTENDS IdpFederation, TLAPS

Touched(c) == \A d \in Callback \ {c} : call'[d] = call[d]

\* A step of the callback c gives it the new record r, and the others theirs.
LEMMA CallStep ==
    ASSUME call \in [Callback -> Call], NEW c \in Callback, NEW r \in Call,
           call' = [call EXCEPT ![c] = r]
    PROVE  call' \in [Callback -> Call] /\ call'[c] = r /\ Touched(c)
  BY DEF Touched

\* The fields of a callback.
LEMMA CallFields ==
    ASSUME TypeOK, NEW c \in Callback
    PROVE  /\ call[c] \in Call /\ call[c].stage \in Stage
           /\ call[c].state \in Nat /\ call[c].verifier \in Nat
           /\ call[c].provider \in Provider
           /\ call[c].code \in 0..Len(codes)
           /\ call[c].principal \in 0..Len(principals)
           /\ call[c].rows \in Nat /\ call[c].lookup \in Lookup
           /\ call[c].stage # "idle" =>
                /\ call[c].code \in 1..Len(codes)
                /\ codes[call[c].code] \in Code
                /\ AccountOf(c) \in Account /\ MailOf(c) \in Email
  <1>1. call[c] \in Call /\ call[c].code \in 0..Len(codes)
        /\ call[c].principal \in 0..Len(principals)
        /\ (call[c].stage # "idle" => call[c].code # 0)
    BY DEF TypeOK
  <1>2. ASSUME NEW k \in 1..Len(codes) PROVE codes[k] \in Code
    BY <1>2 DEF TypeOK
  <1>3. \A x \in Code : x.account \in Account /\ EmailOf[x.account] \in Email
    BY AccountAssumption DEF Code
  <1>4. Len(codes) \in Nat
    BY DEF TypeOK
  <1> QED BY <1>1, <1>2, <1>3, <1>4 DEF Call, AccountOf, MailOf

LEMMA NoCallTyped ==
    /\ NoCall \in Call /\ NoCall.stage = "idle" /\ NoCall.code = 0
    /\ NoCall.principal = 0 /\ NoCall.rows = 0 /\ NoCall.lookup = "none"
  <1>1. \E p \in Provider : TRUE
    BY AccountAssumption
  <1> QED BY <1>1 DEF NoCall, Call, Stage, Lookup

-----------------------------------------------------------------------------
\* The calls after a step, as far as types go.
CallsTyped ==
    /\ call' \in [Callback -> Call]
    /\ \A c \in Callback : /\ call'[c].code \in 0..Len(codes')
                           /\ call'[c].principal \in 0..Len(principals')
                           /\ call'[c].stage # "idle" => call'[c].code # 0

LEMMA CallsStep ==
    ASSUME TypeOK, NEW c \in Callback, NEW r \in Call,
           call' = [call EXCEPT ![c] = r],
           r.code \in 0..Len(codes'), r.principal \in 0..Len(principals'),
           r.stage # "idle" => r.code # 0,
           Len(codes') \in Nat, Len(principals') \in Nat,
           Len(codes) <= Len(codes'), Len(principals) <= Len(principals')
    PROVE  CallsTyped
  <1>1. call' \in [Callback -> Call] /\ call'[c] = r /\ Touched(c)
    BY CallStep DEF TypeOK
  <1>2. \A d \in Callback : /\ call[d].code \in 0..Len(codes)
                            /\ call[d].principal \in 0..Len(principals)
                            /\ call[d].stage # "idle" => call[d].code # 0
    BY DEF TypeOK
  <1>3. Len(codes) \in Nat /\ Len(principals) \in Nat
    BY DEF TypeOK
  <1> QED BY <1>1, <1>2, <1>3 DEF CallsTyped, Touched

\* The same where no code is issued and no principal created.
LEMMA CallsKept ==
    ASSUME TypeOK, NEW c \in Callback, NEW r \in Call,
           call' = [call EXCEPT ![c] = r], UNCHANGED <<codes, principals>>,
           r.code \in 0..Len(codes), r.principal \in 0..Len(principals),
           r.stage # "idle" => r.code # 0
    PROVE  CallsTyped
  <1>1. /\ Len(codes') \in Nat /\ Len(principals') \in Nat
        /\ Len(codes) <= Len(codes') /\ Len(principals) <= Len(principals')
    BY DEF TypeOK
  <1>2. r.code \in 0..Len(codes') /\ r.principal \in 0..Len(principals')
    OBVIOUS
  <1> QED BY <1>1, <1>2, CallsStep

\* The record of a callback after a step that changes a few fields.
Updated(c, s, p, l) == [call[c] EXCEPT !.stage = s, !.principal = p, !.lookup = l]
LEMMA NewRecord ==
    ASSUME TypeOK, NEW c \in Callback, NEW s \in Stage, NEW p \in Nat, NEW l \in Lookup
    PROVE  /\ Updated(c, s, p, l) \in Call
           /\ Updated(c, s, p, l).stage = s /\ Updated(c, s, p, l).principal = p
           /\ Updated(c, s, p, l).lookup = l /\ Updated(c, s, p, l).code = call[c].code
           /\ Updated(c, s, p, l).rows = call[c].rows
           /\ Updated(c, s, p, l).state = call[c].state
           /\ Updated(c, s, p, l).verifier = call[c].verifier
           /\ Updated(c, s, p, l).provider = call[c].provider
  BY CallFields DEF Call, Updated

\* A step that changes no callback.
LEMMA QuietCalls ==
    ASSUME TypeOK, UNCHANGED call,
           Len(codes') \in Nat, Len(principals') \in Nat,
           Len(codes) <= Len(codes'), Len(principals) <= Len(principals')
    PROVE  CallsTyped
  <1>1. Len(codes) \in Nat /\ Len(principals) \in Nat
    BY DEF TypeOK
  <1> QED BY <1>1 DEF TypeOK, CallsTyped

LEMMA FreshCalls ==
    ASSUME TypeOK, call' = [c \in Callback |-> NoCall], UNCHANGED <<codes, principals>>
    PROVE  CallsTyped
  <1>1. Len(codes) \in Nat /\ Len(principals) \in Nat
    BY DEF TypeOK
  <1> QED BY <1>1, NoCallTyped DEF CallsTyped

\* The rest of the type invariant after a step.
LEMMA TypedAfter ==
    ASSUME CallsTyped, now' \in Nat, restarts' \in Nat,
           transactions' \subseteq Transaction, asked' \in Seq(Asked),
           codes' \in Seq(Code), spent' \subseteq 1..Len(codes'),
           principals' \in Seq(Principal), policy' \in 0..Len(codes'),
           accepted' \in Seq([state : Number, at : Nat]), logins' \subseteq Login
    PROVE  TypeOK'
  BY DEF CallsTyped, TypeOK

LEMMA Lengths ==
    ASSUME TypeOK
    PROVE  Len(asked) \in Nat /\ Len(codes) \in Nat /\ Len(principals) \in Nat
  BY DEF TypeOK

LEMMA TypeInit == Init => TypeOK
  BY NoCallTyped DEF Init, TypeOK

LEMMA TypeAuthorize ==
    ASSUME TypeOK, NEW p \in Provider, Authorize(p)
    PROVE  TypeOK'
  <1>1. CallsTyped
    BY QuietCalls, Lengths DEF Authorize, outside
  <1>2. asked' \in Seq(Asked)
    <2>1. [provider |-> p, at |-> now, challenge |-> Challenge(Draw(Len(asked) + 1))]
            \in Asked
      BY Lengths DEF TypeOK, Asked, Challenge, Draw, Number
    <2> QED BY <2>1 DEF Authorize, TypeOK
  <1>3. transactions' \subseteq Transaction
    <2>1. [state |-> Len(asked) + 1, provider |-> p, verifier |-> Draw(Len(asked) + 1),
           created |-> now] \in Transaction
      BY Lengths DEF TypeOK, Transaction, Draw, Number
    <2> QED BY <2>1 DEF Authorize, TypeOK
  <1> QED BY <1>1, <1>2, <1>3, TypedAfter DEF Authorize, TypeOK, outside

LEMMA TypeSignIn ==
    ASSUME TypeOK, NEW n \in 1..Len(asked), NEW u \in Account, SignIn(n, u)
    PROVE  TypeOK'
  <1>1. [auth |-> n, account |-> u, challenge |-> asked[n].challenge] \in Code
    <2>1. asked[n] \in Asked
      BY DEF TypeOK
    <2> QED BY <2>1, Lengths DEF Asked, Code, Number
  <1>2. codes' \in Seq(Code) /\ Len(codes') = Len(codes) + 1
    BY <1>1 DEF SignIn, TypeOK
  <1>3. CallsTyped
    BY <1>2, QuietCalls, Lengths DEF SignIn
  <1>4. spent' \subseteq 1..Len(codes') /\ policy' \in 0..Len(codes')
    BY <1>2, Lengths DEF SignIn, TypeOK
  <1> QED BY <1>2, <1>3, <1>4, TypedAfter DEF SignIn, TypeOK, history

\* The record of a callback whose state has been consumed.
Consumed(s, p, v, k, n) ==
    [NoCall EXCEPT !.stage = "exchange", !.state = s, !.provider = p, !.verifier = v,
                   !.code = k, !.rows = n]

LEMMA TypeConsume ==
    ASSUME TypeOK, NEW c \in Callback, NEW t \in transactions,
           NEW k \in 1..Len(codes), Consume(c, t, k)
    PROVE  TypeOK'
  <1>0. PICK n \in Nat : n = Len(principals)
    BY Lengths
  <1> DEFINE r == Consumed(t.state, t.provider, t.verifier, k, n)
  <1>1. t \in Transaction
    BY DEF TypeOK
  <1>2. r \in Call /\ r.code = k /\ r.principal = 0
    <2>1. t.state \in Nat /\ t.verifier \in Nat /\ t.provider \in Provider
      BY <1>1 DEF Transaction, Number
    <2>2. k \in Nat
      BY Lengths
    <2> QED BY <2>1, <2>2, NoCallTyped DEF Call, Consumed, Stage
  <1>3. call' = [call EXCEPT ![c] = r] /\ UNCHANGED <<codes, principals>>
    BY <1>0 DEF Consume, Consumed, outside
  <1>4. CallsTyped
    <2> HIDE DEF r
    <2>1. k \in 0..Len(codes) /\ k # 0 /\ 0 \in 0..Len(principals)
      BY Lengths
    <2> QED BY <1>2, <1>3, <2>1, CallsKept
  <1>5. accepted' \in Seq([state : Number, at : Nat])
    <2>1. [state |-> t.state, at |-> now] \in [state : Number, at : Nat]
      BY <1>1 DEF TypeOK, Transaction
    <2> QED BY <2>1 DEF Consume, TypeOK
  <1> QED BY <1>4, <1>5, TypedAfter DEF Consume, TypeOK, outside

LEMMA TypeExchange ==
    ASSUME TypeOK, NEW c \in Callback, Exchange(c)
    PROVE  TypeOK'
  <1> DEFINE r == [call[c] EXCEPT !.stage = "lookup"]
  <1>1. r \in Call /\ r.code = call[c].code /\ r.principal = call[c].principal
    BY CallFields DEF Call, Stage
  <1>2. call' = [call EXCEPT ![c] = r] /\ UNCHANGED <<codes, principals>>
    BY DEF Exchange
  <1>3. call[c].code \in 1..Len(codes)
    BY CallFields DEF Exchange
  <1>4. CallsTyped
    <2> HIDE DEF r
    <2>1. /\ call[c].code \in 0..Len(codes) /\ call[c].code # 0
          /\ call[c].principal \in 0..Len(principals)
      BY <1>3, CallFields, Lengths
    <2> QED BY <1>1, <1>2, <2>1, CallsKept
  <1> QED BY <1>3, <1>4, TypedAfter DEF Exchange, TypeOK, history

\* A step of a callback that neither signs anybody in nor writes a row.
LEMMA TypeCallback ==
    ASSUME TypeOK, NEW c \in Callback, NEW s \in Stage,
           NEW p \in 0..Len(principals), NEW l \in Lookup, call[c].stage # "idle",
           call' = [call EXCEPT ![c] = Updated(c, s, p, l)],
           UNCHANGED <<now, transactions, outside, principals, history, restarts>>,
           policy' \in 0..Len(codes)
    PROVE  TypeOK'
  <1> DEFINE r == Updated(c, s, p, l)
  <1>1. p \in Nat
    BY Lengths
  <1>2. r \in Call /\ r.code = call[c].code /\ r.principal = p
    BY <1>1, NewRecord
  <1>3. CallsTyped
    <2> HIDE DEF r
    <2>1. call' = [call EXCEPT ![c] = r] /\ UNCHANGED <<codes, principals>>
      BY DEF r, outside
    <2>2. call[c].code \in 0..Len(codes) /\ call[c].code # 0
      BY CallFields, Lengths
    <2> QED BY <1>2, <2>1, <2>2, CallsKept
  <1> QED BY <1>3, TypedAfter DEF TypeOK, outside, history

\* The steps of a callback as updates of the three fields.
LEMMA FieldsStep ==
    ASSUME TypeOK, NEW c \in Callback, NEW s, NEW p, NEW l
    PROVE  /\ [call EXCEPT ![c].stage = s, ![c].principal = p, ![c].lookup = l]
                = [call EXCEPT ![c] = Updated(c, s, p, l)]
           /\ [call EXCEPT ![c].stage = s, ![c].principal = p]
                = [call EXCEPT ![c] = Updated(c, s, p, call[c].lookup)]
           /\ [call EXCEPT ![c].stage = s, ![c].lookup = l]
                = [call EXCEPT ![c] = Updated(c, s, call[c].principal, l)]
           /\ [call EXCEPT ![c].stage = s]
                = [call EXCEPT ![c] = Updated(c, s, call[c].principal, call[c].lookup)]
  BY CallFields DEF TypeOK, Call, Updated

LEMMA TypeLookup ==
    ASSUME TypeOK, NEW c \in Callback, Found(c) \/ NotFound(c) \/ ApplyPolicy(c)
    PROVE  TypeOK'
  <1> USE DEF Stage, Lookup
  <1>1. CASE Found(c)
    <2>1. PICK i \in RowsOf(c) :
            call' = [call EXCEPT ![c].stage = AfterPrincipal(c), ![c].principal = i,
                                 ![c].lookup = "found"]
      BY <1>1 DEF Found
    <2>2. i \in 0..Len(principals) /\ AfterPrincipal(c) \in Stage /\ "found" \in Lookup
      BY Lengths DEF RowsOf, AfterPrincipal
    <2>3. call' = [call EXCEPT ![c] = Updated(c, AfterPrincipal(c), i, "found")]
      BY <2>1, CallFields DEF TypeOK, Call, Updated
    <2>4. call[c].stage # "idle" /\ policy' \in 0..Len(codes)
          /\ UNCHANGED <<now, transactions, outside, principals, history, restarts>>
      BY <1>1 DEF Found, TypeOK
    <2> HIDE DEF Stage, Lookup
    <2> QED BY <2>2, <2>3, <2>4, TypeCallback
  <1>2. CASE NotFound(c)
    <2>1. PICK l \in {"empty", "failed"} :
            call' = [call EXCEPT ![c].stage = "create", ![c].lookup = l]
      BY <1>2 DEF NotFound
    <2>2. call' = [call EXCEPT ![c] = Updated(c, "create", call[c].principal, l)]
      BY <2>1, CallFields DEF TypeOK, Call, Updated
    <2>3. /\ call[c].stage # "idle" /\ policy' \in 0..Len(codes)
          /\ UNCHANGED <<now, transactions, outside, principals, history, restarts>>
      BY <1>2 DEF NotFound, TypeOK
    <2>4. call[c].principal \in 0..Len(principals) /\ "create" \in Stage /\ l \in Lookup
      BY CallFields
    <2> HIDE DEF Stage, Lookup
    <2> QED BY <2>2, <2>3, <2>4, TypeCallback
  <1>3. CASE ApplyPolicy(c)
    <2>1. call' = 
            [call EXCEPT ![c] = Updated(c, "answer", call[c].principal, call[c].lookup)]
      BY <1>3, FieldsStep DEF ApplyPolicy
    <2>2. /\ call[c].principal \in 0..Len(principals) /\ call[c].lookup \in Lookup
          /\ "answer" \in Stage /\ call[c].code \in 0..Len(codes)
      BY CallFields
    <2>3. /\ call[c].stage # "idle" /\ policy' = call[c].code
          /\ UNCHANGED <<now, transactions, outside, principals, history, restarts>>
      BY <1>3 DEF ApplyPolicy
    <2> HIDE DEF Stage, Lookup
    <2> QED BY <2>1, <2>2, <2>3, TypeCallback
  <1> QED BY <1>1, <1>2, <1>3

LEMMA TypeCreate ==
    ASSUME TypeOK, NEW c \in Callback, Create(c)
    PROVE  TypeOK'
  <1>0. PICK n \in Nat : n = Len(principals) + 1
    BY Lengths
  <1> DEFINE r == Updated(c, AfterPrincipal(c), n, call[c].lookup)
  <1>1. principals' \in Seq(Principal) /\ Len(principals') = Len(principals) + 1
    <2>1. [email |-> MailOf(c), provider |-> call[c].provider] \in Principal
      BY CallFields DEF Create, Principal
    <2> QED BY <2>1 DEF Create, TypeOK
  <1>2. AfterPrincipal(c) \in Stage /\ call[c].lookup \in Lookup
    BY CallFields DEF AfterPrincipal, Stage
  <1>3. r \in Call /\ r.code = call[c].code /\ r.principal = Len(principals) + 1
    BY <1>0, <1>2, NewRecord
  <1>4. call' = [call EXCEPT ![c] = r] /\ codes' = codes
    BY <1>0, CallFields DEF TypeOK, Call, Updated, Create, outside
  <1>5. CallsTyped
    <2> HIDE DEF r
    <2>1. call[c].code \in 0..Len(codes) /\ call[c].code # 0
      BY CallFields DEF Create
    <2>2. /\ Len(codes') \in Nat /\ Len(principals') \in Nat
          /\ Len(codes) <= Len(codes') /\ Len(principals) <= Len(principals')
      BY <1>1, <1>4, Lengths
    <2>3. r.code \in 0..Len(codes') /\ r.principal \in 0..Len(principals') /\ r.code # 0
      BY <1>1, <1>3, <1>4, <2>1, <2>2
    <2> QED BY <1>3, <1>4, <2>2, <2>3, CallsStep
  <1> QED BY <1>1, <1>5, TypedAfter DEF Create, TypeOK, outside, history

LEMMA TypeEnd ==
    ASSUME TypeOK, NEW c \in Callback, Answer(c) \/ Drop(c)
    PROVE  TypeOK'
  <1>1. CallsTyped
    <2>1. call' = [call EXCEPT ![c] = NoCall] /\ UNCHANGED <<codes, principals>>
      BY DEF Answer, Drop, outside
    <2>2. /\ NoCall.code \in 0..Len(codes) /\ NoCall.principal \in 0..Len(principals)
          /\ NoCall.stage # "idle" => NoCall.code # 0
      BY NoCallTyped, Lengths
    <2> QED BY <2>1, <2>2, NoCallTyped, CallsKept
  <1>2. CASE Drop(c)
    BY <1>1, <1>2, TypedAfter DEF Drop, TypeOK, outside, history
  <1>3. CASE Answer(c)
    <2>1. [email |-> MailOf(c), principal |-> call[c].principal, rows |-> call[c].rows,
           lookup |-> call[c].lookup] \in Login
      BY <1>3, CallFields, Lengths DEF Answer, Login
    <2>2. logins' \subseteq Login
      BY <1>3, <2>1 DEF Answer, TypeOK
    <2> QED BY <1>1, <1>3, <2>2, TypedAfter DEF Answer, TypeOK, outside
  <1> QED BY <1>2, <1>3

LEMMA TypeOther ==
    ASSUME TypeOK, Restart \/ Tick \/ UNCHANGED vars
                   \/ (\E t \in transactions : ConsumeLate(t))
    PROVE  TypeOK'
  <1>1. CASE Restart
    BY <1>1, FreshCalls, TypedAfter DEF Restart, TypeOK, outside, history
  <1>2. CASE Tick
    BY <1>2, QuietCalls, Lengths, TypedAfter DEF Tick, TypeOK, outside, history
  <1>3. CASE UNCHANGED vars
    BY <1>3, QuietCalls, Lengths, TypedAfter DEF vars, TypeOK, outside, history
  <1>4. CASE \E t \in transactions : ConsumeLate(t)
    BY <1>4, QuietCalls, Lengths, TypedAfter DEF ConsumeLate, TypeOK, outside, history
  <1> QED BY <1>1, <1>2, <1>3, <1>4

LEMMA TypeNext == TypeOK /\ [Next]_vars => TypeOK'
  <1> SUFFICES ASSUME TypeOK, [Next]_vars PROVE TypeOK'
    OBVIOUS
  <1>1. ASSUME NEW p \in Provider, Authorize(p) PROVE TypeOK'
    BY <1>1, TypeAuthorize
  <1>2. ASSUME NEW n \in 1..Len(asked), NEW u \in Account, SignIn(n, u) PROVE TypeOK'
    BY <1>2, TypeSignIn
  <1>3. ASSUME NEW c \in Callback, Handle(c) PROVE TypeOK'
    BY <1>3, TypeConsume, TypeExchange, TypeLookup, TypeCreate, TypeEnd DEF Handle
  <1> QED BY <1>1, <1>2, <1>3, TypeOther DEF Next

\* THEOREM: type correctness of the store, the callbacks and the principals table
\* (PkceStore, idp_callback, create_principal).
THEOREM TypeCorrect == Spec => []TypeOK
  BY TypeInit, TypeNext, PTL DEF Spec
-----------------------------------------------------------------------------
\* What the store holds: the live authorizations that no callback has taken.
StoreOK ==
    /\ \A t \in transactions :
         /\ t.state \in 1..Len(asked)
         /\ t.provider = asked[t.state].provider /\ t.created = asked[t.state].at
         /\ t.verifier = t.state
    /\ \A t \in transactions, i \in 1..Len(accepted) : accepted[i].state # t.state

SingleUseInv == TypeOK /\ StoreOK /\ SingleUse

LEMMA SingleUseInit == Init => SingleUseInv
  BY TypeInit DEF Init, SingleUseInv, StoreOK, SingleUse

\* An authorization is added at the end.
LEMMA AskedGrows ==
    ASSUME TypeOK, NEW p \in Provider, Authorize(p)
    PROVE  /\ Len(asked') = Len(asked) + 1
           /\ \A n \in 1..Len(asked) : asked'[n] = asked[n]
           /\ asked'[Len(asked) + 1].provider = p
           /\ asked'[Len(asked) + 1].at = now
           /\ asked'[Len(asked) + 1].challenge = Challenge(Len(asked) + 1)
  <1> DEFINE a == [provider |-> p, at |-> now, challenge |-> Challenge(Len(asked) + 1)]
  <1>1. a \in Asked
    BY Lengths DEF TypeOK, Asked, Challenge, Number
  <1>2. asked' = Append(asked, a) /\ asked \in Seq(Asked)
    BY DEF Authorize, Draw, TypeOK
  <1>3. a.provider = p /\ a.at = now /\ a.challenge = Challenge(Len(asked) + 1)
    OBVIOUS
  <1> HIDE DEF a
  <1> QED BY <1>1, <1>2, <1>3

LEMMA SingleUseAuthorize ==
    ASSUME SingleUseInv, NEW p \in Provider, Authorize(p)
    PROVE  StoreOK' /\ SingleUse'
  <1> USE DEF SingleUseInv
  <1>1. accepted' = accepted /\ Len(asked) \in Nat
    BY Lengths DEF Authorize
  <1>2. \A i \in 1..Len(accepted) : accepted[i].state \in 1..Len(asked)
    BY DEF SingleUse
  <1>3. SingleUse'
    BY <1>1, <1>2, AskedGrows DEF SingleUse
  <1>4. ASSUME NEW t \in transactions'
        PROVE  /\ t.state \in 1..Len(asked')
               /\ t.provider = asked'[t.state].provider
               /\ t.created = asked'[t.state].at /\ t.verifier = t.state
               /\ \A i \in 1..Len(accepted) : accepted[i].state # t.state
    <2>1. CASE t \in transactions
      BY <1>1, <2>1, AskedGrows DEF StoreOK
    <2>2. CASE t \notin transactions
      <3>1. t = [state |-> Len(asked) + 1, provider |-> p,
                 verifier |-> Len(asked) + 1, created |-> now]
        BY <1>4, <2>2 DEF Authorize, Draw
      <3>2. t.state = Len(asked) + 1 /\ t.provider = p /\ t.created = now
            /\ t.verifier = t.state
        BY <3>1
      <3> QED BY <1>1, <1>2, <3>2, AskedGrows
    <2> QED BY <2>1, <2>2
  <1> QED BY <1>1, <1>3, <1>4 DEF StoreOK

LEMMA SingleUseConsume ==
    ASSUME SingleUseInv, NEW c \in Callback, NEW t \in transactions,
           NEW k \in 1..Len(codes), Consume(c, t, k)
    PROVE  StoreOK' /\ SingleUse'
  <1> USE DEF SingleUseInv
  <1> DEFINE x == [state |-> t.state, at |-> now]
  <1>1. /\ t \in Transaction /\ t.state \in 1..Len(asked)
        /\ t.created = asked[t.state].at /\ now - t.created < Ttl
    BY DEF TypeOK, StoreOK, Consume, Live
  <1>2. x \in [state : Number, at : Nat]
    BY <1>1 DEF TypeOK, Transaction
  <1>3. /\ accepted' = Append(accepted, x) /\ asked' = asked
        /\ transactions' = transactions \ {t}
        /\ accepted \in Seq([state : Number, at : Nat])
    BY DEF Consume, TypeOK
  <1>4. x.state = t.state /\ x.at = now
    OBVIOUS
  <1> HIDE DEF x
  <1>5. /\ Len(accepted) \in Nat /\ Len(accepted') = Len(accepted) + 1
        /\ accepted'[Len(accepted) + 1] = x
        /\ \A i \in 1..Len(accepted) : accepted'[i] = accepted[i]
    BY <1>2, <1>3
  <1>6. \A i \in 1..Len(accepted) : accepted[i].state # t.state
    BY DEF StoreOK
  <1>7. ASSUME NEW i \in 1..Len(accepted'), NEW j \in 1..Len(accepted'),
               accepted'[i].state = accepted'[j].state
        PROVE  i = j
    <2>1. CASE i \in 1..Len(accepted) /\ j \in 1..Len(accepted)
      BY <1>5, <1>7, <2>1 DEF SingleUse
    <2>2. CASE i \notin 1..Len(accepted) /\ j \in 1..Len(accepted)
      BY <1>4, <1>5, <1>6, <1>7, <2>2
    <2>3. CASE i \in 1..Len(accepted) /\ j \notin 1..Len(accepted)
      BY <1>4, <1>5, <1>6, <1>7, <2>3
    <2>4. CASE i \notin 1..Len(accepted) /\ j \notin 1..Len(accepted)
      BY <1>5, <1>7, <2>4
    <2> QED BY <2>1, <2>2, <2>3, <2>4
  <1>8. ASSUME NEW i \in 1..Len(accepted')
        PROVE  /\ accepted'[i].state \in 1..Len(asked)
               /\ accepted'[i].at - asked[accepted'[i].state].at < Ttl
    <2>1. CASE i \in 1..Len(accepted)
      BY <1>5, <2>1 DEF SingleUse
    <2>2. CASE i = Len(accepted) + 1
      BY <1>1, <1>4, <1>5, <2>2
    <2> QED BY <1>5, <1>8, <2>1, <2>2
  <1>9. ASSUME NEW u \in transactions', NEW i \in 1..Len(accepted')
        PROVE  accepted'[i].state # u.state
    <2>1. u \in transactions /\ u # t /\ u \in Transaction
      BY <1>3, <1>9 DEF TypeOK
    <2>2. u.state # t.state
      <3>1. /\ u = [state |-> u.state, provider |-> u.provider,
                     verifier |-> u.verifier, created |-> u.created]
            /\ t = [state |-> t.state, provider |-> t.provider,
                     verifier |-> t.verifier, created |-> t.created]
        BY <1>1, <2>1 DEF Transaction
      <3>2. /\ u.provider = asked[u.state].provider /\ u.created = asked[u.state].at
            /\ u.verifier = u.state
            /\ t.provider = asked[t.state].provider /\ t.verifier = t.state
        BY <2>1 DEF StoreOK
      <3> QED BY <1>1, <2>1, <3>1, <3>2
    <2>3. CASE i \in 1..Len(accepted)
      BY <1>5, <2>1, <2>3 DEF StoreOK
    <2>4. CASE i = Len(accepted) + 1
      BY <1>4, <1>5, <2>2, <2>4
    <2> QED BY <1>5, <2>3, <2>4
  <1>10. StoreOK'
    BY <1>3, <1>9 DEF StoreOK
  <1>11. SingleUse'
    BY <1>3, <1>7, <1>8 DEF SingleUse
  <1> QED BY <1>10, <1>11

\* Every other step takes entries away or leaves the store alone.
LEMMA SingleUseOther ==
    ASSUME SingleUseInv, UNCHANGED <<asked, accepted>>, transactions' \subseteq transactions
    PROVE  StoreOK' /\ SingleUse'
  BY DEF SingleUseInv, StoreOK, SingleUse

LEMMA SingleUseNext == SingleUseInv /\ [Next]_vars => SingleUseInv'
  <1> SUFFICES ASSUME SingleUseInv, [Next]_vars PROVE SingleUseInv'
    OBVIOUS
  <1>1. TypeOK'
    BY TypeNext DEF SingleUseInv
  <1>2. ASSUME NEW p \in Provider, Authorize(p) PROVE StoreOK' /\ SingleUse'
    BY <1>2, SingleUseAuthorize
  <1>3. ASSUME NEW n \in 1..Len(asked), NEW u \in Account, SignIn(n, u)
        PROVE  StoreOK' /\ SingleUse'
    BY <1>3, SingleUseOther DEF SignIn, history
  <1>4. ASSUME NEW c \in Callback, Handle(c) PROVE StoreOK' /\ SingleUse'
    <2>1. CASE \E t \in transactions, k \in 1..Len(codes) : Consume(c, t, k)
      BY <2>1, SingleUseConsume
    <2>2. CASE Exchange(c) \/ Found(c) \/ NotFound(c) \/ Create(c)
      BY <2>2, SingleUseOther DEF Exchange, Found, NotFound, Create, history
    <2>3. CASE ApplyPolicy(c) \/ Answer(c) \/ Drop(c)
      BY <2>3, SingleUseOther DEF ApplyPolicy, Answer, Drop, history
    <2> QED BY <1>4, <2>1, <2>2, <2>3 DEF Handle
  <1>5. ASSUME (\E t \in transactions : ConsumeLate(t)) \/ Restart \/ Tick
               \/ UNCHANGED vars
        PROVE  StoreOK' /\ SingleUse'
    BY <1>5, SingleUseOther DEF ConsumeLate, Restart, Tick, vars, history
  <1> QED BY <1>1, <1>2, <1>3, <1>4, <1>5 DEF Next, SingleUseInv

\* THEOREM: a state is let through once and while it is live, whatever callbacks
\* overlap and however often the process restarts (PkceStore::consume).
THEOREM SingleUseCorrect == Spec => []SingleUse
  <1>1. SingleUseInv => SingleUse
    BY DEF SingleUseInv
  <1> QED BY <1>1, SingleUseInit, SingleUseNext, PTL DEF Spec
-----------------------------------------------------------------------------
\* The state s is among those that were let through.
Taken(acc, s) == \E i \in 1..Len(acc) : acc[i].state = s

\* What a challenge, a code and a callback stand for: one authorization each.
ChallengesOK ==
    /\ \A n \in 1..Len(asked) : asked[n].challenge = Challenge(n)
    /\ \A k \in 1..Len(codes) : codes[k].challenge = Challenge(codes[k].auth)
    /\ \A t \in transactions : t.verifier = t.state
    /\ \A c \in Callback :
         call[c].stage # "idle" => /\ call[c].verifier = call[c].state
                                   /\ Taken(accepted, call[c].state)

LoginBoundInv == TypeOK /\ ChallengesOK /\ LoginBound

LEMMA LoginBoundInit == Init => LoginBoundInv
  BY TypeInit, NoCallTyped DEF Init, LoginBoundInv, ChallengesOK, LoginBound

\* A step that leaves the authorizations and the codes alone and takes entries out
\* of the store, if any: it suffices to look at the callbacks it moved.
LEMMA LoginBoundStep ==
    ASSUME LoginBoundInv, UNCHANGED <<asked, codes>>, transactions' \subseteq transactions,
           \A s : Taken(accepted, s) => Taken(accepted', s),
           policy' = policy \/ Taken(accepted, codes[policy'].auth),
           \A c \in Callback :
             \/ call'[c] = call[c]
             \/ call'[c].stage = "idle"
             \/ /\ call'[c].verifier = call'[c].state
                /\ Taken(accepted', call'[c].state)
                /\ \/ call'[c].stage = "exchange"
                   \/ codes[call'[c].code].auth = call'[c].state
    PROVE  ChallengesOK' /\ LoginBound'
  <1>1. policy' # 0 => Taken(accepted', codes[policy'].auth)
    BY DEF LoginBoundInv, LoginBound, Taken
  <1>2. ChallengesOK'
    BY DEF LoginBoundInv, ChallengesOK
  <1>3. LoginBound'
    BY <1>1 DEF LoginBoundInv, LoginBound, Taken
  <1> QED BY <1>2, <1>3

\* The same for a step of one callback that has got its token.
LEMMA LoginBoundMove ==
    ASSUME LoginBoundInv, NEW c \in Callback, NEW s \in Stage, NEW p \in Nat,
           NEW l \in Lookup, call[c].stage \in {"lookup", "create", "policy", "answer"},
           call' = [call EXCEPT ![c] = Updated(c, s, p, l)],
           UNCHANGED <<asked, codes, transactions, accepted>>,
           policy' \in {policy, call[c].code}
    PROVE  ChallengesOK' /\ LoginBound'
  <1> USE DEF LoginBoundInv
  <1> DEFINE r == Updated(c, s, p, l)
  <1>1. /\ r \in Call /\ r.code = call[c].code
        /\ r.state = call[c].state /\ r.verifier = call[c].verifier
    BY CallFields DEF Call, Updated
  <1>2. /\ call[c].verifier = call[c].state
        /\ codes[call[c].code].auth = call[c].state
        /\ Taken(accepted, call[c].state)
    BY DEF ChallengesOK, LoginBound
  <1> HIDE DEF r
  <1>3. call'[c] = r /\ \A d \in Callback \ {c} : call'[d] = call[d]
    BY <1>1 DEF r, TypeOK
  <1> QED BY <1>1, <1>2, <1>3, LoginBoundStep

LEMMA LoginBoundAsk ==
    ASSUME LoginBoundInv, NEW p \in Provider, Authorize(p)
    PROVE  ChallengesOK' /\ LoginBound'
  <1> USE DEF LoginBoundInv
  <1>1. UNCHANGED <<codes, call, policy, accepted>> /\ Len(asked) \in Nat
    BY Lengths DEF Authorize, outside
  <1>2. \A n \in 1..Len(asked') : asked'[n].challenge = Challenge(n)
    BY <1>1, AskedGrows DEF ChallengesOK
  <1>3. \A t \in transactions' : t.verifier = t.state
    BY DEF Authorize, ChallengesOK, Draw
  <1> QED BY <1>1, <1>2, <1>3 DEF ChallengesOK, LoginBound

LEMMA LoginBoundSignIn ==
    ASSUME LoginBoundInv, NEW n \in 1..Len(asked), NEW u \in Account, SignIn(n, u)
    PROVE  ChallengesOK' /\ LoginBound'
  <1> USE DEF LoginBoundInv
  <1> DEFINE x == [auth |-> n, account |-> u, challenge |-> asked[n].challenge]
  <1>1. asked[n] \in Asked /\ asked[n].challenge = Challenge(n)
    BY DEF TypeOK, ChallengesOK
  <1>2. x \in Code /\ x.challenge = Challenge(x.auth)
    BY <1>1, Lengths DEF Asked, Code, Number
  <1>3. codes' = Append(codes, x) /\ codes \in Seq(Code)
        /\ UNCHANGED <<asked, transactions, call, policy, accepted>>
    BY DEF SignIn, TypeOK, history
  <1> HIDE DEF x
  <1>4. /\ Len(codes) \in Nat /\ Len(codes') = Len(codes) + 1
        /\ codes'[Len(codes) + 1] = x
        /\ \A k \in 1..Len(codes) : codes'[k] = codes[k]
    BY <1>2, <1>3
  <1>5. \A k \in 1..Len(codes') : codes'[k].challenge = Challenge(codes'[k].auth)
    BY <1>2, <1>4 DEF ChallengesOK
  <1>6. /\ \A c \in Callback : call[c].stage # "idle" => call[c].code \in 1..Len(codes)
        /\ policy # 0 => policy \in 1..Len(codes)
    BY <1>4, CallFields DEF TypeOK
  <1>7. LoginBound'
    BY <1>3, <1>4, <1>6 DEF LoginBound
  <1> QED BY <1>3, <1>5, <1>7 DEF ChallengesOK

LEMMA LoginBoundConsume ==
    ASSUME LoginBoundInv, NEW c \in Callback, NEW t \in transactions,
           NEW k \in 1..Len(codes), Consume(c, t, k)
    PROVE  ChallengesOK' /\ LoginBound'
  <1> USE DEF LoginBoundInv
  <1>0. PICK n \in Nat : n = Len(principals)
    BY Lengths
  <1> DEFINE r == Consumed(t.state, t.provider, t.verifier, k, n)
  <1>1. t \in Transaction /\ t.verifier = t.state
    BY DEF TypeOK, ChallengesOK
  <1>2. r.verifier = r.state /\ r.stage = "exchange" /\ r.state = t.state
    BY <1>1, NoCallTyped DEF Call, Consumed
  <1>3. /\ call' = [call EXCEPT ![c] = r] /\ UNCHANGED <<asked, codes, policy>>
        /\ transactions' \subseteq transactions
    BY <1>0 DEF Consume, Consumed, outside
  <1> HIDE DEF r
  <1>4. call'[c] = r /\ \A d \in Callback \ {c} : call'[d] = call[d]
    BY <1>3 DEF TypeOK
  <1> DEFINE x == [state |-> t.state, at |-> now]
  <1>5. /\ x \in [state : Number, at : Nat] /\ x.state = t.state
        /\ accepted' = Append(accepted, x)
        /\ accepted \in Seq([state : Number, at : Nat])
    BY <1>1 DEF TypeOK, Transaction, Consume
  <1> HIDE DEF x
  <1>6. /\ Len(accepted) \in Nat /\ Len(accepted') = Len(accepted) + 1
        /\ accepted'[Len(accepted) + 1] = x
        /\ \A i \in 1..Len(accepted) : accepted'[i] = accepted[i]
    BY <1>5
  <1>7. Taken(accepted', t.state) /\ \A s : Taken(accepted, s) => Taken(accepted', s)
    BY <1>5, <1>6 DEF Taken
  <1> QED BY <1>2, <1>3, <1>4, <1>7, LoginBoundStep

\* Where the binding is made: the provider compares the challenges.
LEMMA LoginBoundExchange ==
    ASSUME LoginBoundInv, NEW c \in Callback, Exchange(c)
    PROVE  ChallengesOK' /\ LoginBound'
  <1> USE DEF LoginBoundInv
  <1> DEFINE r == [call[c] EXCEPT !.stage = "lookup"]
  <1>1. r.verifier = call[c].verifier /\ r.state = call[c].state /\ r.code = call[c].code
    BY CallFields DEF Call
  <1>2. /\ call' = [call EXCEPT ![c] = r]
        /\ UNCHANGED <<asked, codes, transactions, accepted, policy>>
    BY DEF Exchange, history
  <1>3. codes[call[c].code].auth = call[c].verifier /\ call[c].verifier = call[c].state
        /\ Taken(accepted, call[c].state)
    <2>1. call[c].code \in 1..Len(codes)
      BY CallFields DEF Exchange
    <2>2. Challenge(codes[call[c].code].auth) = Challenge(call[c].verifier)
      BY <2>1 DEF Exchange, ChallengesOK
    <2>3. [s256 |-> codes[call[c].code].auth].s256 = [s256 |-> call[c].verifier].s256
      BY <2>2 DEF Challenge
    <2> QED BY <2>3 DEF Exchange, ChallengesOK
  <1> HIDE DEF r
  <1>4. call'[c] = r /\ \A d \in Callback \ {c} : call'[d] = call[d]
    BY <1>2 DEF TypeOK
  <1> QED BY <1>1, <1>2, <1>3, <1>4, LoginBoundStep

LEMMA LoginBoundLookup ==
    ASSUME LoginBoundInv, NEW c \in Callback, Found(c) \/ NotFound(c) \/ ApplyPolicy(c)
    PROVE  ChallengesOK' /\ LoginBound'
  <1> USE DEF LoginBoundInv, Stage, Lookup
  <1>1. CASE Found(c)
    <2>1. PICK i \in RowsOf(c) :
            call' = [call EXCEPT ![c].stage = AfterPrincipal(c), ![c].principal = i,
                                 ![c].lookup = "found"]
      BY <1>1 DEF Found
    <2>2. i \in Nat /\ AfterPrincipal(c) \in Stage /\ "found" \in Lookup
      BY Lengths DEF RowsOf, AfterPrincipal
    <2>3. call' = [call EXCEPT ![c] = Updated(c, AfterPrincipal(c), i, "found")]
      BY <2>1, CallFields DEF TypeOK, Call, Updated
    <2>4. /\ call[c].stage \in {"lookup", "create", "policy", "answer"}
          /\ UNCHANGED <<asked, codes, transactions, accepted>>
          /\ policy' \in {policy, call[c].code}
      BY <1>1 DEF Found, outside, history
    <2> HIDE DEF Stage, Lookup
    <2> QED BY <2>2, <2>3, <2>4, LoginBoundMove
  <1>2. CASE NotFound(c)
    <2>1. PICK l \in {"empty", "failed"} :
            call' = [call EXCEPT ![c].stage = "create", ![c].lookup = l]
      BY <1>2 DEF NotFound
    <2>2. call' = [call EXCEPT ![c] = Updated(c, "create", call[c].principal, l)]
      BY <2>1, CallFields DEF TypeOK, Call, Updated
    <2>3. /\ call[c].stage \in {"lookup", "create", "policy", "answer"}
          /\ UNCHANGED <<asked, codes, transactions, accepted>>
          /\ policy' \in {policy, call[c].code}
      BY <1>2 DEF NotFound, outside, history
    <2>4. call[c].principal \in Nat /\ "create" \in Stage /\ l \in Lookup
      BY CallFields, Lengths
    <2> HIDE DEF Stage, Lookup
    <2> QED BY <2>2, <2>3, <2>4, LoginBoundMove
  <1>3. CASE ApplyPolicy(c)
    <2>1. call' =
            [call EXCEPT ![c] = Updated(c, "answer", call[c].principal, call[c].lookup)]
      BY <1>3, FieldsStep DEF ApplyPolicy
    <2>2. call[c].principal \in Nat /\ call[c].lookup \in Lookup /\ "answer" \in Stage
      BY CallFields, Lengths
    <2>3. /\ call[c].stage \in {"lookup", "create", "policy", "answer"}
          /\ UNCHANGED <<asked, codes, transactions, accepted>>
          /\ policy' \in {policy, call[c].code}
      BY <1>3 DEF ApplyPolicy, outside, history
    <2> HIDE DEF Stage, Lookup
    <2> QED BY <2>1, <2>2, <2>3, LoginBoundMove
  <1> QED BY <1>1, <1>2, <1>3

LEMMA LoginBoundCreate ==
    ASSUME LoginBoundInv, NEW c \in Callback, Create(c)
    PROVE  ChallengesOK' /\ LoginBound'
  <1> USE DEF LoginBoundInv
  <1>0. PICK n \in Nat : n = Len(principals) + 1
    BY Lengths
  <1>1. call' = [call EXCEPT ![c] = Updated(c, AfterPrincipal(c), n, call[c].lookup)]
    BY <1>0, CallFields DEF TypeOK, Call, Updated, Create
  <1>2. AfterPrincipal(c) \in Stage /\ call[c].lookup \in Lookup
    BY CallFields DEF AfterPrincipal, Stage
  <1>3. /\ call[c].stage \in {"lookup", "create", "policy", "answer"}
        /\ UNCHANGED <<asked, codes, transactions, accepted>>
        /\ policy' \in {policy, call[c].code}
    BY DEF Create, outside, history
  <1> QED BY <1>1, <1>2, <1>3, LoginBoundMove

LEMMA LoginBoundEnd ==
    ASSUME LoginBoundInv, NEW c \in Callback, Answer(c) \/ Drop(c)
    PROVE  ChallengesOK' /\ LoginBound'
  <1> USE DEF LoginBoundInv
  <1>1. /\ call' = [call EXCEPT ![c] = NoCall]
        /\ UNCHANGED <<asked, codes, transactions, accepted, policy>>
    BY DEF Answer, Drop, outside, history
  <1>2. call'[c].stage = "idle" /\ \A d \in Callback \ {c} : call'[d] = call[d]
    BY <1>1, NoCallTyped DEF TypeOK
  <1> QED BY <1>1, <1>2, LoginBoundStep

LEMMA LoginBoundOther ==
    ASSUME LoginBoundInv, Restart \/ Tick \/ UNCHANGED vars
                          \/ (\E t \in transactions : ConsumeLate(t))
    PROVE  ChallengesOK' /\ LoginBound'
  <1>1. UNCHANGED <<asked, codes, accepted, policy>> /\ transactions' \subseteq transactions
    BY DEF Restart, Tick, ConsumeLate, vars, outside, history
  <1>2. \A c \in Callback : call'[c] = call[c] \/ call'[c].stage = "idle"
    BY NoCallTyped DEF Restart, Tick, ConsumeLate, vars
  <1> QED BY <1>1, <1>2, LoginBoundStep

LEMMA LoginBoundNext == LoginBoundInv /\ [Next]_vars => LoginBoundInv'
  <1> SUFFICES ASSUME LoginBoundInv, [Next]_vars PROVE ChallengesOK' /\ LoginBound'
    BY TypeNext DEF LoginBoundInv
  <1>1. ASSUME NEW p \in Provider, Authorize(p) PROVE ChallengesOK' /\ LoginBound'
    BY <1>1, LoginBoundAsk
  <1>2. ASSUME NEW n \in 1..Len(asked), NEW u \in Account, SignIn(n, u)
        PROVE  ChallengesOK' /\ LoginBound'
    BY <1>2, LoginBoundSignIn
  <1>3. ASSUME NEW c \in Callback, Handle(c) PROVE ChallengesOK' /\ LoginBound'
    BY <1>3, LoginBoundConsume, LoginBoundExchange, LoginBoundLookup, LoginBoundCreate,
       LoginBoundEnd DEF Handle
  <1> QED BY <1>1, <1>2, <1>3, LoginBoundOther DEF Next

\* THEOREM: a callback that has got a token reads and writes for the account that
\* signed in with the authorization of its own state (exchange_oidc_token).
THEOREM LoginBoundCorrect == Spec => []LoginBound
  <1>1. LoginBoundInv => LoginBound
    BY DEF LoginBoundInv
  <1> QED BY <1>1, LoginBoundInit, LoginBoundNext, PTL DEF Spec
-----------------------------------------------------------------------------
\* If the email e was among the first n principals, and the lookup did not fail,
\* then p is the first principal of that email.
Kept(ps, e, p, n, l) ==
    l # "failed" /\ (\E i \in 1..n : ps[i].email = e)
    => /\ p \in 1..n /\ ps[p].email = e
       /\ \A i \in 1..(p - 1) : ps[i].email # e

\* What a callback knows of the principals there were when it came.
PersonOK(c) ==
    call[c].stage # "idle" =>
      /\ call[c].rows <= Len(principals)
      /\ call[c].stage = "create" /\ call[c].lookup # "failed" =>
           \A i \in 1..call[c].rows : principals[i].email # MailOf(c)
      /\ call[c].stage \in {"policy", "answer"} =>
           Kept(principals, MailOf(c), call[c].principal, call[c].rows, call[c].lookup)

PersonsOK ==
    /\ \A c \in Callback : PersonOK(c)
    /\ \A l \in logins : l.rows <= Len(principals)

KnownInv == TypeOK /\ PersonsOK /\ KnownPersonKept

LEMMA KnownMeaning ==
    KnownPersonKept <=> \A l \in logins : Kept(principals, l.email, l.principal, l.rows, l.lookup)
  BY DEF KnownPersonKept, Kept

LEMMA KnownInit == Init => KnownInv
  BY TypeInit, NoCallTyped DEF Init, KnownInv, PersonsOK, PersonOK, KnownPersonKept

\* Codes and principals are only appended.
Grown ==
    /\ Len(codes') \in Nat /\ Len(codes) <= Len(codes')
    /\ \A k \in 1..Len(codes) : codes'[k] = codes[k]
    /\ Len(principals') \in Nat /\ Len(principals) <= Len(principals')
    /\ \A i \in 1..Len(principals) : principals'[i] = principals[i]

LEMMA KeptGrown ==
    ASSUME NEW ps, NEW qs, NEW m \in Nat, \A i \in 1..m : qs[i] = ps[i],
           NEW e, NEW p, NEW n \in Nat, NEW l, n <= m, Kept(ps, e, p, n, l)
    PROVE  Kept(qs, e, p, n, l)
  <1>1. \A i \in 1..n : qs[i] = ps[i]
    OBVIOUS
  <1>2. SUFFICES ASSUME l # "failed", \E i \in 1..n : ps[i].email = e
                 PROVE  /\ p \in 1..n /\ qs[p].email = e
                        /\ \A i \in 1..(p - 1) : qs[i].email # e
    BY <1>1 DEF Kept
  <1>3. /\ p \in 1..n /\ ps[p].email = e
        /\ \A i \in 1..(p - 1) : ps[i].email # e
    BY <1>2 DEF Kept
  <1> QED BY <1>1, <1>3

LEMMA PersonGrown ==
    ASSUME KnownInv, Grown, NEW c \in Callback, call'[c] = call[c]
    PROVE  PersonOK(c)'
  <1> SUFFICES ASSUME call[c].stage # "idle" PROVE PersonOK(c)'
    BY DEF PersonOK
  <1>1. /\ PersonOK(c) /\ call[c].rows \in Nat /\ Len(principals) \in Nat
        /\ call[c].code \in 1..Len(codes) /\ call[c].rows <= Len(principals)
    BY CallFields, Lengths DEF KnownInv, PersonsOK, PersonOK
  <1>2. MailOf(c)' = MailOf(c)
    BY <1>1 DEF MailOf, AccountOf, Grown
  <1>3. Kept(principals, MailOf(c), call[c].principal, call[c].rows, call[c].lookup) =>
          Kept(principals', MailOf(c), call[c].principal, call[c].rows, call[c].lookup)
    BY <1>1, KeptGrown DEF Grown
  <1>4. \A i \in 1..call[c].rows : principals'[i] = principals[i]
    BY <1>1 DEF Grown
  <1> QED BY <1>1, <1>2, <1>3, <1>4 DEF PersonOK, Grown

\* It suffices to look at the callbacks a step moved, if it answers no login.
LEMMA KnownStep ==
    ASSUME KnownInv, Grown, logins' = logins,
           \A c \in Callback :
             call'[c] = call[c] \/ call'[c].stage = "idle" \/ PersonOK(c)'
    PROVE  PersonsOK' /\ KnownPersonKept'
  <1>1. ASSUME NEW c \in Callback PROVE PersonOK(c)'
    <2>1. CASE call'[c] = call[c]
      BY <2>1, PersonGrown
    <2>2. CASE call'[c].stage = "idle"
      BY <2>2 DEF PersonOK
    <2> QED BY <2>1, <2>2
  <1>2. ASSUME NEW l \in logins
        PROVE  /\ l.rows <= Len(principals')
               /\ Kept(principals', l.email, l.principal, l.rows, l.lookup)
    <2>1. /\ l.rows \in Nat /\ Len(principals) \in Nat /\ l.rows <= Len(principals)
          /\ Kept(principals, l.email, l.principal, l.rows, l.lookup)
      BY Lengths, KnownMeaning DEF KnownInv, TypeOK, Login, PersonsOK
    <2>2. Kept(principals', l.email, l.principal, l.rows, l.lookup)
      BY <2>1, KeptGrown DEF Grown
    <2> QED BY <2>1, <2>2 DEF Grown
  <1>3. KnownPersonKept'
    BY <1>2 DEF KnownPersonKept, Kept
  <1> QED BY <1>1, <1>2, <1>3 DEF PersonsOK

LEMMA SameGrown ==
    ASSUME TypeOK, UNCHANGED <<codes, principals>> PROVE Grown
  BY Lengths DEF Grown

LEMMA KnownSignIn ==
    ASSUME KnownInv, NEW n \in 1..Len(asked), NEW u \in Account, SignIn(n, u)
    PROVE  PersonsOK' /\ KnownPersonKept'
  <1> DEFINE x == [auth |-> n, account |-> u, challenge |-> asked[n].challenge]
  <1>1. x \in Code
    <2>1. asked[n] \in Asked
      BY DEF KnownInv, TypeOK
    <2> QED BY <2>1, Lengths DEF KnownInv, Asked, Code, Number
  <1>2. codes' = Append(codes, x) /\ codes \in Seq(Code)
        /\ UNCHANGED <<principals, call, logins>>
    BY DEF SignIn, KnownInv, TypeOK, history
  <1> HIDE DEF x
  <1>3. Grown
    BY <1>1, <1>2, Lengths DEF Grown, KnownInv
  <1> QED BY <1>2, <1>3, KnownStep

LEMMA KnownConsume ==
    ASSUME KnownInv, NEW c \in Callback, NEW t \in transactions,
           NEW k \in 1..Len(codes), Consume(c, t, k)
    PROVE  PersonsOK' /\ KnownPersonKept'
  <1> USE DEF KnownInv
  <1>0. PICK n \in Nat : n = Len(principals)
    BY Lengths
  <1> DEFINE r == Consumed(t.state, t.provider, t.verifier, k, n)
  <1>1. r.stage = "exchange" /\ r.rows = n
    BY NoCallTyped DEF Call, Consumed
  <1>2. call' = [call EXCEPT ![c] = r] /\ UNCHANGED <<codes, principals, logins>>
    BY <1>0 DEF Consume, Consumed, outside
  <1> HIDE DEF r
  <1>3. call'[c] = r /\ \A d \in Callback \ {c} : call'[d] = call[d]
    BY <1>2 DEF TypeOK
  <1>4. PersonOK(c)'
    BY <1>0, <1>1, <1>2, <1>3 DEF PersonOK
  <1> QED BY <1>2, <1>3, <1>4, SameGrown, KnownStep

LEMMA KnownExchange ==
    ASSUME KnownInv, NEW c \in Callback, Exchange(c)
    PROVE  PersonsOK' /\ KnownPersonKept'
  <1> USE DEF KnownInv
  <1> DEFINE r == [call[c] EXCEPT !.stage = "lookup"]
  <1>1. r.stage = "lookup" /\ r.rows = call[c].rows
    BY CallFields DEF Call
  <1>2. /\ call' = [call EXCEPT ![c] = r] /\ UNCHANGED <<codes, principals, logins>>
        /\ call[c].rows <= Len(principals)
    BY DEF Exchange, history, PersonsOK, PersonOK
  <1> HIDE DEF r
  <1>3. call'[c] = r /\ \A d \in Callback \ {c} : call'[d] = call[d]
    BY <1>2 DEF TypeOK
  <1>4. PersonOK(c)'
    BY <1>1, <1>2, <1>3 DEF PersonOK
  <1> QED BY <1>2, <1>3, <1>4, SameGrown, KnownStep

LEMMA KnownFound ==
    ASSUME KnownInv, NEW c \in Callback, Found(c)
    PROVE  PersonsOK' /\ KnownPersonKept'
  <1> USE DEF KnownInv
  <1>1. PICK i \in RowsOf(c) :
          /\ \A j \in RowsOf(c) : i <= j
          /\ call' = [call EXCEPT ![c].stage = AfterPrincipal(c), ![c].principal = i,
                                  ![c].lookup = "found"]
    BY DEF Found
  <1> DEFINE r == Updated(c, AfterPrincipal(c), i, "found")
  <1>2. i \in Nat /\ AfterPrincipal(c) \in Stage /\ "found" \in Lookup
    BY Lengths DEF RowsOf, AfterPrincipal, Stage, Lookup
  <1>3. r.rows = call[c].rows /\ r.principal = i /\ r.code = call[c].code
        /\ r.stage = AfterPrincipal(c)
    BY <1>2, NewRecord
  <1>4. call' = [call EXCEPT ![c] = r] /\ UNCHANGED <<codes, principals, logins>>
    <2>1. call' = [call EXCEPT ![c] = r]
      BY <1>1, CallFields DEF TypeOK, Call, Updated
    <2>2. UNCHANGED <<codes, principals, logins>>
      BY DEF Found, outside, history
    <2> QED BY <2>1, <2>2
  <1> HIDE DEF r
  <1>5. call'[c] = r /\ \A d \in Callback \ {c} : call'[d] = call[d]
    BY <1>4 DEF TypeOK
  <1>6. call[c].rows \in Nat /\ call[c].rows <= Len(principals) /\ Len(principals) \in Nat
    BY CallFields, Lengths DEF Found, PersonsOK, PersonOK
  <1>7. ASSUME NEW j \in 1..call[c].rows, principals[j].email = MailOf(c)
        PROVE  i \in 1..call[c].rows
    BY <1>1, <1>6, <1>7 DEF RowsOf
  <1>8. principals[i].email = MailOf(c)
        /\ \A j \in 1..(i - 1) : principals[j].email # MailOf(c)
    BY <1>1, <1>6 DEF RowsOf
  <1>9. Kept(principals, MailOf(c), i, call[c].rows, r.lookup)
    BY <1>7, <1>8 DEF Kept
  <1>10. MailOf(c)' = MailOf(c)
    BY <1>3, <1>4, <1>5 DEF MailOf, AccountOf
  <1>11. AfterPrincipal(c) # "create"
    BY DEF AfterPrincipal
  <1>12. PersonOK(c)'
    BY <1>3, <1>4, <1>5, <1>6, <1>9, <1>10, <1>11 DEF PersonOK
  <1> QED BY <1>4, <1>5, <1>12, SameGrown, KnownStep

LEMMA KnownNotFound ==
    ASSUME KnownInv, NEW c \in Callback, NotFound(c)
    PROVE  PersonsOK' /\ KnownPersonKept'
  <1> USE DEF KnownInv
  <1>1. PICK l \in {"empty", "failed"} :
          /\ l = "empty" => RowsOf(c) = {}
          /\ call' = [call EXCEPT ![c].stage = "create", ![c].lookup = l]
    BY DEF NotFound
  <1> DEFINE r == Updated(c, "create", call[c].principal, l)
  <1>2. r.rows = call[c].rows /\ r.code = call[c].code /\ r.stage = "create" /\ r.lookup = l
    BY CallFields DEF Call, Updated
  <1>3. call' = [call EXCEPT ![c] = r] /\ UNCHANGED <<codes, principals, logins>>
    <2>1. call' = [call EXCEPT ![c] = r]
      BY <1>1, CallFields DEF TypeOK, Call, Updated
    <2>2. UNCHANGED <<codes, principals, logins>>
      BY DEF NotFound, outside, history
    <2> QED BY <2>1, <2>2
  <1> HIDE DEF r
  <1>4. call'[c] = r /\ \A d \in Callback \ {c} : call'[d] = call[d]
    BY <1>3 DEF TypeOK
  <1>5. call[c].rows \in Nat /\ call[c].rows <= Len(principals) /\ Len(principals) \in Nat
    BY CallFields, Lengths DEF NotFound, PersonsOK, PersonOK
  <1>6. l # "failed" => \A i \in 1..call[c].rows : principals[i].email # MailOf(c)
    <2>1. l # "failed" => RowsOf(c) = {}
      BY <1>1
    <2>2. \A i \in 1..call[c].rows : i \in 1..Len(principals)
      BY <1>5
    <2> QED BY <2>1, <2>2 DEF RowsOf
  <1>7. MailOf(c)' = MailOf(c)
    BY <1>2, <1>3, <1>4 DEF MailOf, AccountOf
  <1>8. PersonOK(c)'
    BY <1>2, <1>3, <1>4, <1>5, <1>6, <1>7 DEF PersonOK
  <1> QED BY <1>3, <1>4, <1>8, SameGrown, KnownStep

LEMMA KnownCreate ==
    ASSUME KnownInv, NEW c \in Callback, Create(c)
    PROVE  PersonsOK' /\ KnownPersonKept'
  <1> USE DEF KnownInv
  <1>0. PICK n \in Nat : n = Len(principals) + 1
    BY Lengths
  <1> DEFINE r == Updated(c, AfterPrincipal(c), n, call[c].lookup)
             x == [email |-> MailOf(c), provider |-> call[c].provider]
  <1>1. r.rows = call[c].rows /\ r.code = call[c].code /\ r.stage = AfterPrincipal(c)
        /\ r.principal = n /\ r.lookup = call[c].lookup
    BY CallFields DEF Call, Updated
  <1>2. call' = [call EXCEPT ![c] = r] /\ UNCHANGED <<codes, logins>>
        /\ principals' = Append(principals, x)
    <2>1. call' = [call EXCEPT ![c] = r]
      BY <1>0, CallFields DEF TypeOK, Call, Updated, Create
    <2>2. UNCHANGED <<codes, logins>> /\ principals' = Append(principals, x)
      BY DEF Create, outside, history
    <2> QED BY <2>1, <2>2
  <1>3. x \in Principal /\ principals \in Seq(Principal)
    BY CallFields DEF Create, Principal, TypeOK
  <1> HIDE DEF r, x
  <1>4. call'[c] = r /\ \A d \in Callback \ {c} : call'[d] = call[d]
    BY <1>2 DEF TypeOK
  <1>5. Grown
    BY <1>2, <1>3, Lengths DEF Grown
  <1>6. /\ call[c].rows \in Nat /\ call[c].rows <= Len(principals)
        /\ Len(principals) \in Nat
        /\ call[c].lookup # "failed" =>
             \A i \in 1..call[c].rows : principals[i].email # MailOf(c)
    BY CallFields, Lengths DEF Create, PersonsOK, PersonOK
  <1>7. \A i \in 1..call[c].rows : principals'[i] = principals[i]
    BY <1>5, <1>6 DEF Grown
  <1>8. Kept(principals', MailOf(c), n, call[c].rows, call[c].lookup)
    BY <1>6, <1>7 DEF Kept
  <1>9. MailOf(c)' = MailOf(c)
    BY <1>1, <1>2, <1>4 DEF MailOf, AccountOf
  <1>10. AfterPrincipal(c) # "create"
    BY DEF AfterPrincipal
  <1>11. call[c].rows <= Len(principals')
    BY <1>5, <1>6 DEF Grown
  <1>12. PersonOK(c)'
    BY <1>1, <1>2, <1>4, <1>8, <1>9, <1>10, <1>11 DEF PersonOK
  <1> QED BY <1>2, <1>4, <1>5, <1>12, KnownStep

LEMMA KnownApply ==
    ASSUME KnownInv, NEW c \in Callback, ApplyPolicy(c)
    PROVE  PersonsOK' /\ KnownPersonKept'
  <1> USE DEF KnownInv
  <1> DEFINE r == [call[c] EXCEPT !.stage = "answer"]
  <1>1. r.rows = call[c].rows /\ r.code = call[c].code /\ r.stage = "answer"
        /\ r.principal = call[c].principal /\ r.lookup = call[c].lookup
    BY CallFields DEF Call
  <1>2. /\ call' = [call EXCEPT ![c] = r] /\ UNCHANGED <<codes, principals, logins>>
    BY DEF ApplyPolicy, outside, history
  <1> HIDE DEF r
  <1>3. call'[c] = r /\ \A d \in Callback \ {c} : call'[d] = call[d]
    BY <1>2 DEF TypeOK
  <1>4. /\ call[c].rows <= Len(principals)
        /\ Kept(principals, MailOf(c), call[c].principal, call[c].rows, call[c].lookup)
    BY DEF ApplyPolicy, PersonsOK, PersonOK
  <1>5. MailOf(c)' = MailOf(c)
    BY <1>1, <1>2, <1>3 DEF MailOf, AccountOf
  <1>6. PersonOK(c)'
    BY <1>1, <1>2, <1>3, <1>4, <1>5 DEF PersonOK
  <1> QED BY <1>2, <1>3, <1>6, SameGrown, KnownStep

LEMMA KnownAnswer ==
    ASSUME KnownInv, NEW c \in Callback, Answer(c)
    PROVE  PersonsOK' /\ KnownPersonKept'
  <1> USE DEF KnownInv
  <1> DEFINE x == [email |-> MailOf(c), principal |-> call[c].principal,
                   rows |-> call[c].rows, lookup |-> call[c].lookup]
  <1>1. /\ call' = [call EXCEPT ![c] = NoCall] /\ UNCHANGED <<codes, principals>>
        /\ logins' = logins \cup {x}
    BY DEF Answer, outside
  <1>2. /\ x.email = MailOf(c) /\ x.principal = call[c].principal
        /\ x.rows = call[c].rows /\ x.lookup = call[c].lookup
    OBVIOUS
  <1> HIDE DEF x
  <1>3. call'[c].stage = "idle" /\ \A d \in Callback \ {c} : call'[d] = call[d]
    BY <1>1, NoCallTyped DEF TypeOK
  <1>4. /\ call[c].rows <= Len(principals)
        /\ Kept(principals, MailOf(c), call[c].principal, call[c].rows, call[c].lookup)
    BY DEF Answer, PersonsOK, PersonOK
  <1>5. ASSUME NEW d \in Callback PROVE PersonOK(d)'
    <2>1. CASE d = c
      BY <1>3, <2>1 DEF PersonOK
    <2>2. CASE d # c
      BY <1>1, <1>3, <2>2, SameGrown, PersonGrown
    <2> QED BY <2>1, <2>2
  <1>6. ASSUME NEW l \in logins'
        PROVE  /\ l.rows <= Len(principals)
               /\ Kept(principals, l.email, l.principal, l.rows, l.lookup)
    BY <1>1, <1>2, <1>4, KnownMeaning DEF PersonsOK
  <1>7. PersonsOK'
    BY <1>1, <1>5, <1>6 DEF PersonsOK
  <1>8. KnownPersonKept'
    BY <1>1, <1>6 DEF KnownPersonKept, Kept
  <1> QED BY <1>7, <1>8

LEMMA KnownQuiet ==
    ASSUME KnownInv, \/ \E p \in Provider : Authorize(p)
                     \/ \E c \in Callback : Drop(c)
                     \/ \E t \in transactions : ConsumeLate(t)
                     \/ Restart \/ Tick \/ UNCHANGED vars
    PROVE  PersonsOK' /\ KnownPersonKept'
  <1>1. UNCHANGED <<codes, principals, logins>>
    BY DEF Authorize, Drop, ConsumeLate, Restart, Tick, vars, outside, history
  <1>2. ASSUME NEW c \in Callback PROVE call'[c] = call[c] \/ call'[c].stage = "idle"
    <2>1. CASE \E d \in Callback : Drop(d)
      BY <2>1, NoCallTyped DEF Drop, KnownInv, TypeOK
    <2>2. CASE Restart
      BY <2>2, NoCallTyped DEF Restart
    <2>3. CASE UNCHANGED call
      BY <2>3
    <2> QED BY <2>1, <2>2, <2>3 DEF Authorize, ConsumeLate, Tick, vars
  <1> QED BY <1>1, <1>2, SameGrown, KnownStep DEF KnownInv

LEMMA KnownNext == KnownInv /\ [Next]_vars => KnownInv'
  <1> SUFFICES ASSUME KnownInv, [Next]_vars PROVE PersonsOK' /\ KnownPersonKept'
    BY TypeNext DEF KnownInv
  <1>1. ASSUME NEW n \in 1..Len(asked), NEW u \in Account, SignIn(n, u)
        PROVE  PersonsOK' /\ KnownPersonKept'
    BY <1>1, KnownSignIn
  <1>2. ASSUME NEW c \in Callback, Handle(c) PROVE PersonsOK' /\ KnownPersonKept'
    BY <1>2, KnownConsume, KnownExchange, KnownFound, KnownNotFound, KnownCreate,
       KnownApply, KnownAnswer, KnownQuiet DEF Handle
  <1> QED BY <1>1, <1>2, KnownQuiet DEF Next

\* THEOREM: a person who is known when a callback comes is answered with the first
\* principal of that email (get_principal_by_email, create_principal).
THEOREM KnownPersonKeptCorrect == Spec => []KnownPersonKept
  <1>1. KnownInv => KnownPersonKept
    BY DEF KnownInv
  <1> QED BY <1>1, KnownInit, KnownNext, PTL DEF Spec
=============================================================================
