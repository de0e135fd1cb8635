------------------------- MODULE AccessControlProofs -------------------------
(***************************************************************************)
(* Proofs about AccessControl. The inductive invariant keeps, of every      *)
(* request in flight, what the steps it has taken have established (ReqOK): *)
(* above all that the stops it carries still apply, and that it has got     *)
(* past a check only if the check's stop was not among them.                *)
(***************************************************************************)
EXTENDS AccessControl, FiniteSetTheorems, TLAPS

StopsNow(r) == Stops(killedAgents, sessions, r.agent, r.sid)

ReqOK(r) ==
    /\ r.token \in 0..Len(tokens)
    /\ ~r.dry /\ r.stage # "idle" => Open(r.sid)
    /\ r.stops \subseteq StopsNow(r)
    /\ r.stage \in {"eval", "decided", "recorded", "acted"} => "agent" \notin r.stops
    /\ r.decision \in {"allow", "approval"} => r.stops = {}
    /\ r.stage \in {"check", "eval"} => r.decision = "none"
    /\ r.stage \in {"decided", "recorded"} => ~r.dry
    /\ r.stage \in {"check", "eval", "decided"} => r.token = 0
    /\ r.stage = "answer" /\ r.token # 0 => r.token \in logged

\* The part of the type invariant that is not about requests.
StoreOK ==
    /\ sessions \in [Sid -> Session]
    /\ killedAgents \subseteq Agent
    /\ tokens \in Seq(TokenRow)
    /\ approvals \subseteq Agent \X Action
    /\ logged \subseteq 1..Len(tokens)
    /\ delivered \subseteq logged
    /\ admin \in [Console -> Admin]
    /\ killedDone \subseteq Agent
    /\ restarts \in Nat

IInv ==
    /\ StoreOK
    /\ req \in [Worker -> Request]
    /\ \A w \in Worker : ReqOK(req[w])

-----------------------------------------------------------------------------
LEMMA IdleTyped ==
    /\ Idle \in Request /\ Idle.stage = "idle" /\ Idle.stops = {}
    /\ Idle.decision = "none" /\ Idle.token = 0
    /\ NoSession \in Session /\ NoSession.open = FALSE
    /\ NoAdmin \in Admin /\ NoAdmin.op = "none"
  <1>1. AnyAgent \in Agent /\ (CHOOSE x \in Action : TRUE) \in Action
    BY AgentAssumption DEF AnyAgent
  <1> QED BY <1>1 DEF Idle, Request, Stage, NoSession, Session, NoAdmin, Admin

LEMMA IdleOK ==
    ASSUME StoreOK
    PROVE  ReqOK(Idle)
  <1>1. Len(tokens) \in Nat
    BY DEF StoreOK
  <1> QED BY <1>1, IdleTyped DEF ReqOK

\* What one worker's request owes to the rest of the state only grows easier
\* when sessions open, stops and tokens are added and rows are logged.
LEMMA ReqKept ==
    ASSUME NEW r \in Request, ReqOK(r), Len(tokens) \in Nat, Len(tokens)' \in Nat,
           Len(tokens) <= Len(tokens)', logged \subseteq logged',
           killedAgents \subseteq killedAgents',
           \A s \in Sid : /\ sessions[s].open => sessions'[s].open
                          /\ sessions[s].open /\ sessions[s].killed
                               => sessions'[s].killed
    PROVE  ReqOK(r)'
  <1>1. StopsNow(r) \subseteq StopsNow(r)'
    BY DEF StopsNow, Stops
  <1>2. Open(r.sid) => Open(r.sid)'
    BY DEF Open
  <1> QED BY <1>1, <1>2 DEF ReqOK

\* One worker takes a step; the others keep what they had.
LEMMA WorkerStep ==
    ASSUME IInv, NEW w \in Worker, NEW r \in Request,
           req' = [req EXCEPT ![w] = r], ReqOK(r)', StoreOK',
           Len(tokens) <= Len(tokens)', logged \subseteq logged',
           killedAgents \subseteq killedAgents',
           \A s \in Sid : /\ sessions[s].open => sessions'[s].open
                          /\ sessions[s].open /\ sessions[s].killed
                               => sessions'[s].killed
    PROVE  IInv'
  <1>1. Len(tokens) \in Nat /\ Len(tokens)' \in Nat
    BY DEF IInv, StoreOK
  <1>2. req' \in [Worker -> Request]
    <2> DEFINE R == Request
    <2>1. req \in [Worker -> R] /\ r \in R
      BY DEF IInv
    <2> HIDE DEF R
    <2>2. req' \in [Worker -> R]
      BY <2>1
    <2> QED BY <2>2 DEF R
  <1>3. ASSUME NEW x \in Worker PROVE ReqOK(req[x])'
    <2>1. CASE x = w
      <3>1. req'[x] = r
        BY <2>1 DEF IInv
      <3> QED BY <3>1 DEF ReqOK, StopsNow
    <2>2. CASE x # w
      <3>1. req'[x] = req[x] /\ req[x] \in Request /\ ReqOK(req[x])
        BY <2>2 DEF IInv
      <3>2. ASSUME NEW q \in Request, ReqOK(q) PROVE ReqOK(q)'
        BY <3>2, <1>1, ReqKept
      <3>3. ReqOK(req[x]) => (\A q \in Request : q = req[x] => ReqOK(q)')
        BY <3>2
      <3> QED BY <3>1, <3>3 DEF ReqOK, StopsNow
    <2> QED BY <2>1, <2>2
  <1> QED BY <1>2, <1>3 DEF IInv

\* The fields of a request.
LEMMA RequestFields ==
    ASSUME NEW r \in Request
    PROVE  /\ r.stage \in Stage /\ r.dry \in BOOLEAN /\ r.agent \in Agent
           /\ r.sid \in Sid \cup {NoSid} /\ r.action \in Action
           /\ r.decision \in {"none", "allow", "deny", "approval"}
           /\ r.token \in Nat /\ r.stops \in SUBSET {"agent", "session"}
  BY DEF Request

\* The fields of a session.
LEMMA SessionFields ==
    ASSUME NEW r \in Session
    PROVE  /\ r.open \in BOOLEAN /\ r.agent \in Agent /\ r.killed \in BOOLEAN
           /\ r.actions \in Nat /\ r.seen \in SUBSET Action
  BY DEF Session

\* A step of one worker that touches neither the store nor the database.
LEMMA QuietStep ==
    ASSUME IInv, NEW w \in Worker, NEW r \in Request,
           req' = [req EXCEPT ![w] = r], ReqOK(r),
           UNCHANGED <<store, db, admin, killedDone, restarts>>,
           delivered' \subseteq logged
    PROVE  IInv'
  <1>1. UNCHANGED <<sessions, killedAgents, tokens, approvals, logged>>
    BY DEF store, db
  <1>2. StoreOK'
    BY <1>1 DEF IInv, StoreOK
  <1>3. ReqOK(r)'
    BY <1>1 DEF ReqOK, StopsNow, Stops, Open
  <1>4. Len(tokens) <= Len(tokens)'
    BY <1>1 DEF IInv, StoreOK
  <1>5. logged \subseteq logged' /\ killedAgents \subseteq killedAgents'
    BY <1>1
  <1>6. ASSUME NEW s \in Sid
        PROVE  /\ sessions[s].open => sessions'[s].open
               /\ sessions[s].open /\ sessions[s].killed => sessions'[s].killed
    BY <1>1
  <1> QED BY <1>2, <1>3, <1>4, <1>5, <1>6, WorkerStep

\* request_access and check_access arrive.
LEMMA ArriveStep ==
    ASSUME IInv, NEW w \in Worker, NEW a \in Agent, NEW x \in Action,
           \/ \E s \in Sid : Arrive(w, a, s, x)
           \/ \E s \in Sid \cup {NoSid} : ArriveDry(w, a, s, x)
    PROVE  IInv'
  <1>1. StoreOK /\ Len(tokens) \in Nat
    BY DEF IInv, StoreOK
  <1>2. ASSUME NEW s \in Sid, Arrive(w, a, s, x) PROVE IInv'
    <2> DEFINE k == sessions'[s].killed
               st == Stops(killedAgents, sessions', a, s)
               e == [Idle EXCEPT !.stage = IF k THEN "answer" ELSE "check",
                                 !.decision = IF k THEN "deny" ELSE "none",
                                 !.agent = a, !.sid = s, !.action = x, !.stops = st]
    <2>1. /\ req' = [req EXCEPT ![w] = e]
          /\ sessions' = OpenSession(s, a)
          /\ UNCHANGED <<killedAgents, db, delivered, admin, killedDone, restarts>>
      BY <1>2 DEF Arrive
    <2>2. UNCHANGED <<tokens, approvals, logged>>
      BY <2>1 DEF db
    <2>3. st \subseteq {"agent", "session"}
      BY DEF Stops
    <2>4. e \in Request
      BY <2>3 DEF Idle, Request, Stage
    <2>5. /\ e.stage \in {"answer", "check"} /\ e.decision \in {"deny", "none"}
          /\ e.stage = "check" => e.decision = "none"
          /\ e.agent = a /\ e.sid = s /\ e.stops = st /\ e.token = 0
      BY DEF Idle
    <2>6. /\ sessions' \in [Sid -> Session]
          /\ sessions'[s].open
          /\ \A z \in Sid : sessions[z].open => sessions'[z] = sessions[z]
      <3>1. sessions \in [Sid -> Session]
        BY <1>1 DEF StoreOK
      <3>2. CASE sessions[s].open
        BY <3>1, <3>2, <2>1 DEF OpenSession, Open
      <3>3. CASE ~sessions[s].open
        <4> DEFINE n == [NoSession EXCEPT !.open = TRUE, !.agent = a]
        <4>1. n \in Session /\ n.open
          BY IdleTyped DEF NoSession, Session
        <4>2. sessions' = [sessions EXCEPT ![s] = n]
          BY <3>3, <2>1 DEF OpenSession, Open
        <4> HIDE DEF n
        <4> QED BY <3>1, <3>3, <4>1, <4>2
      <3> QED BY <3>2, <3>3
    <2>7. PICK r \in Request : r = e
      BY <2>4
    <2>8. StoreOK'
      BY <1>1, <2>1, <2>2, <2>6 DEF StoreOK
    <2>9. Open(s)'
      BY <2>6 DEF Open
    <2>10. /\ r.stage \in {"answer", "check"} /\ r.decision \in {"deny", "none"}
           /\ r.stage = "check" => r.decision = "none"
           /\ r.agent = a /\ r.sid = s /\ r.token = 0 /\ r.stops = st
           /\ req' = [req EXCEPT ![w] = r]
      BY <2>1, <2>5, <2>7
    <2>11. r.stops = StopsNow(r)'
      BY <2>1, <2>10 DEF StopsNow
    <2>12. ReqOK(r)'
      BY <1>1, <2>2, <2>9, <2>10, <2>11 DEF ReqOK
    <2>13. \A z \in Sid : /\ sessions[z].open => sessions'[z].open
                          /\ sessions[z].open /\ sessions[z].killed
                               => sessions'[z].killed
      BY <2>6
    <2>14. Len(tokens) <= Len(tokens)'
      BY <1>1, <2>2
    <2>15. logged \subseteq logged' /\ killedAgents \subseteq killedAgents'
      BY <2>1, <2>2
    <2> HIDE DEF e
    <2> QED BY <2>8, <2>10, <2>12, <2>13, <2>14, <2>15, WorkerStep
  <1>3. ASSUME NEW s \in Sid \cup {NoSid}, ArriveDry(w, a, s, x) PROVE IInv'
    <2> DEFINE st == Stops(killedAgents, sessions, a, s)
               e == [Idle EXCEPT !.stage = "check", !.dry = TRUE, !.agent = a,
                                 !.sid = s, !.action = x, !.stops = st]
    <2>1. /\ req' = [req EXCEPT ![w] = e]
          /\ UNCHANGED <<store, db, delivered, admin, killedDone, restarts>>
      BY <1>3 DEF ArriveDry
    <2>2. st \subseteq {"agent", "session"}
      BY DEF Stops
    <2>3. e \in Request
      BY <2>2 DEF Idle, Request, Stage
    <2>4. PICK r \in Request : r = e
      BY <2>3
    <2>5. /\ r.stage = "check" /\ r.decision = "none" /\ r.dry
          /\ r.agent = a /\ r.sid = s /\ r.stops = st /\ r.token = 0
      BY <2>4 DEF Idle
    <2>6. ReqOK(r)
      BY <1>1, <2>5 DEF ReqOK, StopsNow
    <2>7. delivered' \subseteq logged
      BY <1>1, <2>1 DEF StoreOK
    <2> QED BY <2>1, <2>4, <2>6, <2>7, QuietStep
  <1> QED BY <1>2, <1>3

\* The request that a handler is at has the type and the invariant.
LEMMA AtRequest ==
    ASSUME IInv, NEW w \in Worker
    PROVE  req[w] \in Request /\ ReqOK(req[w])
  BY DEF IInv

\* A step that changes only the stage and the decision of a request.
LEMMA Decide ==
    ASSUME IInv, NEW w \in Worker, NEW st \in Stage,
           NEW d \in {"none", "allow", "deny", "approval"},
           req' = [req EXCEPT ![w].stage = st, ![w].decision = d],
           UNCHANGED <<store, db, delivered, admin, killedDone, restarts>>,
           req[w].stage # "idle", req[w].token = 0,
           st \in {"eval", "decided", "acted"} => "agent" \notin req[w].stops,
           d \in {"allow", "approval"} => req[w].stops = {},
           st = "eval" => d = "none", st # "check",
           st = "decided" => ~req[w].dry, st # "recorded"
    PROVE  IInv'
  <1> DEFINE q == req[w]
             e == [q EXCEPT !.stage = st, !.decision = d]
  <1>1. q \in Request /\ ReqOK(q)
    BY AtRequest
  <1>2. e \in Request
    BY <1>1 DEF Request
  <1>3. req' = [req EXCEPT ![w] = e]
    OBVIOUS
  <1>4. PICK r \in Request : r = e
    BY <1>2
  <1>5. /\ r.stage = st /\ r.decision = d /\ r.dry = q.dry /\ r.agent = q.agent
        /\ r.sid = q.sid /\ r.token = q.token /\ r.stops = q.stops
    BY <1>1, <1>4 DEF Request
  <1>6. StopsNow(r) = StopsNow(q)
    BY <1>5 DEF StopsNow
  <1>7. ReqOK(r)
    BY <1>1, <1>5, <1>6 DEF ReqOK
  <1>8. delivered' \subseteq logged
    BY DEF IInv, StoreOK
  <1>9. req' = [req EXCEPT ![w] = r]
    BY <1>3, <1>4
  <1> HIDE DEF e, q
  <1> QED BY <1>7, <1>8, <1>9, QuietStep

LEMMA CheckAgentStep ==
    ASSUME IInv, NEW w \in Worker, CheckAgent(w)
    PROVE  IInv'
  <1>1. req[w] \in Request /\ ReqOK(req[w])
    BY AtRequest
  <1>2. req[w].stage = "check" /\ req[w].token = 0 /\ req[w].decision = "none"
    BY <1>1 DEF CheckAgent, ReqOK
  <1>3. CASE req[w].agent \in killedAgents
    <2>1. req' = [req EXCEPT ![w].stage = "answer", ![w].decision = "deny"]
      BY <1>3 DEF CheckAgent
    <2>2. "answer" \in Stage
      BY DEF Stage
    <2>3. UNCHANGED <<store, db, delivered, admin, killedDone, restarts>>
      BY DEF CheckAgent
    <2> QED BY <1>2, <2>1, <2>2, <2>3, Decide
  <1>4. CASE req[w].agent \notin killedAgents
    <2>1. req' = [req EXCEPT ![w].stage = "eval"]
      BY <1>4 DEF CheckAgent
    <2>2. req' = [req EXCEPT ![w].stage = "eval", ![w].decision = "none"]
      <3>1. [req[w] EXCEPT !.stage = "eval", !.decision = "none"]
              = [req[w] EXCEPT !.stage = "eval"]
        BY <1>1, <1>2 DEF Request
      <3> QED BY <2>1, <3>1
    <2>3. "eval" \in Stage
      BY DEF Stage
    <2>4. UNCHANGED <<store, db, delivered, admin, killedDone, restarts>>
      BY DEF CheckAgent
    <2>5. "agent" \notin req[w].stops
      BY <1>1, <1>4 DEF ReqOK, StopsNow, Stops
    <2> QED BY <1>2, <2>2, <2>3, <2>4, <2>5, Decide
  <1> QED BY <1>3, <1>4

LEMMA EvaluateStep ==
    ASSUME IInv, NEW w \in Worker, Evaluate(w)
    PROVE  IInv'
  <1>1. req[w] \in Request /\ ReqOK(req[w])
    BY AtRequest
  <1>2. req[w].stage = "eval" /\ req[w].token = 0 /\ "agent" \notin req[w].stops
    BY <1>1 DEF Evaluate, ReqOK
  <1>3. PICK d \in Decisions(w) :
          req' = [req EXCEPT ![w].decision = d,
                             ![w].stage = IF req[w].dry THEN "acted" ELSE "decided"]
    BY DEF Evaluate
  <1> DEFINE st == IF req[w].dry THEN "acted" ELSE "decided"
  <1>4. req[w].action \in Action /\ req[w].stops \in SUBSET {"agent", "session"}
    BY <1>1, RequestFields
  <1>5. Rule[req[w].action].decision \in {"allow", "deny", "approval"}
    BY <1>4, RuleAssumption DEF Rules
  <1>6. d \in {"none", "allow", "deny", "approval"}
    BY <1>3, <1>5 DEF Decisions
  <1>7. d \in {"allow", "approval"} => req[w].stops = {}
    <2>1. d = "deny" \/ ~Refused(Rule[req[w].action], req[w].sid)
      BY <1>3 DEF Decisions
    <2>2. ~Refused(Rule[req[w].action], req[w].sid) => "session" \notin StopsNow(req[w])
      BY DEF Refused, Open, StopsNow, Stops
    <2> QED BY <1>1, <1>2, <1>4, <2>1, <2>2 DEF ReqOK
  <1>8. req' = [req EXCEPT ![w].stage = st, ![w].decision = d]
    <2>1. [req[w] EXCEPT !.decision = d, !.stage = st]
            = [req[w] EXCEPT !.stage = st, !.decision = d]
      BY <1>1 DEF Request
    <2> QED BY <1>3, <2>1
  <1>9. st \in Stage /\ st \notin {"check", "eval", "recorded"}
        /\ (st = "decided" => ~req[w].dry)
    BY DEF Stage
  <1>10. UNCHANGED <<store, db, delivered, admin, killedDone, restarts>>
    BY DEF Evaluate
  <1> HIDE DEF st
  <1> QED BY <1>2, <1>6, <1>7, <1>8, <1>9, <1>10, Decide

LEMMA RespondStep ==
    ASSUME IInv, NEW w \in Worker, Respond(w) \/ Drop(w)
    PROVE  IInv'
  <1>1. req' = [req EXCEPT ![w] = Idle]
        /\ UNCHANGED <<store, db, admin, killedDone, restarts>>
    BY DEF Respond, Drop
  <1>2. ReqOK(Idle) /\ Idle \in Request
    BY IdleOK, IdleTyped DEF IInv
  <1>3. delivered' \subseteq logged
    <2>1. CASE Drop(w)
      BY <2>1 DEF Drop, IInv, StoreOK
    <2>2. CASE Respond(w)
      <3>1. req[w].stage = "answer" /\ ReqOK(req[w]) /\ delivered \subseteq logged
        BY <2>2 DEF Respond, IInv, StoreOK
      <3> QED BY <2>2, <3>1 DEF Respond, ReqOK
    <2> QED BY <2>1, <2>2
  <1> QED BY <1>1, <1>2, <1>3, QuietStep
LEMMA RecordTokenStep ==
    ASSUME IInv, NEW w \in Worker, RecordToken(w)
    PROVE  IInv'
  <1> DEFINE q == req[w]
             n == Len(tokens) + 1
             e == [q EXCEPT !.stage = "recorded", !.token = n]
             row == [agent |-> q.agent, sid |-> q.sid, boot |-> restarts,
                     revoked |-> FALSE]
  <1>1. q \in Request /\ ReqOK(q) /\ StoreOK
    BY AtRequest DEF IInv
  <1>2. /\ q.stage = "decided" /\ q.decision = "allow"
        /\ tokens' = Append(tokens, row)
        /\ UNCHANGED <<sessions, killedAgents, approvals, logged, delivered, admin,
                      killedDone, restarts>>
    BY DEF RecordToken, store
  <1>3. q.agent \in Agent /\ q.sid \in Sid
    BY <1>1, <1>2, RequestFields DEF ReqOK, Open
  <1>4. row \in TokenRow
    BY <1>1, <1>3 DEF TokenRow, StoreOK
  <1>5. /\ tokens \in Seq(TokenRow) /\ tokens' \in Seq(TokenRow)
        /\ Len(tokens) \in Nat /\ Len(tokens)' = n
    <2> HIDE DEF row
    <2> QED BY <1>1, <1>2, <1>4 DEF StoreOK
  <1>6. StoreOK'
    BY <1>1, <1>2, <1>5 DEF StoreOK
  <1>7. e \in Request
    <2>1. n \in Nat
      BY <1>5
    <2> HIDE DEF n, q
    <2> QED BY <1>1, <2>1 DEF Request, Stage
  <1>8. PICK r \in Request : r = e
    BY <1>7
  <1>9. /\ r.stage = "recorded" /\ r.decision = q.decision /\ r.dry = q.dry
        /\ r.agent = q.agent /\ r.sid = q.sid /\ r.token = n /\ r.stops = q.stops
        /\ req' = [req EXCEPT ![w] = r]
    BY <1>1, <1>8 DEF Request, RecordToken
  <1>10. StopsNow(r)' = StopsNow(q)
    BY <1>2, <1>9 DEF StopsNow, Stops
  <1>11. Open(r.sid)'
    BY <1>1, <1>2, <1>9 DEF ReqOK, Open
  <1>12. ReqOK(r)'
    BY <1>1, <1>2, <1>5, <1>9, <1>10, <1>11 DEF ReqOK
  <1>13. Len(tokens) <= Len(tokens)'
    BY <1>5
  <1>14. logged \subseteq logged' /\ killedAgents \subseteq killedAgents'
    BY <1>2
  <1>15. ASSUME NEW s \in Sid
         PROVE  /\ sessions[s].open => sessions'[s].open
                /\ sessions[s].open /\ sessions[s].killed => sessions'[s].killed
    BY <1>2
  <1> HIDE DEF e, q, n, row
  <1> QED BY <1>6, <1>9, <1>12, <1>13, <1>14, <1>15, WorkerStep

\* The database rows that are not tokens: approvals and audit entries.
LEMMA LogStep ==
    ASSUME IInv, NEW w \in Worker, CreateApproval(w) \/ Audit(w)
    PROVE  IInv'
  <1> DEFINE q == req[w]
             e == IF CreateApproval(w) THEN [q EXCEPT !.stage = "recorded"]
                  ELSE [q EXCEPT !.stage = "answer"]
  <1>1. q \in Request /\ ReqOK(q) /\ StoreOK
    BY AtRequest DEF IInv
  <1>2. UNCHANGED <<sessions, killedAgents, tokens, delivered, admin, killedDone,
                    restarts>>
    BY DEF CreateApproval, Audit, store
  <1>3. q.agent \in Agent /\ q.action \in Action /\ Len(tokens) \in Nat
    BY <1>1, RequestFields DEF StoreOK
  <1>4. approvals' \subseteq Agent \X Action
    BY <1>1, <1>3 DEF CreateApproval, Audit, StoreOK
  <1>5. /\ logged \subseteq logged' /\ logged' \subseteq 1..Len(tokens)
        /\ ~CreateApproval(w) /\ q.token # 0 => q.token \in logged'
    <2>1. CASE CreateApproval(w)
      BY <1>1, <2>1 DEF CreateApproval, StoreOK
    <2>2. CASE ~CreateApproval(w)
      <3>1. logged' = IF q.token = 0 THEN logged ELSE logged \cup {q.token}
        BY <2>2 DEF Audit
      <3>2. q.token \in 0..Len(tokens) /\ logged \subseteq 1..Len(tokens)
        BY <1>1 DEF ReqOK, StoreOK
      <3>3. q.token # 0 => q.token \in 1..Len(tokens)
        BY <1>3, <3>2
      <3> HIDE DEF q
      <3> QED BY <2>2, <3>1, <3>2, <3>3
    <2> QED BY <2>1, <2>2
  <1>6. StoreOK'
    BY <1>1, <1>2, <1>4, <1>5 DEF StoreOK
  <1>7. e \in Request
    BY <1>1 DEF Request, Stage
  <1>8. PICK r \in Request : r = e
    BY <1>7
  <1>9. req' = [req EXCEPT ![w] = r]
    BY <1>8 DEF CreateApproval, Audit
  <1>10. /\ r.decision = q.decision /\ r.dry = q.dry /\ r.agent = q.agent
         /\ r.sid = q.sid /\ r.token = q.token /\ r.stops = q.stops
         /\ CreateApproval(w) => r.stage = "recorded" /\ q.stage = "decided"
         /\ ~CreateApproval(w) => r.stage = "answer" /\ q.stage = "acted"
    BY <1>1, <1>8 DEF Request, CreateApproval, Audit
  <1>11. StopsNow(r)' = StopsNow(q) /\ Open(r.sid)' = Open(q.sid)
    BY <1>2, <1>10 DEF StopsNow, Stops, Open
  <1>12. ReqOK(r)'
    BY <1>1, <1>2, <1>5, <1>10, <1>11 DEF ReqOK
  <1>13. Len(tokens) <= Len(tokens)' /\ killedAgents \subseteq killedAgents'
    BY <1>2, <1>3
  <1>14. ASSUME NEW s \in Sid
         PROVE  /\ sessions[s].open => sessions'[s].open
                /\ sessions[s].open /\ sessions[s].killed => sessions'[s].killed
    BY <1>2
  <1> HIDE DEF e, q
  <1> QED BY <1>5, <1>6, <1>9, <1>12, <1>13, <1>14, WorkerStep

LEMMA SessionChange ==
    ASSUME NEW s \in Session, NEW n \in Nat, NEW x \in SUBSET Action
    PROVE  LET m == [s EXCEPT !.actions = n, !.seen = x]
           IN  m \in Session /\ m.open = s.open /\ m.killed = s.killed
  BY DEF Session

LEMMA RecordActionStep ==
    ASSUME IInv, NEW w \in Worker, RecordAction(w)
    PROVE  IInv'
  <1> DEFINE q == req[w]
             z == sessions[q.sid]
             m == [z EXCEPT !.actions = @ + 1, !.seen = @ \cup {q.action}]
             e == [q EXCEPT !.stage = "acted"]
  <1>1. q \in Request /\ ReqOK(q) /\ StoreOK
    BY AtRequest DEF IInv
  <1>2. /\ q.stage \in {"decided", "recorded"}
        /\ UNCHANGED <<killedAgents, tokens, approvals, logged, delivered, admin,
                      killedDone, restarts>>
    BY DEF RecordAction, db
  <1>3. q.sid \in Sid /\ z.open /\ q.action \in Action
    BY <1>1, <1>2, RequestFields DEF ReqOK, Open
  <1>4. sessions \in [Sid -> Session] /\ z \in Session
    BY <1>1, <1>3 DEF StoreOK
  <1>5. m \in Session /\ m.open /\ m.killed = z.killed
    <2>1. z.actions + 1 \in Nat /\ z.seen \cup {q.action} \in SUBSET Action
      BY <1>3, <1>4, SessionFields
    <2> HIDE DEF z, q
    <2> QED BY <1>3, <1>4, <2>1, SessionChange
  <1>6. sessions' = [sessions EXCEPT ![q.sid] = m]
    BY <1>3, <1>4 DEF RecordAction
  <1>7. /\ sessions' \in [Sid -> Session]
        /\ \A s \in Sid : /\ sessions'[s].open = sessions[s].open
                         /\ sessions'[s].killed = sessions[s].killed
    <2> HIDE DEF m, e
    <2>1. sessions' \in [Sid -> Session]
      BY <1>3, <1>4, <1>5, <1>6
    <2>2. ASSUME NEW s \in Sid
          PROVE  /\ sessions'[s].open = sessions[s].open
                 /\ sessions'[s].killed = sessions[s].killed
      <3>1. CASE s = q.sid
        <4>1. sessions'[s] = m
          BY <1>4, <1>6, <3>1
        <4>2. sessions[s].open = TRUE
          BY <1>3, <3>1
        <4>3. m.open = TRUE
          BY <1>5, SessionFields
        <4> QED BY <1>3, <1>5, <3>1, <4>1, <4>2, <4>3
      <3>2. CASE s # q.sid
        BY <1>4, <1>6, <3>2
      <3> QED BY <3>1, <3>2
    <2> QED BY <2>1, <2>2
  <1>8. StoreOK'
    BY <1>1, <1>2, <1>7 DEF StoreOK
  <1>9. e \in Request
    BY <1>1 DEF Request, Stage
  <1>10. PICK r \in Request : r = e
    BY <1>9
  <1>11. req' = [req EXCEPT ![w] = r]
    BY <1>10 DEF RecordAction
  <1>12. /\ r.decision = q.decision /\ r.dry = q.dry /\ r.agent = q.agent
         /\ r.sid = q.sid /\ r.token = q.token /\ r.stops = q.stops
         /\ r.stage = "acted"
    BY <1>1, <1>10 DEF Request
  <1>13. StopsNow(r)' = StopsNow(q) /\ Open(r.sid)'
    BY <1>2, <1>3, <1>7, <1>12 DEF StopsNow, Stops, Open
  <1>14. ReqOK(r)'
    BY <1>1, <1>2, <1>12, <1>13 DEF ReqOK
  <1>15. Len(tokens) <= Len(tokens)'
    BY <1>1, <1>2 DEF StoreOK
  <1>16. logged \subseteq logged' /\ killedAgents \subseteq killedAgents'
    BY <1>2
  <1>17. ASSUME NEW s \in Sid
         PROVE  /\ sessions[s].open => sessions'[s].open
                /\ sessions[s].open /\ sessions[s].killed => sessions'[s].killed
    BY <1>7
  <1> HIDE DEF e, m, z, q
  <1> QED BY <1>8, <1>11, <1>14, <1>15, <1>16, <1>17, WorkerStep
-----------------------------------------------------------------------------
\* A step of an operator that adds stops, or changes the database alone.
LEMMA StopStep ==
    ASSUME IInv, UNCHANGED req, StoreOK',
           Len(tokens) <= Len(tokens)', logged \subseteq logged',
           killedAgents \subseteq killedAgents',
           \A s \in Sid : /\ sessions[s].open => sessions'[s].open
                          /\ sessions[s].open /\ sessions[s].killed
                               => sessions'[s].killed
    PROVE  IInv'
  <1>1. Len(tokens) \in Nat /\ Len(tokens)' \in Nat
    BY DEF IInv, StoreOK
  <1>2. ASSUME NEW x \in Worker PROVE ReqOK(req[x])'
    <2>1. req'[x] = req[x] /\ req[x] \in Request /\ ReqOK(req[x])
      BY DEF IInv
    <2>2. ASSUME NEW q \in Request, ReqOK(q) PROVE ReqOK(q)'
      BY <2>2, <1>1, ReqKept
    <2>3. ReqOK(req[x]) => (\A q \in Request : q = req[x] => ReqOK(q)')
      BY <2>2
    <2> QED BY <2>1, <2>3 DEF ReqOK, StopsNow
  <1> QED BY <1>2 DEF IInv

\* What setting the killed flag of an agent's sessions leaves alone.
LEMMA SetKilledTyped ==
    ASSUME sessions \in [Sid -> Session], NEW a \in Agent, NEW k \in BOOLEAN
    PROVE  /\ SetKilled(a, k) \in [Sid -> Session]
           /\ \A s \in Sid : SetKilled(a, k)[s].open = sessions[s].open
           /\ k => \A s \in Sid : sessions[s].killed => SetKilled(a, k)[s].killed
  <1>1. ASSUME NEW s \in Sid
        PROVE  /\ SetKilled(a, k)[s] \in Session
               /\ SetKilled(a, k)[s].open = sessions[s].open
               /\ k /\ sessions[s].killed => SetKilled(a, k)[s].killed
    <2>1. sessions[s] \in Session
      OBVIOUS
    <2>2. [sessions[s] EXCEPT !.killed = k] \in Session
      BY <2>1 DEF Session
    <2>3. [sessions[s] EXCEPT !.killed = k].open = sessions[s].open
          /\ [sessions[s] EXCEPT !.killed = k].killed = k
      BY <2>1 DEF Session
    <2> QED BY <2>1, <2>2, <2>3 DEF SetKilled
  <1> QED BY <1>1 DEF SetKilled

LEMMA KillAgentStep ==
    ASSUME IInv, NEW o \in Console, NEW a \in Agent, KillAgent(o, a)
    PROVE  IInv'
  <1>1. StoreOK
    BY DEF IInv
  <1>2. /\ killedAgents' = killedAgents \cup {a}
        /\ sessions' = SetKilled(a, TRUE)
        /\ admin' = [admin EXCEPT ![o] = [op |-> "kill", agent |-> a]]
        /\ UNCHANGED <<req, tokens, approvals, logged, delivered, killedDone, restarts>>
    BY DEF KillAgent, db
  <1>3. sessions \in [Sid -> Session]
    BY <1>1 DEF StoreOK
  <1>4. /\ sessions' \in [Sid -> Session]
        /\ \A s \in Sid : sessions'[s].open = sessions[s].open
        /\ \A s \in Sid : sessions[s].killed => sessions'[s].killed
    BY <1>2, <1>3, SetKilledTyped
  <1>5. [op |-> "kill", agent |-> a] \in Admin
    BY DEF Admin
  <1>6. StoreOK'
    BY <1>1, <1>2, <1>4, <1>5 DEF StoreOK
  <1>7. Len(tokens) <= Len(tokens)' /\ logged \subseteq logged'
        /\ killedAgents \subseteq killedAgents'
    BY <1>1, <1>2 DEF StoreOK
  <1>8. ASSUME NEW s \in Sid
        PROVE  /\ sessions[s].open => sessions'[s].open
               /\ sessions[s].open /\ sessions[s].killed => sessions'[s].killed
    BY <1>4
  <1>9. UNCHANGED req
    BY <1>2
  <1> QED BY <1>6, <1>7, <1>8, <1>9, StopStep

LEMMA KillTokensStep ==
    ASSUME IInv, NEW o \in Console, KillTokens(o) \/ KillFails(o)
    PROVE  IInv'
  <1>1. StoreOK
    BY DEF IInv
  <1>2. /\ admin' = [admin EXCEPT ![o] = NoAdmin]
        /\ UNCHANGED <<sessions, killedAgents, req, approvals, logged, delivered,
                      restarts>>
    BY DEF KillTokens, KillFails, store, db
  <1>3. tokens' \in Seq(TokenRow) /\ Len(tokens)' = Len(tokens)
    <2>1. CASE KillFails(o)
      BY <1>1, <2>1 DEF KillFails, db, StoreOK
    <2>2. CASE KillTokens(o)
      <3> DEFINE b == admin[o].agent
                 f(t) == IF tokens[t].agent = b
                         THEN [tokens[t] EXCEPT !.revoked = TRUE] ELSE tokens[t]
      <3>1. tokens \in Seq(TokenRow) /\ Len(tokens) \in Nat
        BY <1>1 DEF StoreOK
      <3>2. tokens' = [t \in 1..Len(tokens) |-> f(t)]
        BY <2>2 DEF KillTokens
      <3>3. ASSUME NEW t \in 1..Len(tokens) PROVE f(t) \in TokenRow
        <4>1. tokens[t] \in TokenRow
          BY <3>1
        <4>2. [tokens[t] EXCEPT !.revoked = TRUE] \in TokenRow
          BY <4>1 DEF TokenRow
        <4> QED BY <4>1, <4>2
      <3> HIDE DEF f
      <3> QED BY <3>1, <3>2, <3>3
    <2> QED BY <2>1, <2>2
  <1>4. killedDone' \subseteq Agent
    BY <1>1 DEF KillTokens, KillFails, StoreOK
  <1>5. StoreOK'
    BY <1>1, <1>2, <1>3, <1>4, IdleTyped DEF StoreOK
  <1>6. Len(tokens) <= Len(tokens)' /\ logged \subseteq logged'
        /\ killedAgents \subseteq killedAgents'
    BY <1>1, <1>2, <1>3 DEF StoreOK
  <1>7. ASSUME NEW s \in Sid
        PROVE  /\ sessions[s].open => sessions'[s].open
               /\ sessions[s].open /\ sessions[s].killed => sessions'[s].killed
    BY <1>2
  <1>8. UNCHANGED req
    BY <1>2
  <1> QED BY <1>5, <1>6, <1>7, <1>8, StopStep

LEMMA KillSessionStep ==
    ASSUME IInv, NEW s \in Sid, KillSession(s)
    PROVE  IInv'
  <1>1. StoreOK
    BY DEF IInv
  <1>2. /\ sessions' = [sessions EXCEPT ![s].killed = TRUE]
        /\ UNCHANGED <<killedAgents, req, tokens, approvals, logged, delivered,
                      admin, killedDone, restarts>>
    BY DEF KillSession, db
  <1> DEFINE m == [sessions[s] EXCEPT !.killed = TRUE]
  <1>3. sessions \in [Sid -> Session] /\ sessions[s] \in Session
    BY <1>1 DEF StoreOK
  <1>4. m \in Session /\ m.open = sessions[s].open /\ m.killed
    BY <1>3 DEF Session
  <1>5. sessions' = [sessions EXCEPT ![s] = m]
    BY <1>2
  <1>6. sessions' \in [Sid -> Session]
    <2> HIDE DEF m
    <2> QED BY <1>3, <1>4, <1>5
  <1>7. ASSUME NEW z \in Sid
        PROVE  /\ sessions[z].open => sessions'[z].open
               /\ sessions[z].open /\ sessions[z].killed => sessions'[z].killed
    <2> HIDE DEF m
    <2>1. sessions'[z] = IF z = s THEN m ELSE sessions[z]
      BY <1>3, <1>5
    <2> QED BY <1>4, <2>1
  <1>8. StoreOK'
    BY <1>1, <1>2, <1>6 DEF StoreOK
  <1>9. Len(tokens) <= Len(tokens)' /\ logged \subseteq logged'
        /\ killedAgents \subseteq killedAgents'
    BY <1>1, <1>2 DEF StoreOK
  <1>10. UNCHANGED req
    BY <1>2
  <1> QED BY <1>7, <1>8, <1>9, <1>10, StopStep
\* Both halves of restore_agent: stops go, from the state and so from the
\* requests.
LEMMA RestoreStep ==
    ASSUME IInv, NEW o \in Console,
           (\E a \in Agent : RestoreAgent(o, a)) \/ RestoreSessions(o)
    PROVE  IInv'
  <1>1. StoreOK
    BY DEF IInv
  <1>2. /\ killedAgents' \subseteq Agent
        /\ sessions' \in [Sid -> Session]
        /\ \A s \in Sid : sessions'[s].open = sessions[s].open
        /\ admin' \in [Console -> Admin]
        /\ killedDone' \subseteq Agent
        /\ req' = Released(killedAgents', sessions')
        /\ UNCHANGED <<tokens, approvals, logged, delivered, restarts>>
    <2>1. ASSUME NEW a \in Agent, RestoreAgent(o, a) PROVE <1>2
      <3>1. [op |-> "restore", agent |-> a] \in Admin
        BY DEF Admin
      <3>2. UNCHANGED sessions
        BY <2>1 DEF RestoreAgent
      <3>3. req' = Released(killedAgents', sessions')
        BY <2>1, <3>2 DEF RestoreAgent
      <3> QED BY <1>1, <2>1, <3>1, <3>2, <3>3 DEF RestoreAgent, StoreOK, db
    <2>2. CASE RestoreSessions(o)
      <3>1. sessions' = SetKilled(admin[o].agent, FALSE) /\ UNCHANGED killedAgents
        BY <2>2 DEF RestoreSessions
      <3>2. sessions \in [Sid -> Session] /\ admin[o].agent \in Agent
        BY <1>1 DEF StoreOK, Admin
      <3>3. sessions' \in [Sid -> Session]
            /\ \A s \in Sid : sessions'[s].open = sessions[s].open
        BY <3>1, <3>2, SetKilledTyped
      <3>4. req' = Released(killedAgents', sessions')
        BY <2>2, <3>1 DEF RestoreSessions
      <3> QED BY <1>1, <2>2, <3>1, <3>3, <3>4, IdleTyped DEF RestoreSessions, StoreOK, db
    <2> QED BY <2>1, <2>2
  <1>3. StoreOK'
    BY <1>1, <1>2 DEF StoreOK
  <1>4. ASSUME NEW x \in Worker PROVE req'[x] \in Request /\ ReqOK(req[x])'
    <2> DEFINE q == req[x]
               st == q.stops \cap Stops(killedAgents', sessions', q.agent, q.sid)
               e == [q EXCEPT !.stops = st]
    <2>1. q \in Request /\ ReqOK(q)
      BY AtRequest
    <2>2. st \in SUBSET {"agent", "session"} /\ st \subseteq q.stops
      BY <2>1, RequestFields
    <2>3. e \in Request
      <3> HIDE DEF st, q
      <3> QED BY <2>1, <2>2 DEF Request
    <2>4. PICK r \in Request : r = e
      BY <2>3
    <2>5. req'[x] = r
      BY <1>2, <2>4 DEF Released
    <2>6. /\ r.stage = q.stage /\ r.decision = q.decision /\ r.dry = q.dry
          /\ r.agent = q.agent /\ r.sid = q.sid /\ r.token = q.token
          /\ r.stops = st
      BY <2>1, <2>4 DEF Request
    <2>7. r.stops \subseteq StopsNow(r)'
      BY <2>6 DEF StopsNow
    <2>8. Open(r.sid)' = Open(q.sid)
      BY <1>2, <2>6 DEF Open
    <2>9. ReqOK(r)'
      <3> HIDE DEF q, st
      <3> QED BY <1>2, <2>1, <2>2, <2>6, <2>7, <2>8 DEF ReqOK
    <2> HIDE DEF e
    <2> QED BY <2>5, <2>9 DEF ReqOK, StopsNow
  <1>5. req' = [w \in Worker |-> req'[w]]
    BY <1>2 DEF Released
  <1> QED BY <1>3, <1>4, <1>5 DEF IInv

LEMMA RestartStep ==
    ASSUME IInv, Restart
    PROVE  IInv'
  <1>1. /\ sessions' = [s \in Sid |-> NoSession]
        /\ killedAgents' = {} /\ killedDone' = {}
        /\ req' = [w \in Worker |-> Idle]
        /\ admin' = [o \in Console |-> NoAdmin]
        /\ restarts' = restarts + 1
        /\ UNCHANGED <<tokens, approvals, logged, delivered>>
    BY DEF Restart, db
  <1>2. StoreOK /\ StoreOK'
    BY <1>1, IdleTyped DEF IInv, StoreOK
  <1>3. ReqOK(Idle)'
    BY <1>2, <1>1, IdleTyped DEF ReqOK, StoreOK
  <1>4. ASSUME NEW x \in Worker PROVE req'[x] = Idle
    BY <1>1
  <1>5. req' \in [Worker -> Request]
    BY <1>1, IdleTyped
  <1> QED BY <1>2, <1>3, <1>4, <1>5 DEF IInv, ReqOK, StopsNow

LEMMA InitOK == Init => IInv
  <1> SUFFICES ASSUME Init PROVE IInv
    OBVIOUS
  <1>1. /\ tokens = <<>> /\ logged = {} /\ delivered = {} /\ approvals = {}
        /\ killedAgents = {} /\ killedDone = {} /\ restarts = 0
        /\ sessions = [s \in Sid |-> NoSession]
        /\ req = [w \in Worker |-> Idle] /\ admin = [o \in Console |-> NoAdmin]
    BY DEF Init
  <1>2. StoreOK
    BY <1>1, IdleTyped DEF StoreOK
  <1>3. ReqOK(Idle)
    BY <1>2, IdleOK
  <1> QED BY <1>1, <1>2, <1>3, IdleTyped DEF IInv

LEMMA NextStep == IInv /\ [Next]_vars => IInv'
  <1> SUFFICES ASSUME IInv, [Next]_vars PROVE IInv'
    OBVIOUS
  <1>1. CASE UNCHANGED vars
    BY <1>1 DEF vars, store, db, IInv, StoreOK, ReqOK, StopsNow, Stops, Open
  <1>2. ASSUME NEW w \in Worker, Handler(w) PROVE IInv'
    <2>1. \/ \E a \in Agent, s \in Sid, x \in Action : Arrive(w, a, s, x)
          \/ \E a \in Agent, s \in Sid \cup {NoSid}, x \in Action :
               ArriveDry(w, a, s, x)
          \/ CheckAgent(w) \/ Evaluate(w) \/ RecordToken(w) \/ CreateApproval(w)
          \/ RecordAction(w) \/ Audit(w) \/ Respond(w) \/ Drop(w)
      BY <1>2 DEF Handler
    <2> QED BY <2>1, ArriveStep, CheckAgentStep, EvaluateStep, RecordTokenStep,
               LogStep, RecordActionStep, RespondStep
  <1>3. ASSUME NEW o \in Console, Operator(o) PROVE IInv'
    <2>1. \/ \E a \in Agent : KillAgent(o, a) \/ RestoreAgent(o, a)
          \/ KillTokens(o) \/ KillFails(o) \/ RestoreSessions(o)
      BY <1>3 DEF Operator
    <2> QED BY <2>1, KillAgentStep, KillTokensStep, RestoreStep
  <1>4. ASSUME NEW s \in Sid, KillSession(s) PROVE IInv'
    BY <1>4, KillSessionStep
  <1>5. CASE Restart
    BY <1>5, RestartStep
  <1> QED BY <1>1, <1>2, <1>3, <1>4, <1>5 DEF Next

LEMMA InvariantHolds == Spec => []IInv
  BY InitOK, NextStep, PTL DEF Spec

-----------------------------------------------------------------------------
\* Every variable keeps its type, whatever requests, stops, failures and
\* restarts happen; a real request in flight always has its session.
THEOREM TypeCorrect == Spec => []TypeOK
  <1>1. IInv => TypeOK
    BY DEF IInv, StoreOK, ReqOK, TypeOK
  <1> QED BY <1>1, InvariantHolds, PTL

\* The emergency stop of is_agent_killed and session.killed binds every request
\* that arrives under it, for any number of handlers, agents and sessions.
THEOREM StopBindsCorrect == Spec => []StopBinds
  <1>1. IInv => StopBinds
    <2> SUFFICES ASSUME IInv, NEW w \in Worker, req[w].stops # {}
                 PROVE  req[w].decision \in {"none", "deny"}
      BY DEF StopBinds
    <2> QED BY AtRequest, RequestFields DEF ReqOK
  <1> QED BY <1>1, InvariantHolds, PTL

\* request_access returns no token before its audit entry is written, for any
\* failures and disconnections.
THEOREM DeliveredLoggedCorrect == Spec => []DeliveredLogged
  <1>1. IInv => DeliveredLogged
    BY DEF IInv, StoreOK, DeliveredLogged
  <1> QED BY <1>1, InvariantHolds, PTL
-----------------------------------------------------------------------------
(***************************************************************************)
(* The two bounds on what concurrent handlers let through. Each counts what *)
(* has got out together with the handlers that can still let one more out.  *)
(***************************************************************************)

\* The handlers that are past is_agent_killed and have recorded no token yet.
PastCheck(a) ==
    {w \in Worker : req[w].agent = a /\ req[w].stage \in {"eval", "decided"}}

\* After a kill has returned a request of the agent can no longer pass the check,
\* so every handler past it is one that will leave at most one live row.
LeakInv ==
    \A a \in killedDone :
      /\ a \in killedAgents
      /\ Cardinality(Live(a)) + Cardinality(PastCheck(a)) <= Cardinality(Worker)

\* The handlers whose real request in session s is allowed and not yet answered,
\* and those of them that record_action has counted.
Admitted(s) ==
    {w \in Worker : req[w].sid = s /\ ~req[w].dry /\ req[w].decision = "allow"}
Counted(s) == {w \in Admitted(s) : req[w].stage \in {"acted", "answer"}}

\* A token in a handler's hands is one of its own session.
HandOK(r) ==
    r.token # 0 => /\ r.decision = "allow" /\ ~r.dry
                   /\ tokens[r.token].sid = r.sid
                   /\ r.stage \in {"recorded", "acted", "answer"}

\* Every token delivered has been counted in its session before; when one more
\* request is admitted, the count is still below the limit.
SessionCount(s) ==
    /\ ~sessions[s].open => sessions[s].actions = 0
    /\ Cardinality(Granted(s)) + Cardinality(Counted(s)) <= sessions[s].actions
    /\ Cardinality(Granted(s)) + Cardinality(Admitted(s))
         <= SessionLimit + Cardinality(Worker) - 1

CountInv ==
    /\ \A s \in Sid : SessionCount(s)
    /\ \A t \in 1..Len(tokens) : tokens[t].boot <= restarts
    /\ \A w \in Worker : HandOK(req[w])
-----------------------------------------------------------------------------
\* Cardinalities of the sets that are counted.
LEMMA CardSubset ==
    ASSUME NEW T, IsFiniteSet(T), NEW S, S \subseteq T
    PROVE  /\ IsFiniteSet(S) /\ Cardinality(S) \in Nat /\ Cardinality(T) \in Nat
           /\ Cardinality(S) <= Cardinality(T)
  <1>1. S \in SUBSET T
    OBVIOUS
  <1> QED BY <1>1, FS_Subset, FS_CardinalityType

LEMMA CardAtMostOneMore ==
    ASSUME NEW T, IsFiniteSet(T), NEW x, NEW S, S \subseteq T \cup {x}
    PROVE  /\ IsFiniteSet(S) /\ Cardinality(S) \in Nat
           /\ Cardinality(S) <= Cardinality(T) + 1
  <1>1. /\ IsFiniteSet(T \cup {x}) /\ Cardinality(T) \in Nat
        /\ Cardinality(T \cup {x}) <= Cardinality(T) + 1
    BY FS_AddElement, FS_CardinalityType
  <1>2. /\ IsFiniteSet(S) /\ Cardinality(S) \in Nat
        /\ Cardinality(S) <= Cardinality(T \cup {x})
        /\ Cardinality(T \cup {x}) \in Nat
    BY <1>1, CardSubset
  <1> QED BY <1>1, <1>2

LEMMA CardOneLess ==
    ASSUME NEW T, IsFiniteSet(T), NEW x \in T, NEW S, S \subseteq T \ {x}
    PROVE  /\ IsFiniteSet(S) /\ Cardinality(S) \in Nat
           /\ Cardinality(S) + 1 <= Cardinality(T)
  <1>1. /\ IsFiniteSet(T \ {x}) /\ Cardinality(T) \in Nat
        /\ Cardinality(T \ {x}) = Cardinality(T) - 1
    BY FS_RemoveElement, FS_CardinalityType
  <1>2. /\ IsFiniteSet(S) /\ Cardinality(S) \in Nat
        /\ Cardinality(S) <= Cardinality(T \ {x})
        /\ Cardinality(T \ {x}) \in Nat
    BY <1>1, CardSubset
  <1> QED BY <1>1, <1>2

\* The sets are finite: rows, handlers.
LEMMA CountsFinite ==
    ASSUME IInv
    PROVE  /\ IsFiniteSet(1..Len(tokens)) /\ IsFiniteSet(Worker)
           /\ Cardinality(Worker) \in Nat /\ Cardinality(Worker) >= 1
           /\ \A a : /\ IsFiniteSet(Live(a)) /\ Cardinality(Live(a)) \in Nat
                     /\ IsFiniteSet(PastCheck(a)) /\ Cardinality(PastCheck(a)) \in Nat
                     /\ Cardinality(PastCheck(a)) <= Cardinality(Worker)
           /\ \A s : /\ IsFiniteSet(Granted(s)) /\ Cardinality(Granted(s)) \in Nat
                     /\ IsFiniteSet(Admitted(s)) /\ Cardinality(Admitted(s)) \in Nat
                     /\ IsFiniteSet(Counted(s)) /\ Cardinality(Counted(s)) \in Nat
                     /\ Counted(s) \subseteq Admitted(s)
  <1>1. Len(tokens) \in Nat /\ delivered \subseteq 1..Len(tokens)
    BY DEF IInv, StoreOK
  <1>2. IsFiniteSet(1..Len(tokens))
    BY <1>1, FS_Interval
  <1>3. /\ IsFiniteSet(Worker) /\ Cardinality(Worker) \in Nat
        /\ Cardinality(Worker) >= 1
    BY WorkerAssumption, FS_CardinalityType, FS_EmptySet
  <1>4. ASSUME NEW a
        PROVE  /\ IsFiniteSet(Live(a)) /\ Cardinality(Live(a)) \in Nat
               /\ IsFiniteSet(PastCheck(a)) /\ Cardinality(PastCheck(a)) \in Nat
               /\ Cardinality(PastCheck(a)) <= Cardinality(Worker)
    <2>1. Live(a) \subseteq 1..Len(tokens) /\ PastCheck(a) \subseteq Worker
      BY DEF Live, PastCheck
    <2> QED BY <1>2, <1>3, <2>1, CardSubset
  <1>5. ASSUME NEW s
        PROVE  /\ IsFiniteSet(Granted(s)) /\ Cardinality(Granted(s)) \in Nat
               /\ IsFiniteSet(Admitted(s)) /\ Cardinality(Admitted(s)) \in Nat
               /\ IsFiniteSet(Counted(s)) /\ Cardinality(Counted(s)) \in Nat
               /\ Counted(s) \subseteq Admitted(s)
    <2>1. /\ Granted(s) \subseteq 1..Len(tokens) /\ Admitted(s) \subseteq Worker
          /\ Counted(s) \subseteq Worker /\ Counted(s) \subseteq Admitted(s)
      BY <1>1 DEF Granted, Admitted, Counted
    <2> QED BY <1>2, <1>3, <2>1, CardSubset
  <1> QED BY <1>2, <1>3, <1>4, <1>5

-----------------------------------------------------------------------------
\* A step that takes no agent past the check and adds no live row keeps LeakInv.
LEMMA LeakShrinks ==
    ASSUME IInv, IInv', LeakInv,
           killedDone' \subseteq killedDone, killedDone' \subseteq killedAgents',
           \A a \in killedDone' : /\ Live(a)' \subseteq Live(a)
                                  /\ PastCheck(a)' \subseteq PastCheck(a)
    PROVE  LeakInv'
  <1> SUFFICES ASSUME NEW a \in killedDone'
               PROVE  Cardinality(Live(a)') + Cardinality(PastCheck(a)')
                        <= Cardinality(Worker)
    BY DEF LeakInv
  <1>1. /\ Cardinality(Live(a)') <= Cardinality(Live(a))
        /\ Cardinality(PastCheck(a)') <= Cardinality(PastCheck(a))
        /\ Cardinality(Live(a)') \in Nat /\ Cardinality(PastCheck(a)') \in Nat
    BY CountsFinite, CardSubset
  <1>2. Cardinality(Live(a)) + Cardinality(PastCheck(a)) <= Cardinality(Worker)
    BY DEF LeakInv
  <1> QED BY <1>1, <1>2, CountsFinite

\* A worker's step that records no token: of the agents whose kill has returned
\* none gets past is_agent_killed.
LEMMA LeakWorker ==
    ASSUME IInv, IInv', LeakInv, NEW w \in Worker, NEW r \in Request,
           req' = [req EXCEPT ![w] = r],
           UNCHANGED <<killedAgents, tokens, killedDone>>,
           r.stage \in {"eval", "decided"} =>
             /\ r.agent = req[w].agent
             /\ req[w].stage \in {"eval", "decided"} \/ r.agent \notin killedAgents
    PROVE  LeakInv'
  <1>1. req'[w] = r /\ \A x \in Worker \ {w} : req'[x] = req[x]
    BY DEF IInv
  <1>2. ASSUME NEW a \in killedDone' PROVE PastCheck(a)' \subseteq PastCheck(a)
    <2>1. a \in killedAgents
      BY DEF LeakInv
    <2> SUFFICES ASSUME NEW x \in Worker, req'[x].agent = a,
                        req'[x].stage \in {"eval", "decided"}
                 PROVE  req[x].agent = a /\ req[x].stage \in {"eval", "decided"}
      BY DEF PastCheck
    <2>2. CASE x = w
      BY <1>1, <2>1, <2>2
    <2>3. CASE x # w
      BY <1>1, <2>3
    <2> QED BY <2>2, <2>3
  <1>3. \A a : Live(a)' = Live(a)
    BY DEF Live
  <1>4. killedDone' \subseteq killedDone /\ killedDone' \subseteq killedAgents'
    BY DEF LeakInv
  <1> QED BY <1>2, <1>3, <1>4, LeakShrinks

\* A token is recorded: one handler less that can, one live row more.
LEMMA LeakRecord ==
    ASSUME IInv, IInv', LeakInv, NEW w \in Worker, RecordToken(w)
    PROVE  LeakInv'
  <1> DEFINE row == [agent |-> req[w].agent, sid |-> req[w].sid, boot |-> restarts,
                     revoked |-> FALSE]
             n == Len(tokens) + 1
  <1>1. /\ req[w].stage = "decided" /\ tokens' = Append(tokens, row)
        /\ UNCHANGED <<killedAgents, killedDone>>
    BY DEF RecordToken, store
  <1>2. /\ \A x \in Worker \ {w} : req'[x] = req[x]
        /\ req'[w].stage = "recorded"
    BY AtRequest DEF RecordToken, IInv, Request
  <1>3. /\ Len(tokens) \in Nat /\ Len(tokens)' = n
        /\ \A t \in 1..Len(tokens) : tokens'[t] = tokens[t]
        /\ tokens'[n] = row
    <2>1. tokens \in Seq(TokenRow) /\ tokens' \in Seq(TokenRow)
      BY DEF IInv, StoreOK
    <2> HIDE DEF row
    <2> QED BY <1>1, <2>1
  <1>4. row.agent = req[w].agent
    OBVIOUS
  <1> HIDE DEF row
  <1> SUFFICES ASSUME NEW a \in killedDone'
               PROVE  /\ a \in killedAgents'
                      /\ Cardinality(Live(a)') + Cardinality(PastCheck(a)')
                           <= Cardinality(Worker)
    BY DEF LeakInv
  <1>5. /\ a \in killedAgents'
        /\ Cardinality(Live(a)) + Cardinality(PastCheck(a)) <= Cardinality(Worker)
    BY <1>1 DEF LeakInv
  <1>6. CASE req[w].agent = a
    <2>1. w \in PastCheck(a) /\ PastCheck(a)' \subseteq PastCheck(a) \ {w}
      BY <1>1, <1>2, <1>6 DEF PastCheck
    <2>2. Live(a)' \subseteq Live(a) \cup {n}
      BY <1>3 DEF Live
    <2>3. /\ Cardinality(PastCheck(a)') \in Nat
          /\ Cardinality(PastCheck(a)') + 1 <= Cardinality(PastCheck(a))
      BY <2>1, CountsFinite, CardOneLess
    <2>4. /\ Cardinality(Live(a)') \in Nat
          /\ Cardinality(Live(a)') <= Cardinality(Live(a)) + 1
      BY <2>2, CountsFinite, CardAtMostOneMore
    <2> QED BY <1>5, <2>3, <2>4, CountsFinite
  <1>7. CASE req[w].agent # a
    <2>1. PastCheck(a)' \subseteq PastCheck(a)
      BY <1>2 DEF PastCheck
    <2>2. Live(a)' \subseteq Live(a)
      BY <1>3, <1>4, <1>7 DEF Live
    <2>3. /\ Cardinality(Live(a)') <= Cardinality(Live(a))
          /\ Cardinality(PastCheck(a)') <= Cardinality(PastCheck(a))
          /\ Cardinality(Live(a)') \in Nat /\ Cardinality(PastCheck(a)') \in Nat
      BY <2>1, <2>2, CountsFinite, CardSubset
    <2> QED BY <1>5, <2>3, CountsFinite
  <1> QED BY <1>6, <1>7

\* A kill returns: none of the agent's rows is live, and it has at most as many
\* handlers past the check as there are.
LEMMA LeakKill ==
    ASSUME IInv, IInv', LeakInv, NEW o \in Console, KillTokens(o)
    PROVE  LeakInv'
  <1> DEFINE b == admin[o].agent
  <1>1. /\ tokens' = [t \in 1..Len(tokens) |->
                        IF tokens[t].agent = b
                        THEN [tokens[t] EXCEPT !.revoked = TRUE] ELSE tokens[t]]
        /\ killedDone' = killedDone \cup ({b} \cap killedAgents)
        /\ UNCHANGED <<killedAgents, req>>
    BY DEF KillTokens, store
  <1>2. Len(tokens) \in Nat /\ Len(tokens)' = Len(tokens)
    BY <1>1 DEF IInv, StoreOK
  <1>3. ASSUME NEW t \in 1..Len(tokens)
        PROVE  /\ tokens'[t].agent = tokens[t].agent
               /\ tokens[t].revoked => tokens'[t].revoked
               /\ tokens[t].agent = b => tokens'[t].revoked
    <2>1. tokens[t] \in TokenRow
      BY DEF IInv, StoreOK
    <2>2. tokens'[t] = IF tokens[t].agent = b
                       THEN [tokens[t] EXCEPT !.revoked = TRUE] ELSE tokens[t]
      BY <1>1
    <2> QED BY <2>1, <2>2 DEF TokenRow
  <1> HIDE DEF b
  <1> SUFFICES ASSUME NEW a \in killedDone'
               PROVE  /\ a \in killedAgents'
                      /\ Cardinality(Live(a)') + Cardinality(PastCheck(a)')
                           <= Cardinality(Worker)
    BY DEF LeakInv
  <1>4. PastCheck(a)' = PastCheck(a)
    BY <1>1 DEF PastCheck
  <1>5. CASE a = b
    <2>1. Live(a)' = {}
      BY <1>2, <1>3, <1>5 DEF Live
    <2>2. Cardinality(Live(a)') = 0
      BY <2>1, FS_EmptySet
    <2>3. a \in killedAgents'
      BY <1>1, <1>5 DEF LeakInv
    <2> QED BY <1>4, <2>2, <2>3, CountsFinite
  <1>6. CASE a # b
    <2>1. a \in killedDone
      BY <1>1, <1>6
    <2>2. Live(a)' \subseteq Live(a)
      BY <1>2, <1>3 DEF Live
    <2>3. Cardinality(Live(a)') <= Cardinality(Live(a))
          /\ Cardinality(Live(a)') \in Nat
      BY <2>2, CountsFinite, CardSubset
    <2> QED BY <1>1, <1>4, <2>1, <2>3, CountsFinite DEF LeakInv
  <1> QED BY <1>5, <1>6

LEMMA LeakHandler ==
    ASSUME IInv, IInv', LeakInv, NEW w \in Worker, Handler(w)
    PROVE  LeakInv'
  <1>1. req[w] \in Request
    BY AtRequest
  <1>2. ASSUME NEW r \in Request, req' = [req EXCEPT ![w] = r],
               UNCHANGED <<killedAgents, tokens, killedDone>>,
               r.stage \in {"eval", "decided"} =>
                 /\ r.agent = req[w].agent
                 /\ req[w].stage \in {"eval", "decided"} \/ r.agent \notin killedAgents
        PROVE  LeakInv'
    BY <1>2, LeakWorker
  <1>3. /\ req \in [Worker -> Request] /\ req' \in [Worker -> Request]
        /\ req'[w] \in Request
    BY DEF IInv
  <1>4. ASSUME NEW a \in Agent, NEW x \in Action,
               \/ \E s \in Sid : Arrive(w, a, s, x)
               \/ \E s \in Sid \cup {NoSid} : ArriveDry(w, a, s, x)
        PROVE  LeakInv'
    <2>1. UNCHANGED <<killedAgents, tokens, killedDone>>
      BY <1>4 DEF Arrive, ArriveDry, store, db
    <2>2. ASSUME NEW s \in Sid, Arrive(w, a, s, x)
          PROVE  /\ req' = [req EXCEPT ![w] = req'[w]]
                 /\ req'[w].stage \in {"answer", "check"}
      BY <1>3, <2>2 DEF Arrive, Idle
    <2>3. ASSUME NEW s \in Sid \cup {NoSid}, ArriveDry(w, a, s, x)
          PROVE  /\ req' = [req EXCEPT ![w] = req'[w]]
                 /\ req'[w].stage \in {"answer", "check"}
      BY <1>3, <2>3 DEF ArriveDry, Idle
    <2> QED BY <1>2, <1>3, <1>4, <2>1, <2>2, <2>3
  <1>5. CASE CheckAgent(w)
    <2>1. UNCHANGED <<killedAgents, tokens, killedDone>>
      BY <1>5 DEF CheckAgent, store, db
    <2>2. /\ req' = [req EXCEPT ![w] = req'[w]]
          /\ req'[w].agent = req[w].agent
          /\ req'[w].stage = "eval" => req[w].agent \notin killedAgents
          /\ req'[w].stage # "decided"
      BY <1>1, <1>5 DEF CheckAgent, IInv, Request
    <2> QED BY <1>2, <1>3, <2>1, <2>2
  <1>6. CASE Evaluate(w) \/ CreateApproval(w) \/ RecordAction(w) \/ Audit(w)
    <2>1. UNCHANGED <<killedAgents, tokens, killedDone>>
      BY <1>6 DEF Evaluate, CreateApproval, RecordAction, Audit, store, db
    <2>2. CASE Evaluate(w)
      <3>1. PICK d \in Decisions(w), st \in {"acted", "decided"} :
              req' = [req EXCEPT ![w].decision = d, ![w].stage = st]
        BY <2>2 DEF Evaluate
      <3>2. /\ req' = [req EXCEPT ![w] = req'[w]]
            /\ req'[w].agent = req[w].agent /\ req[w].stage = "eval"
        BY <1>1, <1>3, <2>2, <3>1 DEF Evaluate, Request
      <3> QED BY <1>2, <1>3, <2>1, <3>2
    <2>3. CASE CreateApproval(w) \/ RecordAction(w) \/ Audit(w)
      <3>1. PICK st \in {"recorded", "acted", "answer"} :
              req' = [req EXCEPT ![w].stage = st]
        BY <2>3 DEF CreateApproval, RecordAction, Audit
      <3>2. /\ req' = [req EXCEPT ![w] = req'[w]]
            /\ req'[w].stage \in {"recorded", "acted", "answer"}
        BY <1>1, <1>3, <3>1 DEF Request
      <3> QED BY <1>2, <1>3, <2>1, <3>2
    <2> QED BY <1>6, <2>2, <2>3
  <1>7. CASE Respond(w) \/ Drop(w)
    <2>1. /\ UNCHANGED <<killedAgents, tokens, killedDone>>
          /\ req' = [req EXCEPT ![w] = Idle]
      BY <1>7 DEF Respond, Drop, store, db
    <2> QED BY <1>2, <2>1, IdleTyped
  <1>8. CASE RecordToken(w)
    BY <1>8, LeakRecord
  <1> QED BY <1>4, <1>5, <1>6, <1>7, <1>8 DEF Handler

LEMMA LeakOperator ==
    ASSUME IInv, IInv', LeakInv, NEW o \in Console, Operator(o)
    PROVE  LeakInv'
  <1>1. ASSUME NEW a \in Agent, KillAgent(o, a) PROVE LeakInv'
    <2>1. /\ UNCHANGED <<req, tokens, killedDone>>
          /\ killedAgents \subseteq killedAgents'
      BY <1>1 DEF KillAgent, db
    <2>2. \A b : Live(b)' = Live(b) /\ PastCheck(b)' = PastCheck(b)
      BY <2>1 DEF Live, PastCheck
    <2>3. killedDone' \subseteq killedDone /\ killedDone' \subseteq killedAgents'
      BY <2>1 DEF LeakInv
    <2> QED BY <2>2, <2>3, LeakShrinks
  <1>2. CASE KillFails(o)
    <2>1. UNCHANGED <<req, tokens, killedDone, killedAgents>>
      BY <1>2 DEF KillFails, store, db
    <2> QED BY <2>1 DEF LeakInv, Live, PastCheck
  <1>3. ASSUME (\E a \in Agent : RestoreAgent(o, a)) \/ RestoreSessions(o)
        PROVE  LeakInv'
    <2>1. /\ UNCHANGED tokens /\ killedDone' \subseteq killedDone
          /\ killedDone' \subseteq killedAgents'
          /\ req' = Released(killedAgents', sessions')
      BY <1>3 DEF RestoreAgent, RestoreSessions, db, LeakInv
    <2>2. ASSUME NEW x \in Worker
          PROVE  req'[x].agent = req[x].agent /\ req'[x].stage = req[x].stage
      BY <2>1, AtRequest DEF Released, Request
    <2>3. \A b : Live(b)' = Live(b) /\ PastCheck(b)' = PastCheck(b)
      BY <2>1, <2>2 DEF Live, PastCheck
    <2> QED BY <2>1, <2>3, LeakShrinks
  <1> QED BY <1>1, <1>2, <1>3, LeakKill DEF Operator

LEMMA LeakNext == IInv /\ IInv' /\ LeakInv /\ [Next]_vars => LeakInv'
  <1> SUFFICES ASSUME IInv, IInv', LeakInv, [Next]_vars PROVE LeakInv'
    OBVIOUS
  <1>1. CASE UNCHANGED vars
    BY <1>1 DEF vars, store, db, LeakInv, Live, PastCheck
  <1>2. ASSUME NEW s \in Sid, KillSession(s) PROVE LeakInv'
    BY <1>2 DEF KillSession, db, LeakInv, Live, PastCheck
  <1>3. CASE Restart
    BY <1>3 DEF Restart, LeakInv
  <1> QED BY <1>1, <1>2, <1>3, LeakHandler, LeakOperator DEF Next

\* However many operators, agents and handlers there are, and whatever is restored
\* and killed again, a kill_agent that has returned leaves at most one live token
\* row of the agent for each request in flight.
THEOREM KillLeakBoundedCorrect == Spec => []KillLeakBounded
  <1>1. Init => LeakInv
    BY DEF Init, LeakInv
  <1>2. IInv /\ LeakInv => KillLeakBounded
    BY CountsFinite DEF LeakInv, KillLeakBounded
  <1> QED BY <1>1, <1>2, LeakNext, InvariantHolds, PTL DEF Spec

-----------------------------------------------------------------------------
\* Finite sets of naturals have a largest member: take a smallest non-empty part
\* of the set that has none.
LEMMA FiniteMax ==
    ASSUME NEW S \in SUBSET Nat, IsFiniteSet(S), S # {}
    PROVE  \E n \in S : \A k \in S : k <= n
  <1> DEFINE NoMax == {T \in SUBSET S : T # {} /\ ~\E n \in T : \A k \in T : k <= n}
  <1>1. SUFFICES NoMax = {}
    <2>1. S \in SUBSET S
      OBVIOUS
    <2> QED BY <2>1
  <1>2. IsWellFoundedOn(StrictSubsetOrdering(S), SUBSET S)
    BY FS_StrictSubsetOrderingWellFounded, FS_FiniteSubsetsOfFinite
  <1>3. NoMax \subseteq SUBSET S
    OBVIOUS
  <1>4. SUFFICES ASSUME NEW T \in NoMax,
                        \A U \in NoMax : <<U, T>> \notin StrictSubsetOrdering(S)
                 PROVE  FALSE
    <2> HIDE DEF NoMax
    <2> QED BY <1>2, <1>3, WFMin
  <1>5. PICK x \in T : TRUE
    OBVIOUS
  <1>6. CASE T \ {x} = {}
    BY <1>5, <1>6
  <1>7. CASE T \ {x} # {}
    <2>1. <<T \ {x}, T>> \in StrictSubsetOrdering(S)
      BY <1>5 DEF StrictSubsetOrdering
    <2>2. PICK n \in T \ {x} : \A k \in T \ {x} : k <= n
      BY <1>4, <1>7, <2>1
    <2>3. n \in Nat /\ x \in Nat /\ T \subseteq Nat
      BY <1>5
    <2>4. \E m \in T : \A k \in T : k <= m
      <3>1. CASE x <= n
        BY <2>2, <3>1
      <3>2. CASE n < x
        <4>1. \A k \in T : k <= x
          BY <2>2, <2>3, <3>2
        <4> QED BY <1>5, <4>1
      <3> QED BY <2>3, <3>1, <3>2
    <2> QED BY <2>4
  <1> QED BY <1>6, <1>7

\* The limit is a bound on the rules that allow.
LEMMA LimitBinds ==
    /\ SessionLimit \in Nat
    /\ \A x \in Action : Rule[x].decision = "allow" => Rule[x].maxActions <= SessionLimit
  <1> DEFINE rules == {Rule[x] : x \in Action}
             f == [r \in rules |-> r.maxActions]
             all == {f[r] : r \in rules}
  <1>1. /\ IsFiniteSet(rules)
        /\ \A x \in Action : Rule[x] \in rules /\ Rule[x].maxActions \in Nat
    BY RuleAssumption DEF Rules
  <1>2. f \in Surjection(rules, all)
    BY DEF Surjection
  <1>3. IsFiniteSet(all)
    <2> HIDE DEF rules, f, all
    <2> QED BY <1>1, <1>2, FS_Surjection
  <1>4. AllowLimits \subseteq all \cup {0} /\ AllowLimits \subseteq Nat
    BY <1>1 DEF AllowLimits
  <1>5. IsFiniteSet(AllowLimits)
    <2> HIDE DEF all
    <2> QED BY <1>3, <1>4, CardAtMostOneMore
  <1>6. \E n \in AllowLimits : \A k \in AllowLimits : k <= n
    <2>1. AllowLimits \in SUBSET Nat /\ AllowLimits # {}
      BY <1>4 DEF AllowLimits
    <2> QED BY <1>5, <2>1, FiniteMax
  <1>7. SessionLimit \in AllowLimits /\ \A k \in AllowLimits : k <= SessionLimit
    BY <1>6 DEF SessionLimit
  <1>8. \A x \in Action : Rule[x].decision = "allow" => Rule[x].maxActions \in AllowLimits
    BY DEF AllowLimits
  <1> QED BY <1>4, <1>7, <1>8

\* The rows of the tokens table: their session and process life stay.
RowsKept ==
    /\ Len(tokens) <= Len(tokens')
    /\ \A t \in 1..Len(tokens) : /\ tokens'[t].sid = tokens[t].sid
                                 /\ tokens'[t].boot = tokens[t].boot
    /\ \A t \in 1..Len(tokens') : tokens'[t].boot <= restarts

LEMMA SameRows ==
    ASSUME IInv, CountInv, UNCHANGED <<tokens, restarts>>
    PROVE  RowsKept
  BY DEF RowsKept, CountInv, IInv, StoreOK

\* A session in which nothing more is granted, admitted or counted.
LEMMA CountFewer ==
    ASSUME IInv, IInv', NEW s \in Sid, SessionCount(s),
           Granted(s)' \subseteq Granted(s), Admitted(s)' \subseteq Admitted(s),
           Counted(s)' \subseteq Counted(s),
           sessions[s].actions <= sessions'[s].actions,
           ~sessions'[s].open => sessions'[s].actions = 0
    PROVE  SessionCount(s)'
  <1>1. /\ Cardinality(Granted(s)') <= Cardinality(Granted(s))
        /\ Cardinality(Admitted(s)') <= Cardinality(Admitted(s))
        /\ Cardinality(Counted(s)') <= Cardinality(Counted(s))
        /\ Cardinality(Granted(s)') \in Nat /\ Cardinality(Admitted(s)') \in Nat
        /\ Cardinality(Counted(s)') \in Nat
    BY CountsFinite, CardSubset
  <1>2. sessions[s].actions \in Nat /\ sessions'[s].actions \in Nat
    BY SessionFields DEF IInv, StoreOK
  <1> QED BY <1>1, <1>2, CountsFinite, LimitBinds DEF SessionCount

\* The tokens delivered are those of the sessions of their rows.
LEMMA GrantedKept ==
    ASSUME IInv, RowsKept, UNCHANGED <<delivered, restarts>>, NEW s
    PROVE  Granted(s)' = Granted(s)
  <1>1. delivered \subseteq 1..Len(tokens)
    BY DEF IInv, StoreOK
  <1> QED BY <1>1 DEF Granted, RowsKept

\* The handlers that take no step hold their tokens still.
LEMMA HandsKept ==
    ASSUME IInv, IInv', CountInv, RowsKept, NEW w,
           \A x \in Worker \ {w} : req'[x] = req[x],
           w \in Worker => HandOK(req[w])'
    PROVE  \A x \in Worker : HandOK(req[x])'
  <1> SUFFICES ASSUME NEW x \in Worker, x # w PROVE HandOK(req[x])'
    OBVIOUS
  <1>1. req'[x] = req[x] /\ HandOK(req[x]) /\ req[x].token \in 0..Len(tokens)
    BY AtRequest DEF CountInv, ReqOK
  <1>2. Len(tokens) \in Nat
    BY DEF IInv, StoreOK
  <1>3. req[x].token # 0 => req[x].token \in 1..Len(tokens)
    BY <1>1, <1>2
  <1> QED BY <1>1, <1>3 DEF HandOK, RowsKept

\* A worker's step that admits and counts nothing new.
LEMMA CountWorker ==
    ASSUME IInv, IInv', CountInv, RowsKept, NEW w \in Worker, NEW r \in Request,
           req' = [req EXCEPT ![w] = r], HandOK(r)',
           UNCHANGED <<delivered, restarts>>,
           \A s \in Sid : /\ sessions[s].actions <= sessions'[s].actions
                          /\ ~sessions'[s].open => sessions'[s].actions = 0,
           r.decision = "allow" /\ ~r.dry =>
             /\ req[w].decision = "allow" /\ ~req[w].dry /\ req[w].sid = r.sid
             /\ r.stage \in {"acted", "answer"} => req[w].stage \in {"acted", "answer"}
    PROVE  CountInv'
  <1>1. req'[w] = r /\ \A x \in Worker \ {w} : req'[x] = req[x]
    BY DEF IInv
  <1>2. ASSUME NEW s \in Sid PROVE SessionCount(s)'
    <2>1. Admitted(s)' \subseteq Admitted(s)
      BY <1>1 DEF Admitted
    <2>2. Counted(s)' \subseteq Counted(s)
      BY <1>1, <2>1 DEF Counted, Admitted
    <2>3. Granted(s)' \subseteq Granted(s)
      BY GrantedKept
    <2> QED BY <2>1, <2>2, <2>3, CountFewer DEF CountInv
  <1>3. HandOK(req[w])'
    BY <1>1 DEF HandOK
  <1>4. \A x \in Worker : HandOK(req[x])'
    BY <1>1, <1>3, HandsKept
  <1> QED BY <1>2, <1>4 DEF CountInv, RowsKept

\* The count of a session that stays as it is.
LEMMA ActionsKept ==
    ASSUME IInv, CountInv, UNCHANGED sessions
    PROVE  \A s \in Sid : /\ sessions[s].actions <= sessions'[s].actions
                          /\ ~sessions'[s].open => sessions'[s].actions = 0
  BY SessionFields DEF IInv, StoreOK, CountInv, SessionCount

LEMMA CountArrive ==
    ASSUME IInv, IInv', CountInv, NEW w \in Worker, NEW a \in Agent, NEW x \in Action,
           \/ \E s \in Sid : Arrive(w, a, s, x)
           \/ \E s \in Sid \cup {NoSid} : ArriveDry(w, a, s, x)
    PROVE  CountInv'
  <1>1. UNCHANGED <<tokens, delivered, restarts>>
    BY DEF Arrive, ArriveDry, store, db
  <1>2. PICK r \in Request : req' = [req EXCEPT ![w] = r] /\ r.token = 0
                             /\ r.decision \in {"none", "deny"}
    <2>1. req \in [Worker -> Request] /\ req' \in [Worker -> Request]
      BY DEF IInv
    <2>2. ASSUME NEW s \in Sid, Arrive(w, a, s, x)
          PROVE  /\ req' = [req EXCEPT ![w] = req'[w]] /\ req'[w].token = 0
                 /\ req'[w].decision \in {"none", "deny"}
      BY <2>1, <2>2 DEF Arrive, Idle
    <2>3. ASSUME NEW s \in Sid \cup {NoSid}, ArriveDry(w, a, s, x)
          PROVE  /\ req' = [req EXCEPT ![w] = req'[w]] /\ req'[w].token = 0
                 /\ req'[w].decision \in {"none", "deny"}
      BY <2>1, <2>3 DEF ArriveDry, Idle
    <2> QED BY <2>1, <2>2, <2>3
  <1>3. ASSUME NEW s \in Sid
        PROVE  /\ sessions[s].actions <= sessions'[s].actions
               /\ ~sessions'[s].open => sessions'[s].actions = 0
    <2>1. /\ sessions \in [Sid -> Session] /\ sessions' \in [Sid -> Session]
          /\ sessions[s].actions \in Nat
          /\ ~sessions[s].open => sessions[s].actions = 0
      BY SessionFields DEF IInv, StoreOK, CountInv, SessionCount
    <2>2. CASE UNCHANGED sessions
      BY <2>1, <2>2
    <2>3. ASSUME NEW z \in Sid, ~sessions[z].open,
                 sessions' = [sessions EXCEPT ![z] =
                                [NoSession EXCEPT !.open = TRUE, !.agent = a]]
          PROVE  /\ sessions[s].actions <= sessions'[s].actions
                 /\ ~sessions'[s].open => sessions'[s].actions = 0
      <3>1. CASE s = z
        BY <2>1, <2>3, <3>1 DEF NoSession
      <3>2. CASE s # z
        BY <2>1, <2>3, <3>2
      <3> QED BY <3>1, <3>2
    <2>4. \/ UNCHANGED sessions
          \/ \E z \in Sid : /\ ~sessions[z].open
                            /\ sessions' = [sessions EXCEPT ![z] =
                                 [NoSession EXCEPT !.open = TRUE, !.agent = a]]
      BY DEF Arrive, ArriveDry, OpenSession, Open, store
    <2> QED BY <2>2, <2>3, <2>4
  <1>4. RowsKept
    BY <1>1, SameRows
  <1>5. HandOK(r)'
    BY <1>2 DEF HandOK
  <1> QED BY <1>1, <1>2, <1>3, <1>4, <1>5, CountWorker

\* A handler that was past the evaluation goes on.
LEMMA CountStage ==
    ASSUME IInv, IInv', CountInv, NEW w \in Worker,
           CreateApproval(w) \/ Audit(w) \/ RecordToken(w)
    PROVE  CountInv'
  <1> DEFINE q == req[w]
  <1>1. q \in Request /\ ReqOK(q) /\ HandOK(q)
    BY AtRequest DEF CountInv
  <1>2. /\ req \in [Worker -> Request] /\ req' \in [Worker -> Request]
        /\ tokens \in Seq(TokenRow) /\ tokens' \in Seq(TokenRow)
        /\ restarts \in Nat
    BY DEF IInv, StoreOK
  <1>3. UNCHANGED <<sessions, delivered, restarts>>
    BY DEF CreateApproval, Audit, RecordToken, store
  <1>4. CASE CreateApproval(w) \/ Audit(w)
    <2>1. PICK st \in {"recorded", "answer"} :
            /\ req' = [req EXCEPT ![w].stage = st]
            /\ st = "answer" => q.stage = "acted"
            /\ st = "recorded" => q.decision = "approval"
      BY <1>4 DEF CreateApproval, Audit
    <2>2. UNCHANGED tokens
      BY <1>4 DEF CreateApproval, Audit
    <2>3. PICK r \in Request : r = req'[w]
      BY <1>2
    <2>4. /\ req' = [req EXCEPT ![w] = r]
          /\ r.stage = st /\ r.decision = q.decision /\ r.dry = q.dry
          /\ r.sid = q.sid /\ r.token = q.token
      BY <1>1, <1>2, <2>1, <2>3 DEF Request
    <2>5. HandOK(r)'
      <3> HIDE DEF q
      <3> QED BY <1>1, <2>1, <2>2, <2>4 DEF HandOK
    <2>6. RowsKept
      BY <1>3, <2>2, SameRows
    <2> HIDE DEF q
    <2>7. r.decision = "allow" /\ ~r.dry =>
            /\ q.decision = "allow" /\ ~q.dry /\ q.sid = r.sid
            /\ r.stage \in {"acted", "answer"} => q.stage \in {"acted", "answer"}
      BY <2>1, <2>4
    <2> USE DEF q
    <2> QED BY <1>3, <2>4, <2>5, <2>6, <2>7, CountWorker, ActionsKept
  <1>5. CASE RecordToken(w)
    <2> DEFINE row == [agent |-> q.agent, sid |-> q.sid, boot |-> restarts,
                       revoked |-> FALSE]
               n == Len(tokens) + 1
    <2>1. /\ q.stage = "decided" /\ q.decision = "allow" /\ ~q.dry
          /\ tokens' = Append(tokens, row)
          /\ req' = [req EXCEPT ![w].stage = "recorded", ![w].token = n]
      BY <1>1, <1>5 DEF RecordToken, ReqOK
    <2>2. PICK r \in Request : r = req'[w]
      BY <1>2
    <2>3. /\ req' = [req EXCEPT ![w] = r]
          /\ r.stage = "recorded" /\ r.decision = q.decision /\ r.dry = q.dry
          /\ r.sid = q.sid /\ r.token = n
      BY <1>1, <1>2, <2>1, <2>2 DEF Request
    <2>4. row.sid = q.sid /\ row.boot = restarts
      OBVIOUS
    <2> HIDE DEF row, q
    <2>5. /\ Len(tokens) \in Nat /\ Len(tokens') = n
          /\ \A t \in 1..Len(tokens) : tokens'[t] = tokens[t]
          /\ tokens'[n] = row
      BY <1>2, <2>1
    <2>6. RowsKept
      BY <1>2, <2>4, <2>5 DEF RowsKept, CountInv
    <2>7. HandOK(r)'
      BY <2>1, <2>3, <2>4, <2>5 DEF HandOK
    <2>8. r.decision = "allow" /\ ~r.dry =>
            /\ q.decision = "allow" /\ ~q.dry /\ q.sid = r.sid
            /\ r.stage \in {"acted", "answer"} => q.stage \in {"acted", "answer"}
      BY <2>1, <2>3
    <2> USE DEF q
    <2> QED BY <1>3, <2>3, <2>6, <2>7, <2>8, CountWorker, ActionsKept
  <1> QED BY <1>4, <1>5

LEMMA CountCheck ==
    ASSUME IInv, IInv', CountInv, NEW w \in Worker, CheckAgent(w) \/ Drop(w)
    PROVE  CountInv'
  <1>1. req \in [Worker -> Request] /\ req' \in [Worker -> Request]
    BY DEF IInv
  <1>2. UNCHANGED <<sessions, tokens, delivered, restarts>>
    BY DEF CheckAgent, Drop, store, db
  <1>3. RowsKept
    BY <1>2, SameRows
  <1>4. PICK r \in Request : r = req'[w]
    BY <1>1
  <1>5. /\ req' = [req EXCEPT ![w] = r]
        /\ r.token = 0 /\ r.decision \in {"none", "deny"}
    <2>1. CASE CheckAgent(w)
      <3>1. req[w] \in Request /\ req[w].token = 0 /\ req[w].decision = "none"
        BY <2>1, AtRequest DEF CheckAgent, ReqOK
      <3> QED BY <1>1, <1>4, <2>1, <3>1 DEF CheckAgent, Request
    <2>2. CASE Drop(w)
      BY <1>1, <1>4, <2>2, IdleTyped DEF Drop
    <2> QED BY <2>1, <2>2
  <1>6. HandOK(r)'
    BY <1>5 DEF HandOK
  <1> QED BY <1>2, <1>3, <1>5, <1>6, CountWorker, ActionsKept

\* A request is admitted while fewer actions than its rule's limit are counted in
\* its session: all handlers together are at most N more than those counted.
LEMMA CountEvaluate ==
    ASSUME IInv, IInv', CountInv, NEW w \in Worker, Evaluate(w)
    PROVE  CountInv'
  <1> DEFINE q == req[w]
             rule == Rule[q.action]
  <1>1. q \in Request /\ ReqOK(q) /\ q.stage = "eval" /\ q.token = 0
    BY AtRequest DEF Evaluate, ReqOK
  <1>2. req \in [Worker -> Request] /\ req' \in [Worker -> Request]
    BY DEF IInv
  <1>3. UNCHANGED <<sessions, tokens, delivered, restarts>>
    BY DEF Evaluate, store, db
  <1>4. PICK d \in Decisions(w) :
          req' = [req EXCEPT ![w].decision = d,
                             ![w].stage = IF q.dry THEN "acted" ELSE "decided"]
    BY DEF Evaluate
  <1>5. PICK r \in Request : r = req'[w]
    BY <1>2
  <1>6. /\ req' = [req EXCEPT ![w] = r] /\ r.decision = d /\ r.dry = q.dry
        /\ r.sid = q.sid /\ r.token = 0 /\ (~q.dry => r.stage = "decided")
    BY <1>1, <1>2, <1>4, <1>5 DEF Request
  <1>7. RowsKept
    BY <1>3, SameRows
  <1>8. HandOK(r)'
    BY <1>6 DEF HandOK
  <1>9. CASE d # "allow" \/ q.dry
    <2>1. ~(r.decision = "allow" /\ ~r.dry)
      BY <1>6, <1>9
    <2> HIDE DEF q, rule
    <2> QED BY <1>3, <1>6, <1>7, <1>8, <2>1, CountWorker, ActionsKept
  <1>10. CASE d = "allow" /\ ~q.dry
    <2> DEFINE z == q.sid
    <2>1. rule.decision = "allow" /\ ~Refused(rule, z) /\ q.action \in Action
      BY <1>1, <1>4, <1>10, RequestFields DEF Decisions
    <2>2. z \in Sid /\ sessions[z].open
      BY <1>1, <1>10 DEF ReqOK, Open
    <2>3. ~(sessions[z].actions >= rule.maxActions)
      BY <2>1, <2>2 DEF Refused, Open
    <2>4. rule.maxActions \in Nat /\ rule.maxActions <= SessionLimit
          /\ SessionLimit \in Nat
      BY <2>1, RuleAssumption, LimitBinds DEF Rules
    <2>5. sessions[z].actions \in Nat /\ sessions[z].actions + 1 <= SessionLimit
      <3>1. sessions[z].actions \in Nat
        BY <2>2, SessionFields DEF IInv, StoreOK
      <3> QED BY <2>3, <2>4, <3>1
    <2> HIDE DEF q, rule, z
    <2>6. req'[w] = r /\ \A x \in Worker \ {w} : req'[x] = req[x]
      BY <1>2, <1>6
    <2>7. ASSUME NEW s \in Sid PROVE SessionCount(s)'
      <3>1. Counted(s)' \subseteq Counted(s)
        BY <1>6, <1>10, <2>6 DEF Counted, Admitted
      <3>2. Granted(s)' = Granted(s)
        BY <1>3, <1>7, GrantedKept
      <3>3. CASE s = z
        <4>1. /\ Cardinality(Counted(s)') \in Nat
              /\ Cardinality(Counted(s)') <= Cardinality(Counted(s))
          BY <3>1, CountsFinite, CardSubset
        <4>2. /\ Cardinality(Granted(s)) + Cardinality(Counted(s)) <= sessions[s].actions
              /\ ~sessions'[s].open => sessions'[s].actions = 0
              /\ sessions'[s].actions = sessions[s].actions
          BY <1>3 DEF CountInv, SessionCount
        <4>3. /\ Cardinality(Admitted(s)') \in Nat
              /\ Cardinality(Admitted(s)') <= Cardinality(Worker)
          <5>1. Admitted(s)' \subseteq Worker
            BY DEF Admitted
          <5> QED BY <5>1, CountsFinite, CardSubset
        <4>4. Cardinality(Granted(s)) + 1 <= SessionLimit
          <5>1. sessions[s].actions \in Nat /\ sessions[s].actions + 1 <= SessionLimit
            BY <2>5, <3>3
          <5>2. Cardinality(Granted(s)) \in Nat /\ Cardinality(Counted(s)) \in Nat
            BY CountsFinite
          <5> QED BY <2>4, <4>2, <5>1, <5>2
        <4> QED BY <2>4, <3>2, <4>1, <4>2, <4>3, <4>4, CountsFinite, <2>5, <3>3
               DEF SessionCount
      <3>4. CASE s # z
        <4>1. Admitted(s)' \subseteq Admitted(s)
          BY <1>6, <2>6, <3>4 DEF Admitted, z
        <4> QED BY <3>1, <3>2, <4>1, CountFewer, ActionsKept, <1>3 DEF CountInv
      <3> QED BY <3>3, <3>4
    <2>8. HandOK(req[w])'
      BY <1>8, <2>6 DEF HandOK
    <2>9. \A x \in Worker : HandOK(req[x])'
      BY <1>7, <2>6, <2>8, HandsKept
    <2> QED BY <1>3, <1>7, <2>7, <2>9 DEF CountInv, RowsKept
  <1> QED BY <1>9, <1>10

\* record_action counts the request in its session.
LEMMA CountRecord ==
    ASSUME IInv, IInv', CountInv, NEW w \in Worker, RecordAction(w)
    PROVE  CountInv'
  <1> DEFINE q == req[w]
             z == q.sid
  <1>1. /\ q \in Request /\ ReqOK(q) /\ HandOK(q) /\ q.stage \in {"decided", "recorded"}
        /\ q.stage = "decided" => q.decision = "deny"
    BY AtRequest DEF RecordAction, CountInv
  <1>2. /\ req \in [Worker -> Request] /\ req' \in [Worker -> Request]
        /\ sessions \in [Sid -> Session] /\ sessions' \in [Sid -> Session]
    BY DEF IInv, StoreOK
  <1>3. UNCHANGED <<tokens, delivered, restarts>>
    BY DEF RecordAction, db
  <1>4. z \in Sid /\ sessions[z].open
    BY <1>1 DEF ReqOK, Open
  <1>5. /\ sessions'[z].open /\ sessions'[z].actions = sessions[z].actions + 1
        /\ \A s \in Sid \ {z} : sessions'[s] = sessions[s]
    <2>1. sessions' = [sessions EXCEPT ![z].actions = @ + 1,
                                       ![z].seen = @ \cup {q.action}]
      BY DEF RecordAction
    <2>2. sessions[z] \in Session
      BY <1>2, <1>4
    <2> HIDE DEF z, q
    <2> QED BY <1>2, <1>4, <2>1, <2>2 DEF Session
  <1>6. PICK r \in Request : r = req'[w]
    BY <1>2
  <1>7. /\ req' = [req EXCEPT ![w] = r] /\ r.stage = "acted"
        /\ r.decision = q.decision /\ r.dry = q.dry /\ r.sid = q.sid
        /\ r.token = q.token
    BY <1>1, <1>2, <1>6 DEF RecordAction, Request
  <1>8. req'[w] = r /\ \A x \in Worker \ {w} : req'[x] = req[x]
    BY <1>2, <1>7
  <1>9. RowsKept
    BY <1>3, SameRows
  <1>10. HandOK(r)'
    <2> HIDE DEF q
    <2> QED BY <1>1, <1>3, <1>7 DEF HandOK
  <1>11. ASSUME NEW s \in Sid PROVE SessionCount(s)'
    <2>1. Admitted(s)' \subseteq Admitted(s) /\ Granted(s)' = Granted(s)
      BY <1>3, <1>7, <1>8, <1>9, GrantedKept DEF Admitted
    <2>2. CASE s = z
      <3>1. Counted(s)' \subseteq Counted(s) \cup {w}
        BY <1>8, <2>1 DEF Counted, Admitted
      <3>2. /\ Cardinality(Counted(s)') \in Nat
            /\ Cardinality(Counted(s)') <= Cardinality(Counted(s)) + 1
            /\ Cardinality(Admitted(s)') \in Nat
            /\ Cardinality(Admitted(s)') <= Cardinality(Admitted(s))
        BY <2>1, <3>1, CountsFinite, CardAtMostOneMore, CardSubset
      <3>3. sessions'[s].open /\ sessions'[s].actions = sessions[s].actions + 1
            /\ sessions[s].actions \in Nat
        BY <1>2, <1>5, <2>2, SessionFields
      <3>4. SessionCount(s)
        BY DEF CountInv
      <3> HIDE DEF z, q
      <3> QED BY <2>1, <3>2, <3>3, <3>4, CountsFinite, LimitBinds DEF SessionCount
    <2>3. CASE s # z
      <3>1. Counted(s)' \subseteq Counted(s)
        BY <1>7, <1>8, <2>3 DEF Counted, Admitted
      <3>2. sessions'[s] = sessions[s]
        BY <1>5, <2>3
      <3>3. /\ sessions[s].actions <= sessions'[s].actions
            /\ ~sessions'[s].open => sessions'[s].actions = 0
        BY <1>2, <3>2, SessionFields DEF CountInv, SessionCount
      <3> HIDE DEF z, q
      <3> QED BY <2>1, <3>1, <3>3, CountFewer DEF CountInv
    <2> QED BY <2>2, <2>3
  <1>12. HandOK(req[w])'
    BY <1>8, <1>10 DEF HandOK
  <1>13. \A x \in Worker : HandOK(req[x])'
    BY <1>8, <1>9, <1>12, HandsKept
  <1> QED BY <1>3, <1>9, <1>11, <1>13 DEF CountInv, RowsKept

\* An answer: what was admitted and counted is granted.
LEMMA CountRespond ==
    ASSUME IInv, IInv', CountInv, NEW w \in Worker, Respond(w)
    PROVE  CountInv'
  <1> DEFINE q == req[w]
             k == q.token
  <1>1. q \in Request /\ ReqOK(q) /\ HandOK(q) /\ q.stage = "answer"
    BY AtRequest DEF Respond, CountInv
  <1>2. /\ req \in [Worker -> Request] /\ req' = [req EXCEPT ![w] = Idle]
        /\ delivered' = IF k = 0 THEN delivered ELSE delivered \cup {k}
        /\ UNCHANGED <<sessions, tokens, restarts>>
    BY DEF Respond, IInv, store, db
  <1>3. req'[w] = Idle /\ \A x \in Worker \ {w} : req'[x] = req[x]
    BY <1>2
  <1>4. RowsKept
    BY <1>2, SameRows
  <1>5. HandOK(req[w])'
    BY <1>3, IdleTyped DEF HandOK
  <1>6. \A x \in Worker : HandOK(req[x])'
    BY <1>3, <1>4, <1>5, HandsKept
  <1>7. ASSUME NEW s \in Sid PROVE SessionCount(s)'
    <2>1. /\ Admitted(s)' \subseteq Admitted(s) \ {w}
          /\ Counted(s)' \subseteq Counted(s) \ {w}
      BY <1>3, IdleTyped DEF Counted, Admitted
    <2>2. SessionCount(s) /\ sessions[s].actions \in Nat
      BY SessionFields DEF CountInv, IInv, StoreOK
    <2>3. CASE k # 0 /\ tokens[k].sid = s
      <3>1. w \in Counted(s) /\ w \in Admitted(s)
        BY <1>1, <2>3 DEF HandOK, Counted, Admitted
      <3>2. Granted(s)' \subseteq Granted(s) \cup {k}
        BY <1>2 DEF Granted
      <3> HIDE DEF k, q
      <3>3. /\ Cardinality(Counted(s)') \in Nat /\ Cardinality(Admitted(s)') \in Nat
            /\ Cardinality(Counted(s)') + 1 <= Cardinality(Counted(s))
            /\ Cardinality(Admitted(s)') + 1 <= Cardinality(Admitted(s))
        BY <2>1, <3>1, CountsFinite, CardOneLess
      <3>4. /\ Cardinality(Granted(s)') \in Nat
            /\ Cardinality(Granted(s)') <= Cardinality(Granted(s)) + 1
        BY <3>2, CountsFinite, CardAtMostOneMore
      <3> QED BY <1>2, <2>2, <3>3, <3>4, CountsFinite, LimitBinds DEF SessionCount
    <2>4. CASE ~(k # 0 /\ tokens[k].sid = s)
      <3>1. Granted(s)' \subseteq Granted(s)
        BY <1>2, <2>4 DEF Granted
      <3> HIDE DEF k, q
      <3> QED BY <1>2, <2>1, <2>2, <3>1, CountFewer, ActionsKept
    <2> QED BY <2>3, <2>4
  <1> QED BY <1>2, <1>4, <1>6, <1>7 DEF CountInv, RowsKept

\* A step in which no handler moves and no session counts.
LEMMA CountStill ==
    ASSUME IInv, IInv', CountInv, RowsKept, UNCHANGED <<delivered, restarts>>,
           \A x \in Worker : /\ req'[x].stage = req[x].stage
                             /\ req'[x].sid = req[x].sid
                             /\ req'[x].dry = req[x].dry
                             /\ req'[x].decision = req[x].decision
                             /\ req'[x].token = req[x].token,
           \A s \in Sid : /\ sessions'[s].actions = sessions[s].actions
                          /\ sessions'[s].open = sessions[s].open
    PROVE  CountInv'
  <1>1. ASSUME NEW s \in Sid PROVE SessionCount(s)'
    <2>1. /\ Admitted(s)' \subseteq Admitted(s) /\ Counted(s)' \subseteq Counted(s)
          /\ Granted(s)' \subseteq Granted(s)
      BY GrantedKept DEF Counted, Admitted
    <2>2. /\ SessionCount(s) /\ sessions[s].actions \in Nat
          /\ ~sessions[s].open => sessions[s].actions = 0
      BY SessionFields DEF CountInv, IInv, StoreOK, SessionCount
    <2> QED BY <2>1, <2>2, CountFewer
  <1>2. ASSUME NEW x \in Worker PROVE HandOK(req[x])'
    <2>1. HandOK(req[x]) /\ req[x].token \in 0..Len(tokens) /\ Len(tokens) \in Nat
      BY AtRequest DEF CountInv, ReqOK, IInv, StoreOK
    <2>2. req[x].token # 0 => req[x].token \in 1..Len(tokens)
      BY <2>1
    <2> QED BY <2>1, <2>2 DEF HandOK, RowsKept
  <1> QED BY <1>1, <1>2 DEF CountInv, RowsKept

\* Setting the killed flag of sessions leaves their counts alone.
LEMMA SetKilledCounts ==
    ASSUME sessions \in [Sid -> Session], NEW a, NEW k, NEW s \in Sid
    PROVE  /\ SetKilled(a, k)[s].actions = sessions[s].actions
           /\ SetKilled(a, k)[s].open = sessions[s].open
  <1>1. sessions[s] \in Session
    OBVIOUS
  <1> QED BY <1>1 DEF SetKilled, Session

LEMMA CountOperator ==
    ASSUME IInv, IInv', CountInv,
           \/ \E o \in Console : Operator(o)
           \/ \E s \in Sid : KillSession(s)
    PROVE  CountInv'
  <1>1. sessions \in [Sid -> Session] /\ req \in [Worker -> Request]
        /\ tokens \in Seq(TokenRow) /\ Len(tokens) \in Nat
    BY DEF IInv, StoreOK
  <1>2. PICK o : \/ \E a \in Agent : KillAgent(o, a) \/ RestoreAgent(o, a)
                 \/ KillTokens(o) \/ KillFails(o) \/ RestoreSessions(o)
                 \/ \E s \in Sid : KillSession(s)
    BY DEF Operator
  <1>3. UNCHANGED <<delivered, restarts>>
    BY <1>2 DEF KillAgent, RestoreAgent, KillTokens, KillFails, RestoreSessions,
                KillSession, db
  <1>4. ASSUME NEW x \in Worker
        PROVE  /\ req'[x].stage = req[x].stage /\ req'[x].sid = req[x].sid
               /\ req'[x].dry = req[x].dry /\ req'[x].decision = req[x].decision
               /\ req'[x].token = req[x].token
    <2>1. \/ UNCHANGED req
          \/ \E killed, session : req' = Released(killed, session)
      BY <1>2 DEF KillAgent, RestoreAgent, KillTokens, KillFails, RestoreSessions,
                  KillSession
    <2>2. req[x] \in Request
      BY <1>1
    <2>3. ASSUME NEW killed, NEW session, req' = Released(killed, session)
          PROVE  <1>4!2
      <3> DEFINE st == req[x].stops \cap Stops(killed, session, req[x].agent, req[x].sid)
      <3>1. req'[x] = [req[x] EXCEPT !.stops = st]
        BY <2>3 DEF Released
      <3> HIDE DEF st
      <3> QED BY <2>2, <3>1 DEF Request
    <2> QED BY <2>1, <2>3
  <1>5. ASSUME NEW s \in Sid
        PROVE  /\ sessions'[s].actions = sessions[s].actions
               /\ sessions'[s].open = sessions[s].open
    <2>1. \/ UNCHANGED sessions
          \/ \E a, k : sessions' = SetKilled(a, k)
          \/ \E z \in Sid : sessions' = [sessions EXCEPT ![z].killed = TRUE]
      BY <1>2 DEF KillAgent, RestoreAgent, KillTokens, KillFails, RestoreSessions,
                  KillSession, store
    <2>2. CASE \E a, k : sessions' = SetKilled(a, k)
      BY <1>1, <2>2, SetKilledCounts
    <2>3. ASSUME NEW z \in Sid, sessions' = [sessions EXCEPT ![z].killed = TRUE]
          PROVE  <1>5!2
      <3>1. sessions[s] \in Session
        BY <1>1
      <3> QED BY <1>1, <2>3, <3>1 DEF Session
    <2> QED BY <2>1, <2>2, <2>3
  <1>6. RowsKept
    <2>1. CASE UNCHANGED tokens
      BY <1>3, <2>1, SameRows
    <2>2. CASE KillTokens(o)
      <3> DEFINE b == admin[o].agent
      <3>1. tokens' = [t \in 1..Len(tokens) |->
                         IF tokens[t].agent = b
                         THEN [tokens[t] EXCEPT !.revoked = TRUE] ELSE tokens[t]]
        BY <2>2 DEF KillTokens
      <3>2. Len(tokens') = Len(tokens)
        BY <1>1, <3>1
      <3>3. ASSUME NEW t \in 1..Len(tokens)
            PROVE  tokens'[t].sid = tokens[t].sid /\ tokens'[t].boot = tokens[t].boot
        <4>1. tokens[t] \in TokenRow
          BY <1>1
        <4>2. tokens'[t] = IF tokens[t].agent = b
                           THEN [tokens[t] EXCEPT !.revoked = TRUE] ELSE tokens[t]
          BY <3>1
        <4> QED BY <4>1, <4>2 DEF TokenRow
      <3> HIDE DEF b
      <3> QED BY <1>1, <3>2, <3>3 DEF RowsKept, CountInv
    <2> QED BY <1>2, <2>1, <2>2 DEF KillAgent, RestoreAgent, KillFails,
               RestoreSessions, KillSession, db
  <1> QED BY <1>3, <1>4, <1>5, <1>6, CountStill

\* A new process life: nothing is in flight and nothing is granted in it yet.
LEMMA CountRestart ==
    ASSUME IInv, IInv', CountInv, Restart
    PROVE  CountInv'
  <1>1. /\ UNCHANGED <<tokens, delivered>> /\ restarts' = restarts + 1
        /\ restarts \in Nat /\ delivered \subseteq 1..Len(tokens)
        /\ sessions' = [s \in Sid |-> NoSession] /\ req' = [w \in Worker |-> Idle]
    BY DEF Restart, db, IInv, StoreOK
  <1>2. ASSUME NEW t \in 1..Len(tokens)
        PROVE  tokens[t].boot <= restarts /\ tokens[t].boot \in Nat
    <2>1. tokens[t] \in TokenRow
      BY DEF IInv, StoreOK
    <2> QED BY <2>1 DEF CountInv, TokenRow
  <1>3. ASSUME NEW s \in Sid PROVE SessionCount(s)'
    <2>1. Granted(s)' = {}
      <3>1. \A t \in delivered : tokens'[t].boot # restarts'
        BY <1>1, <1>2
      <3> QED BY <1>1, <3>1 DEF Granted
    <2>2. Admitted(s)' = {} /\ Counted(s)' = {}
      BY <1>1, IdleTyped DEF Admitted, Counted
    <2>3. sessions'[s].actions = 0
      BY <1>1 DEF NoSession
    <2>4. Cardinality(Granted(s)') = 0 /\ Cardinality(Admitted(s)') = 0
          /\ Cardinality(Counted(s)') = 0
      BY <2>1, <2>2, FS_EmptySet
    <2> QED BY <2>3, <2>4, CountsFinite, LimitBinds DEF SessionCount
  <1>4. \A w \in Worker : HandOK(req[w])'
    BY <1>1, IdleTyped DEF HandOK
  <1>5. \A t \in 1..Len(tokens') : tokens'[t].boot <= restarts'
    BY <1>1, <1>2
  <1> QED BY <1>3, <1>4, <1>5 DEF CountInv

LEMMA CountInit == Init => CountInv
  <1> SUFFICES ASSUME Init PROVE CountInv
    OBVIOUS
  <1>1. /\ tokens = <<>> /\ delivered = {} /\ restarts = 0
        /\ sessions = [s \in Sid |-> NoSession] /\ req = [w \in Worker |-> Idle]
    BY DEF Init
  <1>2. ASSUME NEW s \in Sid PROVE SessionCount(s)
    <2>1. Granted(s) = {} /\ Admitted(s) = {} /\ Counted(s) = {}
      BY <1>1, IdleTyped DEF Granted, Admitted, Counted
    <2>2. sessions[s].actions = 0
      BY <1>1 DEF NoSession
    <2>3. Cardinality(Granted(s)) = 0 /\ Cardinality(Admitted(s)) = 0
          /\ Cardinality(Counted(s)) = 0
      BY <2>1, FS_EmptySet
    <2> QED BY <2>2, <2>3, CountsFinite, LimitBinds, InitOK DEF SessionCount
  <1>3. \A w \in Worker : HandOK(req[w])
    BY <1>1, IdleTyped DEF HandOK
  <1> QED BY <1>1, <1>2, <1>3 DEF CountInv

LEMMA CountNext == IInv /\ IInv' /\ CountInv /\ [Next]_vars => CountInv'
  <1> SUFFICES ASSUME IInv, IInv', CountInv, [Next]_vars PROVE CountInv'
    OBVIOUS
  <1>1. CASE UNCHANGED vars
    <2>1. UNCHANGED <<sessions, req, tokens, delivered, restarts>>
      BY <1>1 DEF vars, store, db
    <2>2. RowsKept
      BY <2>1, SameRows
    <2> QED BY <2>1, <2>2, CountStill
  <1>2. ASSUME NEW w \in Worker, Handler(w) PROVE CountInv'
    BY <1>2, CountArrive, CountCheck, CountEvaluate, CountStage, CountRecord,
       CountRespond DEF Handler
  <1> QED BY <1>1, <1>2, CountOperator, CountRestart DEF Next

\* For any number of handlers, sessions and rules, max_actions_in_session is
\* overshot by at most one token per concurrent request, less one.
THEOREM OvershootBoundedCorrect == Spec => []OvershootBounded
  <1>1. IInv /\ CountInv => OvershootBounded
    <2> SUFFICES ASSUME IInv, CountInv, NEW s \in Sid
                 PROVE  Cardinality(Granted(s)) <= SessionLimit + Cardinality(Worker) - 1
      BY DEF OvershootBounded
    <2> QED BY CountsFinite, LimitBinds DEF CountInv, SessionCount
  <1> QED BY <1>1, CountInit, CountNext, InvariantHolds, PTL DEF Spec
=============================================================================
