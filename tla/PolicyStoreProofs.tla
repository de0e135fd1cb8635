-------------------------- MODULE PolicyStoreProofs --------------------------
(***************************************************************************)
(* Proofs about PolicyStore. The inductive invariant says what the table    *)
(* holds at rest and between the two statements of a create_policy (RowsOK),*)
(* what a handler has established at its stage (CallOK), and that a handler *)
(* that is alone is the only one in flight (AloneOK).                       *)
(***************************************************************************)
EXTENDS PolicyStore, TLAPS

\* The newest row is active, unless a write is half done or was cut short; a
\* process that serves is left in that state only by a failed statement.
RowsOK ==
    /\ rows \in Seq(Row)
    /\ lock \in Handler \cup {NoHandler}
    /\ engine \in 0..Len(rows)
    /\ up \in BOOLEAN /\ lost \in BOOLEAN /\ starts \in Nat
    /\ lock # NoHandler \/ lost => Active = {}
    /\ lock = NoHandler /\ ~lost => Len(rows) \in Active
    /\ up /\ lost => Faults
    /\ ~up => lock = NoHandler

CallOK(h, c) ==
    /\ c.own \in 0..Len(rows) /\ c.read \in 0..Len(rows)
    /\ c.stage = "writing" <=> lock = h
    /\ c.stage # "idle" => up
    /\ c.stage = "saved" /\ c.alone => c.own = Len(rows) /\ ~lost /\ lock = NoHandler
    /\ c.stage = "built" =>
         c.read >= c.own \/ (c.read = Empty /\ (Pooled \/ Faults))
    /\ c.stage = "built" /\ c.alone => c.read = c.own \/ (c.read = Empty /\ Faults)

AloneOK ==
    \A g, h \in Handler :
      g # h /\ call[g].alone /\ call[g].stage # "idle" => call[h].stage = "idle"

IInv ==
    /\ RowsOK
    /\ call \in [Handler -> Call]
    /\ \A h \in Handler : CallOK(h, call[h])
    /\ AloneOK

-----------------------------------------------------------------------------
LEMMA NoCallTyped ==
    /\ NoCall \in Call /\ NoCall.stage = "idle" /\ NoCall.alone = TRUE
    /\ NoCall.own = 0 /\ NoCall.read = 0 /\ NoCall.policy = Default
    /\ NoCall.dropped = FALSE
  BY PolicyAssumption DEF NoCall, Call

\* The fields of a call.
LEMMA CallFields ==
    ASSUME NEW c \in Call
    PROVE  /\ c.stage \in {"idle", "called", "writing", "saved", "built"}
           /\ c.policy \in Policy /\ c.own \in Nat /\ c.read \in Nat
           /\ c.alone \in BOOLEAN /\ c.dropped \in BOOLEAN
  BY DEF Call

\* What load_active_policy_yaml reads: the newest row, if it is active.
LEMMA LoadActiveFact ==
    ASSUME Len(rows) \in Nat
    PROVE  /\ Active = {} => LoadActive = Empty
           /\ Len(rows) \in Active => LoadActive = Len(rows)
  <1>1. \A i \in Active : i \in 1..Len(rows)
    BY DEF Active
  <1>2. ASSUME Len(rows) \in Active PROVE LoadActive = Len(rows)
    <2>1. \A i \in Active : (\A j \in Active : j <= i) <=> i = Len(rows)
      BY <1>1, <1>2
    <2>2. LoadActive = CHOOSE i \in Active : \A j \in Active : j <= i
      BY <1>2 DEF LoadActive
    <2> QED BY <1>2, <2>1, <2>2
  <1> QED BY <1>2 DEF LoadActive

\* A handler in flight goes on or ends; the others keep what they had.
LEMMA HandlerStep ==
    ASSUME IInv, NEW h \in Handler, NEW c \in Call,
           call' = [call EXCEPT ![h] = c], call[h].stage # "idle",
           c.stage = "idle" \/ c.alone = call[h].alone,
           RowsOK', CallOK(h, c)', Len(rows) <= Len(rows)', up' = up,
           \A g \in Handler : g # h => (lock' = g <=> lock = g)
    PROVE  IInv'
  <1>1. call' \in [Handler -> Call]
    <2> DEFINE C == Call
    <2>1. call \in [Handler -> C] /\ c \in C
      BY DEF IInv
    <2> HIDE DEF C
    <2>2. call' \in [Handler -> C]
      BY <2>1
    <2> QED BY <2>2 DEF C
  <1>2. \A g \in Handler : call'[g] = IF g = h THEN c ELSE call[g]
    BY DEF IInv
  <1>3. Len(rows) \in Nat /\ Len(rows)' \in Nat
    BY DEF IInv, RowsOK
  <1>4. ASSUME NEW g \in Handler PROVE CallOK(g, call[g])'
    <2>1. CASE g = h
      BY <1>2, <2>1 DEF CallOK
    <2>2. CASE g # h
      <3> DEFINE d == call[g]
      <3>1. call'[g] = d /\ d \in Call /\ CallOK(g, d)
        BY <1>2, <2>2 DEF IInv
      <3>2. ~(d.alone /\ d.stage # "idle")
        BY <2>2 DEF IInv, AloneOK
      <3>3. lock' = g <=> lock = g
        BY <2>2
      <3> HIDE DEF d
      <3> QED BY <1>3, <3>1, <3>2, <3>3, CallFields DEF CallOK
    <2> QED BY <2>1, <2>2
  <1>5. AloneOK'
    <2> SUFFICES ASSUME NEW g \in Handler, NEW k \in Handler, g # k,
                        call'[g].alone, call'[g].stage # "idle"
                 PROVE  call'[k].stage = "idle"
      BY DEF AloneOK
    <2> QED BY <1>2 DEF IInv, AloneOK
  <1> QED BY <1>1, <1>4, <1>5 DEF IInv

-----------------------------------------------------------------------------
LEMMA InitOK == Init => IInv
  <1> SUFFICES ASSUME Init PROVE IInv
    OBVIOUS
  <1>1. rows \in Seq(Row) /\ Len(rows) = 1 /\ Active = {1}
    BY PolicyAssumption DEF Init, Row, Active
  <1>2. RowsOK
    <2>1. rows \in Seq(Row) /\ lock \in Handler \cup {NoHandler} /\ engine \in 0..Len(rows)
      BY <1>1 DEF Init
    <2>2. up \in BOOLEAN /\ lost \in BOOLEAN /\ starts \in Nat
      BY DEF Init
    <2>3. ~lost /\ up /\ lock = NoHandler
      BY DEF Init
    <2>4. Len(rows) \in Active
      BY <1>1
    <2> QED BY <2>1, <2>2, <2>3, <2>4 DEF RowsOK
  <1>3. call \in [Handler -> Call] /\ \A h \in Handler : call[h] = NoCall
    BY NoCallTyped DEF Init
  <1>4. \A h \in Handler : lock # h
    BY PolicyAssumption DEF Init
  <1>5. \A h \in Handler : CallOK(h, NoCall)
    BY <1>1, <1>4, NoCallTyped DEF CallOK
  <1> QED BY <1>2, <1>3, <1>5, NoCallTyped DEF IInv, AloneOK

\* A request comes in; the ones in flight are alone no longer.
LEMMA CreateStep ==
    ASSUME IInv, NEW h \in Handler, NEW p \in Policy, Create(h, p)
    PROVE  IInv'
  <1> DEFINE new == [NoCall EXCEPT !.stage = "called", !.policy = p,
                                   !.alone = InFlight = {}]
             old(g) == [call[g] EXCEPT !.alone = FALSE]
  <1>1. /\ up /\ call[h].stage = "idle"
        /\ UNCHANGED <<rows, lock, engine, up, starts, lost>>
        /\ call' = [g \in Handler |-> IF g = h THEN new ELSE old(g)]
    BY DEF Create
  <1>2. /\ new \in Call /\ new.stage = "called" /\ new.own = 0 /\ new.read = 0
        /\ new.alone = (InFlight = {})
    BY NoCallTyped DEF Call, NoCall
  <1>3. ASSUME NEW g \in Handler
        PROVE  /\ old(g) \in Call /\ old(g).stage = call[g].stage
               /\ old(g).own = call[g].own /\ old(g).read = call[g].read
               /\ old(g).alone = FALSE
    BY DEF IInv, Call
  <1> HIDE DEF new, old
  <1>4. call' \in [Handler -> Call]
    BY <1>1, <1>2, <1>3
  <1>5. RowsOK'
    BY <1>1 DEF IInv, RowsOK, Active
  <1>6. ASSUME NEW g \in Handler PROVE CallOK(g, call[g])'
    <2>1. CallOK(g, call[g]) /\ call[g] \in Call /\ Len(rows) \in Nat
      BY DEF IInv, RowsOK
    <2>2. CASE g = h
      BY <1>1, <1>2, <2>1, <2>2 DEF CallOK
    <2>3. CASE g # h
      <3>1. call'[g] = old(g)
        BY <1>1, <2>3
      <3> QED BY <1>1, <1>3, <2>1, <3>1 DEF CallOK
    <2> QED BY <2>2, <2>3
  <1>7. AloneOK'
    <2> SUFFICES ASSUME NEW g \in Handler, NEW k \in Handler, g # k,
                        call'[g].alone, call'[g].stage # "idle"
                 PROVE  call'[k].stage = "idle"
      BY DEF AloneOK
    <2>1. g = h /\ InFlight = {}
      BY <1>1, <1>2, <1>3
    <2>2. call[k].stage = "idle" /\ call'[k].stage = call[k].stage
      BY <1>1, <1>3, <2>1 DEF InFlight
    <2> QED BY <2>2
  <1> QED BY <1>4, <1>5, <1>6, <1>7 DEF IInv

\* The UPDATE takes the lock and leaves no active row.
LEMMA DeprecateStep ==
    ASSUME IInv, NEW h \in Handler, Deprecate(h)
    PROVE  IInv'
  <1> DEFINE f(i) == [rows[i] EXCEPT !.active = FALSE]
  <1>1. /\ call[h].stage = "called" /\ lock = NoHandler
        /\ rows' = [i \in 1..Len(rows) |-> f(i)] /\ lock' = h
        /\ UNCHANGED <<engine, up, starts, lost>>
    BY DEF Deprecate, Deprecated
  <1>2. rows \in Seq(Row) /\ Len(rows) \in Nat /\ call[h] \in Call
    BY DEF IInv, RowsOK
  <1>3. PICK c \in Call : /\ c.stage = "writing" /\ c.own = call[h].own
                          /\ c.read = call[h].read /\ c.alone = call[h].alone
                          /\ call' = [call EXCEPT ![h] = c]
    <2>1. [call[h] EXCEPT !.stage = "writing"] \in Call
      BY <1>2 DEF Call
    <2> QED BY <1>2, <2>1 DEF Deprecate, IInv, Call
  <1>4. ASSUME NEW i \in 1..Len(rows) PROVE f(i) \in Row /\ f(i).active = FALSE
    <2>1. rows[i] \in Row
      BY <1>2
    <2> QED BY <2>1 DEF Row
  <1> HIDE DEF f
  <1>5. rows' \in Seq(Row) /\ Len(rows') = Len(rows)
        /\ \A i \in 1..Len(rows) : rows'[i] = f(i)
    <2> DEFINE R == Row
    <2>1. \A i \in 1..Len(rows) : f(i) \in R
      BY <1>4
    <2> HIDE DEF R
    <2>2. [i \in 1..Len(rows) |-> f(i)] \in Seq(R)
      BY <1>2, <2>1
    <2> QED BY <1>1, <1>2, <2>2 DEF R
  <1>6. Active' = {}
    BY <1>4, <1>5 DEF Active
  <1>7. h # NoHandler
    BY PolicyAssumption
  <1>8. CallOK(h, call[h]) /\ RowsOK
    BY DEF IInv
  <1>9. up
    BY <1>1, <1>8 DEF CallOK
  <1>10. RowsOK'
    BY <1>1, <1>5, <1>6, <1>7, <1>8, <1>9 DEF RowsOK
  <1>11. CallOK(h, c)'
    BY <1>1, <1>3, <1>5, <1>8, <1>9 DEF CallOK
  <1>12. \A g \in Handler : g # h => (lock' = g <=> lock = g)
    BY <1>1, PolicyAssumption
  <1>13. Len(rows) <= Len(rows)' /\ up' = up
    BY <1>1, <1>2, <1>5
  <1> QED BY <1>1, <1>3, <1>10, <1>11, <1>12, <1>13, HandlerStep

\* The INSERT makes its row the newest and an active one.
LEMMA InsertStep ==
    ASSUME IInv, NEW h \in Handler, Insert(h)
    PROVE  IInv'
  <1>1. /\ call[h].stage = "writing" /\ lock' = NoHandler /\ ~lost'
        /\ UNCHANGED <<engine, up, starts>>
    BY DEF Insert
  <1>2. Len(rows) \in Nat /\ rows \in Seq(Row) /\ call[h] \in Call
    BY DEF IInv, RowsOK
  <1>3. PICK c \in Call :
          /\ call' = [call EXCEPT ![h] = c]
          /\ \/ c = NoCall
             \/ /\ c.stage = "saved" /\ c.own = Len(rows) + 1
                /\ c.read = call[h].read /\ c.alone = call[h].alone
    <2>1. CASE call[h].dropped
      BY <2>1, NoCallTyped DEF Insert
    <2>2. CASE ~call[h].dropped
      <3> DEFINE n == Len(rows) + 1
      <3>1. call' = [call EXCEPT ![h].stage = "saved", ![h].own = n]
        BY <2>2 DEF Insert
      <3>2. n \in Nat
        BY <1>2
      <3> HIDE DEF n
      <3>3. [call[h] EXCEPT !.stage = "saved", !.own = n] \in Call
        BY <1>2, <3>2 DEF Call
      <3>4. \E d \in Call : /\ call' = [call EXCEPT ![h] = d]
                            /\ d.stage = "saved" /\ d.own = n
                            /\ d.read = call[h].read /\ d.alone = call[h].alone
        BY <1>2, <3>1, <3>3 DEF IInv, Call
      <3> QED BY <3>4 DEF n
    <2> QED BY <2>1, <2>2
  <1>4. PICK r \in Row : r.active /\ rows' = Append(rows, r)
    <2>1. [policy |-> call[h].policy, active |-> TRUE] \in Row
      BY <1>2, CallFields DEF Row
    <2> QED BY <2>1 DEF Insert
  <1>5. rows' \in Seq(Row) /\ Len(rows') = Len(rows) + 1 /\ rows'[Len(rows) + 1] = r
    BY <1>2, <1>4
  <1>6. Len(rows') \in Active'
    BY <1>2, <1>4, <1>5 DEF Active
  <1>7. CallOK(h, call[h]) /\ RowsOK
    BY DEF IInv
  <1>8. lock = h /\ up
    BY <1>1, <1>7 DEF CallOK
  <1>9. lost' \in BOOLEAN
    BY DEF Insert
  <1>10. engine' \in 0..Len(rows')
    BY <1>1, <1>2, <1>5, <1>7 DEF RowsOK
  <1>11. RowsOK'
    BY <1>1, <1>5, <1>6, <1>7, <1>8, <1>9, <1>10 DEF RowsOK
  <1>12. CallOK(h, c)'
    <2>1. \A g \in Handler : lock' # g
      BY <1>1, PolicyAssumption
    <2> QED BY <1>1, <1>2, <1>3, <1>5, <1>7, <1>8, <2>1, NoCallTyped DEF CallOK
  <1>13. \A g \in Handler : g # h => (lock' = g <=> lock = g)
    BY <1>1, <1>8, PolicyAssumption
  <1>14. Len(rows) <= Len(rows)' /\ up' = up
    BY <1>1, <1>2, <1>5
  <1> QED BY <1>1, <1>3, <1>11, <1>12, <1>13, <1>14, NoCallTyped, HandlerStep

\* A failed statement: before the UPDATE nothing has changed, after it the policy
\* in force is gone.
LEMMA WriteFailsStep ==
    ASSUME IInv, NEW h \in Handler, WriteFails(h)
    PROVE  IInv'
  <1>1. /\ Faults /\ call' = [call EXCEPT ![h] = NoCall]
        /\ UNCHANGED <<rows, engine, up, starts>> /\ lock' = NoHandler
        /\ call[h].stage # "idle"
    BY DEF WriteFails
  <1>2. CallOK(h, call[h]) /\ RowsOK /\ Len(rows) \in Nat
    BY DEF IInv, RowsOK
  <1>3. lock = NoHandler \/ lock = h
    BY <1>2 DEF WriteFails, CallOK
  <1>4. RowsOK'
    <2>1. CASE call[h].stage = "called"
      BY <1>1, <1>2, <2>1 DEF WriteFails, RowsOK, Active
    <2>2. CASE call[h].stage = "writing"
      <3>1. lock = h /\ h # NoHandler
        BY <1>2, <2>2, PolicyAssumption DEF CallOK
      <3>2. lost' /\ lost' \in BOOLEAN
        BY <2>2 DEF WriteFails
      <3> QED BY <1>1, <1>2, <3>1, <3>2 DEF RowsOK, Active
    <2> QED BY <2>1, <2>2 DEF WriteFails
  <1>5. \A g \in Handler : lock' # g
    BY <1>1, PolicyAssumption
  <1>6. CallOK(h, NoCall)'
    BY <1>1, <1>2, <1>5, NoCallTyped DEF CallOK
  <1>7. \A g \in Handler : g # h => (lock' = g <=> lock = g)
    BY <1>3, <1>5, PolicyAssumption
  <1>8. Len(rows) <= Len(rows)' /\ up' = up
    BY <1>1, <1>2
  <1> QED BY <1>1, <1>4, <1>6, <1>7, <1>8, NoCallTyped, HandlerStep

\* A handler's step that leaves the table, the lock and the engine alone.
LEMMA QuietStep ==
    ASSUME IInv, NEW h \in Handler, NEW c \in Call,
           call' = [call EXCEPT ![h] = c], call[h].stage # "idle",
           c.stage = "idle" \/ c.alone = call[h].alone,
           UNCHANGED <<rows, lock, up, starts, lost>>, engine' \in 0..Len(rows),
           CallOK(h, c)
    PROVE  IInv'
  <1>1. RowsOK'
    BY DEF IInv, RowsOK, Active
  <1>2. CallOK(h, c)'
    BY DEF CallOK
  <1>3. Len(rows) <= Len(rows)' /\ \A g \in Handler : g # h => (lock' = g <=> lock = g)
    BY DEF IInv, RowsOK
  <1> QED BY <1>1, <1>2, <1>3, HandlerStep

LEMMA BuildStep ==
    ASSUME IInv, NEW h \in Handler, Build(h)
    PROVE  IInv'
  <1>1. /\ call[h].stage = "saved" /\ (Pooled \/ lock = NoHandler)
        /\ UNCHANGED <<rows, lock, engine, up, starts, lost>>
    BY DEF Build
  <1>2. /\ call[h] \in Call /\ CallOK(h, call[h]) /\ RowsOK
        /\ Len(rows) \in Nat /\ engine \in 0..Len(rows)
    BY DEF IInv, RowsOK
  <1>3. PICK i \in {LoadActive} \cup (IF Faults THEN {Empty} ELSE {}) :
          call' = IF i = Empty \/ rows[i].policy \in Parses
                  THEN [call EXCEPT ![h].stage = "built", ![h].read = i]
                  ELSE [call EXCEPT ![h] = NoCall]
    BY DEF Build
  <1>4. \/ i = Empty /\ (Faults \/ lock # NoHandler \/ lost)
        \/ i = Len(rows)
    BY <1>2, <1>3, LoadActiveFact DEF RowsOK
  <1>5. i = Empty /\ lost => Faults
    BY <1>1, <1>2 DEF CallOK, RowsOK
  <1>6. CallOK(h, NoCall)
    BY <1>1, <1>2, NoCallTyped DEF CallOK
  <1>7. CASE call' = [call EXCEPT ![h] = NoCall]
    BY <1>1, <1>2, <1>6, <1>7, NoCallTyped, QuietStep
  <1>8. CASE call' = [call EXCEPT ![h].stage = "built", ![h].read = i]
    <2>1. PICK c \in Call : /\ c.stage = "built" /\ c.read = i /\ c.own = call[h].own
                            /\ c.alone = call[h].alone
                            /\ call' = [call EXCEPT ![h] = c]
      <3>1. i \in Nat
        BY <1>2, <1>4 DEF Empty
      <3>2. [call[h] EXCEPT !.stage = "built", !.read = i] \in Call
        BY <1>2, <3>1 DEF Call
      <3> QED BY <1>2, <1>8, <3>2 DEF IInv, Call
    <2>2. i \in 0..Len(rows) /\ c.own \in 0..Len(rows)
      BY <1>2, <1>4, <2>1 DEF Empty, CallOK
    <2>3. c.read >= c.own \/ (c.read = Empty /\ (Pooled \/ Faults))
      BY <1>1, <1>2, <1>4, <1>5, <2>1, <2>2
    <2>4. c.alone => c.read = c.own \/ (c.read = Empty /\ Faults)
      BY <1>1, <1>2, <1>4, <1>5, <2>1 DEF CallOK
    <2>5. CallOK(h, c)
      BY <1>1, <1>2, <2>1, <2>2, <2>3, <2>4 DEF CallOK
    <2> QED BY <1>1, <1>2, <2>1, <2>5, QuietStep
  <1> QED BY <1>3, <1>7, <1>8

LEMMA SwapStep ==
    ASSUME IInv, NEW h \in Handler, Swap(h)
    PROVE  IInv'
  <1>1. /\ call[h].stage = "built" /\ engine' = call[h].read
        /\ call' = [call EXCEPT ![h] = NoCall]
        /\ UNCHANGED <<rows, lock, up, starts, lost>>
    BY DEF Swap
  <1>2. CallOK(h, call[h]) /\ Len(rows) \in Nat
    BY DEF IInv, RowsOK
  <1>3. engine' \in 0..Len(rows)
    BY <1>1, <1>2 DEF CallOK
  <1>4. CallOK(h, NoCall)
    BY <1>1, <1>2, NoCallTyped DEF CallOK
  <1> QED BY <1>1, <1>3, <1>4, NoCallTyped, QuietStep

LEMMA DropStep ==
    ASSUME IInv, NEW h \in Handler, Drop(h)
    PROVE  IInv'
  <1>1. UNCHANGED <<rows, lock, engine, up, starts, lost>>
    BY DEF Drop
  <1>2. /\ call[h] \in Call /\ CallOK(h, call[h])
        /\ Len(rows) \in Nat /\ engine \in 0..Len(rows)
    BY DEF IInv, RowsOK
  <1>3. CASE call[h].stage = "saved" /\ call' = [call EXCEPT ![h] = NoCall]
    <2>1. CallOK(h, NoCall)
      BY <1>2, <1>3, NoCallTyped DEF CallOK
    <2> QED BY <1>1, <1>2, <1>3, <2>1, NoCallTyped, QuietStep
  <1>4. CASE /\ call[h].stage \in {"called", "writing"}
             /\ call' = [call EXCEPT ![h].dropped = TRUE]
    <2>1. PICK c \in Call : /\ c.stage = call[h].stage /\ c.own = call[h].own
                            /\ c.read = call[h].read /\ c.alone = call[h].alone
                            /\ call' = [call EXCEPT ![h] = c]
      <3>1. [call[h] EXCEPT !.dropped = TRUE] \in Call
        BY <1>2 DEF Call
      <3> QED BY <1>2, <1>4, <3>1 DEF IInv, Call
    <2>2. CallOK(h, c)
      BY <1>2, <1>4, <2>1 DEF CallOK
    <2> QED BY <1>1, <1>2, <1>4, <2>1, <2>2, QuietStep
  <1> QED BY <1>3, <1>4 DEF Drop

\* The process dies: nobody is in flight, and a half done write stays half done.
LEMMA CrashStep ==
    ASSUME IInv, Crash
    PROVE  IInv'
  <1>1. /\ ~up' /\ up' \in BOOLEAN /\ lock' = NoHandler /\ engine' = 0
        /\ UNCHANGED <<rows, starts>>
        /\ call' = [h \in Handler |-> NoCall]
    BY DEF Crash, Empty
  <1>2. lost' \in BOOLEAN /\ (lost' <=> lost \/ lock # NoHandler)
    BY DEF Crash, IInv, RowsOK
  <1>3. RowsOK /\ Len(rows) \in Nat
    BY DEF IInv, RowsOK
  <1>4. RowsOK'
    BY <1>1, <1>2, <1>3 DEF RowsOK, Active
  <1>5. \A h \in Handler : lock' # h
    BY <1>1, PolicyAssumption
  <1>6. \A h \in Handler : call'[h] = NoCall
    BY <1>1
  <1>7. \A h \in Handler : CallOK(h, call[h])'
    BY <1>1, <1>3, <1>5, <1>6, NoCallTyped DEF CallOK
  <1>8. AloneOK'
    BY <1>6, NoCallTyped DEF AloneOK
  <1> QED BY <1>1, <1>4, <1>7, <1>8, NoCallTyped DEF IInv

\* The process starts, and what it reads is the newest row.
LEMMA StartStep ==
    ASSUME IInv, Start
    PROVE  IInv'
  <1>1. /\ ~up /\ ~lost' /\ lost' \in BOOLEAN /\ starts' = starts + 1
        /\ UNCHANGED <<lock, call>>
        /\ \/ Active # {} /\ rows' = rows
           \/ rows' = Append(rows, [policy |-> Default, active |-> TRUE])
        /\ up' \in BOOLEAN
        /\ engine' = LoadActive' \/ engine' = 0
    <2>1. ~up /\ lost' = FALSE /\ starts' = starts + 1 /\ UNCHANGED <<lock, call>>
      BY DEF Start
    <2>2. \/ Active # {} /\ rows' = rows
          \/ rows' = Append(rows, [policy |-> Default, active |-> TRUE])
      BY DEF Start, WithDefault
    <2>3. up' \in BOOLEAN
      BY DEF Start
    <2>4. engine' = LoadActive' \/ engine' = 0
      BY DEF Start, Empty
    <2> QED BY <2>1, <2>2, <2>3, <2>4
  <1>2. RowsOK /\ Len(rows) \in Nat /\ lock = NoHandler /\ starts \in Nat
    BY <1>1 DEF IInv, RowsOK
  <1>3. rows' \in Seq(Row) /\ Len(rows') \in Active'
    <2>1. CASE Active # {} /\ rows' = rows
      BY <1>1, <1>2, <2>1 DEF RowsOK, Active
    <2>2. CASE rows' = Append(rows, [policy |-> Default, active |-> TRUE])
      <3>1. PICK r \in Row : r.active /\ rows' = Append(rows, r)
        <4>1. [policy |-> Default, active |-> TRUE] \in Row
          BY PolicyAssumption DEF Row
        <4> QED BY <2>2, <4>1
      <3>2. /\ rows' \in Seq(Row) /\ Len(rows') = Len(rows) + 1
            /\ rows'[Len(rows) + 1] = r
        BY <1>2, <3>1 DEF RowsOK
      <3> QED BY <1>2, <3>1, <3>2 DEF Active
    <2> QED BY <1>1, <2>1, <2>2
  <1>4. Len(rows)' \in Nat /\ Len(rows) <= Len(rows)'
    BY <1>1, <1>2 DEF RowsOK
  <1>5. engine' \in 0..Len(rows)'
    <2>1. LoadActive' = Len(rows)'
      <3>1. (Len(rows) \in Nat /\ Len(rows) \in Active => LoadActive = Len(rows))'
        BY LoadActiveFact, PTL
      <3> QED BY <1>3, <1>4, <3>1
    <2> QED BY <1>1, <1>4, <2>1
  <1>6. RowsOK'
    BY <1>1, <1>2, <1>3, <1>5 DEF RowsOK
  <1>7. ASSUME NEW h \in Handler PROVE CallOK(h, call[h])'
    <2>1. CallOK(h, call[h]) /\ call[h] \in Call
      BY DEF IInv
    <2>2. call[h].stage = "idle" /\ call'[h] = call[h] /\ lock' = lock
      BY <1>1, <2>1 DEF CallOK
    <2> QED BY <1>2, <1>4, <2>1, <2>2 DEF CallOK
  <1>8. AloneOK' /\ call' \in [Handler -> Call]
    BY <1>1 DEF IInv, AloneOK
  <1> QED BY <1>6, <1>7, <1>8 DEF IInv

-----------------------------------------------------------------------------
LEMMA NextStep == IInv /\ [Next]_vars => IInv'
  <1> SUFFICES ASSUME IInv, [Next]_vars PROVE IInv'
    OBVIOUS
  <1>1. CASE UNCHANGED vars
    <2>1. UNCHANGED <<rows, lock, engine, up, starts, call, lost>>
      BY <1>1 DEF vars
    <2>2. RowsOK'
      BY <2>1 DEF IInv, RowsOK, Active
    <2>3. \A h \in Handler : CallOK(h, call[h])'
      BY <2>1 DEF IInv, CallOK
    <2>4. AloneOK'
      BY <2>1 DEF IInv, AloneOK
    <2> QED BY <2>1, <2>2, <2>3, <2>4 DEF IInv
  <1>2. ASSUME NEW h \in Handler, Handle(h) PROVE IInv'
    <2>1. \/ \E p \in Policy : Create(h, p)
          \/ Deprecate(h) \/ Insert(h) \/ WriteFails(h)
          \/ Build(h) \/ Swap(h) \/ Drop(h)
      BY <1>2 DEF Handle
    <2> QED BY <2>1, CreateStep, DeprecateStep, InsertStep, WriteFailsStep,
               BuildStep, SwapStep, DropStep
  <1>3. CASE Crash
    BY <1>3, CrashStep
  <1>4. CASE Start
    BY <1>4, StartStep
  <1> QED BY <1>1, <1>2, <1>3, <1>4 DEF Next

LEMMA InvariantHolds == Spec => []IInv
  BY InitOK, NextStep, PTL DEF Spec

-----------------------------------------------------------------------------
\* Every variable keeps its type, whatever handlers, faults, crashes and starts
\* do to the table and the engine.
THEOREM TypeCorrect == Spec => []TypeOK
  <1>1. IInv => TypeOK
    BY DEF IInv, RowsOK, CallOK, TypeOK
  <1> QED BY <1>1, InvariantHolds, PTL

\* Outside the two statements of create_policy, load_active_policy_yaml reads the
\* newest row, and it reads none while they are half done or cut short.
THEOREM NewestActiveCorrect == Spec => []NewestActive
  <1>1. IInv => NewestActive
    <2> SUFFICES ASSUME IInv PROVE NewestActive
      OBVIOUS
    <2>1. RowsOK /\ Len(rows) \in Nat
      BY DEF IInv, RowsOK
    <2>2. CASE lock # NoHandler \/ lost
      BY <2>1, <2>2, LoadActiveFact DEF RowsOK, NewestActive
    <2>3. CASE ~(lock # NoHandler \/ lost)
      BY <2>1, <2>3, LoadActiveFact DEF RowsOK, NewestActive
    <2> QED BY <2>2, <2>3
  <1> QED BY <1>1, InvariantHolds, PTL

\* reload_policy never builds an engine older than the row its own create_policy
\* inserted, for any number of handlers.
THEOREM ReadsOwnWriteCorrect == Spec => []ReadsOwnWrite
  <1>1. IInv => ReadsOwnWrite
    BY DEF IInv, CallOK, ReadsOwnWrite
  <1> QED BY <1>1, InvariantHolds, PTL

\* A create_policy that no other one overlapped puts its own row in force, or the
\* empty engine after a failed query, for any number of handlers.
THEOREM AloneTakesEffectCorrect == Spec => AloneTakesEffect
  <1> DEFINE Effect ==
        \A h \in Handler :
          call[h].stage = "built" /\ call[h].alone /\ call'[h].stage = "idle" /\ up'
            => engine' = call[h].own \/ (Faults /\ engine' = Empty)
  <1>1. IInv /\ [Next]_vars => [Effect]_vars
    <2> SUFFICES ASSUME IInv, Next, NEW h \in Handler, call[h].stage = "built",
                        call[h].alone, call'[h].stage = "idle", up'
                 PROVE  engine' = call[h].own \/ (Faults /\ engine' = Empty)
      OBVIOUS
    <2>1. CallOK(h, call[h]) /\ up
      BY DEF IInv, CallOK
    <2>2. Swap(h)
      <3>1. ~Crash /\ ~Start
        BY <2>1 DEF Crash, Start
      <3>2. PICK g \in Handler : Handle(g)
        BY <3>1 DEF Next
      <3>3. CASE g = h
        BY <3>2, <3>3 DEF Handle, Create, Deprecate, Insert, WriteFails, Build, Drop
      <3>4. CASE g # h
        <4>1. call[g].stage = "idle"
          BY <3>4 DEF IInv, AloneOK
        <4>2. \E p \in Policy : Create(g, p)
          BY <3>2, <4>1 DEF Handle, Deprecate, Insert, WriteFails, Build, Swap, Drop
        <4>3. call'[h] = [call[h] EXCEPT !.alone = FALSE]
          BY <3>4, <4>2 DEF Create
        <4>4. call'[h].stage = "built"
          BY <4>3 DEF IInv, Call
        <4> QED BY <4>4
      <3> QED BY <3>3, <3>4
    <2> QED BY <2>1, <2>2 DEF Swap, CallOK
  <1>2. Spec => [][Effect]_vars
    BY <1>1, InvariantHolds, PTL DEF Spec
  <1> QED BY <1>2 DEF AloneTakesEffect
=============================================================================
