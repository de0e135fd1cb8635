--------------------------- MODULE AuditLogProofs ---------------------------
(***************************************************************************)
(* Proofs that the audit chain is intact, that acknowledged rows stay, and  *)
(* that verify_chain decides the reference definition, for every number of  *)
(* writers, rows, edits and every encoding of payloads.                     *)
(***************************************************************************)
EXTENDS AuditLog, SequenceTheorems, TLAPS

\* Whoever is between the SELECT and the end of the INSERT holds the mutex.
MutexHeld ==
    \A w \in Writer : phase[w] \in {"locked", "selected"} => mutex = w

\* The predecessor a call has read is still the last row when it inserts.
ReadFresh ==
    \A w \in Writer : phase[w] = "selected" => prevRead[w] = LastHash

ChainInv == MutexHeld /\ (edits = 0 => ReadFresh /\ Intact(rows))

\* The loop of verify_chain: everything before the cursor has been accepted.
WalkInv ==
    /\ walk.state \in {"walking"} \cup Verdict =>
         /\ walk.at \in 1..(Len(walk.snap) + 1)
         /\ IntactUpTo(walk.snap, walk.at - 1)
         /\ walk.prev = IF walk.at = 1 THEN Genesis
                                       ELSE walk.snap[walk.at - 1].hash
    /\ walk.state = "ok" => walk.at = Len(walk.snap) + 1
    /\ walk.state = "prev_hash_mismatch" =>
         walk.at <= Len(walk.snap) /\ ~LinkOk(walk.snap, walk.at)
    /\ walk.state = "row_hash_mismatch" =>
         /\ walk.at <= Len(walk.snap)
         /\ LinkOk(walk.snap, walk.at) /\ ~RowHashOk(walk.snap[walk.at])

-----------------------------------------------------------------------------
\* A row built by the INSERT is a row.
LEMMA NewRowType ==
    ASSUME TypeOK, NEW w \in Writer, NEW e \in Entry
    PROVE  NewRow(w, e) \in Row
  BY EncodeAssumption DEF TypeOK, NewRow, Row, Digest, Hash

LEMMA GenesisType == Genesis \in Digest
  BY DEF Genesis, Digest

\* What the SELECT returns is a digest.
LEMMA LastHashType ==
    ASSUME rows \in Seq(Row)
    PROVE  LastHash \in Digest
  <1>1. rows # <<>> => rows[Len(rows)] \in Row
    OBVIOUS
  <1>2. \A x \in Row : x.hash \in Digest
    BY DEF Row
  <1> QED BY <1>1, <1>2, GenesisType DEF LastHash, Tip

\* Deleting position i leaves a sequence of rows that were there before.
LEMMA WithoutFact ==
    ASSUME NEW S, NEW s \in Seq(S), NEW i \in 1..Len(s)
    PROVE  /\ Without(s, i) \in Seq(S)
           /\ Len(Without(s, i)) = Len(s) - 1
           /\ \A j \in 1..(Len(s) - 1) :
                \E k \in 1..Len(s) : Without(s, i)[j] = s[k]
  <1>1. \A j \in 1..(Len(s) - 1) : (IF j < i THEN j ELSE j + 1) \in 1..Len(s)
    OBVIOUS
  <1>2. Len(s) - 1 \in Nat
    OBVIOUS
  <1> QED BY <1>1, <1>2 DEF Without

\* A row written by hand is a row.
LEMMA ForgedType ==
    ASSUME NEW id \in Nat, NEW found \in SUBSET Digest, NEW r \in Forged(id, found)
    PROVE  r \in Row
  <1>1. found \cup Forgeable \subseteq Digest
    BY ForgeableAssumption DEF Digest
  <1>2. PICK p \in found \cup Forgeable, e \in Entry :
          \E h \in found \cup Forgeable \cup {Hash(p, Encode[e])} :
            r = [id |-> id, prev |-> p, hash |-> h, entry |-> e]
    BY DEF Forged
  <1>3. p \in Digest
    BY <1>1
  <1>4. Hash(p, Encode[e]) \in Digest
    BY <1>3, EncodeAssumption DEF Hash, Digest
  <1>5. PICK h \in Digest : r = [id |-> id, prev |-> p, hash |-> h, entry |-> e]
    BY <1>1, <1>2, <1>4
  <1> QED BY <1>3, <1>5 DEF Row

\* A row put in leaves a sequence of rows.
LEMMA WithRowType ==
    ASSUME NEW s \in Seq(Row), NEW i \in 1..(Len(s) + 1), NEW r \in Row
    PROVE  WithRow(s, i, r) \in Seq(Row)
  <1>1. ASSUME NEW x \in Row
        PROVE  [x EXCEPT !.id = x.id + 1] \in Row
    <2>1. x.id + 1 \in Nat
      BY DEF Row
    <2>2. \A m \in Nat : [x EXCEPT !.id = m] \in Row
      BY DEF Row
    <2> QED BY <2>1, <2>2
  <1>2. ASSUME NEW j \in 1..(Len(s) + 1)
        PROVE  (IF j < i THEN s[j]
                ELSE IF j = i THEN r
                ELSE [s[j - 1] EXCEPT !.id = s[j - 1].id + 1]) \in Row
    <2>1. CASE j < i
      <3>1. j \in 1..Len(s)
        BY <2>1
      <3> QED BY <2>1, <3>1
    <2>2. CASE j = i
      BY <2>2
    <2>3. CASE j > i
      <3>1. s[j - 1] \in Row
        BY <2>3
      <3>2. [s[j - 1] EXCEPT !.id = s[j - 1].id + 1] \in Row
        BY <1>1, <3>1
      <3> QED BY <2>3, <3>2
    <2> QED BY <2>1, <2>2, <2>3
  <1>3. Len(s) + 1 \in Nat
    OBVIOUS
  <1> QED BY <1>2, <1>3 DEF WithRow

\* Whatever is done to it from outside, the table stays a table.
LEMMA AlterType ==
    ASSUME TypeOK, Alter
    PROVE  rows' \in Seq(Row) /\ nextId' \in Nat
  <1>0. rows \in Seq(Row) /\ nextId \in Nat
    BY DEF TypeOK
  <1>1. \A i \in 1..Len(rows) :
          rows[i] \in Row /\ rows[i].id \in Nat
            /\ rows[i].prev \in Digest /\ rows[i].hash \in Digest
    <2>1. \A i \in 1..Len(rows) : rows[i] \in Row
      BY <1>0
    <2>2. \A x \in Row : x.id \in Nat /\ x.prev \in Digest /\ x.hash \in Digest
      BY DEF Row
    <2> QED BY <2>1, <2>2
  <1>2. ASSUME NEW i \in 1..Len(rows), EditRow(i) PROVE rows' \in Seq(Row)
    <2>1. PICK r \in Forged(rows[i].id, {rows[i].prev, rows[i].hash}) :
            rows' = [rows EXCEPT ![i] = r]
      BY <1>2 DEF EditRow
    <2>2. rows[i].id \in Nat /\ {rows[i].prev, rows[i].hash} \in SUBSET Digest
      BY <1>1
    <2>3. r \in Row
      BY <2>2, ForgedType
    <2> QED BY <1>0, <2>1, <2>3
  <1>3. ASSUME NEW i \in 1..Len(rows), DeleteRow(i) PROVE rows' \in Seq(Row)
    BY <1>0, <1>3, WithoutFact DEF DeleteRow
  <1>4. ASSUME NEW i \in 1..Len(rows), NEW j \in 1..(i - 1), SwapRows(j, i)
        PROVE  rows' \in Seq(Row)
    <2>1. \A x, y \in Row : [x EXCEPT !.id = y.id] \in Row
      BY DEF Row
    <2>2. rows[i] \in Row /\ rows[j] \in Row
      BY <1>1
    <2>3. /\ [rows[j] EXCEPT !.id = rows[i].id] \in Row
          /\ [rows[i] EXCEPT !.id = rows[j].id] \in Row
      BY <2>1, <2>2
    <2>4. rows' = [rows EXCEPT ![j] = [rows[i] EXCEPT !.id = rows[j].id],
                               ![i] = [rows[j] EXCEPT !.id = rows[i].id]]
      BY <1>4 DEF SwapRows
    <2> QED BY <1>0, <2>3, <2>4
  <1>5. ASSUME NEW i \in 1..(Len(rows) + 1), InsertRow(i) PROVE rows' \in Seq(Row)
    <2> DEFINE id == IF i <= Len(rows) THEN rows[i].id ELSE nextId
               found == {IF i = 1 THEN Genesis ELSE rows[i - 1].hash}
    <2>1. PICK r \in Forged(id, found) : rows' = WithRow(rows, i, r)
      BY <1>5 DEF InsertRow
    <2>2. id \in Nat
      BY <1>0, <1>1
    <2>3. found \in SUBSET Digest
      <3>1. i # 1 => i - 1 \in 1..Len(rows)
        BY <1>0
      <3> QED BY <1>1, <3>1, GenesisType
    <2>4. r \in Row
      BY <2>1, <2>2, <2>3, ForgedType
    <2> QED BY <1>0, <2>1, <2>4, WithRowType
  <1>6. rows' \in Seq(Row)
    BY <1>2, <1>3, <1>4, <1>5 DEF Alter
  <1>7. nextId' \in Nat
    <2>1. rows' # <<>> => rows'[Len(rows')] \in Row
      BY <1>6
    <2>2. \A x \in Row : x.id + 1 \in Nat
      BY DEF Row
    <2> QED BY <1>0, <2>1, <2>2 DEF Alter
  <1> QED BY <1>6, <1>7

\* The payloads up to a row, and one row further.
LEMMA PayloadsType ==
    ASSUME NEW log \in Seq(Row), NEW n \in 0..Len(log)
    PROVE  PayloadsUpTo(log, n) \in Digest
  <1>1. \A j \in 1..n : Encode[log[j].entry] \in Encoding
    <2>1. \A x \in Row : x.entry \in Entry
      BY DEF Row
    <2>2. \A j \in 1..n : log[j] \in Row
      OBVIOUS
    <2> QED BY <2>1, <2>2, EncodeAssumption
  <1>2. n \in Nat
    OBVIOUS
  <1> QED BY <1>1, <1>2 DEF PayloadsUpTo, Digest

LEMMA PayloadsNext ==
    ASSUME NEW log \in Seq(Row), NEW n \in 1..Len(log)
    PROVE  Append(PayloadsUpTo(log, n - 1), Encode[log[n].entry])
             = PayloadsUpTo(log, n)
  <1> DEFINE g == PayloadsUpTo(log, n)
             p == PayloadsUpTo(log, n - 1)
  <1>1. p \in Seq(Encoding) /\ g \in Seq(Encoding)
    BY PayloadsType DEF Digest
  <1>2. /\ Len(p) = n - 1 /\ \A j \in 1..(n - 1) : p[j] = Encode[log[j].entry]
        /\ Len(g) = n /\ \A j \in 1..n : g[j] = Encode[log[j].entry]
    BY <1>1 DEF PayloadsUpTo
  <1>3. Encode[log[n].entry] \in Encoding
    BY <1>1, <1>2
  <1> HIDE DEF p, g
  <1>4. \A j \in 1..n : Append(p, Encode[log[n].entry])[j] = g[j]
    BY <1>1, <1>2, <1>3
  <1>5. Append(p, Encode[log[n].entry]) = g
    BY <1>1, <1>2, <1>3, <1>4
  <1> QED BY <1>5 DEF p, g

\* THEOREM: the type invariant of the table, its writers and the verifier.
THEOREM TypeCorrect == Spec => []TypeOK
  <1>1. Init => TypeOK
    BY NoWriterAssumption DEF Init, TypeOK, Phase, Digest, Genesis, Walk,
       WalkState, Verdict
  <1>2. TypeOK /\ [Next]_vars => TypeOK'
    <2> SUFFICES ASSUME TypeOK, [Next]_vars PROVE TypeOK'
      OBVIOUS
    <2> USE GenesisType DEF TypeOK, Phase, writerVars, histVars
    <2>0. ASSUME NEW w \in Writer, Call(w) PROVE TypeOK'
      BY <2>0 DEF Call
    <2>1. ASSUME NEW w \in Writer, Lock(w) PROVE TypeOK'
      BY <2>1 DEF Lock
    <2>2. ASSUME NEW w \in Writer, SelectLast(w) PROVE TypeOK'
      <3>1. LastHash \in Digest
        BY LastHashType
      <3> QED BY <2>2, <3>1 DEF SelectLast
    <2>3. ASSUME NEW w \in Writer, NEW e \in Entry, Insert(w, e) PROVE TypeOK'
      <3>1. NewRow(w, e) \in Row
        BY NewRowType
      <3>2. rows' = Append(rows, NewRow(w, e)) /\ rows' \in Seq(Row)
        BY <2>3, <3>1 DEF Insert
      <3>3. receipts' \subseteq Receipt
        <4>1. NewRow(w, e).hash \in Digest
          BY <3>1 DEF Row
        <4>2. Payloads(rows') \in Digest
          <5>1. Len(rows') \in 0..Len(rows')
            BY <3>2
          <5> QED BY <3>2, <5>1, PayloadsType DEF Payloads
        <4>3. [hash |-> NewRow(w, e).hash, log |-> Payloads(rows')] \in Receipt
          BY <4>1, <4>2 DEF Receipt
        <4> QED BY <2>3, <4>3 DEF Insert
      <3>4. written' \subseteq Row
        BY <2>3, <3>1 DEF Insert
      <3> QED BY <2>3, <3>1, <3>2, <3>3, <3>4 DEF Insert, Finish
    <2>4. ASSUME NEW w \in Writer, InsertFails(w) PROVE TypeOK'
      BY <2>4 DEF InsertFails, Finish
    <2>5. ASSUME NEW w \in Writer, Return(w) PROVE TypeOK'
      BY <2>5 DEF Return
    <2>6. CASE Crash
      BY <2>6 DEF Crash
    <2>7. CASE Alter
      BY <2>7, AlterType DEF Alter
    <2>9. CASE Snapshot
      BY <2>9 DEF Snapshot, Walk, WalkState, Verdict
    <2>10. CASE VerifyRow
      <3>1. walk.at \in Nat /\ walk.at >= 1 /\ walk.snap \in Seq(Row)
        BY <2>10 DEF VerifyRow, Walk
      <3>2. walk.snap[walk.at] \in Row
        BY <2>10, <3>1 DEF VerifyRow
      <3>3. walk.snap[walk.at].hash \in Digest
        BY <3>2 DEF Row
      <3>4. walk' \in Walk
        <4>1. \/ walk' = [walk EXCEPT !.state = "prev_hash_mismatch"]
              \/ walk' = [walk EXCEPT !.state = "row_hash_mismatch"]
              \/ walk' = [walk EXCEPT !.at = walk.at + 1,
                                     !.prev = walk.snap[walk.at].hash]
          BY <2>10 DEF VerifyRow
        <4>2. walk \in Walk /\ walk.at + 1 \in Nat \ {0}
          BY <3>1
        <4>3. [walk EXCEPT !.state = "prev_hash_mismatch"] \in Walk
          BY <4>2 DEF Walk, WalkState, Verdict
        <4>4. [walk EXCEPT !.state = "row_hash_mismatch"] \in Walk
          BY <4>2 DEF Walk, WalkState, Verdict
        <4>5. [walk EXCEPT !.at = walk.at + 1,
                           !.prev = walk.snap[walk.at].hash] \in Walk
          BY <4>2, <3>3 DEF Walk
        <4> QED BY <4>1, <4>3, <4>4, <4>5
      <3> QED BY <2>10, <3>4 DEF VerifyRow
    <2>11. CASE VerifyEnd
      BY <2>11 DEF VerifyEnd, Walk, WalkState, Verdict
    <2>12. CASE UNCHANGED vars
      BY <2>12 DEF vars
    <2> QED
      BY <2>0, <2>1, <2>2, <2>3, <2>4, <2>5, <2>6, <2>7, <2>9, <2>10,
         <2>11, <2>12 DEF Next, WriterStep
  <1> QED BY <1>1, <1>2, PTL DEF Spec

-----------------------------------------------------------------------------
\* Appending a row whose prev is the last hash keeps the chain intact.
LEMMA AppendIntact ==
    ASSUME TypeOK, Intact(rows), NEW r \in Row,
           r.prev = LastHash, RowHashOk(r)
    PROVE  Intact(Append(rows, r))
  <1>1. Len(Append(rows, r)) = Len(rows) + 1
    BY DEF TypeOK
  <1>2. ASSUME NEW i \in 1..(Len(rows) + 1)
        PROVE  LinkOk(Append(rows, r), i) /\ RowHashOk(Append(rows, r)[i])
    <2>1. CASE i <= Len(rows)
      <3>1. Append(rows, r)[i] = rows[i]
        BY <2>1 DEF TypeOK
      <3>2. i # 1 => Append(rows, r)[i - 1] = rows[i - 1]
        BY <2>1 DEF TypeOK
      <3> QED BY <2>1, <3>1, <3>2 DEF Intact, IntactUpTo, LinkOk
    <2>2. CASE i = Len(rows) + 1
      <3>1. Append(rows, r)[i] = r
        BY <2>2 DEF TypeOK
      <3>2. i # 1 => Append(rows, r)[i - 1] = rows[Len(rows)]
        BY <2>2 DEF TypeOK
      <3>3. i = 1 <=> rows = <<>>
        BY <2>2 DEF TypeOK
      <3> QED BY <3>1, <3>2, <3>3 DEF LinkOk, LastHash, Tip
    <2> QED BY <2>1, <2>2 DEF TypeOK
  <1> QED BY <1>1, <1>2 DEF Intact, IntactUpTo

LEMMA ChainInvHolds ==
    ASSUME ~SelectFaults
    PROVE  Spec => []ChainInv
  <1>1. Init => ChainInv
    BY DEF Init, ChainInv, MutexHeld, ReadFresh, Intact, IntactUpTo
  <1>2. TypeOK /\ ChainInv /\ [Next]_vars => ChainInv'
    <2> SUFFICES ASSUME TypeOK, ChainInv, [Next]_vars PROVE ChainInv'
      OBVIOUS
    <2> USE DEF ChainInv, MutexHeld, ReadFresh, LastHash, Tip, writerVars, histVars
    <2>0. phase \in [Writer -> Phase] /\ prevRead \in [Writer -> Digest]
          /\ rows \in Seq(Row) /\ edits \in Nat
      BY DEF TypeOK
    <2>10. ASSUME NEW w \in Writer, Call(w) PROVE ChainInv'
      BY <2>0, <2>10 DEF Call
    <2>1. ASSUME NEW w \in Writer, Lock(w) PROVE ChainInv'
      BY <2>0, <2>1, NoWriterAssumption DEF Lock
    <2>2. ASSUME NEW w \in Writer, SelectLast(w) PROVE ChainInv'
      BY <2>0, <2>2 DEF SelectLast
    <2>3. ASSUME NEW w \in Writer, NEW e \in Entry, Insert(w, e)
          PROVE ChainInv'
      <3>1. NewRow(w, e) \in Row
        BY NewRowType
      <3>2. edits = 0 => Intact(rows')
        BY <2>0, <2>3, <3>1, AppendIntact
           DEF Insert, NewRow, RowHashOk
      <3>3. \A v \in Writer : phase'[v] \notin {"locked", "selected"}
        BY <2>0, <2>3 DEF Insert, Finish
      <3> QED BY <2>3, <3>2, <3>3 DEF Insert
    <2>4. ASSUME NEW w \in Writer, InsertFails(w) PROVE ChainInv'
      <3>1. \A v \in Writer : phase'[v] \notin {"locked", "selected"}
        BY <2>0, <2>4 DEF InsertFails, Finish
      <3> QED BY <2>4, <3>1 DEF InsertFails
    <2>5. ASSUME NEW w \in Writer, Return(w) PROVE ChainInv'
      BY <2>0, <2>5 DEF Return
    <2>6. CASE Crash
      BY <2>6 DEF Crash
    <2>7. CASE Alter
      <3>1. edits' = edits + 1 /\ UNCHANGED writerVars
        BY <2>7 DEF Alter
      <3> QED BY <2>0, <3>1
    <2>8. CASE Snapshot \/ VerifyRow \/ VerifyEnd
      BY <2>8 DEF Snapshot, VerifyRow, VerifyEnd
    <2>9. CASE UNCHANGED vars
      BY <2>9 DEF vars
    <2> QED
      BY <2>1, <2>2, <2>3, <2>4, <2>5, <2>6, <2>7, <2>8, <2>9, <2>10
      DEF Next, WriterStep
  <1> QED BY <1>1, <1>2, TypeCorrect, PTL DEF Spec

\* THEOREM: under the connection mutex no two calls chain to the same row.
THEOREM ChainIntactCorrect ==
    ASSUME ~SelectFaults
    PROVE  Spec => []ChainIntact
  <1>1. ChainInv => ChainIntact
    BY DEF ChainInv, ChainIntact
  <1> QED BY <1>1, ChainInvHolds, PTL

-----------------------------------------------------------------------------
\* One turn of verify_chain's loop accepts exactly one more row.
LEMMA WalkStep ==
    ASSUME TypeOK, WalkInv, VerifyRow
    PROVE  WalkInv'
  <1>0. /\ walk.at \in 1..Len(walk.snap) /\ walk.snap \in Seq(Row)
        /\ walk.state = "walking" /\ walk \in Walk
    BY DEF TypeOK, WalkInv, Walk, VerifyRow
  <1> DEFINE r == walk.snap[walk.at]
  <1>1. LinkOk(walk.snap, walk.at) <=> r.prev = walk.prev
    BY <1>0 DEF LinkOk, WalkInv
  <1>2. CASE r.prev # walk.prev
    <2>1. walk' = [walk EXCEPT !.state = "prev_hash_mismatch"]
      BY <1>2 DEF VerifyRow
    <2> QED BY <1>0, <1>1, <1>2, <2>1 DEF WalkInv, Walk, Verdict
  <1>3. CASE r.prev = walk.prev /\ ~RowHashOk(r)
    <2>1. walk' = [walk EXCEPT !.state = "row_hash_mismatch"]
      BY <1>3 DEF VerifyRow
    <2> QED BY <1>0, <1>1, <1>3, <2>1 DEF WalkInv, Walk, Verdict
  <1>4. CASE r.prev = walk.prev /\ RowHashOk(r)
    <2>1. walk' = [walk EXCEPT !.at = walk.at + 1, !.prev = r.hash]
      BY <1>4 DEF VerifyRow
    <2>2. walk'.at = walk.at + 1 /\ walk'.prev = r.hash
          /\ walk'.snap = walk.snap /\ walk'.state = "walking"
      BY <2>1, <1>0 DEF Walk
    <2>3. IntactUpTo(walk.snap, walk.at)
      BY <1>0, <1>1, <1>4 DEF IntactUpTo, WalkInv
    <2> QED BY <1>0, <2>2, <2>3 DEF WalkInv, Verdict
  <1> QED BY <1>2, <1>3, <1>4

LEMMA WalkInvHolds == Spec => []WalkInv
  <1>1. Init => WalkInv
    BY DEF Init, WalkInv, Verdict
  <1>2. TypeOK /\ WalkInv /\ [Next]_vars => WalkInv'
    <2> SUFFICES ASSUME TypeOK, WalkInv, [Next]_vars PROVE WalkInv'
      OBVIOUS
    <2>1. CASE Snapshot
      <3>1. /\ walk'.state = "walking" /\ walk'.snap = rows
            /\ walk'.at = 1 /\ walk'.prev = Genesis
        BY <2>1 DEF Snapshot
      <3> QED BY <3>1 DEF WalkInv, IntactUpTo, TypeOK, Verdict
    <2>2. CASE VerifyRow
      BY <2>2, WalkStep
    <2>3. CASE VerifyEnd
      <3>1. walk' = [walk EXCEPT !.state = "ok"] /\ walk.state = "walking"
            /\ walk.at > Len(walk.snap)
        BY <2>3 DEF VerifyEnd
      <3>2. /\ walk'.at = walk.at /\ walk'.prev = walk.prev
            /\ walk'.snap = walk.snap /\ walk'.state = "ok"
        BY <3>1 DEF TypeOK, Walk
      <3>3. walk.at = Len(walk.snap) + 1
        BY <3>1 DEF WalkInv, TypeOK, Walk
      <3> QED BY <3>1, <3>2, <3>3 DEF WalkInv, Verdict
    <2>4. CASE UNCHANGED walk
      BY <2>4 DEF WalkInv
    <2> QED
      BY <2>1, <2>2, <2>3, <2>4 DEF Next, WriterStep, vars, Call, Lock, SelectLast,
         Insert, InsertFails, Return, Crash, Alter
  <1> QED BY <1>1, <1>2, TypeCorrect, PTL DEF Spec

\* THEOREM: verify_chain decides the reference definition of an intact chain
\* and names the first broken row.
THEOREM VerdictExactCorrect == Spec => []VerdictExact
  <1>1. TypeOK /\ WalkInv => VerdictExact
    BY DEF TypeOK, Walk, WalkInv, VerdictExact, Intact, Verdict
  <1> QED BY <1>1, WalkInvHolds, TypeCorrect, PTL

-----------------------------------------------------------------------------
\* The snapshot of an unaltered table is an intact chain.
SnapIntact == walk.edits = 0 => Intact(walk.snap)

\* Steps that leave the verifier alone.
LEMMA WalkFrame ==
    ASSUME [Next]_vars
    PROVE  \/ Snapshot \/ VerifyRow \/ VerifyEnd
           \/ UNCHANGED walk
  BY DEF Next, WriterStep, vars, Call, Lock, SelectLast, Insert, InsertFails,
     Return, Crash, Alter

\* The verifier never changes the snapshot it walks, nor what it knows of it.
LEMMA WalkKeepsSnap ==
    ASSUME TypeOK, VerifyRow \/ VerifyEnd
    PROVE  walk'.snap = walk.snap /\ walk'.edits = walk.edits
  <1>1. walk \in Walk
    BY DEF TypeOK
  <1>2. \/ walk' = [walk EXCEPT !.state = "prev_hash_mismatch"]
        \/ walk' = [walk EXCEPT !.state = "row_hash_mismatch"]
        \/ walk' = [walk EXCEPT !.state = "ok"]
        \/ walk' = [walk EXCEPT !.at = walk.at + 1,
                                !.prev = walk.snap[walk.at].hash]
    BY DEF VerifyRow, VerifyEnd
  <1> QED BY <1>1, <1>2 DEF Walk

\* THEOREM: verifying a live, crashing server raises no false alarm.
THEOREM NoFalseAlarmCorrect ==
    ASSUME ~SelectFaults
    PROVE  Spec => []NoFalseAlarm
  <1>1. Init => SnapIntact
    BY DEF Init, SnapIntact, Intact, IntactUpTo
  <1>2. TypeOK /\ ChainIntact /\ SnapIntact /\ [Next]_vars => SnapIntact'
    <2> SUFFICES ASSUME TypeOK, ChainIntact, SnapIntact, [Next]_vars
                 PROVE  SnapIntact'
      OBVIOUS
    <2>1. CASE Snapshot
      <3>1. walk'.snap = rows /\ walk'.edits = edits
        BY <2>1 DEF Snapshot
      <3> QED BY <3>1 DEF SnapIntact, ChainIntact
    <2>2. CASE VerifyRow \/ VerifyEnd
      BY <2>2, WalkKeepsSnap DEF SnapIntact
    <2>3. CASE UNCHANGED walk
      BY <2>3 DEF SnapIntact
    <2> QED BY <2>1, <2>2, <2>3, WalkFrame
  <1>3. TypeOK /\ VerdictExact /\ SnapIntact => NoFalseAlarm
    BY DEF TypeOK, Walk, VerdictExact, SnapIntact, Intact, IntactUpTo,
       NoFalseAlarm
  <1> QED
    BY <1>1, <1>2, <1>3, TypeCorrect, ChainIntactCorrect, VerdictExactCorrect,
       PTL DEF Spec

-----------------------------------------------------------------------------
\* A row is present: the table holds, under this id, a row an INSERT wrote.
Present(id) == \E i \in 1..Len(rows) : rows[i].id = id /\ rows[i] \in written

\* Also what a call has inserted and not yet returned is in the table.
AckedInv ==
    edits = 0 => /\ \A id \in acked : Present(id)
                 /\ \A w \in Writer : phase[w] = "inserted" => Present(rowid[w])

\* THEOREM: a row acknowledged to a handler survives crashes and other calls.
THEOREM AckedDurableCorrect == Spec => []AckedDurable
  <1>1. Init => AckedInv
    BY DEF Init, AckedInv
  <1>2. TypeOK /\ AckedInv /\ [Next]_vars => AckedInv'
    <2> SUFFICES ASSUME TypeOK, AckedInv, [Next]_vars PROVE AckedInv'
      OBVIOUS
    <2>0. /\ phase \in [Writer -> Phase] /\ rowid \in [Writer -> Nat]
          /\ rows \in Seq(Row) /\ edits \in Nat /\ nextId \in Nat
      BY DEF TypeOK
    <2>1. ASSUME NEW w \in Writer, Call(w) \/ Lock(w) \/ SelectLast(w)
                                  \/ InsertFails(w)
          PROVE AckedInv'
      <3>1. UNCHANGED <<rows, written, acked, rowid, edits>>
        BY <2>1 DEF Call, Lock, SelectLast, InsertFails, histVars
      <3>2. \A v \in Writer : phase'[v] = "inserted" => phase[v] = "inserted"
        BY <2>0, <2>1 DEF Call, Lock, SelectLast, InsertFails, Finish
      <3> QED BY <3>1, <3>2 DEF AckedInv, Present
    <2>2. ASSUME NEW w \in Writer, NEW e \in Entry, Insert(w, e)
          PROVE AckedInv'
      <3> DEFINE n == NewRow(w, e)
      <3>0. SUFFICES ASSUME edits = 0 PROVE AckedInv'
        BY <2>2 DEF Insert, AckedInv
      <3>1. /\ rows' = Append(rows, n) /\ written' = written \cup {n}
            /\ rowid' = [rowid EXCEPT ![w] = nextId]
            /\ phase' = [phase EXCEPT ![w] = "inserted"]
            /\ acked' = acked /\ edits' = edits
        BY <2>2, <3>0 DEF Insert, Finish
      <3>2. n \in Row /\ n.id = nextId
        BY NewRowType DEF NewRow
      <3>3. \A id : Present(id) => Present(id)'
        BY <2>0, <3>1, <3>2 DEF Present
      <3>4. \E i \in 1..Len(rows') :
              rows'[i].id = nextId /\ rows'[i] \in written'
        <4>1. Len(rows') = Len(rows) + 1 /\ rows'[Len(rows) + 1] = n
          BY <2>0, <3>1, <3>2
        <4>2. Len(rows) + 1 \in 1..Len(rows')
          BY <2>0, <4>1
        <4> QED BY <3>1, <3>2, <4>1, <4>2
      <3>5. edits = 0 => \A id \in acked' : Present(id)'
        BY <3>1, <3>3 DEF AckedInv
      <3>6. ASSUME edits = 0, NEW v \in Writer, phase'[v] = "inserted"
            PROVE  Present(rowid[v])'
        <4>1. CASE v = w
          <5>1. rowid'[v] = nextId
            BY <2>0, <3>1, <4>1
          <5> QED BY <5>1, <3>4 DEF Present
        <4>2. CASE v # w
          <5>1. phase[v] = "inserted" /\ rowid'[v] = rowid[v]
            BY <2>0, <3>1, <3>6, <4>2
          <5>2. Present(rowid[v])
            BY <5>1, <3>6 DEF AckedInv
          <5>3. \E i \in 1..Len(rows') :
                  rows'[i].id = rowid[v] /\ rows'[i] \in written'
            <6>1. PICK i \in 1..Len(rows) :
                    rows[i].id = rowid[v] /\ rows[i] \in written
              BY <5>2 DEF Present
            <6>2. rows'[i] = rows[i] /\ i \in 1..Len(rows')
              BY <2>0, <3>1, <3>2
            <6> QED BY <6>1, <6>2, <3>1
          <5> QED BY <5>1, <5>3 DEF Present
        <4> QED BY <4>1, <4>2
      <3> QED BY <3>1, <3>5, <3>6 DEF AckedInv
    <2>3. ASSUME NEW w \in Writer, Return(w) PROVE AckedInv'
      <3>1. /\ UNCHANGED <<rows, written, edits>> /\ phase[w] = "inserted"
            /\ acked' = IF edits = 0 THEN acked \cup {rowid[w]} ELSE acked
            /\ phase' = [phase EXCEPT ![w] = "idle"]
            /\ rowid' = [rowid EXCEPT ![w] = 0]
        BY <2>3 DEF Return
      <3>2. \A id : Present(id) => Present(id)'
        BY <3>1 DEF Present
      <3> QED BY <2>0, <3>1, <3>2 DEF AckedInv
    <2>4. CASE Crash
      <3>1. /\ UNCHANGED <<rows, written, acked, edits>>
            /\ phase' = [w \in Writer |-> "idle"]
        BY <2>4 DEF Crash, histVars
      <3> QED BY <3>1 DEF AckedInv, Present
    <2>5. CASE Alter
      <3>1. edits' = edits + 1
        BY <2>5 DEF Alter
      <3> QED BY <2>0, <3>1 DEF AckedInv
    <2>6. CASE Snapshot \/ VerifyRow \/ VerifyEnd \/ UNCHANGED vars
      <3>1. UNCHANGED <<rows, written, acked, rowid, phase, edits>>
        BY <2>6 DEF Snapshot, VerifyRow, VerifyEnd, vars, writerVars, histVars
      <3> QED BY <3>1 DEF AckedInv, Present
    <2> QED
      BY <2>1, <2>2, <2>3, <2>4, <2>5, <2>6 DEF Next, WriterStep
  <1>3. AckedInv => AckedDurable
    BY DEF AckedInv, AckedDurable, Present
  <1> QED BY <1>1, <1>2, <1>3, TypeCorrect, PTL DEF Spec

-----------------------------------------------------------------------------
(***************************************************************************)
(* Hashes stand for histories. Every hash recorded while nobody had altered *)
(* the table is the sequence of the payloads up to its row, and so is every *)
(* hash that the verifier has accepted, of whatever table.                  *)
(***************************************************************************)
ReceiptInv ==
    /\ \A k \in receipts : k.hash = k.log
    /\ edits = 0 => LastHash = Payloads(rows)

ReachedInv ==
    walk.state \in {"walking", "ok"} =>
      \A j \in 1..(walk.at - 1) : walk.snap[j].hash = PayloadsUpTo(walk.snap, j)

LedgerInv == ReachedInv /\ walk.edits <= edits

\* An INSERT into an unaltered table puts the new payloads behind the last hash.
LEMMA InsertReceipt ==
    ASSUME TypeOK, ChainInv, ReceiptInv, edits = 0,
           NEW w \in Writer, NEW e \in Entry, Insert(w, e)
    PROVE  /\ LastHash' = Append(LastHash, Encode[e])
           /\ LastHash' = Payloads(rows')
           /\ NewRow(w, e).hash = LastHash'
  <1> DEFINE n == NewRow(w, e)
             m == Len(rows) + 1
  <1>1. /\ rows \in Seq(Row) /\ n \in Row /\ n.entry = e
        /\ rows' = Append(rows, n) /\ prevRead[w] = LastHash
        /\ n.hash = Append(prevRead[w], Encode[e])
    BY NewRowType DEF TypeOK, Insert, NewRow, Hash, ChainInv, ReadFresh
  <1>2. /\ rows' \in Seq(Row) /\ Len(rows') = m /\ m \in 1..Len(rows')
        /\ rows'[m] = n /\ \A j \in 1..Len(rows) : rows'[j] = rows[j]
    BY <1>1
  <1>3. LastHash' = n.hash
    BY <1>2 DEF LastHash, Tip
  <1>4. PayloadsUpTo(rows', m - 1) = Payloads(rows)
    BY <1>1, <1>2 DEF PayloadsUpTo, Payloads
  <1>5. Append(PayloadsUpTo(rows', m - 1), Encode[rows'[m].entry])
          = PayloadsUpTo(rows', m)
    BY <1>2, PayloadsNext
  <1>6. LastHash = Payloads(rows)
    BY DEF ReceiptInv
  <1>7. Payloads(rows') = Append(LastHash, Encode[e])
    BY <1>1, <1>2, <1>4, <1>5, <1>6 DEF Payloads
  <1> QED BY <1>1, <1>3, <1>7

LEMMA ReceiptInvHolds ==
    ASSUME ~SelectFaults
    PROVE  Spec => []ReceiptInv
  <1>1. Init => ReceiptInv
    BY DEF Init, ReceiptInv, LastHash, Tip, Payloads, PayloadsUpTo, Genesis
  <1>2. TypeOK /\ ChainInv /\ ReceiptInv /\ [Next]_vars => ReceiptInv'
    <2> SUFFICES ASSUME TypeOK, ChainInv, ReceiptInv, [Next]_vars
                 PROVE  ReceiptInv'
      OBVIOUS
    <2>1. ASSUME NEW w \in Writer, NEW e \in Entry, Insert(w, e)
          PROVE  ReceiptInv'
      <3>1. CASE edits = 0
        <4>1. receipts' = receipts \cup {[hash |-> NewRow(w, e).hash,
                                          log |-> Payloads(rows')]}
          BY <2>1, <3>1 DEF Insert
        <4>2. LastHash' = Payloads(rows') /\ NewRow(w, e).hash = LastHash'
          BY <2>1, <3>1, InsertReceipt
        <4> QED BY <4>1, <4>2 DEF ReceiptInv, Payloads
      <3>2. CASE edits # 0
        BY <2>1, <3>2 DEF Insert, ReceiptInv
      <3> QED BY <3>1, <3>2
    <2>2. CASE Alter
      <3>1. receipts' = receipts /\ edits' = edits + 1 /\ edits \in Nat
        BY <2>2 DEF Alter, histVars, TypeOK
      <3> QED BY <3>1 DEF ReceiptInv
    <2>3. CASE UNCHANGED <<rows, edits, receipts>>
      BY <2>3 DEF ReceiptInv, LastHash, Tip, Payloads, PayloadsUpTo
    <2> QED
      BY <2>1, <2>2, <2>3 DEF Next, WriterStep, vars, histVars, Call, Lock,
         SelectLast, InsertFails, Return, Crash, Snapshot, VerifyRow, VerifyEnd
  <1> QED BY <1>1, <1>2, TypeCorrect, ChainInvHolds, PTL DEF Spec

\* The hash of a row that the verifier accepts is that of the payloads up to it.
LEMMA ReachedStep ==
    ASSUME TypeOK, WalkInv, ReachedInv, VerifyRow
    PROVE  ReachedInv'
  <1>0. /\ walk \in Walk /\ walk.snap \in Seq(Row) /\ walk.state = "walking"
        /\ walk.at \in 1..Len(walk.snap)
    BY DEF TypeOK, WalkInv, Walk, VerifyRow
  <1> DEFINE r == walk.snap[walk.at]
             n == walk.at
  <1>1. CASE r.prev = walk.prev /\ RowHashOk(r)
    <2>1. walk' = [walk EXCEPT !.at = n + 1, !.prev = r.hash]
      BY <1>1 DEF VerifyRow
    <2>2. walk'.at = n + 1 /\ walk'.snap = walk.snap /\ walk'.state = "walking"
      BY <1>0, <2>1 DEF Walk
    <2>3. r.hash = Append(walk.prev, Encode[r.entry])
      BY <1>1 DEF RowHashOk, Hash
    <2>4. walk.prev = PayloadsUpTo(walk.snap, n - 1)
      <3>1. CASE n = 1
        BY <1>0, <3>1 DEF WalkInv, Genesis, PayloadsUpTo
      <3>2. CASE n # 1
        <4>1. walk.prev = walk.snap[n - 1].hash /\ n - 1 \in 1..(n - 1)
          BY <1>0, <3>2 DEF WalkInv
        <4> QED BY <1>0, <4>1 DEF ReachedInv
      <3> QED BY <3>1, <3>2
    <2>5. r.hash = PayloadsUpTo(walk.snap, n)
      BY <1>0, <2>3, <2>4, PayloadsNext
    <2>6. \A j \in 1..n : walk.snap[j].hash = PayloadsUpTo(walk.snap, j)
      <3>1. \A j \in 1..(n - 1) : walk.snap[j].hash = PayloadsUpTo(walk.snap, j)
        BY <1>0 DEF ReachedInv
      <3> QED BY <1>0, <2>5, <3>1
    <2>7. walk'.at - 1 = n
      BY <1>0, <2>2
    <2> QED BY <2>2, <2>6, <2>7 DEF ReachedInv, PayloadsUpTo
  <1>2. CASE ~(r.prev = walk.prev /\ RowHashOk(r))
    <2>1. walk'.state \in {"prev_hash_mismatch", "row_hash_mismatch"}
      BY <1>0, <1>2 DEF VerifyRow, Walk
    <2> QED BY <2>1 DEF ReachedInv
  <1> QED BY <1>1, <1>2

LEMMA LedgerInvHolds == Spec => []LedgerInv
  <1>1. Init => LedgerInv
    BY DEF Init, LedgerInv, ReachedInv
  <1>2. TypeOK /\ WalkInv /\ LedgerInv /\ [Next]_vars => LedgerInv'
    <2> SUFFICES ASSUME TypeOK, WalkInv, LedgerInv, [Next]_vars
                 PROVE  LedgerInv'
      OBVIOUS
    <2>0. walk \in Walk /\ edits \in Nat /\ walk.edits \in Nat
      BY DEF TypeOK, Walk
    <2>1. CASE Snapshot
      <3>1. /\ walk'.at = 1 /\ walk'.edits = edits /\ edits' = edits
        BY <2>1 DEF Snapshot
      <3> QED BY <2>0, <3>1 DEF LedgerInv, ReachedInv
    <2>2. CASE VerifyRow
      <3>1. ReachedInv'
        BY <2>2, ReachedStep DEF LedgerInv
      <3>2. walk'.edits = walk.edits /\ edits' = edits
        BY <2>2, WalkKeepsSnap DEF VerifyRow
      <3> QED BY <3>1, <3>2 DEF LedgerInv
    <2>3. CASE VerifyEnd
      <3>1. walk' = [walk EXCEPT !.state = "ok"] /\ walk.state = "walking"
            /\ edits' = edits
        BY <2>3 DEF VerifyEnd
      <3>2. /\ walk'.at = walk.at /\ walk'.snap = walk.snap
            /\ walk'.edits = walk.edits
        BY <2>0, <3>1 DEF Walk
      <3> QED BY <3>1, <3>2 DEF LedgerInv, ReachedInv, PayloadsUpTo
    <2>4. CASE UNCHANGED walk /\ edits' \in {edits, edits + 1}
      BY <2>0, <2>4 DEF LedgerInv, ReachedInv, PayloadsUpTo
    <2> QED
      BY <2>1, <2>2, <2>3, <2>4 DEF Next, WriterStep, vars, Call, Lock, SelectLast,
         Insert, InsertFails, Return, Crash, Alter
  <1> QED BY <1>1, <1>2, TypeCorrect, WalkInvHolds, PTL DEF Spec

\* THEOREM: after any alterations, a table that verifies and carries a row_hash noted
\* before them holds up to that row the payloads that were recorded then.
THEOREM AnchoredCorrect ==
    ASSUME ~SelectFaults
    PROVE  Spec => []Anchored
  <1>1. TypeOK /\ WalkInv /\ LedgerInv /\ ReceiptInv => Anchored
    <2> SUFFICES ASSUME TypeOK, WalkInv, LedgerInv, ReceiptInv, walk.state = "ok",
                        NEW k \in receipts, NEW i \in 1..Len(walk.snap),
                        walk.snap[i].hash = k.hash
                 PROVE  PayloadsUpTo(walk.snap, i) = k.log
      BY DEF Anchored
    <2>1. walk.at = Len(walk.snap) + 1 /\ walk.snap \in Seq(Row)
      BY DEF WalkInv, TypeOK, Walk
    <2>2. walk.snap[i].hash = PayloadsUpTo(walk.snap, i)
      BY <2>1 DEF LedgerInv, ReachedInv
    <2> QED BY <2>2 DEF ReceiptInv
  <1> QED
    BY <1>1, TypeCorrect, WalkInvHolds, LedgerInvHolds, ReceiptInvHolds, PTL

-----------------------------------------------------------------------------
(***************************************************************************)
(* The audit log implements the ledger.                                     *)
(***************************************************************************)

\* The payloads of a log that verifies are the history its last hash stands for.
LEMMA VerifiedTip ==
    ASSUME TypeOK, LedgerInv,
           walk.state \in {"walking", "ok"}, walk.at = Len(walk.snap) + 1
    PROVE  Tip(walk.snap) = Payloads(walk.snap)
  <1>1. walk.snap \in Seq(Row)
    BY DEF TypeOK, Walk
  <1>2. CASE walk.snap = <<>>
    BY <1>2 DEF Tip, Payloads, PayloadsUpTo, Genesis
  <1>3. CASE walk.snap # <<>>
    <2>1. Len(walk.snap) \in 1..(walk.at - 1)
      BY <1>1, <1>3
    <2>2. walk.snap[Len(walk.snap)].hash = PayloadsUpTo(walk.snap, Len(walk.snap))
      BY <2>1 DEF LedgerInv, ReachedInv
    <2> QED BY <1>3, <2>2 DEF Tip, Payloads
  <1> QED BY <1>2, <1>3

\* An INSERT records its entry: after what the log shows, if nobody altered it.
LEMMA InsertMaps ==
    ASSUME TypeOK, ChainInv, ReceiptInv,
           NEW w \in Writer, NEW e \in Entry, Insert(w, e)
    PROVE  L!Next
  <1> DEFINE n == NewRow(w, e)
             d == Encode[e]
  <1>1. /\ rows' = Append(rows, n) /\ UNCHANGED <<edits, walk>>
    BY DEF Insert
  <1>2. d \in Encoding
    BY EncodeAssumption
  <1>3. Report' = Report /\ Tip(walk.snap)' = Tip(walk.snap)
    BY <1>1 DEF Report, Tip, Payloads, PayloadsUpTo
  <1>4. CASE edits = 0
    <2>1. /\ LastHash' = Append(LastHash, d) /\ LastHash' = Payloads(rows')
      BY <1>4, InsertReceipt
    <2>2. receipts' = receipts \cup {[hash |-> n.hash, log |-> Payloads(rows')]}
      BY <1>4 DEF Insert
    <2>3. Genuine' = Genuine \cup {LastHash'}
      <3> DEFINE z == [hash |-> n.hash, log |-> Payloads(rows')]
      <3>1. receipts' = receipts \cup {z} /\ z.log = LastHash'
        BY <2>1, <2>2
      <3> HIDE DEF z
      <3>2. {k.log : k \in receipts'} = {k.log : k \in receipts} \cup {LastHash'}
        BY <3>1
      <3> QED BY <3>2 DEF Genuine
    <2>4. L!Record(d)
      BY <1>1, <1>3, <1>4, <2>1, <2>3 DEF L!Record
    <2> QED BY <1>2, <2>4 DEF L!Next
  <1>5. CASE edits # 0
    <2>1. edits > 0
      BY <1>5 DEF TypeOK
    <2>2. Genuine' = Genuine
      BY <1>5 DEF Insert, Genuine
    <2>3. /\ rows \in Seq(Row) /\ n \in Row /\ n.hash = Append(prevRead[w], d)
          /\ prevRead[w] \in Seq(Encoding)
      BY NewRowType DEF TypeOK, NewRow, Hash, Digest
    <2>4. LastHash' = Append(prevRead[w], d)
      <3>1. /\ rows' # <<>> /\ Len(rows') = Len(rows) + 1
            /\ rows'[Len(rows) + 1] = n
        BY <1>1, <2>3
      <3> QED BY <2>3, <3>1 DEF LastHash, Tip
    <2>5. /\ LastHash' \in Seq(Encoding) /\ LastHash' # <<>>
          /\ LastHash'[Len(LastHash')] = d
      BY <1>2, <2>3, <2>4
    <2>6. L!RecordAltered(d)
      BY <1>1, <1>3, <2>1, <2>2, <2>5 DEF L!RecordAltered
    <2> QED BY <1>2, <2>6 DEF L!Next
  <1> QED BY <1>4, <1>5

\* Whoever alters the table makes the log show what its last row's hash says.
LEMMA AlterMaps ==
    ASSUME TypeOK, Alter
    PROVE  L!Next
  <1>1. UNCHANGED <<walk, receipts>> /\ edits' = edits + 1
    BY DEF Alter, histVars
  <1>2. LastHash' \in Seq(Encoding)
    <2>1. rows' \in Seq(Row)
      BY AlterType
    <2>2. rows' # <<>> => rows'[Len(rows')].hash \in Digest
      <3>1. rows' # <<>> => rows'[Len(rows')] \in Row
        BY <2>1
      <3> QED BY <3>1 DEF Row
    <2> QED BY <2>2, GenesisType DEF LastHash, Tip, Digest
  <1>3. (edits > 0)' = TRUE
    BY <1>1 DEF TypeOK
  <1>4. /\ Genuine' = Genuine /\ Report' = Report
        /\ Tip(walk.snap)' = Tip(walk.snap)
    BY <1>1 DEF Genuine, Report, Tip, Payloads, PayloadsUpTo
  <1>5. L!Alter
    BY <1>2, <1>3, <1>4 DEF L!Alter
  <1> QED BY <1>5 DEF L!Next

\* A turn of the loop says nothing yet, or accuses someone who did alter the table.
LEMMA VerifyRowMaps ==
    ASSUME TypeOK, TypeOK', LedgerInv', NoFalseAlarm', VerifyRow
    PROVE  L!Next \/ UNCHANGED L!ledgerVars
  <1>1. /\ UNCHANGED <<rows, receipts, edits>> /\ walk.state = "walking"
        /\ walk'.snap = walk.snap
    BY WalkKeepsSnap DEF VerifyRow, histVars
  <1>2. /\ UNCHANGED <<Genuine, LastHash>> /\ Tip(walk'.snap) = Tip(walk.snap)
    BY <1>1 DEF Genuine, LastHash, Tip
  <1>3. CASE walk'.state = "walking"
    <2>1. Report' = Report
      BY <1>1, <1>3 DEF Report
    <2> QED BY <1>1, <1>2, <2>1 DEF L!ledgerVars, Tip
  <1>4. CASE walk'.state \in {"prev_hash_mismatch", "row_hash_mismatch"}
    <2>1. edits > 0
      <3>1. walk'.edits > 0 /\ walk'.edits <= edits'
        BY <1>4 DEF NoFalseAlarm, LedgerInv
      <3>2. walk'.edits \in Nat /\ edits \in Nat
        BY DEF TypeOK, Walk
      <3> QED BY <1>1, <3>1, <3>2
    <2>2. Report' = L!Broken
      BY <1>4 DEF Report, L!Broken
    <2>3. L!Accuse
      BY <1>1, <1>2, <2>1, <2>2 DEF L!Accuse, Tip
    <2> QED BY <2>3 DEF L!Next
  <1> QED
    <2>1. walk' \in Walk /\ walk \in Walk
      BY DEF TypeOK, Walk, WalkState, Row, Digest
    <2>2. walk'.state \in {"walking", "prev_hash_mismatch", "row_hash_mismatch"}
      BY <1>1, <2>1 DEF VerifyRow, Walk
    <2> QED BY <1>3, <1>4, <2>2

\* The verifier vouches for the history that the log showed when it began.
LEMMA VerifyEndMaps ==
    ASSUME TypeOK, WalkInv, LedgerInv, VerifyEnd
    PROVE  L!Next
  <1>1. /\ UNCHANGED <<rows, receipts, edits>> /\ walk.state = "walking"
        /\ walk' = [walk EXCEPT !.state = "ok"] /\ walk.at > Len(walk.snap)
    BY DEF VerifyEnd, histVars
  <1>2. walk \in Walk
    BY DEF TypeOK
  <1>3. walk'.snap = walk.snap /\ walk'.state = "ok"
    BY <1>1, <1>2 DEF Walk
  <1>4. walk.at = Len(walk.snap) + 1
    BY <1>1, <1>2 DEF WalkInv, Walk
  <1>5. Report' = L!Vouched(Tip(walk.snap))
    <2>1. Tip(walk.snap) = Payloads(walk.snap)
      BY <1>1, <1>4, VerifiedTip
    <2> QED BY <1>3, <2>1 DEF Report, L!Vouched, Payloads, PayloadsUpTo
  <1>6. L!Vouch
    BY <1>1, <1>3, <1>5 DEF L!Vouch, Genuine, LastHash, Tip
  <1> QED BY <1>6 DEF L!Next

\* THEOREM: the audit log implements the ledger.
THEOREM ImplementsLedger ==
    ASSUME ~SelectFaults
    PROVE  Spec => Implements
  <1>1. Init => L!Init
    BY DEF Init, L!Init, L!Silent, Genuine, LastHash, Tip, Report, Genesis
  <1>2. ASSUME TypeOK, TypeOK', ChainInv, WalkInv, ReceiptInv, LedgerInv,
               LedgerInv', NoFalseAlarm', [Next]_vars
        PROVE  [L!Next]_(L!ledgerVars)
    <2> SUFFICES L!Next \/ UNCHANGED L!ledgerVars
      OBVIOUS
    <2>1. ASSUME NEW w \in Writer, NEW e \in Entry, Insert(w, e)
          PROVE  L!Next
      BY <1>2, <2>1, InsertMaps
    <2>2. CASE Alter
      BY <1>2, <2>2, AlterMaps
    <2>3. CASE Snapshot
      <3>1. /\ UNCHANGED <<rows, receipts, edits>> /\ walk'.snap = rows
            /\ walk'.state = "walking"
        BY <2>3 DEF Snapshot, histVars
      <3>2. Report' = L!Silent
        BY <3>1 DEF Report, L!Silent
      <3>3. L!Ask
        BY <3>1, <3>2 DEF L!Ask, Genuine, LastHash, Tip
      <3> QED BY <3>3 DEF L!Next
    <2>4. CASE VerifyRow
      BY <1>2, <2>4, VerifyRowMaps
    <2>5. CASE VerifyEnd
      BY <1>2, <2>5, VerifyEndMaps
    <2>6. CASE UNCHANGED <<rows, receipts, edits, walk>>
      BY <2>6 DEF L!ledgerVars, Genuine, LastHash, Tip, Report, Payloads,
         PayloadsUpTo
    <2> QED
      BY <1>2, <2>1, <2>2, <2>3, <2>4, <2>5, <2>6
      DEF Next, WriterStep, vars, histVars, Call, Lock, SelectLast, InsertFails,
          Return, Crash
  <1>3. Init /\ [][Next]_vars => []NoFalseAlarm /\ []ChainInv /\ []ReceiptInv
    BY NoFalseAlarmCorrect, ChainInvHolds, ReceiptInvHolds DEF Spec
  <1> QED
    BY <1>1, <1>2, <1>3, TypeCorrect, WalkInvHolds, LedgerInvHolds, PTL
    DEF Spec, Implements, L!Spec

-----------------------------------------------------------------------------
\* What the ledger promises follows from its own steps alone.
EvidentInv == L!Evident /\ Genuine \subseteq Seq(Encoding)

\* Of two histories that one history continues, one continues the other.
LEMMA PrefixesMeet ==
    ASSUME NEW g \in Seq(Encoding), NEW h \in Seq(Encoding), NEW k \in Seq(Encoding),
           L!IsPrefixOf(g, k), L!IsPrefixOf(h, k)
    PROVE  L!IsPrefixOf(g, h) \/ L!IsPrefixOf(h, g)
  <1>1. CASE Len(g) <= Len(h)
    BY <1>1 DEF L!IsPrefixOf
  <1>2. CASE Len(h) <= Len(g)
    BY <1>2 DEF L!IsPrefixOf
  <1> QED BY <1>1, <1>2

\* A record makes the newest history longer and leaves the line a line.
LEMMA RecordEvident ==
    ASSUME EvidentInv, NEW d \in Encoding, L!Record(d)
    PROVE  EvidentInv'
  <1> DEFINE h == LastHash
             k == Append(LastHash, d)
  <1>1. /\ LastHash' = k /\ Genuine' = Genuine \cup {k} /\ ~(edits > 0)
        /\ Tip(walk.snap)' = Tip(walk.snap) /\ Report' = Report
        /\ (edits > 0)' = (edits > 0)
    BY DEF L!Record
  <1>2. h \in Genuine /\ h \in Seq(Encoding)
    BY <1>1 DEF EvidentInv, L!Evident
  <1>3. k \in Seq(Encoding) /\ Genuine' \subseteq Seq(Encoding)
    BY <1>1, <1>2 DEF EvidentInv
  <1>4. ASSUME NEW g \in Genuine' PROVE L!IsPrefixOf(g, k)
    <2>1. CASE g = k
      BY <1>3, <2>1 DEF L!IsPrefixOf
    <2>2. CASE g \in Genuine
      <3>1. L!IsPrefixOf(g, h) /\ g \in Seq(Encoding)
        BY <1>1, <2>2 DEF EvidentInv, L!Evident
      <3>2. Len(k) = Len(h) + 1 /\ \A i \in 1..Len(h) : k[i] = h[i]
        BY <1>2
      <3> QED BY <1>2, <3>1, <3>2 DEF L!IsPrefixOf
    <2> QED BY <1>1, <2>1, <2>2
  <1>5. \A f, g \in Genuine' : L!IsPrefixOf(f, g) \/ L!IsPrefixOf(g, f)
    BY <1>3, <1>4, PrefixesMeet
  <1>6. L!Evident'
    <2>1. k \in Genuine'
      BY <1>1
    <2>2. /\ (Report.verdict = "ok" => Report.of = Tip(walk.snap))
          /\ (Report.verdict = "broken" => edits > 0)
      BY DEF EvidentInv, L!Evident
    <2> QED BY <1>1, <1>4, <1>5, <2>1, <2>2 DEF L!Evident, L!IsPrefixOf
  <1> QED BY <1>3, <1>6 DEF EvidentInv

\* THEOREM: no recorded history is ever forked or lost by the server alone, the
\* verifier's "ok" is about the history the log showed when it began, and it
\* accuses nobody of altering a table that nobody altered.
THEOREM HistoriesEvident ==
    ASSUME ~SelectFaults
    PROVE  Spec => []L!Evident
  <1>1. L!Init => EvidentInv
    BY DEF L!Init, L!Silent, EvidentInv, L!Evident, L!IsPrefixOf
  <1>2. EvidentInv /\ [L!Next]_(L!ledgerVars) => EvidentInv'
    <2> SUFFICES ASSUME EvidentInv, [L!Next]_(L!ledgerVars) PROVE EvidentInv'
      OBVIOUS
    <2> USE DEF EvidentInv
    <2>1. ASSUME NEW d \in Encoding, L!Record(d)
          PROVE  EvidentInv'
      BY <2>1, RecordEvident
    <2>2. ASSUME NEW d \in Encoding, L!RecordAltered(d)
          PROVE  EvidentInv'
      BY <2>2 DEF L!RecordAltered, L!Evident, L!IsPrefixOf
    <2>3. CASE L!Alter
      BY <2>3 DEF L!Alter, L!Evident, L!IsPrefixOf
    <2>4. CASE L!Ask
      BY <2>4 DEF L!Ask, L!Silent, L!Evident, L!IsPrefixOf
    <2>5. CASE L!Vouch
      BY <2>5 DEF L!Vouch, L!Vouched, L!Evident, L!IsPrefixOf
    <2>6. CASE L!Accuse
      BY <2>6 DEF L!Accuse, L!Broken, L!Evident, L!IsPrefixOf
    <2>7. CASE UNCHANGED L!ledgerVars
      BY <2>7 DEF L!ledgerVars, L!Evident, L!IsPrefixOf
    <2> QED BY <2>1, <2>2, <2>3, <2>4, <2>5, <2>6, <2>7 DEF L!Next
  <1>3. L!Spec => []EvidentInv
    BY <1>1, <1>2, PTL DEF L!Spec
  <1>4. EvidentInv => L!Evident
    BY DEF EvidentInv
  <1> QED BY <1>3, <1>4, ImplementsLedger, PTL DEF Implements
=============================================================================
