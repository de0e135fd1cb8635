------------------------------ MODULE AuditLog ------------------------------
(***************************************************************************)
(* The hash-chained audit log: Database::create_audit_entry appends one row *)
(* under the connection mutex (a SELECT of the last row_hash, then an       *)
(* INSERT, two autocommit statements), and the verify-chain command walks   *)
(* one read-only snapshot of the table and names the first broken row.      *)
(*                                                                         *)
(* Data is abstracted: an entry is a model value, Encode[e] is the byte     *)
(* string AuditEntry::compute_hash feeds to SHA-256 (fields concatenated    *)
(* without separators, so two entries may share one encoding), and SHA-256  *)
(* is collision-free: the digest of a row IS the sequence of encodings it   *)
(* commits to. It has no key: whoever alters the table can compute it too.  *)
(*                                                                         *)
(* Definitions named Bug... are altered forms of the definition that        *)
(* follows them; no specification uses them.                                *)
(***************************************************************************)
EXTENDS Naturals, Sequences

CONSTANTS
    Writer,       \* concurrent calls of create_audit_entry
    Entry,        \* payloads
    Encoding,     \* what compute_hash feeds to SHA-256
    Encode,       \* [Entry -> Encoding]
    NoWriter,     \* the connection mutex is free
    Forgeable,    \* digests made up by whoever alters the table
    SelectFaults, \* TRUE when the SELECT may fail (busy, I/O) and the INSERT not
    MaxRows,      \* bound: no call starts once so many rows are written
    MaxEdits      \* bound: alterations of the table from outside the server

ASSUME EncodeAssumption == Encode \in [Entry -> Encoding]
ASSUME ForgeableAssumption == Forgeable \subseteq Seq(Encoding)
ASSUME NoWriterAssumption == NoWriter \notin Writer
ASSUME BoundAssumption == MaxRows \in Nat /\ MaxEdits \in Nat
ASSUME FaultAssumption == SelectFaults \in BOOLEAN

VARIABLES
    rows,      \* the audit_log table, by ascending id
    nextId,    \* the AUTOINCREMENT counter
    mutex,     \* holder of the connection mutex
    phase,     \* where each call of create_audit_entry is
    prevRead,  \* the prev_hash it read (a local, dropped with the closure)
    rowid,     \* last_insert_rowid of its INSERT (0: none)
    edits,     \* how often the table was altered from outside
    walk,      \* the verifier: its snapshot and the state of its loop
    \* three histories of the time when nobody had altered the table
    written,   \* every row an INSERT committed
    acked,     \* the ids of the rows returned to a handler
    receipts   \* each row_hash inserted, for whoever noted it down, with the payloads
               \* of the table up to its row

writerVars == <<mutex, phase, prevRead, rowid>>
histVars == <<written, acked, receipts>>
vars == <<rows, nextId, writerVars, edits, walk, histVars>>

Digest == Seq(Encoding)
Genesis == <<>>

\* A payload field compute_hash forgets.
BugHash(p, b) == Append(p, CHOOSE c \in Encoding : TRUE)
Hash(p, b) == Append(p, b)

Row == [id : Nat, prev : Digest, hash : Digest, entry : Entry]
Phase == {"idle", "waiting", "locked", "selected", "inserted"}
Verdict == {"ok", "row_hash_mismatch", "prev_hash_mismatch"}
WalkState == {"idle", "walking"} \cup Verdict
Walk == [state : WalkState, snap : Seq(Row), at : Nat \ {0}, prev : Digest,
         edits : Nat]

PayloadsUpTo(log, n) == [j \in 1..n |-> Encode[log[j].entry]]
Payloads(log) == PayloadsUpTo(log, Len(log))
Receipt == [hash : Digest, log : Digest]

RowHashOk(r) == r.hash = Hash(r.prev, Encode[r.entry])

\* The reference definition of an intact chain: every row matches its own
\* payload and carries the digest of its predecessor, the first one Genesis.
LinkOk(log, i) ==
    log[i].prev = IF i = 1 THEN Genesis ELSE log[i - 1].hash
IntactUpTo(log, n) == \A i \in 1..n : LinkOk(log, i) /\ RowHashOk(log[i])
Intact(log) == IntactUpTo(log, Len(log))

-----------------------------------------------------------------------------
Init ==
    /\ rows = <<>>
    /\ nextId = 1
    /\ mutex = NoWriter
    /\ phase = [w \in Writer |-> "idle"]
    /\ prevRead = [w \in Writer |-> Genesis]
    /\ rowid = [w \in Writer |-> 0]
    /\ edits = 0
    /\ walk = [state |-> "idle", snap |-> <<>>, at |-> 1, prev |-> Genesis,
               edits |-> 0]
    /\ written = {}
    /\ acked = {}
    /\ receipts = {}

\* A handler calls create_audit_entry: spawn_write queues a blocking task.
Call(w) ==
    /\ phase[w] = "idle"
    /\ nextId <= MaxRows
    /\ phase' = [phase EXCEPT ![w] = "waiting"]
    /\ UNCHANGED <<rows, nextId, mutex, prevRead, rowid, edits, walk, histVars>>

\* The task takes the connection mutex.
BugLock(w) ==
    /\ phase[w] = "waiting"
    /\ mutex' = w
    /\ phase' = [phase EXCEPT ![w] = "locked"]
    /\ UNCHANGED <<rows, nextId, prevRead, rowid, edits, walk, histVars>>
Lock(w) ==
    /\ phase[w] = "waiting"
    /\ mutex = NoWriter
    /\ mutex' = w
    /\ phase' = [phase EXCEPT ![w] = "locked"]
    /\ UNCHANGED <<rows, nextId, prevRead, rowid, edits, walk, histVars>>

\* ORDER BY id ASC.
Tip(log) == IF log = <<>> THEN Genesis ELSE log[Len(log)].hash
BugLastHash == IF rows = <<>> THEN Genesis ELSE rows[1].hash
LastHash == Tip(rows)

\* SELECT row_hash ... ORDER BY id DESC LIMIT 1: an empty table and a failed
\* statement both take the unwrap_or_else branch.
SelectLast(w) ==
    /\ phase[w] = "locked"
    /\ \/ prevRead' = [prevRead EXCEPT ![w] = LastHash]
       \/ SelectFaults /\ prevRead' = [prevRead EXCEPT ![w] = Genesis]
    /\ phase' = [phase EXCEPT ![w] = "selected"]
    /\ UNCHANGED <<rows, nextId, mutex, rowid, edits, walk, histVars>>

NewRow(w, e) == [id |-> nextId, prev |-> prevRead[w],
                 hash |-> Hash(prevRead[w], Encode[e]), entry |-> e]

\* The task ends. (Altered: without dropping the guard.)
BugFinish(w, p) ==
    /\ phase' = [phase EXCEPT ![w] = p]
    /\ prevRead' = [prevRead EXCEPT ![w] = Genesis]
    /\ mutex' = mutex
Finish(w, p) ==
    /\ phase' = [phase EXCEPT ![w] = p]
    /\ prevRead' = [prevRead EXCEPT ![w] = Genesis]
    /\ mutex' = NoWriter

\* INSERT of the row for entry e commits; the guard is dropped with the closure.
Insert(w, e) ==
    /\ phase[w] = "selected"
    /\ rows' = Append(rows, NewRow(w, e))
    /\ IF edits = 0
       THEN /\ written' = written \cup {NewRow(w, e)}
            /\ receipts' = receipts \cup {[hash |-> NewRow(w, e).hash,
                                          log |-> Payloads(rows')]}
       ELSE UNCHANGED <<written, receipts>>
    /\ rowid' = [rowid EXCEPT ![w] = nextId]
    /\ nextId' = nextId + 1
    /\ Finish(w, "inserted")
    /\ UNCHANGED <<edits, walk, acked>>

\* INSERT fails: the error is returned and nothing is recorded.
BugInsertFails(w) ==
    /\ phase[w] = "selected"
    /\ rowid' = [rowid EXCEPT ![w] = nextId]
    /\ Finish(w, "inserted")
    /\ UNCHANGED <<rows, nextId, edits, walk, histVars>>
InsertFails(w) ==
    /\ phase[w] = "selected"
    /\ Finish(w, "idle")
    /\ UNCHANGED <<rows, nextId, rowid, edits, walk, histVars>>

\* The row, with its id, is returned to the handler.
Return(w) ==
    /\ phase[w] = "inserted"
    /\ phase' = [phase EXCEPT ![w] = "idle"]
    /\ rowid' = [rowid EXCEPT ![w] = 0]
    /\ acked' = IF edits = 0 THEN acked \cup {rowid[w]} ELSE acked
    /\ UNCHANGED <<rows, nextId, mutex, prevRead, edits, walk, written, receipts>>

\* The process dies and is started again: the table is all that is left.
Crash ==
    /\ phase' = [w \in Writer |-> "idle"]
    /\ prevRead' = [w \in Writer |-> Genesis]
    /\ rowid' = [w \in Writer |-> 0]
    /\ mutex' = NoWriter
    /\ UNCHANGED <<rows, nextId, edits, walk, histVars>>

-----------------------------------------------------------------------------
\* Alterations made with another SQLite client, one transaction each: what the
\* comments on BrokenLinkReason name, and more of them one after the other.

\* A row written by hand under an id: any payload, with digests that were found in
\* the table, made up, or computed as compute_hash does.
Forged(id, found) ==
    UNION {{[id |-> id, prev |-> p, hash |-> h, entry |-> e] :
              h \in found \cup Forgeable \cup {Hash(p, Encode[e])}} :
           p \in found \cup Forgeable, e \in Entry}

\* A row is edited, its hashes left, replaced or computed anew.
EditRow(i) ==
    \E r \in Forged(rows[i].id, {rows[i].prev, rows[i].hash}) :
       r # rows[i] /\ rows' = [rows EXCEPT ![i] = r]

Without(s, i) ==
    [j \in 1..(Len(s) - 1) |-> s[IF j < i THEN j ELSE j + 1]]

DeleteRow(i) == rows' = Without(rows, i)

\* A row is put in at position i, and those from there on move up by one id.
WithRow(s, i, r) ==
    [j \in 1..(Len(s) + 1) |-> IF j < i THEN s[j]
                               ELSE IF j = i THEN r
                               ELSE [s[j - 1] EXCEPT !.id = @ + 1]]

InsertRow(i) ==
    \E r \in Forged(IF i <= Len(rows) THEN rows[i].id ELSE nextId,
                   {IF i = 1 THEN Genesis ELSE rows[i - 1].hash}) :
       rows' = WithRow(rows, i, r)

\* Two rows change places, and each takes the other's id.
SwapRows(i, j) ==
    rows' = [rows EXCEPT ![i] = [rows[j] EXCEPT !.id = rows[i].id],
                         ![j] = [rows[i] EXCEPT !.id = rows[j].id]]

Alter ==
    /\ edits < MaxEdits
    /\ \/ \E i \in 1..Len(rows) :
            \/ EditRow(i) \/ DeleteRow(i)
            \/ \E j \in 1..(i - 1) : SwapRows(j, i)
       \/ \E i \in 1..(Len(rows) + 1) : InsertRow(i)
    /\ nextId' = IF rows' # <<>> /\ nextId <= rows'[Len(rows')].id
                 THEN rows'[Len(rows')].id + 1
                 ELSE nextId
    /\ edits' = edits + 1
    /\ UNCHANGED <<writerVars, walk, histVars>>

-----------------------------------------------------------------------------
\* read_audit_entries_for_verification: one SELECT, hence one snapshot.
Snapshot ==
    /\ walk.state # "walking"
    /\ walk' = [state |-> "walking", snap |-> rows, at |-> 1, prev |-> Genesis,
                edits |-> edits]
    /\ UNCHANGED <<rows, nextId, writerVars, edits, histVars>>

\* One turn of the loop of verify_chain, and the return after the last one.
\* The altered loop compares each row with itself only.
BugVerifyRow ==
    /\ walk.state = "walking"
    /\ walk.at <= Len(walk.snap)
    /\ walk' = IF RowHashOk(walk.snap[walk.at])
                 THEN [walk EXCEPT !.at = @ + 1]
                 ELSE [walk EXCEPT !.state = "row_hash_mismatch"]
    /\ UNCHANGED <<rows, nextId, writerVars, edits, histVars>>
VerifyRow ==
    /\ walk.state = "walking"
    /\ walk.at <= Len(walk.snap)
    /\ LET r == walk.snap[walk.at] IN
       \/ /\ r.prev # walk.prev
          /\ walk' = [walk EXCEPT !.state = "prev_hash_mismatch"]
       \/ /\ r.prev = walk.prev
          /\ ~RowHashOk(r)
          /\ walk' = [walk EXCEPT !.state = "row_hash_mismatch"]
       \/ /\ r.prev = walk.prev
          /\ RowHashOk(r)
          /\ walk' = [walk EXCEPT !.at = @ + 1, !.prev = r.hash]
    /\ UNCHANGED <<rows, nextId, writerVars, edits, histVars>>

VerifyEnd ==
    /\ walk.state = "walking"
    /\ walk.at > Len(walk.snap)
    /\ walk' = [walk EXCEPT !.state = "ok"]
    /\ UNCHANGED <<rows, nextId, writerVars, edits, histVars>>

-----------------------------------------------------------------------------
WriterStep(w) ==
    \/ Call(w)
    \/ Lock(w)
    \/ SelectLast(w)
    \/ \E e \in Entry : Insert(w, e)
    \/ InsertFails(w)
    \/ Return(w)

Next ==
    \/ \E w \in Writer : WriterStep(w)
    \/ Crash
    \/ Alter
    \/ Snapshot
    \/ VerifyRow
    \/ VerifyEnd

Spec == Init /\ [][Next]_vars

\* What the runtime gives: parking_lot's mutex is eventually fair, so a waiting
\* task is not passed over for ever while others come and go (strong fairness);
\* and a statement that runs ends, with success or not. Nothing makes a handler
\* call, the process crash, an INSERT succeed or anybody alter or verify the table.
Fairness ==
    \A w \in Writer :
      /\ SF_vars(Lock(w))
      /\ WF_vars(SelectLast(w))
      /\ WF_vars(InsertFails(w) \/ \E e \in Entry : Insert(w, e))
      /\ WF_vars(Return(w))

FairSpec == Spec /\ Fairness

-----------------------------------------------------------------------------
\* The type invariant of the table, of the calls and of the verifier.
TypeOK ==
    /\ rows \in Seq(Row)
    /\ nextId \in Nat
    /\ mutex \in Writer \cup {NoWriter}
    /\ phase \in [Writer -> Phase]
    /\ prevRead \in [Writer -> Digest]
    /\ rowid \in [Writer -> Nat]
    /\ edits \in Nat
    /\ walk \in Walk
    /\ written \subseteq Row
    /\ acked \subseteq Nat
    /\ receipts \subseteq Receipt

\* Whatever the interleaving of calls and crashes, a table nobody altered is
\* one unbroken chain from Genesis: no two calls of create_audit_entry read
\* the same predecessor, and a crash between SELECT and INSERT leaves no trace.
ChainIntact == edits = 0 => Intact(rows)

\* verify_chain answers exactly what the reference definition says of its
\* snapshot, and the row it names is the first broken one.
VerdictExact ==
    /\ walk.state = "ok" => Intact(walk.snap)
    /\ walk.state = "prev_hash_mismatch" =>
         /\ walk.at \in 1..Len(walk.snap) /\ ~LinkOk(walk.snap, walk.at)
         /\ IntactUpTo(walk.snap, walk.at - 1)
    /\ walk.state = "row_hash_mismatch" =>
         /\ walk.at \in 1..Len(walk.snap) /\ ~RowHashOk(walk.snap[walk.at])
         /\ LinkOk(walk.snap, walk.at)
         /\ IntactUpTo(walk.snap, walk.at - 1)

\* The verifier, run against a live server that is writing and crashing, never
\* reports "rows were deleted, inserted or reordered" (verifier.rs) of a table
\* that nobody altered.
NoFalseAlarm ==
    walk.state \in {"row_hash_mismatch", "prev_hash_mismatch"} => walk.edits > 0

\* A row_hash noted down while nobody had altered the table vouches for everything
\* up to it: a table that verifies and has that hash in one of its rows holds the same
\* payloads as then in all rows up to that one, whatever was edited, replaced, put
\* in, removed or moved since. Of other rows a table that verifies says nothing:
\* compute_hash takes no key, so they can be made up with their hashes.
Anchored ==
    walk.state = "ok" =>
      \A k \in receipts, i \in 1..Len(walk.snap) :
        walk.snap[i].hash = k.hash => PayloadsUpTo(walk.snap, i) = k.log

\* A row whose create_audit_entry returned Ok stays in the table across crashes,
\* failed INSERTs and other calls, for as long as nobody alters the table.
AckedDurable ==
    edits = 0 =>
      \A id \in acked :
        \E i \in 1..Len(rows) : rows[i].id = id /\ rows[i] \in written

\* Whatever the other handlers do, and though their INSERTs fail, every call of
\* create_audit_entry that waits for the connection mutex comes to an end.
EveryCallEnds == \A w \in Writer : phase[w] = "waiting" ~> phase[w] = "idle"
-----------------------------------------------------------------------------
\* The table and the verifier as the abstract ledger sees them: a row's hash is the
\* history it stands for, and the genuine histories are those that were recorded
\* while nobody had altered the table.
Genuine == {Genesis} \cup {k.log : k \in receipts}
Report ==
    [verdict |-> IF walk.state \in {"idle", "walking"} THEN "none"
                 ELSE IF walk.state = "ok" THEN "ok" ELSE "broken",
     of |-> IF walk.state = "ok" THEN Payloads(walk.snap) ELSE <<>>]
L == INSTANCE Ledger WITH Data <- Encoding, genuine <- Genuine,
                          newest <- LastHash, altered <- edits > 0,
                          asked <- Tip(walk.snap), report <- Report

\* The audit log implements the ledger: calls never fork it, a verifier accuses
\* nobody unless the table was altered, and one that says "ok" has seen the payloads
\* that the last hash of its snapshot stands for, in that order and no others. So
\* they are what was recorded if that hash is known to be genuine; an altered
\* table whose hashes were computed anew verifies as what it was altered into.
Implements == L!Spec
=============================================================================
