----------------------------- MODULE VaultProofs -----------------------------
(***************************************************************************)
(* Proofs about Vault. The inductive invariant says which key the rows of   *)
(* this life of the process are under (RowsOK), what the key file was for   *)
(* as long as none was overwritten (FileOK), and what a call has            *)
(* established at its stage (CallOK).                                       *)
(***************************************************************************)
EXTENDS Vault, TLAPS

Typed ==
    /\ keyFile \in Nat /\ made \in Nat /\ memKey \in Nat /\ boot \in Nat
    /\ writing \in BOOLEAN /\ replaced \in BOOLEAN
    /\ rows \in Seq(Row)
    /\ acked \subseteq Stored

\* The key in memory does not change while the process lives.
RowsOK ==
    \A i \in Stored :
      /\ rows[i].boot <= boot
      /\ rows[i].boot = boot => rows[i].key = memKey

\* Nothing is stored before there is a key file, and a key file is not removed.
FileOK ==
    /\ keyFile = NoKey => memKey = NoKey /\ rows = <<>>
    /\ ~replaced =>
         /\ memKey \in {NoKey, keyFile}
         /\ writing => memKey = NoKey /\ rows = <<>>
         /\ \A i \in Stored : rows[i].key = keyFile

\* i is the last of the rows of a in the set r, or 0 when there is none.
LastOf(r, a, i) ==
    /\ i \in r \cup {0}
    /\ i # 0 => rows[i].account = a
    /\ \A j \in r : rows[j].account = a => j <= i

\* Whatever is stored and acknowledged, an account has a last row.
LastsOK ==
    \A a \in Account :
      /\ \E i \in Nat : LastOf(Stored, a, i)
      /\ \E i \in Nat : LastOf(acked, a, i)

CallOK(d) ==
    /\ d.row \in 0..Len(rows) /\ d.floor \in 0..Len(rows)
    /\ d.floor # 0 => rows[d.floor].account = d.account
    /\ d.stage = "encrypted" => d.key = memKey /\ memKey # NoKey
    /\ d.stage = "asked" => memKey # NoKey
    /\ d.stage = "stored" => d.row \in Stored
    /\ d.stage \in {"undecryptable", "decrypted", "exchanged"} =>
         /\ d.row \in Stored /\ d.row >= d.floor
         /\ rows[d.row].account = d.account
    /\ d.stage = "undecryptable" => rows[d.row].key # memKey /\ memKey # NoKey
    /\ d.stage \in {"decrypted", "exchanged"} => CreateProvider(d.account)

IInv ==
    /\ Typed
    /\ RowsOK
    /\ FileOK
    /\ LastsOK
    /\ call \in [Client -> Call]
    /\ \A c \in Client : CallOK(call[c])

-----------------------------------------------------------------------------
LEMMA IdleTyped ==
    /\ Idle \in Call /\ Idle.stage = "idle" /\ Idle.row = 0 /\ Idle.floor = 0
    /\ Idle.account = AnyAccount /\ Idle.key = NoKey
  BY AccountAssumption DEF Idle, Call, Stage, AnyAccount, NoKey

LEMMA IdleOK ==
    ASSUME Typed
    PROVE  CallOK(Idle)
  <1>1. Len(rows) \in Nat
    BY DEF Typed
  <1> QED BY <1>1, IdleTyped DEF CallOK

\* The fields of a call.
LEMMA CallFields ==
    ASSUME NEW d \in Call
    PROVE  /\ d.stage \in Stage /\ d.account \in Account /\ d.key \in Nat
           /\ d.row \in Nat /\ d.floor \in Nat
  BY DEF Call

\* Newest picks the last of the rows of an account, when there is one.
LEMMA NewestFact ==
    ASSUME Len(rows) \in Nat, NEW r \in SUBSET Stored, NEW a \in Account,
           \E i \in Nat : LastOf(r, a, i)
    PROVE  LastOf(r, a, Newest(r, a))
  <1>1. PICK i \in Nat : LastOf(r, a, i)
    OBVIOUS
  <1>2. r \subseteq 1..Len(rows)
    BY DEF Stored
  <1>3. CASE RowsOf(r, a) = {}
    BY <1>2, <1>3 DEF Newest, RowsOf, LastOf
  <1>4. CASE RowsOf(r, a) # {}
    <2> DEFINE S == RowsOf(r, a)
               P(k) == k \in S /\ \A j \in S : j <= k
    <2>1. S \subseteq 1..Len(rows) /\ S # {}
      BY <1>2, <1>4 DEF RowsOf
    <2>2. P(i)
      BY <1>1, <2>1 DEF LastOf, RowsOf
    <2>3. Newest(r, a) = CHOOSE k \in S : \A j \in S : j <= k
      BY <1>4 DEF Newest
    <2> HIDE DEF S
    <2>4. P(Newest(r, a))
      BY <2>2, <2>3
    <2> QED BY <2>4 DEF LastOf, RowsOf, S
  <1> QED BY <1>3, <1>4

\* A call keeps what it has established while the table grows.
LEMMA StillOK ==
    ASSUME rows \in Seq(Row), rows' \in Seq(Row), Len(rows) <= Len(rows'),
           \A i \in Stored : rows'[i] = rows[i], memKey' = memKey,
           NEW d \in Call, CallOK(d)
    PROVE  CallOK(d)'
  <1>1. Len(rows) \in Nat /\ Len(rows') \in Nat
    OBVIOUS
  <1>2. d.row \in 0..Len(rows) /\ d.floor \in 0..Len(rows)
    BY DEF CallOK
  <1>3. d.floor # 0 => rows'[d.floor] = rows[d.floor]
    BY <1>1, <1>2 DEF Stored
  <1>4. d.row \in Stored => rows'[d.row] = rows[d.row] /\ d.row \in Stored'
    BY <1>1, <1>2 DEF Stored
  <1> QED BY <1>1, <1>2, <1>3, <1>4 DEF CallOK, CreateProvider

\* A step of one call: the others keep what they have.
LEMMA CallStep ==
    ASSUME IInv, NEW c \in Client, NEW d \in Call, call' = [call EXCEPT ![c] = d],
           rows' \in Seq(Row), Len(rows) <= Len(rows'),
           \A i \in Stored : rows'[i] = rows[i], memKey' = memKey,
           CallOK(d)'
    PROVE  call' \in [Client -> Call] /\ \A e \in Client : CallOK(call[e])'
  <1>1. call' \in [Client -> Call]
    <2> DEFINE C == Call
    <2>1. call \in [Client -> C] /\ d \in C
      BY DEF IInv
    <2> HIDE DEF C
    <2>2. call' \in [Client -> C]
      BY <2>1
    <2> QED BY <2>2 DEF C
  <1>2. \A e \in Client : call'[e] = IF e = c THEN d ELSE call[e]
    BY DEF IInv
  <1>3. ASSUME NEW e \in Client PROVE CallOK(call[e])'
    <2>1. CASE e = c
      BY <1>2, <2>1 DEF CallOK
    <2>2. CASE e # c
      <3>1. call[e] \in Call /\ CallOK(call[e]) /\ call'[e] = call[e]
        BY <1>2, <2>2 DEF IInv
      <3>2. PICK k \in Call : k = call[e]
        BY <3>1
      <3>3. CallOK(k) /\ call'[e] = k
        BY <3>1, <3>2
      <3>4. rows \in Seq(Row) /\ rows' \in Seq(Row) /\ Len(rows) <= Len(rows')
        BY DEF IInv, Typed
      <3>5. (\A i \in Stored : rows'[i] = rows[i]) /\ memKey' = memKey
        OBVIOUS
      <3>6. CallOK(k)'
        BY <3>3, <3>4, <3>5, StillOK
      <3> QED BY <3>3, <3>6 DEF CallOK
    <2> QED BY <2>1, <2>2
  <1> QED BY <1>1, <1>3

\* A step of a call that touches neither the table nor the acknowledgements.
LEMMA QuietStep ==
    ASSUME IInv, NEW c \in Client, NEW d \in Call, call' = [call EXCEPT ![c] = d],
           CallOK(d), UNCHANGED <<keyVars, memKey, boot, rows, acked>>
    PROVE  IInv'
  <1>1. rows \in Seq(Row) /\ rows' = rows /\ memKey' = memKey
    BY DEF IInv, Typed
  <1>2. rows' \in Seq(Row) /\ Len(rows) <= Len(rows')
    BY <1>1
  <1>a. \A i \in Stored : rows'[i] = rows[i]
    BY <1>1
  <1>b. CallOK(d)'
    BY <1>1, <1>2, <1>a, StillOK
  <1>3. call' \in [Client -> Call] /\ \A e \in Client : CallOK(call[e])'
    BY <1>1, <1>2, <1>a, <1>b, CallStep
  <1>4. Typed' /\ RowsOK' /\ FileOK'
    BY DEF IInv, Typed, RowsOK, FileOK, keyVars, Stored
  <1>5. LastsOK'
    BY DEF IInv, LastsOK, LastOf, Stored
  <1> QED BY <1>3, <1>4, <1>5 DEF IInv

-----------------------------------------------------------------------------
LEMMA InitOK == Init => IInv
  <1> SUFFICES ASSUME Init PROVE IInv
    OBVIOUS
  <1>1. rows = <<>> /\ Len(rows) = 0 /\ Stored = {} /\ acked = {}
    BY DEF Init, Stored
  <1>2. Typed
    <2>1. rows \in Seq(Row)
      BY <1>1
    <2>2. acked \subseteq Stored
      BY <1>1
    <2>3. keyFile \in Nat /\ made \in Nat /\ memKey \in Nat /\ boot \in Nat
      BY DEF Init, NoKey, NewKey
    <2>4. writing \in BOOLEAN /\ replaced \in BOOLEAN
      BY DEF Init
    <2> QED BY <2>1, <2>2, <2>3, <2>4 DEF Typed
  <1>3. RowsOK
    BY <1>1 DEF RowsOK
  <1>4. FileOK
    BY <1>1 DEF Init, FileOK
  <1>5. LastsOK
    <2> SUFFICES ASSUME NEW a \in Account
                 PROVE  LastOf(Stored, a, 0) /\ LastOf(acked, a, 0)
      BY DEF LastsOK
    <2> QED BY <1>1 DEF LastOf
  <1>6. call \in [Client -> Call] /\ \A c \in Client : call[c] = Idle
    BY IdleTyped DEF Init
  <1> QED BY <1>2, <1>3, <1>4, <1>5, <1>6, IdleOK DEF IInv

LEMMA EncryptStep ==
    ASSUME IInv, NEW c \in Client, NEW a \in Account, Encrypt(c, a)
    PROVE  IInv'
  <1> DEFINE d == [Idle EXCEPT !.stage = "encrypted", !.account = a, !.key = memKey]
  <1>1. d \in Call
    BY DEF IInv, Typed, Idle, Call, Stage
  <1>2. CallOK(d)
    <2>1. /\ d.stage = "encrypted" /\ d.row = 0 /\ d.floor = 0 /\ d.key = memKey
      BY DEF Idle
    <2>2. Len(rows) \in Nat /\ memKey # NoKey
      BY DEF IInv, Typed, Encrypt
    <2> HIDE DEF d
    <2> QED BY <2>1, <2>2 DEF CallOK
  <1>3. call' = [call EXCEPT ![c] = d]
    BY DEF Encrypt
  <1>4. UNCHANGED <<keyVars, memKey, boot, rows, acked>>
    BY DEF Encrypt
  <1> HIDE DEF d
  <1> QED BY <1>1, <1>2, <1>3, <1>4, QuietStep

\* The row is the last of its account, and is under the key in memory.
LEMMA InsertStep ==
    ASSUME IInv, NEW c \in Client, Insert(c)
    PROVE  IInv'
  <1>0. call[c] \in Call /\ CallOK(call[c]) /\ call[c].stage = "encrypted"
    BY DEF IInv, Insert
  <1>a. PICK o \in Call : o = call[c]
    BY <1>0
  <1>b. CallOK(o) /\ o.stage = "encrypted" /\ o.key = memKey /\ memKey # NoKey
    BY <1>0, <1>a DEF CallOK
  <1>c. rows \in Seq(Row) /\ Len(rows) \in Nat
    BY DEF IInv, Typed
  <1>d. PICK n \in Nat : n = Len(rows) + 1
    BY <1>c
  <1>e. PICK r \in Row : r = [account |-> o.account, key |-> o.key, boot |-> boot]
    BY CallFields DEF Row, IInv, Typed
  <1>f. PICK d \in Call : d = [o EXCEPT !.stage = "stored", !.row = n]
    BY DEF Call, Stage
  <1>1. r.key = memKey /\ r.boot = boot /\ r.account = o.account
    BY <1>b, <1>e
  <1>2. rows' = Append(rows, r)
    BY <1>a, <1>e DEF Insert
  <1>3. /\ rows' \in Seq(Row) /\ Len(rows') = n /\ rows'[n] = r
        /\ \A i \in Stored : rows'[i] = rows[i]
        /\ n \notin Stored
    BY <1>c, <1>d, <1>2 DEF Stored
  <1>s. Stored' = Stored \cup {n}
    BY <1>c, <1>d, <1>3 DEF Stored
  <1>4. UNCHANGED <<keyVars, memKey, boot, acked>>
    BY DEF Insert
  <1>5. Typed'
    BY <1>3, <1>s, <1>4 DEF IInv, Typed, keyVars
  <1>6. RowsOK'
    <2> SUFFICES ASSUME NEW i \in Stored'
                 PROVE  /\ rows'[i].boot <= boot'
                        /\ rows'[i].boot = boot' => rows'[i].key = memKey'
      BY DEF RowsOK
    <2>1. boot \in Nat /\ boot' = boot /\ memKey' = memKey
      BY <1>4 DEF IInv, Typed
    <2>2. CASE i = n
      BY <1>1, <1>3, <2>1, <2>2
    <2>3. CASE i \in Stored
      BY <1>3, <2>1, <2>3 DEF IInv, RowsOK
    <2> QED BY <1>s, <2>2, <2>3
  <1>7. FileOK'
    <2>1. keyFile # NoKey
      BY <1>b DEF IInv, FileOK
    <2>2. ~replaced => memKey = keyFile /\ ~writing
      BY <1>b DEF IInv, FileOK
    <2>3. keyFile' = keyFile /\ writing' = writing /\ memKey' = memKey
             /\ replaced' = replaced
      BY <1>4 DEF keyVars
    <2>4. ASSUME ~replaced, NEW i \in Stored' PROVE rows'[i].key = keyFile
      <3>1. CASE i = n
        BY <1>1, <1>3, <2>2, <2>4, <3>1
      <3>2. CASE i \in Stored
        BY <1>3, <2>4, <3>2 DEF IInv, FileOK
      <3> QED BY <1>s, <2>4, <3>1, <3>2
    <2> QED BY <2>1, <2>2, <2>3, <2>4 DEF FileOK
  <1>8. LastsOK'
    <2> SUFFICES ASSUME NEW a \in Account
                 PROVE  /\ \E i \in Nat : LastOf(Stored, a, i)'
                        /\ \E i \in Nat : LastOf(acked, a, i)'
      BY DEF LastsOK
    <2>1. PICK i \in Nat : LastOf(Stored, a, i)
      BY DEF IInv, LastsOK
    <2>2. PICK j \in Nat : LastOf(acked, a, j)
      BY DEF IInv, LastsOK
    <2>3. \A k \in Stored : k \in Nat /\ k < n
      BY <1>c, <1>d DEF Stored
    <2>4. acked \subseteq Stored /\ acked' = acked
      BY <1>4 DEF IInv, Typed
    <2>5. LastOf(acked, a, j)'
      BY <1>3, <2>2, <2>4 DEF LastOf
    <2>6. CASE r.account = a
      <3>1. \A k \in Stored' : k <= n
        BY <1>s, <2>3
      <3>2. LastOf(Stored, a, n)'
        BY <1>3, <1>s, <2>6, <3>1 DEF LastOf
      <3> QED BY <2>5, <3>2
    <2>7. CASE r.account # a
      <3>1. LastOf(Stored, a, i)'
        BY <1>3, <1>s, <2>1, <2>7 DEF LastOf
      <3> QED BY <2>5, <3>1
    <2> QED BY <2>6, <2>7
  <1>9. CallOK(d)'
    <2>1. /\ d.stage = "stored" /\ d.row = n /\ d.floor = o.floor
          /\ d.account = o.account
      BY <1>f DEF Call
    <2>2. o.floor \in 0..Len(rows) /\ (o.floor # 0 => rows[o.floor].account = o.account)
      BY <1>b DEF CallOK
    <2>3. d.floor # 0 => rows'[d.floor] = rows[d.floor]
      BY <1>c, <1>3, <2>1, <2>2 DEF Stored
    <2>4. d.row \in 0..n /\ d.floor \in 0..n /\ d.row \in Stored'
      BY <1>c, <1>d, <1>s, <2>1, <2>2
    <2> QED BY <1>3, <2>1, <2>2, <2>3, <2>4 DEF CallOK
  <1>10. call' = [call EXCEPT ![c] = d]
    <2>1. call' = [call EXCEPT ![c].stage = "stored", ![c].row = n]
      BY <1>d DEF Insert
    <2>2. [call EXCEPT ![c].stage = "stored", ![c].row = n]
            = [call EXCEPT ![c] = [call[c] EXCEPT !.stage = "stored", !.row = n]]
      BY DEF IInv
    <2> QED BY <1>a, <1>f, <2>1, <2>2
  <1>11. Len(rows) <= Len(rows') /\ memKey' = memKey
    BY <1>c, <1>d, <1>3, <1>4
  <1>12. call' \in [Client -> Call] /\ \A e \in Client : CallOK(call[e])'
    BY <1>3, <1>9, <1>10, <1>11, CallStep
  <1> QED BY <1>5, <1>6, <1>7, <1>8, <1>12 DEF IInv

\* The vend begins: its floor is the last acknowledged row of the account.
LEMMA AskStep ==
    ASSUME IInv, NEW c \in Client, NEW a \in Account, Ask(c, a)
    PROVE  IInv'
  <1>1. PICK f \in Nat : f = Newest(acked, a) /\ LastOf(acked, a, f)
    <2>1. Len(rows) \in Nat /\ acked \in SUBSET Stored
      BY DEF IInv, Typed
    <2>2. \E i \in Nat : LastOf(acked, a, i)
      BY DEF IInv, LastsOK
    <2>3. LastOf(acked, a, Newest(acked, a))
      BY <2>1, <2>2, NewestFact
    <2>4. Newest(acked, a) \in acked \cup {0}
      BY <2>3 DEF LastOf
    <2>5. \A k \in Stored \cup {0} : k \in Nat
      BY <2>1 DEF Stored
    <2>6. Newest(acked, a) \in Nat
      BY <2>1, <2>4, <2>5
    <2> QED BY <2>3, <2>6
  <1>2. Len(rows) \in Nat /\ acked \subseteq 1..Len(rows) /\ memKey # NoKey
    BY DEF IInv, Typed, Stored, Ask
  <1>3. f \in 0..Len(rows) /\ (f # 0 => rows[f].account = a)
    BY <1>1, <1>2 DEF LastOf
  <1>4. PICK d \in Call :
          d = [Idle EXCEPT !.stage = "asked", !.account = a, !.floor = f]
    BY <1>1 DEF Idle, Call, Stage, NoKey
  <1>5. d.stage = "asked" /\ d.row = 0 /\ d.floor = f /\ d.account = a
    BY <1>4 DEF Idle
  <1>6. CallOK(d)
    BY <1>2, <1>3, <1>5 DEF CallOK
  <1>7. call' = [call EXCEPT ![c] = d]
    BY <1>1, <1>4 DEF Ask
  <1>8. UNCHANGED <<keyVars, memKey, boot, rows, acked>>
    BY DEF Ask
  <1> QED BY <1>6, <1>7, <1>8, QuietStep

\* The row read is the last of the account, and so no older than the floor.
LEMMA ReadStep ==
    ASSUME IInv, NEW c \in Client, Read(c)
    PROVE  IInv'
  <1>1. PICK o \in Call : o = call[c] /\ CallOK(o) /\ o.stage = "asked"
    BY DEF IInv, Read
  <1>2. UNCHANGED <<keyVars, memKey, boot, rows, acked>>
    BY DEF Read
  <1>3. o.account \in Account
    BY <1>1, CallFields
  <1>4. PICK r \in Nat : r = Newest(Stored, o.account) /\ LastOf(Stored, o.account, r)
    <2>1. Len(rows) \in Nat /\ Stored \in SUBSET Stored
      BY DEF IInv, Typed
    <2>2. \E i \in Nat : LastOf(Stored, o.account, i)
      BY <1>3 DEF IInv, LastsOK
    <2>3. LastOf(Stored, o.account, Newest(Stored, o.account))
      BY <1>3, <2>1, <2>2, NewestFact
    <2>4. Newest(Stored, o.account) \in Stored \cup {0}
      BY <2>3 DEF LastOf
    <2>5. \A k \in Stored \cup {0} : k \in Nat
      BY <2>1 DEF Stored
    <2>6. Newest(Stored, o.account) \in Nat
      BY <2>1, <2>4, <2>5
    <2> QED BY <2>3, <2>6
  <1>5. CASE call' = [call EXCEPT ![c] = Idle]
    <2>1. CallOK(Idle) /\ Idle \in Call
      BY IdleOK, IdleTyped DEF IInv
    <2> QED BY <1>2, <1>5, <2>1, QuietStep
  <1>6. ASSUME NEW st \in {"undecryptable", "decrypted"}, r # 0,
               st = "undecryptable" => rows[r].key # memKey,
               st = "decrypted" => CreateProvider(o.account),
               call' = [call EXCEPT ![c].stage = st, ![c].row = r]
        PROVE  IInv'
    <2>1. PICK d \in Call : d = [o EXCEPT !.stage = st, !.row = r]
      BY DEF Call, Stage
    <2>2. /\ d.stage = st /\ d.row = r /\ d.floor = o.floor
          /\ d.account = o.account
      BY <2>1 DEF Call
    <2>3. Len(rows) \in Nat
      BY DEF IInv, Typed
    <2>4. r \in Stored /\ rows[r].account = o.account
      BY <1>4, <1>6 DEF LastOf
    <2>5. o.floor \in 0..Len(rows) /\ (o.floor # 0 => rows[o.floor].account = o.account)
          /\ memKey # NoKey
      BY <1>1 DEF CallOK
    <2>6. o.floor <= r
      BY <1>4, <2>3, <2>4, <2>5 DEF LastOf, Stored
    <2>7. r \in 0..Len(rows)
      BY <2>3, <2>4 DEF Stored
    <2>8. CallOK(d)
      BY <1>6, <2>2, <2>4, <2>5, <2>6, <2>7 DEF CallOK
    <2>9. call' = [call EXCEPT ![c] = d]
      <3>1. [call EXCEPT ![c].stage = st, ![c].row = r]
              = [call EXCEPT ![c] = [call[c] EXCEPT !.stage = st, !.row = r]]
        BY DEF IInv
      <3> QED BY <1>1, <1>6, <2>1, <3>1
    <2> QED BY <1>2, <2>8, <2>9, QuietStep
  <1>7. \/ call' = [call EXCEPT ![c] = Idle]
        \/ /\ r # 0 /\ rows[r].key # memKey
           /\ call' = [call EXCEPT ![c].stage = "undecryptable", ![c].row = r]
        \/ /\ r # 0 /\ CreateProvider(o.account)
           /\ call' = [call EXCEPT ![c].stage = "decrypted", ![c].row = r]
    BY <1>1, <1>4 DEF Read
  <1>8. CASE r # 0 /\ rows[r].key # memKey
             /\ call' = [call EXCEPT ![c].stage = "undecryptable", ![c].row = r]
    BY <1>6, <1>8
  <1>9. CASE r # 0 /\ CreateProvider(o.account)
             /\ call' = [call EXCEPT ![c].stage = "decrypted", ![c].row = r]
    BY <1>6, <1>9
  <1> QED BY <1>5, <1>7, <1>8, <1>9

LEMMA ExchangeStep ==
    ASSUME IInv, NEW c \in Client, Exchange(c)
    PROVE  IInv'
  <1>1. PICK o \in Call : o = call[c] /\ CallOK(o) /\ o.stage = "decrypted"
    BY DEF IInv, Exchange
  <1>2. PICK d \in Call : d = [o EXCEPT !.stage = "exchanged"]
    BY <1>1 DEF Call, Stage
  <1>3. /\ d.stage = "exchanged" /\ d.row = o.row /\ d.floor = o.floor
        /\ d.account = o.account
    BY <1>2 DEF Call
  <1>4. CallOK(d)
    BY <1>1, <1>3 DEF CallOK
  <1>5. call' = [call EXCEPT ![c] = d]
    BY <1>1, <1>2 DEF Exchange
  <1>6. UNCHANGED <<keyVars, memKey, boot, rows, acked>>
    BY DEF Exchange
  <1> QED BY <1>4, <1>5, <1>6, QuietStep

\* An acknowledged row may be the last acknowledged of its account now.
LEMMA AnswerStep ==
    ASSUME IInv, NEW c \in Client, Answer(c)
    PROVE  IInv'
  <1>1. PICK o \in Call : o = call[c] /\ CallOK(o)
    BY DEF IInv
  <1>2. /\ UNCHANGED <<keyVars, memKey, boot, rows>>
        /\ call' = [call EXCEPT ![c] = Idle]
        /\ acked' = IF o.stage = "stored" THEN acked \cup {o.row} ELSE acked
    BY <1>1 DEF Answer
  <1>3. rows \in Seq(Row) /\ rows' = rows /\ memKey' = memKey /\ Len(rows) \in Nat
    BY <1>2 DEF IInv, Typed
  <1>4. Stored' = Stored
    BY <1>2 DEF Stored
  <1>5. acked' \subseteq Stored
    BY <1>1, <1>2 DEF IInv, Typed, CallOK
  <1>6. Typed'
    BY <1>2, <1>4, <1>5 DEF IInv, Typed, keyVars
  <1>7. RowsOK' /\ FileOK'
    BY <1>2, <1>4 DEF IInv, RowsOK, FileOK, keyVars
  <1>8. LastsOK'
    <2> SUFFICES ASSUME NEW a \in Account
                 PROVE  /\ \E i \in Nat : LastOf(Stored, a, i)'
                        /\ \E i \in Nat : LastOf(acked, a, i)'
      BY DEF LastsOK
    <2>1. PICK i \in Nat : LastOf(Stored, a, i)
      BY DEF IInv, LastsOK
    <2>2. LastOf(Stored, a, i)'
      BY <1>3, <1>4, <2>1 DEF LastOf
    <2>3. PICK j \in Nat : LastOf(acked, a, j)
      BY DEF IInv, LastsOK
    <2>4. CASE acked' = acked
      BY <1>3, <2>2, <2>3, <2>4 DEF LastOf
    <2>5. CASE o.stage = "stored"
      <3>1. acked' = acked \cup {o.row} /\ o.row \in Stored
        BY <1>1, <1>2, <2>5 DEF CallOK
      <3>2. PICK k \in Nat : k = o.row
        BY <3>1, <1>3 DEF Stored
      <3>3. \A e \in acked : e \in Nat
        BY <1>3 DEF IInv, Typed, Stored
      <3>4. acked' = acked \cup {k}
        BY <3>1, <3>2
      <3>5. CASE rows[k].account = a /\ j <= k
        <4>1. LastOf(acked, a, k)'
          BY <1>3, <2>3, <3>3, <3>4, <3>5 DEF LastOf
        <4> QED BY <2>2, <4>1
      <3>6. CASE ~(rows[k].account = a /\ j <= k)
        <4>1. LastOf(acked, a, j)'
          BY <1>3, <2>3, <3>3, <3>4, <3>6 DEF LastOf
        <4> QED BY <2>2, <4>1
      <3> QED BY <3>5, <3>6
    <2> QED BY <1>2, <2>4, <2>5
  <1>9. call' \in [Client -> Call] /\ \A e \in Client : CallOK(call[e])'
    <2>1. PICK d \in Call : d = Idle
      BY IdleTyped
    <2>2. CallOK(d)
      BY <2>1, IdleOK DEF IInv
    <2>3. rows' \in Seq(Row) /\ Len(rows) <= Len(rows')
          /\ (\A i \in Stored : rows'[i] = rows[i])
      BY <1>3
    <2>4. CallOK(d)'
      BY <1>3, <2>2, <2>3, StillOK
    <2>5. call' = [call EXCEPT ![c] = d]
      BY <1>2, <2>1
    <2> QED BY <1>3, <2>3, <2>4, <2>5, CallStep
  <1> QED BY <1>6, <1>7, <1>8, <1>9 DEF IInv

LEMMA DropStep ==
    ASSUME IInv, NEW c \in Client, Drop(c)
    PROVE  IInv'
  <1>1. CallOK(Idle) /\ Idle \in Call
    BY IdleOK, IdleTyped DEF IInv
  <1>2. call' = [call EXCEPT ![c] = Idle]
    BY DEF Drop
  <1>3. UNCHANGED <<keyVars, memKey, boot, rows, acked>>
    BY DEF Drop
  <1> QED BY <1>1, <1>2, <1>3, QuietStep

\* The steps on the key file leave the calls, the table and the key in memory.
LEMMA FileStep ==
    ASSUME IInv, UNCHANGED <<memKey, boot, rows, call, acked>>,
           keyFile' \in Nat, made' \in Nat, writing' \in BOOLEAN,
           replaced' \in BOOLEAN, FileOK'
    PROVE  IInv'
  <1>1. Typed' /\ RowsOK'
    BY DEF IInv, Typed, RowsOK, Stored
  <1>2. LastsOK'
    BY DEF IInv, LastsOK, LastOf, Stored
  <1>3. call' \in [Client -> Call]
    BY DEF IInv
  <1>4. \A e \in Client : CallOK(call[e])'
    BY DEF IInv, CallOK, CreateProvider, Stored
  <1> QED BY <1>1, <1>2, <1>3, <1>4 DEF IInv

LEMMA OpenKeyFileStep ==
    ASSUME IInv, OpenKeyFile
    PROVE  IInv'
  <1>1. /\ UNCHANGED <<memKey, boot, rows, call, acked>>
        /\ keyFile' = TornKey /\ made' = made /\ writing' = TRUE
        /\ replaced' = (replaced \/ keyFile # NoKey)
    BY DEF OpenKeyFile
  <1>2. keyFile' \in Nat /\ made' \in Nat /\ writing' \in BOOLEAN
        /\ replaced' \in BOOLEAN
    BY <1>1 DEF IInv, Typed, TornKey
  <1>3. Stored' = Stored /\ (rows = <<>> => Stored = {})
    BY <1>1 DEF Stored
  <1>4. FileOK'
    <2>1. keyFile' # NoKey
      BY <1>1 DEF TornKey, NoKey
    <2>2. ~replaced' => keyFile = NoKey
      BY <1>1
    <2>3. ~replaced' => memKey' = NoKey /\ rows' = <<>> /\ Stored' = {}
      BY <1>1, <1>3, <2>2 DEF IInv, FileOK
    <2> QED BY <2>1, <2>3 DEF FileOK
  <1> QED BY <1>1, <1>2, <1>4, FileStep

LEMMA WriteKeyStep ==
    ASSUME IInv, WriteKey
    PROVE  IInv'
  <1>1. /\ UNCHANGED <<memKey, boot, rows, call, acked>> /\ writing
        /\ keyFile' = made + 2 /\ made' = made + 1 /\ writing' = FALSE
        /\ replaced' = replaced
    BY DEF WriteKey, NewKey, IInv, Typed
  <1>2. keyFile' \in Nat /\ made' \in Nat /\ writing' \in BOOLEAN
        /\ replaced' \in BOOLEAN /\ keyFile' # NoKey
    <2>1. made \in Nat /\ replaced \in BOOLEAN
      BY DEF IInv, Typed
    <2>2. made' \in Nat /\ keyFile' \in Nat /\ keyFile' # NoKey
      BY <1>1, <2>1 DEF NoKey
    <2> QED BY <1>1, <2>1, <2>2
  <1>3. Stored' = Stored /\ (rows = <<>> => Stored = {})
    BY <1>1 DEF Stored
  <1>4. FileOK'
    <2>1. ~replaced' => memKey' = NoKey /\ rows' = <<>> /\ Stored' = {}
      BY <1>1, <1>3 DEF IInv, FileOK
    <2> QED BY <1>1, <1>2, <2>1 DEF FileOK
  <1> QED BY <1>1, <1>2, <1>4, FileStep

LEMMA WriteKeyFailsStep ==
    ASSUME IInv, WriteKeyFails
    PROVE  IInv'
  <1>1. /\ UNCHANGED <<memKey, boot, rows, call, acked>> /\ writing' = FALSE
        /\ keyFile' = keyFile /\ made' = made /\ replaced' = replaced
    BY DEF WriteKeyFails
  <1>2. keyFile' \in Nat /\ made' \in Nat /\ writing' \in BOOLEAN
        /\ replaced' \in BOOLEAN
    BY <1>1 DEF IInv, Typed
  <1>3. FileOK'
    BY <1>1 DEF IInv, FileOK, Stored
  <1> QED BY <1>1, <1>2, <1>3, FileStep

\* A start reads the file: no row is of this life yet, and no call is left.
LEMMA RestartStep ==
    ASSUME IInv, Restart
    PROVE  IInv'
  <1>1. /\ UNCHANGED <<keyFile, made, replaced, rows, acked>> /\ writing' = FALSE
        /\ boot' = boot + 1 /\ memKey' = keyFile
        /\ call' = [c \in Client |-> Idle]
    BY DEF Restart, FromFile
  <1>2. Stored' = Stored /\ boot \in Nat
    BY <1>1 DEF Stored, IInv, Typed
  <1>3. Typed'
    <2>1. boot' \in Nat /\ memKey' \in Nat
      BY <1>1, <1>2 DEF IInv, Typed
    <2>2. keyFile' \in Nat /\ made' \in Nat /\ writing' \in BOOLEAN
          /\ replaced' \in BOOLEAN
      BY <1>1 DEF IInv, Typed
    <2>3. rows' \in Seq(Row) /\ acked' \subseteq Stored'
      BY <1>1, <1>2 DEF IInv, Typed
    <2> QED BY <2>1, <2>2, <2>3 DEF Typed
  <1>4. RowsOK'
    <2> SUFFICES ASSUME NEW i \in Stored
                 PROVE  rows[i].boot <= boot + 1 /\ rows[i].boot # boot + 1
      BY <1>1, <1>2 DEF RowsOK
    <2>1. rows[i] \in Row
      BY DEF IInv, Typed, Stored
    <2>2. rows[i].boot \in Nat
      BY <2>1 DEF Row
    <2> QED BY <1>2, <2>2 DEF IInv, RowsOK
  <1>5. FileOK'
    BY <1>1, <1>2 DEF IInv, FileOK
  <1>6. LastsOK'
    BY <1>1, <1>2 DEF IInv, LastsOK, LastOf
  <1>7. call' \in [Client -> Call]
    BY <1>1, IdleTyped
  <1>8. \A e \in Client : CallOK(call[e])'
    <2>1. Len(rows') \in Nat
      BY <1>3 DEF Typed
    <2>2. ASSUME NEW e \in Client PROVE CallOK(call[e])'
      <3>1. PICK d \in Call : d = Idle
        BY IdleTyped
      <3>2. call'[e] = d
        BY <1>1, <3>1
      <3>3. CallOK(d)'
        BY <2>1, <3>1, IdleTyped DEF CallOK
      <3> QED BY <3>2, <3>3 DEF CallOK
    <2> QED BY <2>2
  <1> QED BY <1>3, <1>4, <1>5, <1>6, <1>7, <1>8 DEF IInv

LEMMA NextStep == IInv /\ [Next]_vars => IInv'
  <1> SUFFICES ASSUME IInv, [Next]_vars PROVE IInv'
    OBVIOUS
  <1>1. CASE UNCHANGED vars
    <2>1. UNCHANGED <<memKey, boot, rows, call, acked>>
          /\ UNCHANGED <<keyFile, made, writing, replaced>>
      BY <1>1 DEF vars, keyVars
    <2>2. keyFile' \in Nat /\ made' \in Nat /\ writing' \in BOOLEAN
          /\ replaced' \in BOOLEAN
      BY <2>1 DEF IInv, Typed
    <2>3. FileOK'
      BY <2>1 DEF IInv, FileOK, Stored
    <2> QED BY <2>1, <2>2, <2>3, FileStep
  <1>2. ASSUME NEW c \in Client, Serve(c) PROVE IInv'
    <2>1. ASSUME NEW a \in Account, Encrypt(c, a) PROVE IInv'
      BY <2>1, EncryptStep
    <2>2. ASSUME NEW a \in Account, Ask(c, a) PROVE IInv'
      BY <2>2, AskStep
    <2> QED BY <1>2, <2>1, <2>2, InsertStep, ReadStep, ExchangeStep, AnswerStep,
               DropStep DEF Serve
  <1> QED BY <1>1, <1>2, OpenKeyFileStep, WriteKeyStep, WriteKeyFailsStep,
             RestartStep DEF Next

LEMMA InvariantHolds == Spec => []IInv
  <1> QED BY InitOK, NextStep, PTL DEF Spec

-----------------------------------------------------------------------------
\* Whatever the calls, failures and restarts, the state keeps its types, and an
\* acknowledged row is in the table.
THEOREM TypeCorrect == Spec => []TypeOK
  <1>1. IInv => TypeOK
    BY DEF IInv, Typed, CallOK, TypeOK
  <1> QED BY <1>1, InvariantHolds, PTL

\* A vend uses the credential whose store was acknowledged before it began, or a
\* newer one of the same account: get_vault_credential's ORDER BY and LIMIT.
THEOREM ReadsNewestCorrect == Spec => []ReadsNewest
  <1>1. IInv => ReadsNewest
    BY DEF IInv, CallOK, ReadsNewest, HasRead
  <1> QED BY <1>1, InvariantHolds, PTL

\* generate_vault_key leaves the running server able to decrypt what it stored.
THEOREM SameLifeVendsCorrect == Spec => []SameLifeVends
  <1>1. ASSUME IInv PROVE SameLifeVends
    <2> SUFFICES ASSUME NEW c \in Client, call[c].stage = "undecryptable"
                 PROVE  rows[call[c].row].boot < boot
      BY DEF SameLifeVends
    <2>1. call[c].row \in Stored /\ rows[call[c].row].key # memKey
      BY <1>1 DEF IInv, CallOK
    <2>2. rows[call[c].row] \in Row /\ boot \in Nat
      BY <1>1, <2>1 DEF IInv, Typed, Stored
    <2>3. rows[call[c].row].boot \in Nat
      BY <2>2 DEF Row
    <2> QED BY <1>1, <2>1, <2>2, <2>3 DEF IInv, RowsOK
  <1> QED BY <1>1, InvariantHolds, PTL

\* A server whose key file nobody overwrote can decrypt all that was ever stored.
THEOREM FirstKeyLastsCorrect == Spec => []FirstKeyLasts
  <1>1. ASSUME IInv PROVE FirstKeyLasts
    <2>1. ~replaced => \A i \in Stored : rows[i].key = keyFile
      BY <1>1 DEF IInv, FileOK
    <2>2. ASSUME ~replaced, NEW c \in Client, call[c].stage = "undecryptable"
          PROVE  FALSE
      <3>1. call[c].row \in Stored /\ rows[call[c].row].key # memKey /\ memKey # NoKey
        BY <1>1, <2>2 DEF IInv, CallOK
      <3> QED BY <1>1, <2>1, <2>2, <3>1 DEF IInv, FileOK
    <2> QED BY <2>1, <2>2 DEF FirstKeyLasts
  <1> QED BY <1>1, InvariantHolds, PTL
=============================================================================
