-------------------------------- MODULE Vault --------------------------------
(***************************************************************************)
(* The credential vault: store_credential encrypts a refresh token under    *)
(* the key in memory and inserts a row, vend_credential reads the newest    *)
(* row of a principal and provider, decrypts it and exchanges it with the   *)
(* provider, generate_vault_key overwrites the key file under the running   *)
(* server, and only a start reads that file.                                *)
(*                                                                         *)
(* A refresh token is the number of its row. Keys are numbered: AES-GCM     *)
(* opens a ciphertext under the key that made it and under no other. The    *)
(* clock does not step back between two stores, so ORDER BY updated_at is   *)
(* the order of the rows. The provider answers the exchange with success or *)
(* not; the scopes go to it and come back to the client as they were asked  *)
(* for, and nothing here depends on them.                                   *)
(*                                                                         *)
(* Definitions named Bug... are altered forms of the definition that        *)
(* follows them; no specification uses them.                                *)
(***************************************************************************)
EXTENDS Naturals, Sequences, FiniteSets

CONSTANTS
    Client,     \* requests in flight
    Account,    \* pairs of a principal and a provider
    Provider,   \* [Account -> the provider's name]
    MaxRows,    \* bound: credentials stored
    MaxKeys,    \* bound: keys generated
    MaxStarts   \* bound: starts of the process

Name == {"github", "google", "slack", "other"}

ASSUME ProviderAssumption == Provider \in [Account -> Name]
ASSUME AccountAssumption == Account # {}
ASSUME BoundAssumption == MaxRows \in Nat /\ MaxKeys \in Nat /\ MaxStarts \in Nat

VARIABLES
    keyFile,   \* the key the file at encryption_key_path stands for
    made,      \* keys generated so far
    writing,   \* generate_key has opened the file and not yet written it
    memKey,    \* AppState.vault
    boot,      \* which start of the process this is
    rows,      \* the vault_credentials table, in the order of updated_at
    call,      \* [Client -> its store or vend]
    acked,     \* history: rows whose store has answered
    replaced   \* history: a key file that was there has been overwritten

keyVars == <<keyFile, made, writing, replaced>>
vars == <<keyVars, memKey, boot, rows, call, acked>>

\* No file, hence no vault; what an interrupted write leaves; the keys made.
NoKey == 0
TornKey == 1
NewKey(n) == n + 1

Row == [account : Account, key : Nat, boot : Nat]
Stage == {"idle", "encrypted", "stored", "asked", "undecryptable", "decrypted",
          "exchanged"}
\* floor is history: the newest row of the account acknowledged when the vend began.
Call == [stage : Stage, account : Account, key : Nat, row : Nat, floor : Nat]

AnyAccount == CHOOSE a \in Account : TRUE
Idle == [stage |-> "idle", account |-> AnyAccount, key |-> NoKey, row |-> 0,
         floor |-> 0]

\* ORDER BY updated_at DESC LIMIT 1, of the rows in the set r. (Altered: ASC.)
RowsOf(r, a) == {i \in r : rows[i].account = a}
BugNewest(r, a) ==
    IF RowsOf(r, a) = {} THEN 0
    ELSE CHOOSE i \in RowsOf(r, a) : \A j \in RowsOf(r, a) : i <= j
Newest(r, a) ==
    IF RowsOf(r, a) = {} THEN 0
    ELSE CHOOSE i \in RowsOf(r, a) : \A j \in RowsOf(r, a) : j <= i

Stored == 1..Len(rows)

\* Vault::from_file: any content makes a key, no file none.
FromFile == memKey' = keyFile

\* The first start, with a key file in place or without.
Init ==
    /\ \/ keyFile = NoKey /\ made = 0
       \/ keyFile = NewKey(1) /\ made = 1
    /\ writing = FALSE
    /\ replaced = FALSE
    /\ memKey = keyFile
    /\ boot = 1
    /\ rows = <<>>
    /\ call = [c \in Client |-> Idle]
    /\ acked = {}

-----------------------------------------------------------------------------
\* store_credential, up to encrypt. A server without a vault answers an error.
Encrypt(c, a) ==
    /\ call[c].stage = "idle"
    /\ memKey # NoKey
    /\ call' = [call EXCEPT ![c] =
         [Idle EXCEPT !.stage = "encrypted", !.account = a, !.key = memKey]]
    /\ UNCHANGED <<keyVars, memKey, boot, rows, acked>>

\* store_vault_credential: INSERT OR REPLACE under a fresh id adds a row.
\* (Altered: a failed INSERT passes for a made one.)
BugInsert(c) ==
    /\ call[c].stage = "encrypted"
    /\ call' = [call EXCEPT ![c].stage = "stored", ![c].row = Len(rows) + 1]
    /\ UNCHANGED <<keyVars, memKey, boot, rows, acked>>
Insert(c) ==
    /\ call[c].stage = "encrypted"
    /\ Len(rows) < MaxRows
    /\ rows' = Append(rows, [account |-> call[c].account, key |-> call[c].key,
                             boot |-> boot])
    /\ call' = [call EXCEPT ![c].stage = "stored", ![c].row = Len(rows) + 1]
    /\ UNCHANGED <<keyVars, memKey, boot, acked>>

\* vend_credential, up to the call of get_vault_credential.
Ask(c, a) ==
    /\ call[c].stage = "idle"
    /\ memKey # NoKey
    /\ call' = [call EXCEPT ![c] =
         [Idle EXCEPT !.stage = "asked", !.account = a, !.floor = Newest(acked, a)]]
    /\ UNCHANGED <<keyVars, memKey, boot, rows, acked>>

\* create_provider knows three names.
CreateProvider(a) == Provider[a] \in {"github", "google", "slack"}

\* get_vault_credential, decrypt and create_provider. No row, and a provider
\* nobody knows, end the call with an error.
Read(c) ==
    /\ call[c].stage = "asked"
    /\ LET a == call[c].account
           r == Newest(Stored, a)
       IN \/ /\ r = 0
             /\ call' = [call EXCEPT ![c] = Idle]
          \/ /\ r # 0 /\ rows[r].key = memKey /\ ~CreateProvider(a)
             /\ call' = [call EXCEPT ![c] = Idle]
          \/ /\ r # 0 /\ rows[r].key # memKey
             /\ call' = [call EXCEPT ![c].stage = "undecryptable", ![c].row = r]
          \/ /\ r # 0 /\ rows[r].key = memKey /\ CreateProvider(a)
             /\ call' = [call EXCEPT ![c].stage = "decrypted", ![c].row = r]
    /\ UNCHANGED <<keyVars, memKey, boot, rows, acked>>

\* exchange_refresh: the provider answers with success. What it answers is passed
\* on, and a refresh token it sends along is not kept.
Exchange(c) ==
    /\ call[c].stage = "decrypted"
    /\ call' = [call EXCEPT ![c].stage = "exchanged"]
    /\ UNCHANGED <<keyVars, memKey, boot, rows, acked>>

\* The answer reaches the client.
Answer(c) ==
    /\ call[c].stage \in {"stored", "undecryptable", "exchanged"}
    /\ acked' = IF call[c].stage = "stored" THEN acked \cup {call[c].row} ELSE acked
    /\ call' = [call EXCEPT ![c] = Idle]
    /\ UNCHANGED <<keyVars, memKey, boot, rows>>

\* The database or the provider fails, or the client is gone. (An INSERT that the
\* blocking pool has taken is made all the same: Insert, then Drop.)
Drop(c) ==
    /\ call[c].stage # "idle"
    /\ call' = [call EXCEPT ![c] = Idle]
    /\ UNCHANGED <<keyVars, memKey, boot, rows, acked>>

-----------------------------------------------------------------------------
\* generate_key: fs::write opens the file and truncates it ...
OpenKeyFile ==
    /\ ~writing
    /\ made < MaxKeys
    /\ writing' = TRUE
    /\ keyFile' = TornKey
    /\ replaced' = (replaced \/ keyFile # NoKey)
    /\ UNCHANGED <<made, memKey, boot, rows, call, acked>>

\* ... and writes the new key. The vault in memory is not touched. (Altered: it
\* is exchanged at once.)
BugWriteKey ==
    /\ writing
    /\ writing' = FALSE
    /\ made' = made + 1
    /\ keyFile' = NewKey(made')
    /\ memKey' = keyFile'
    /\ UNCHANGED <<replaced, boot, rows, call, acked>>
WriteKey ==
    /\ writing
    /\ writing' = FALSE
    /\ made' = made + 1
    /\ keyFile' = NewKey(made')
    /\ UNCHANGED <<replaced, memKey, boot, rows, call, acked>>

\* The write fails; what is left of the file stays.
WriteKeyFails ==
    /\ writing
    /\ writing' = FALSE
    /\ UNCHANGED <<keyFile, made, replaced, memKey, boot, rows, call, acked>>

\* The process ends, wherever it is, and starts again. (Altered: a start makes a
\* key of its own.)
BugRestart ==
    /\ boot < MaxStarts /\ made < MaxKeys
    /\ boot' = boot + 1
    /\ made' = made + 1
    /\ keyFile' = NewKey(made')
    /\ memKey' = keyFile'
    /\ writing' = FALSE
    /\ call' = [c \in Client |-> Idle]
    /\ UNCHANGED <<replaced, rows, acked>>
Restart ==
    /\ boot < MaxStarts
    /\ boot' = boot + 1
    /\ FromFile
    /\ writing' = FALSE
    /\ call' = [c \in Client |-> Idle]
    /\ UNCHANGED <<keyFile, made, replaced, rows, acked>>

-----------------------------------------------------------------------------
Serve(c) ==
    \/ \E a \in Account : Encrypt(c, a) \/ Ask(c, a)
    \/ Insert(c)
    \/ Read(c)
    \/ Exchange(c)
    \/ Answer(c)
    \/ Drop(c)

Next ==
    \/ \E c \in Client : Serve(c)
    \/ OpenKeyFile
    \/ WriteKey
    \/ WriteKeyFails
    \/ Restart

Spec == Init /\ [][Next]_vars

-----------------------------------------------------------------------------
\* The type invariant.
TypeOK ==
    /\ keyFile \in Nat /\ made \in Nat /\ memKey \in Nat /\ boot \in Nat
    /\ writing \in BOOLEAN /\ replaced \in BOOLEAN
    /\ rows \in Seq(Row)
    /\ call \in [Client -> Call]
    /\ acked \subseteq Stored
    /\ \A c \in Client : call[c].row \in 0..Len(rows)

HasRead(c) == call[c].stage \in {"undecryptable", "decrypted", "exchanged"}

\* A vend that began after a store was acknowledged uses that credential, or one
\* of the same principal and provider stored since; never an older one, and never
\* another principal's, whatever is stored while it runs.
ReadsNewest ==
    \A c \in Client : HasRead(c) =>
      /\ call[c].row >= call[c].floor
      /\ call[c].row \in Stored
      /\ rows[call[c].row].account = call[c].account

\* Whatever generate_vault_key does to the key file of the running server, a
\* credential stored since the server started can be decrypted until it ends.
SameLifeVends ==
    \A c \in Client :
      call[c].stage = "undecryptable" => rows[call[c].row].boot < boot

\* As long as no key file was overwritten, every credential opens under the key
\* of the file, and so after any restart; no vend finds it otherwise.
FirstKeyLasts ==
    ~replaced =>
      /\ \A i \in Stored : rows[i].key = keyFile
      /\ \A c \in Client : call[c].stage # "undecryptable"
=============================================================================
