----------------------------- MODULE PolicyStore -----------------------------
(***************************************************************************)
(* The policies table and the policy engine built from it. A handler of     *)
(* create_policy (the admin route, or idp_callback for mapped groups)       *)
(* deprecates the active policy and inserts its own, two statements under   *)
(* the lock of the write connection and in no transaction; then it reads    *)
(* the active policy back, builds an engine from it and swaps it in.        *)
(* Statements fail, handlers are dropped, the process crashes and starts.   *)
(*                                                                         *)
(* A row is a number, in order of insertion; the engine is the number of    *)
(* the row it was built from, or Empty, an engine without rules, which      *)
(* denies everything.                                                      *)
(*                                                                         *)
(* Definitions named Bug... are altered forms of the definition that        *)
(* follows them; no specification uses them.                                *)
(***************************************************************************)
EXTENDS Naturals, Sequences, FiniteSets

CONSTANTS
    Handler,    \* handlers of create_policy
    NoHandler,  \* nobody holds the write connection
    Policy,     \* definitions
    Default,    \* the definition inserted when no policy is active
    Parses,     \* the definitions that are valid rule lists
    Pooled,     \* reads have connections of their own
    Faults,     \* statements may fail
    Drops,      \* clients may go away
    MaxRows,    \* bound: rows inserted
    MaxStarts   \* bound: starts of the process

ASSUME PolicyAssumption ==
    Default \in Parses /\ Parses \subseteq Policy /\ NoHandler \notin Handler
ASSUME SettingAssumption == Pooled \in BOOLEAN /\ Faults \in BOOLEAN /\ Drops \in BOOLEAN
ASSUME BoundAssumption == MaxRows \in Nat /\ MaxStarts \in Nat

VARIABLES
    rows,    \* the policies table
    lock,    \* the handler between its two statements
    engine,  \* AppState.policy_engine
    up,      \* the process serves
    starts,  \* starts of the process so far
    call,    \* [Handler -> the create_policy in flight]
    lost     \* history: the policy was deprecated and no other one inserted

vars == <<rows, lock, engine, up, starts, call, lost>>

Empty == 0
Row == [policy : Policy, active : BOOLEAN]
\* own is the row a handler inserted, read the row it built an engine from,
\* alone whether no other handler was in flight together with it.
Call == [stage : {"idle", "called", "writing", "saved", "built"}, policy : Policy,
         own : Nat, read : Nat, alone : BOOLEAN, dropped : BOOLEAN]
NoCall == [stage |-> "idle", policy |-> Default, own |-> 0, read |-> 0,
           alone |-> TRUE, dropped |-> FALSE]

Active == {i \in 1..Len(rows) : rows[i].active}

\* load_active_policy_yaml: the latest of the active rows; no row, or a failed
\* query, reads as the empty definition. (Altered: the oldest row, of any status.)
BugLoadActive == 1
LoadActive ==
    IF Active = {} THEN Empty
    ELSE CHOOSE i \in Active : \A j \in Active : j <= i

Deprecated == [i \in 1..Len(rows) |-> [rows[i] EXCEPT !.active = FALSE]]

InFlight == {h \in Handler : call[h].stage # "idle"}

\* AppState::new on an empty database.
Init ==
    /\ rows = <<[policy |-> Default, active |-> TRUE]>>
    /\ lock = NoHandler
    /\ engine = 1
    /\ up = TRUE
    /\ starts = 1
    /\ call = [h \in Handler |-> NoCall]
    /\ lost = FALSE

-----------------------------------------------------------------------------
Create(h, p) ==
    /\ up /\ call[h].stage = "idle"
    /\ Len(rows) + Cardinality(InFlight) < MaxRows
    /\ call' = [g \in Handler |->
         IF g = h THEN [NoCall EXCEPT !.stage = "called", !.policy = p,
                                      !.alone = InFlight = {}]
         ELSE [call[g] EXCEPT !.alone = FALSE]]
    /\ UNCHANGED <<rows, lock, engine, up, starts, lost>>

\* UPDATE policies SET status = 'deprecated' WHERE status = 'active'.
\* (Altered: without the lock.)
BugDeprecate(h) ==
    /\ call[h].stage = "called"
    /\ rows' = Deprecated
    /\ call' = [call EXCEPT ![h].stage = "writing"]
    /\ UNCHANGED <<lock, engine, up, starts, lost>>
Deprecate(h) ==
    /\ call[h].stage = "called" /\ lock = NoHandler
    /\ rows' = Deprecated
    /\ lock' = h
    /\ call' = [call EXCEPT ![h].stage = "writing"]
    /\ UNCHANGED <<engine, up, starts, lost>>

\* INSERT INTO policies ... 'active', and the lock is given back. A handler that
\* was dropped meanwhile leaves its statements to run to their end.
Insert(h) ==
    /\ call[h].stage = "writing"
    /\ rows' = Append(rows, [policy |-> call[h].policy, active |-> TRUE])
    /\ lock' = NoHandler
    /\ call' = IF call[h].dropped THEN [call EXCEPT ![h] = NoCall]
               ELSE [call EXCEPT ![h].stage = "saved", ![h].own = Len(rows) + 1]
    /\ lost' = FALSE
    /\ UNCHANGED <<engine, up, starts>>

\* A statement fails: before the lock is taken nothing has changed, after the
\* UPDATE there is no active policy.
WriteFails(h) ==
    /\ Faults
    /\ \/ call[h].stage = "called" /\ lock = NoHandler /\ UNCHANGED <<lock, lost>>
       \/ call[h].stage = "writing" /\ lock' = NoHandler /\ lost' = TRUE
    /\ call' = [call EXCEPT ![h] = NoCall]
    /\ UNCHANGED <<rows, engine, up, starts>>

\* reload_policy, first half: build_engine_async. With a pool the read does not
\* wait for the write connection. A definition that does not parse ends the
\* handler with an error, the engine as it was.
Build(h) ==
    /\ call[h].stage = "saved"
    /\ Pooled \/ lock = NoHandler
    /\ \E i \in {LoadActive} \cup (IF Faults THEN {Empty} ELSE {}) :
         call' = IF i = Empty \/ rows[i].policy \in Parses
                 THEN [call EXCEPT ![h].stage = "built", ![h].read = i]
                 ELSE [call EXCEPT ![h] = NoCall]
    /\ UNCHANGED <<rows, lock, engine, up, starts, lost>>

\* reload_policy, second half, and the answer.
Swap(h) ==
    /\ call[h].stage = "built"
    /\ engine' = call[h].read
    /\ call' = [call EXCEPT ![h] = NoCall]
    /\ UNCHANGED <<rows, lock, up, starts, lost>>

\* The client is gone and the handler is dropped at an await, or its read fails.
\* A write that has been handed to the blocking pool is not called back.
Drop(h) ==
    /\ Drops
    /\ \/ call[h].stage = "saved" /\ call' = [call EXCEPT ![h] = NoCall]
       \/ call[h].stage \in {"called", "writing"} /\ ~call[h].dropped
          /\ call' = [call EXCEPT ![h].dropped = TRUE]
    /\ UNCHANGED <<rows, lock, engine, up, starts, lost>>

-----------------------------------------------------------------------------
Crash ==
    /\ up /\ starts < MaxStarts
    /\ up' = FALSE
    /\ lost' = (lost \/ lock # NoHandler)
    /\ lock' = NoHandler
    /\ engine' = Empty
    /\ call' = [h \in Handler |-> NoCall]
    /\ UNCHANGED <<rows, starts>>

WithDefault == Append(rows, [policy |-> Default, active |-> TRUE])

\* AppState::new: create_default_policy, which inserts the default if no policy
\* is active, or if it cannot count the active ones; then the engine. A
\* definition that does not parse ends the start with an error.
Start ==
    /\ ~up /\ starts < MaxStarts
    /\ \/ Active # {} /\ UNCHANGED rows
       \/ (Active = {} \/ Faults) /\ rows' = WithDefault
    /\ starts' = starts + 1
    /\ lost' = FALSE
    /\ up' = (rows'[LoadActive'].policy \in Parses)
    /\ engine' = IF up' THEN LoadActive' ELSE Empty
    /\ UNCHANGED <<lock, call>>

-----------------------------------------------------------------------------
Handle(h) ==
    \/ \E p \in Policy : Create(h, p)
    \/ Deprecate(h)
    \/ Insert(h)
    \/ WriteFails(h)
    \/ Build(h)
    \/ Swap(h)
    \/ Drop(h)

Next ==
    \/ \E h \in Handler : Handle(h)
    \/ Crash
    \/ Start

Spec == Init /\ [][Next]_vars

-----------------------------------------------------------------------------
\* The type invariant.
TypeOK ==
    /\ rows \in Seq(Row)
    /\ lock \in Handler \cup {NoHandler}
    /\ engine \in 0..Len(rows)
    /\ up \in BOOLEAN /\ lost \in BOOLEAN /\ starts \in Nat
    /\ call \in [Handler -> Call]
    /\ \A h \in Handler : call[h].read \in 0..Len(rows) /\ call[h].own \in 0..Len(rows)

\* At rest the policy that a reload or a start will find is the newest one: what
\* create_policy inserted last. Between its two statements, and after they were
\* cut short, they find none.
NewestActive ==
    LoadActive = IF lock # NoHandler \/ lost THEN Empty ELSE Len(rows)

\* A handler never swaps in an engine older than the policy it saved itself, so
\* it can undo a later create_policy and never its own; where reads take turns
\* with the writes it never swaps in the empty one.
ReadsOwnWrite ==
    \A h \in Handler :
      call[h].stage = "built" =>
        \/ call[h].read >= call[h].own
        \/ call[h].read = Empty /\ (Pooled \/ Faults)

\* A create_policy that met no other puts its own policy in force, or, when a
\* query failed, denies everything.
AloneTakesEffect ==
    [][\A h \in Handler :
         call[h].stage = "built" /\ call[h].alone /\ call'[h].stage = "idle" /\ up'
           => engine' = call[h].own \/ (Faults /\ engine' = Empty)]_vars

\* docs/LLD.md: "the engine is rebuilt from the active policy in the DB and
\* atomically swapped": at rest the engine is the active policy.
EngineCurrent ==
    up /\ InFlight = {} => engine = LoadActive
=============================================================================
