------------------------------ MODULE RateLimit ------------------------------
(***************************************************************************)
(* SessionStore.check_rate_limit for one key (session, action, resource): a *)
(* counter that starts again with the first call after its window is over.  *)
(* The whole check runs under the lock of the map. Every evaluation of a    *)
(* rule with a limit makes a call, the dry runs too; the limit is the       *)
(* rule's, and another policy may bring another one for the same key.       *)
(*                                                                         *)
(* Definitions named Bug... are altered forms of the definition that        *)
(* follows them; no specification uses them.                                *)
(***************************************************************************)
EXTENDS Integers, Sequences, FiniteSets

CONSTANTS
    Limit,     \* the rate_limit_per_minute of the rules that match the key
    Window,    \* a minute, in ticks of the clock
    MaxNow,    \* bound: the clock
    MaxCalls   \* bound: calls

ASSUME RateAssumption == Limit \subseteq Nat /\ Window \in Nat
\* A limit is a u64, so one is the largest.
ASSUME LimitAssumption == \E n \in Limit : \A m \in Limit : m <= n
ASSUME BoundAssumption == MaxNow \in Nat /\ MaxCalls \in Nat

VARIABLES
    now,      \* the clock
    state,    \* RateLimitState of the key
    allowed   \* history: when calls were let through

vars == <<now, state, allowed>>

RateLimitState == [known : BOOLEAN, window_start : Nat, count : Nat]

Init ==
    /\ now = 0
    /\ state = [known |-> FALSE, window_start |-> 0, count |-> 0]
    /\ allowed = <<>>

Tick ==
    /\ now < MaxNow
    /\ now' = now + 1
    /\ UNCHANGED <<state, allowed>>

\* The key is new, or its window is over.
Fresh == ~state.known \/ now - state.window_start > Window

\* A call starts a window and is let through, whatever the limit ... (Altered:
\* the window's start stays.)
BugRestarted ==
    /\ Fresh
    /\ state' = [state EXCEPT !.known = TRUE, !.count = 1]
    /\ allowed' = Append(allowed, now)
Restarted ==
    /\ Fresh
    /\ state' = [known |-> TRUE, window_start |-> now, count |-> 1]
    /\ allowed' = Append(allowed, now)

\* ... or is counted, and let through while the count is within the limit.
\* (Altered: compared before it is counted.)
BugCounted(limit) ==
    /\ ~Fresh /\ state.count < MaxCalls
    /\ state' = [state EXCEPT !.count = @ + 1]
    /\ allowed' = IF state.count <= limit THEN Append(allowed, now) ELSE allowed
Counted(limit) ==
    /\ ~Fresh /\ state.count < MaxCalls
    /\ state' = [state EXCEPT !.count = @ + 1]
    /\ allowed' = IF state.count + 1 <= limit THEN Append(allowed, now) ELSE allowed

CheckRateLimit ==
    /\ Len(allowed) < MaxCalls
    /\ Restarted \/ \E limit \in Limit : Counted(limit)
    /\ UNCHANGED now

Next == Tick \/ CheckRateLimit

Spec == Init /\ [][Next]_vars

-----------------------------------------------------------------------------
\* The type invariant.
TypeOK ==
    /\ now \in Nat
    /\ state \in RateLimitState
    /\ state.window_start <= now
    /\ allowed \in Seq(0..now)

\* The calls let through from t on, for the time of k windows; the next window
\* starts a tick after a window is over at the earliest.
Span(k) == k * (Window + 1)
Within(t, k) == {i \in 1..Len(allowed) : t <= allowed[i] /\ allowed[i] < t + Span(k)}

\* The largest limit; a limit of 0 lets the first call of a window through.
MaxLimit == CHOOSE n \in Limit \cup {1} : \A m \in Limit \cup {1} : m <= n

\* Over the time of k windows, wherever it starts, less than k + 1 times the limit
\* gets through: in a minute less than twice the limit, with one burst at the end of
\* a window, whose first call came at its start, and one at the start of the next.
LongRunRate ==
    \A t \in 0..MaxNow, k \in 1..MaxNow :
      Cardinality(Within(t, k)) < (k + 1) * MaxLimit

\* The limit holds from the start of a window to its end.
WindowLimit ==
    state.known => Cardinality(Within(state.window_start, 1)) <= MaxLimit
=============================================================================
