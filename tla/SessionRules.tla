----------------------------- MODULE SessionRules -----------------------------
(***************************************************************************)
(* The conditions of a rule on one session: evaluate reads the session for  *)
(* the spend cap and the required prior action, then calls the rate limiter *)
(* of RateLimit under another lock; request_access records the action later *)
(* and clients report what they spent. Real requests and dry runs come at   *)
(* once. The stop flags and max_actions_in_session are in AccessControl.    *)
(*                                                                         *)
(* The rule of Guarded has all three conditions; its pattern matches one    *)
(* resource, so one key of the limiter is in play. An amount is any number,  *)
(* negative ones too: record_spend adds what it is sent (what f64 rounds is  *)
(* left out).                                                               *)
(* The process does not restart: a restart forgets all of this state.       *)
(*                                                                         *)
(* Definitions named Bug... are altered forms of the definition that        *)
(* follows them; no specification uses them.                                *)
(***************************************************************************)
EXTENDS RateLimit, Integers

CONSTANTS
    Client,      \* requests in flight
    Reporter,    \* record_spend calls in flight
    Guarded,     \* the action the rule is about
    Prior,       \* its require_prior_action, which no rule restricts
    SpendCap,    \* its max_spend
    Amount,      \* amounts reported
    Cap,         \* the events a trajectory keeps: 1000
    MaxEvents,   \* bound: actions recorded
    MaxReports   \* bound: the spend, either way

ASSUME ActionAssumption == Guarded # Prior
ASSUME SessionAssumption ==
    /\ SpendCap \in Nat /\ Cap \in Nat \ {0} /\ Amount \subseteq Int
    /\ MaxEvents \in Nat /\ MaxReports \in Nat

VARIABLES
    session,   \* the SessionState of the session id the clients send
    call,      \* [Client -> its request]
    report,    \* [Reporter -> its record_spend]
    log,       \* history: every action recorded in the session
    reported,  \* history: the amounts kept of all reports, summed up
    acked,     \* history: what the reports answered for had brought it to, as far as
               \* no report took it back since
    met        \* history: when evaluations met the conditions

rulesVars == <<vars, session, call, report, reported, log, acked, met>>

Action == {Guarded, Prior}
Session == [open : BOOLEAN, trajectory : Seq(Action), spend : Int]
\* The rest of a call is history: the spend answered for when it came and not taken
\* back before its conditions are checked, the actions recorded when they are, what
\* refused it, its limit and window.
Call == [stage : {"idle", "came", "met", "decided"}, dry : BOOLEAN, action : Action,
         owed : Int, upto : Nat, open : BOOLEAN,
         refused : {"no", "spend", "prior", "rate"}, limit : Nat, since : Nat]
\* upto is history: what had been reported, this report included, as far as no
\* report took it back since.
Report == [stage : {"idle", "recorded"}, upto : Int]

NoCall == [stage |-> "idle", dry |-> FALSE, action |-> Prior, owed |-> 0, upto |-> 0,
           open |-> FALSE, refused |-> "no", limit |-> 0, since |-> 0]
NoReport == [stage |-> "idle", upto |-> 0]

RulesInit ==
    /\ Init
    /\ session = [open |-> FALSE, trajectory |-> <<>>, spend |-> 0]
    /\ call = [c \in Client |-> NoCall]
    /\ report = [r \in Reporter |-> NoReport]
    /\ log = <<>>
    /\ reported = 0
    /\ acked = 0
    /\ met = <<>>

-----------------------------------------------------------------------------
\* request_access, up to evaluate: get_or_create_session.
Request(c, x) ==
    /\ call[c].stage = "idle"
    /\ session' = [session EXCEPT !.open = TRUE]
    /\ call' = [call EXCEPT ![c] =
         [NoCall EXCEPT !.stage = "came", !.action = x, !.owed = acked]]
    /\ UNCHANGED <<vars, report, reported, log, acked, met>>

\* check_access opens no session; only the guarded action is of interest.
Check(c) ==
    /\ call[c].stage = "idle"
    /\ call' = [call EXCEPT ![c] =
         [NoCall EXCEPT !.stage = "came", !.dry = TRUE, !.action = Guarded,
                        !.owed = acked]]
    /\ UNCHANGED <<vars, session, report, reported, log, acked, met>>

\* check_temporal_conditions: the first condition of the rule that is not met. A
\* session that is not open has none. (Altered: the cap itself may be spent.)
BugUnmet ==
    IF ~session.open THEN "no"
    ELSE IF session.spend > SpendCap THEN "spend"
    ELSE IF \A i \in DOMAIN session.trajectory : session.trajectory[i] # Prior
         THEN "prior"
    ELSE "no"
Unmet ==
    IF ~session.open THEN "no"
    ELSE IF session.spend >= SpendCap THEN "spend"
    ELSE IF \A i \in DOMAIN session.trajectory : session.trajectory[i] # Prior
         THEN "prior"
    ELSE "no"

Judged(c, refused) ==
    [call[c] EXCEPT !.stage = IF refused = "no" THEN "met" ELSE "decided",
                    !.refused = refused, !.upto = Len(log), !.open = session.open]

\* evaluate, up to the limiter. (Altered: the limiter counts first.)
BugConditions(c) ==
    /\ call[c].stage = "came" /\ call[c].action = Guarded
    /\ call' = [call EXCEPT ![c] = Judged(c, Unmet)]
    /\ IF Unmet = "no" THEN UNCHANGED vars ELSE CheckRateLimit
    /\ UNCHANGED <<session, report, reported, log, acked, met>>
Conditions(c) ==
    /\ call[c].stage = "came" /\ call[c].action = Guarded
    /\ call' = [call EXCEPT ![c] = Judged(c, Unmet)]
    /\ UNCHANGED <<vars, session, report, reported, log, acked, met>>

\* The prior action's rule has no condition and no limit.
Unconditional(c) ==
    /\ call[c].stage = "came" /\ call[c].action = Prior
    /\ call' = [call EXCEPT ![c].stage = "decided"]
    /\ UNCHANGED <<vars, session, report, reported, log, acked, met>>

\* check_rate_limit, under the limit of the rule in force.
Limited(c, limit) ==
    /\ call[c].stage = "met"
    /\ Len(allowed) < MaxCalls
    /\ Restarted \/ Counted(limit)
    /\ call' = [call EXCEPT ![c] =
         [@ EXCEPT !.stage = "decided", !.limit = limit, !.since = state'.window_start,
                   !.refused = IF allowed' = allowed THEN "rate" ELSE "no"]]
    /\ met' = Append(met, now)
    /\ UNCHANGED <<now, session, report, reported, log, acked>>

\* SessionState::record_action: the last Cap events are kept. (Altered: the first.)
BugKept(t) == IF Len(t) > Cap THEN SubSeq(t, 1, Cap) ELSE t
Kept(t) == IF Len(t) > Cap THEN SubSeq(t, Len(t) - Cap + 1, Len(t)) ELSE t

\* request_access records the action, whatever was decided; check_access does not.
RecordAction(c) ==
    /\ call[c].stage = "decided"
    /\ ~call[c].dry
    /\ Len(log) < MaxEvents
    /\ session' = [session EXCEPT !.trajectory = Kept(Append(@, call[c].action))]
    /\ log' = Append(log, call[c].action)
    /\ call' = [call EXCEPT ![c] = NoCall]
    /\ UNCHANGED <<vars, report, reported, acked, met>>

\* A dry run answers; a request fails, or its client is gone, before it is recorded.
Leave(c) ==
    /\ call[c].stage = "decided"
    /\ call' = [call EXCEPT ![c] = NoCall]
    /\ UNCHANGED <<vars, session, report, reported, log, acked, met>>

-----------------------------------------------------------------------------
\* SessionState::record_spend, on a total.
Spent(total, amount) == total + amount

\* What remains of an earlier total x now that the total is t.
Left(x, t) == IF x <= t THEN x ELSE t

\* record_spend: nothing is kept of it when the session is not open.
RecordSpend(r, n) ==
    /\ report[r].stage = "idle"
    /\ reported + n \in (0 - MaxReports)..MaxReports
    /\ session' = IF session.open
                  THEN [session EXCEPT !.spend = Spent(@, n)] ELSE session
    /\ reported' = IF session.open THEN reported + n ELSE reported
    /\ acked' = Left(acked, reported')
    /\ report' = [q \in Reporter |->
         IF q = r THEN [stage |-> "recorded", upto |-> reported']
                  ELSE [report[q] EXCEPT !.upto = Left(@, reported')]]
    /\ call' = [c \in Client |->
         IF call[c].stage = "came"
         THEN [call[c] EXCEPT !.owed = Left(@, reported')] ELSE call[c]]
    /\ UNCHANGED <<vars, log, met>>

\* The answer arrives.
Acknowledge(r) ==
    /\ report[r].stage = "recorded"
    /\ acked' = IF report[r].upto > acked THEN report[r].upto ELSE acked
    /\ report' = [report EXCEPT ![r] = NoReport]
    /\ UNCHANGED <<vars, session, call, reported, log, met>>

Clock == Tick /\ UNCHANGED <<session, call, report, reported, log, acked, met>>

Handle(c) ==
    \/ \E x \in Action : Request(c, x)
    \/ Check(c)
    \/ Conditions(c)
    \/ Unconditional(c)
    \/ \E limit \in Limit : Limited(c, limit)
    \/ RecordAction(c)
    \/ Leave(c)

RulesNext ==
    \/ \E c \in Client : Handle(c)
    \/ \E r \in Reporter : Acknowledge(r) \/ \E n \in Amount : RecordSpend(r, n)
    \/ Clock

RulesSpec == RulesInit /\ [][RulesNext]_rulesVars

-----------------------------------------------------------------------------
\* The type invariant.
RulesTypeOK ==
    /\ TypeOK
    /\ session \in Session
    /\ Len(session.trajectory) <= Cap
    /\ call \in [Client -> Call]
    /\ report \in [Reporter -> Report]
    /\ log \in Seq(Action)
    /\ reported \in Int /\ acked \in Int
    /\ met \in Seq(0..now)

Passed(c) == call[c].stage \in {"met", "decided"} /\ call[c].action = Guarded
                /\ call[c].refused \in {"no", "rate"}

\* A request that comes after the answer to a report by which the spend of its
\* session had reached the cap is refused, whatever else is reported at that time,
\* unless it takes the spend back below the cap before the request is evaluated.
CapBinds == \A c \in Client : Passed(c) /\ call[c].open => call[c].owed < SpendCap

\* The last Cap actions recorded, of the first n.
RecentHas(n) == \E i \in 1..n : n - Cap < i /\ log[i] = Prior

\* In an open session the guarded action is let through only if the prior one is
\* among the last Cap actions recorded, and refused for want of it only if it is not.
PriorRecent ==
    \A c \in Client : call[c].open =>
      /\ Passed(c) => RecentHas(call[c].upto)
      /\ call[c].refused = "prior" => ~RecentHas(call[c].upto)

\* A call is refused by its rate limit only after that many others, dry runs among
\* them, met the rule's other conditions in the window: refused ones use up nothing.
DenialEarned ==
    \A c \in Client : call[c].refused = "rate" =>
      Cardinality({i \in DOMAIN met : met[i] >= call[c].since}) > call[c].limit
=============================================================================
