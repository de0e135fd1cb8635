-------------------------------- MODULE Ledger --------------------------------
(***************************************************************************)
(* What a log promises whose every entry commits to all entries before it, *)
(* without tables, hashes and locks. A history is a sequence of entries; the *)
(* genuine ones are those that were the whole log at some moment before     *)
(* anybody altered it. Whoever alters the log can make it look like any     *)
(* history. An audit finds no log broken that nobody altered, and vouches   *)
(* for the very history that the log showed when the audit began: whether   *)
(* that one is genuine, the log alone cannot say.                           *)
(***************************************************************************)
EXTENDS Naturals, Sequences

CONSTANT Data   \* what can be recorded

VARIABLES
    genuine,    \* the histories of the log while nobody had altered it
    newest,     \* the history that the log shows and the next record extends
    altered,    \* whether anybody altered the log
    asked,      \* what the log showed when the last audit began
    report      \* what the last audit said

ledgerVars == <<genuine, newest, altered, asked, report>>

Silent == [verdict |-> "none", of |-> <<>>]
Vouched(h) == [verdict |-> "ok", of |-> h]
Broken == [verdict |-> "broken", of |-> <<>>]

Init ==
    /\ genuine = {<<>>}
    /\ newest = <<>>
    /\ altered = FALSE
    /\ asked = <<>>
    /\ report = Silent

\* d is recorded after what the log shows.
Record(d) ==
    /\ ~altered
    /\ newest' = Append(newest, d)
    /\ genuine' = genuine \cup {newest'}
    /\ UNCHANGED <<altered, asked, report>>

\* d is recorded in an altered log, after whatever the log was taken to show.
RecordAltered(d) ==
    /\ altered
    /\ newest' \in Seq(Data) /\ newest' # <<>> /\ newest'[Len(newest')] = d
    /\ UNCHANGED <<genuine, altered, asked, report>>

Alter ==
    /\ altered' = TRUE
    /\ newest' \in Seq(Data)
    /\ UNCHANGED <<genuine, asked, report>>

Ask ==
    /\ asked' = newest
    /\ report' = Silent
    /\ UNCHANGED <<genuine, newest, altered>>

Vouch ==
    /\ report' = Vouched(asked)
    /\ UNCHANGED <<genuine, newest, altered, asked>>

Accuse ==
    /\ altered
    /\ report' = Broken
    /\ UNCHANGED <<genuine, newest, altered, asked>>

Next ==
    \/ \E d \in Data : Record(d) \/ RecordAltered(d)
    \/ Alter
    \/ Ask
    \/ Vouch
    \/ Accuse

Spec == Init /\ [][Next]_ledgerVars

IsPrefixOf(h, k) == Len(h) <= Len(k) /\ \A i \in 1..Len(h) : h[i] = k[i]

\* The genuine histories are one line, of which nothing is lost or forked, and a log
\* that nobody altered shows the longest of them. A history that was vouched for and
\* is genuine is exactly what was recorded up to some moment; nobody is accused for
\* a log that nobody altered.
Evident ==
    /\ \A h, k \in genuine : IsPrefixOf(h, k) \/ IsPrefixOf(k, h)
    /\ ~altered => newest \in genuine /\ \A h \in genuine : IsPrefixOf(h, newest)
    /\ report.verdict = "ok" => report.of = asked
    /\ report.verdict = "broken" => altered
=============================================================================
