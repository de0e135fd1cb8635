-------------------------------- MODULE Ballot --------------------------------
(***************************************************************************)
(* What the approval endpoints promise: a request is filed by one agent and  *)
(* decided at most once, and what an agent or an approver is told of a       *)
(* decision is true of that request, and stays true.                        *)
(***************************************************************************)
CONSTANTS
    Agent,      \* who may file
    Approver,   \* who may decide
    Id,         \* the requests there may be
    Nobody      \* no agent, and no approver

Verdict == {"pending", "approved", "denied"}
Card == [agent : Agent \cup {Nobody}, verdict : Verdict,
         approver : Approver \cup {Nobody}]

\* What someone hears: the decision on a request, or only that there is one.
Word == [to : Agent \cup Approver, id : Id, verdict : {"approved", "denied", "closed"},
         approver : Approver \cup {Nobody}]

VARIABLES
    card,   \* [Id -> who filed it, the decision, who made it]
    told    \* the words that have arrived

ballotVars == <<card, told>>

Blank == [agent |-> Nobody, verdict |-> "pending", approver |-> Nobody]

Init ==
    /\ card = [i \in Id |-> Blank]
    /\ told = {}

\* The word is true of its request.
True(w) ==
    IF w.verdict = "closed"
    THEN card[w.id].verdict # "pending"
    ELSE /\ card[w.id].verdict = w.verdict
         /\ card[w.id].approver = w.approver

\* An agent hears of its own requests only.
Private(w) == w.to \in Agent => card[w.id].agent = w.to

File(i, a) ==
    /\ card[i] = Blank
    /\ card' = [card EXCEPT ![i].agent = a]
    /\ UNCHANGED told

Decide(i, p, v) ==
    /\ card[i].agent # Nobody
    /\ card[i].verdict = "pending"
    /\ card' = [card EXCEPT ![i] = [agent |-> @.agent, verdict |-> v, approver |-> p]]
    /\ UNCHANGED told

Tell(w) ==
    /\ True(w)
    /\ Private(w)
    /\ told' = told \cup {w}
    /\ UNCHANGED card

Next ==
    \/ \E i \in Id, a \in Agent : File(i, a)
    \/ \E i \in Id, p \in Approver, v \in {"approved", "denied"} : Decide(i, p, v)
    \/ \E w \in Word : Tell(w)

Spec == Init /\ [][Next]_ballotVars

\* Whatever was told still holds.
Stands == \A w \in told : True(w) /\ Private(w)
=============================================================================
