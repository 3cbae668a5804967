------------------------------- MODULE Voting -------------------------------
(***************************************************************************)
(* suprime/byzantine.py: nodes vote on the value of a key, every node      *)
(* tallies the votes it has by the trust it has in the voters, and a       *)
(* decision changes that trust.  Trust is counted in tenths.               *)
(*                                                                         *)
(* A faulty node's vote can be any, for anyone, and change at any time.    *)
(* Which of two values with equal weight max() returns depends on the      *)
(* order of dicts, and is left open.                                       *)
(***************************************************************************)
EXTENDS Sums

CONSTANTS
    Nodes, None,
    Faulty,         \* the nodes that do not follow the protocol
    Truth, Lie,     \* what correct nodes vote for, and something else
    MaxResolves     \* bound: decisions

Initial == 10
MaxScore == 50

VARIABLES
    votes,      \* votes[n]: the votes in n's register, None for nobody's
    score,      \* score[n]: n's ledger
    ballots,    \* VOTE_MSG messages in flight
    resolves,   \* calls of accepted that decided
    hasty       \* nodes that called it before every correct vote was in

Correct == Nodes \ Faulty

InitVoting ==
    /\ votes = [n \in Correct |-> [p \in Nodes |-> None]]
    /\ score = [n \in Correct |-> [p \in Nodes |-> Initial]]
    /\ ballots = {} /\ hasty = {} /\ resolves = 0

\* vote, which a correct node records for itself.
Vote(n) ==
    /\ votes[n][n] = None
    /\ votes' = [votes EXCEPT ![n][n] = Truth]
    /\ UNCHANGED <<score, ballots, resolves, hasty>>

\* _tick: the own vote goes out again in every tick.
SendVotes(n, targets) ==
    /\ votes[n][n] # None
    /\ ballots' = ballots \cup [src : {n}, dst : targets, value : {votes[n][n]}]
    /\ UNCHANGED <<votes, score, resolves, hasty>>

Record(n, p, value) ==
    /\ votes' = [votes EXCEPT ![n][p] = value]
    /\ UNCHANGED <<score, ballots, resolves, hasty>>

\* _on_vote; the message stays, for it may come again or late.
OnVote(m) == Record(m.dst, m.src, m.value)

\* _on_vote of what the faulty node p made up for n.
OnFaultyVote(n, p, value) == Record(n, p, value)

Voters(n, value) == {p \in Nodes : votes[n][p] = value}

\* TrustLedger.weight of all who voted for a value.
Weight(n, value) == SumOf([p \in Voters(n, value) |-> score[n][p]])

TotalWeight(n) == Weight(n, Truth) + Weight(n, Lie)

\* tally: a plurality that has half of the weight that voted.
Wins(n, value) ==
    /\ TotalWeight(n) > 0
    /\ \A other \in {Truth, Lie} : Weight(n, value) >= Weight(n, other)
    /\ 2 * Weight(n, value) >= TotalWeight(n)

Penalized_Unbounded(s) == s - 5

\* reward and penalize.
Rewarded(s) == IF s + 2 > MaxScore THEN MaxScore ELSE s + 2
Penalized(s) == IF s < 5 THEN 0 ELSE s - 5

Judged_Swapped(s, agrees) == IF agrees THEN Penalized(s) ELSE Rewarded(s)

Judged(s, agrees) == IF agrees THEN Rewarded(s) ELSE Penalized(s)

\* accepted, that is resolve; without a winner it has no effect.
Resolve(n, value) ==
    /\ resolves < MaxResolves
    /\ Wins(n, value)
    /\ resolves' = resolves + 1
    /\ score' = [score EXCEPT ![n] = [p \in Nodes |->
                    IF votes[n][p] = None THEN @[p] ELSE Judged(@[p], votes[n][p] = value)]]
    /\ hasty' = IF \A p \in Correct : votes[n][p] # None THEN hasty ELSE hasty \cup {n}
    /\ UNCHANGED <<votes, ballots>>

NextVoting ==
    \/ \E n \in Correct : Vote(n)
    \/ \E n \in Correct : \E targets \in SUBSET (Correct \ {n}) : SendVotes(n, targets)
    \/ \E n \in Correct, p \in Faulty, value \in {Truth, Lie} : OnFaultyVote(n, p, value)
    \/ \E m \in ballots : OnVote(m)
    \/ \E n \in Correct, value \in {Truth, Lie} : Resolve(n, value)

-----------------------------------------------------------------------------
(* Properties *)

VotingTypeOK ==
    /\ votes \in [Correct -> [Nodes -> {Truth, Lie, None}]]
    /\ score \in [Correct -> [Nodes -> 0..MaxScore]]
    /\ ballots \subseteq [src : Correct, dst : Correct, value : {Truth, Lie}]
    /\ resolves \in 0..MaxResolves /\ hasty \subseteq Correct

\* "As long as honest nodes hold a trust-weighted quorum, the swarm converges
\* on the truth and down-weights attackers" (byzantine.py): at a node that has
\* asked for a decision only with all correct votes in, no faulty node, by lying
\* and telling the truth in turns, becomes more trusted than a correct one, and
\* no lie can win any more.
TruthPrevails ==
    \A n \in Correct \ hasty :
        /\ \A p \in Correct, f \in Faulty : score[n][f] <= score[n][p]
        /\ (\A p \in Correct : votes[n][p] # None) => ~Wins(n, Lie)
=============================================================================
