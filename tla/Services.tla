------------------------------ MODULE Services ------------------------------
(***************************************************************************)
(* The extension services that run on the tick hooks and message handlers  *)
(* of a node (on and on_tick of suprime/node.py): a swarm whose nodes have *)
(* one of them attached.  They share no state: a hook that fails does not  *)
(* keep the others from running.                                           *)
(***************************************************************************)
EXTENDS Replicator

CONSTANTS
    Swarm,      \* the nodes that aggregate or vote; Nodes hold replicas of the CRDT
    LocalValue, MaxRounds, Unit, Faulty, Truth, Lie, MaxResolves

ASSUME SwarmAssumption == IsFiniteSet(Swarm)
ASSUME LocalValueAssumption == LocalValue \in [Swarm -> Seq(Nat)] /\ MaxRounds \in Nat
ASSUME FaultyAssumption == Faulty \subseteq Swarm /\ MaxResolves \in Nat
ASSUME VotesAssumption == Truth # Lie /\ None \notin {Truth, Lie}

\* Half of Unit, half of that, and so on for MaxRounds times are whole numbers.
ASSUME UnitAssumption ==
    /\ Unit \in Nat \ {0}
    /\ \E part \in [0..MaxRounds -> 1..Unit] :
          part[0] = Unit /\ \A k \in 1..MaxRounds : part[k - 1] = 2 * part[k]

VARIABLES attached, weight, started, inbox, estimate, shares, lost, rounds,
          votes, score, ballots, resolves, hasty

P == INSTANCE PushSum WITH Nodes <- Swarm
V == INSTANCE Voting WITH Nodes <- Swarm

pvars == <<weight, started, inbox, estimate, shares, lost, rounds>>
vvars == <<votes, score, ballots, resolves, hasty>>
vars == <<attached, rvars, pvars, vvars>>

\* An average, or a sum that one node initiates.
Weightings ==
    {[n \in Swarm |-> 1], [n \in Swarm |-> IF n = CHOOSE i \in Swarm : TRUE THEN 1 ELSE 0]}

Init ==
    /\ attached \in {"replicator", "aggregator", "consensus"}
    /\ \E k \in (IF attached = "replicator" THEN Kinds ELSE {"GCounter"}) : InitReplicator(k)
    /\ P!InitPushSum(IF attached = "aggregator" THEN Weightings ELSE {[n \in Swarm |-> 1]})
    /\ V!InitVoting

Next ==
    /\ UNCHANGED attached
    /\ \/ attached = "replicator" /\ NextReplicator /\ UNCHANGED <<pvars, vvars>>
       \/ attached = "aggregator" /\ P!NextPushSum /\ UNCHANGED <<rvars, vvars>>
       \/ attached = "consensus" /\ V!NextVoting /\ UNCHANGED <<rvars, pvars>>

Spec == Init /\ [][Next]_vars

\* Only the replicator promises progress.
FairSpec == Spec /\ (attached = "replicator" => FairReplicator)

-----------------------------------------------------------------------------
\* Every variable of every service has its type; trust stays within its bounds.
TypeOK == ReplicatorTypeOK /\ P!PushSumTypeOK /\ V!VotingTypeOK

\* "Total mass is conserved by construction" (aggregate.py): no mass appears,
\* and none disappears but with a lost message, however rounds, late starts and
\* messages interleave; estimates of an average stay among the values that were
\* contributed, even when shares are lost.
MassIsSound == P!MassConserved /\ P!EstimatesInRange

\* See Voting (byzantine.py): faulty nodes do not gain trust over correct ones.
TruthPrevails == V!TruthPrevails
=============================================================================
