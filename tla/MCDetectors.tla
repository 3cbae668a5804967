---------------------------- MODULE MCDetectors ----------------------------
(* The two failure detectors of a node, each in a small swarm of its own:    *)
(* gossiped heartbeats (Membership), or SWIM probes on top of them (Swim).   *)
EXTENDS Membership, Swim

VARIABLE detector

dvars == <<detector, vars, swimVars>>

\* Everybody but node 2 is started with node 2 as its seed.
SeedIsSecond == [n \in Nodes |-> {2} \ {n}]

Heartbeats(A) == detector = "heartbeats" /\ A /\ UNCHANGED <<detector, swimVars>>
Probes(A) == detector = "swim" /\ A /\ UNCHANGED <<detector, vars>>

DInit == detector \in {"heartbeats", "swim"} /\ Init /\ SwimInit

DNext ==
    \/ detector = "heartbeats" /\ Next /\ UNCHANGED <<detector, swimVars>>
    \/ detector = "swim" /\ SwimNext /\ UNCHANGED <<detector, vars>>

\* Fairness and SwimFairness, each of the swarm that runs.
DFairness ==
    /\ WF_dvars(Heartbeats(Next)) /\ WF_dvars(Heartbeats(Heal))
    /\ \A n \in Nodes : WF_dvars(Heartbeats(Start(n)))
    /\ WF_dvars(Probes(Ticks)) /\ WF_dvars(Probes(AfterAsking)) /\ WF_dvars(Probes(RoundPasses))
    /\ \A m \in Routes : WF_dvars(Probes(Arrives(m)))

DSpec == DInit /\ [][DNext]_dvars /\ DFairness
=============================================================================
