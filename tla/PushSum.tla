------------------------------ MODULE PushSum ------------------------------
(***************************************************************************)
(* The push-sum aggregation of suprime/aggregate.py, for one key.          *)
(*                                                                         *)
(* The floats s and w are whole numbers of a fraction of 1.0 that Unit     *)
(* gives: MaxRounds halvings leave them whole, so that halving is exact    *)
(* here as it is for doubles.  The list of masses in an inbox is only ever *)
(* summed, and is kept summed.                                             *)
(***************************************************************************)
EXTENDS Sums

CONSTANTS
    Nodes, None,
    LocalValue,     \* LocalValue[n]: the values that n calls start with, in this order
    MaxRounds,      \* bound: rounds, of all nodes together
    Unit            \* 1.0: a number that can be halved MaxRounds times

Mass == [s : Nat, w : Nat]

Plus(a, b) == [s |-> a.s + b.s, w |-> a.w + b.w]

VARIABLES
    weight,     \* weight[n]: 1 everywhere for an average, at one node for a sum
    started,    \* the calls of start: <<n, i>> is the i-th of node n
    inbox,      \* inbox[n]: the mass in n's inbox
    estimate,   \* estimate[n]: the mass it was taken from, s / w, or None
    shares,     \* messages in flight, numbered by the round that sent them
    lost,       \* the mass that did not arrive (for the properties)
    rounds      \* rounds so far

Nothing == [s |-> 0, w |-> 0]

InitPushSum(W) ==
    /\ weight \in W
    /\ started = {} /\ shares = {} /\ lost = Nothing /\ rounds = 0
    /\ inbox = [n \in Nodes |-> Nothing]
    /\ estimate = [n \in Nodes |-> None]

Value(c) == LocalValue[c[1]][c[2]]

Contribution(c) == [s |-> Value(c) * Unit, w |-> weight[c[1]] * Unit]

\* start (and average), which adds to what earlier calls put in.
StartAggregation(n, i) ==
    /\ <<n, i>> \notin started /\ (i > 1 => <<n, i - 1>> \in started)
    /\ started' = started \cup {<<n, i>>}
    /\ inbox' = [inbox EXCEPT ![n] = Plus(@, Contribution(<<n, i>>))]
    /\ UNCHANGED <<weight, estimate, shares, lost, rounds>>

Estimated(n, total) == IF total.w > 0 THEN total ELSE estimate[n]

Kept(total) == [s |-> total.s \div 2, w |-> total.w \div 2]

Minus(a, b) == [s |-> a.s - b.s, w |-> a.w - b.w]

Sent_Half(total) == [s |-> total.s - Kept(total).s, w |-> total.w]

Sent(total) == Minus(total, Kept(total))

\* _round, with a peer drawn, or without a peer to draw; with an inbox that
\* holds no mass it has no effect.
Round(n, target) ==
    /\ rounds < MaxRounds /\ inbox[n] # Nothing
    /\ rounds' = rounds + 1
    /\ estimate' = [estimate EXCEPT ![n] = Estimated(n, inbox[n])]
    /\ IF target = None
       THEN inbox' = [inbox EXCEPT ![n] = Plus(Kept(@), Sent(@))] /\ UNCHANGED shares
       ELSE /\ inbox' = [inbox EXCEPT ![n] = Kept(@)]
            /\ shares' = shares \cup {[dst |-> target, id |-> rounds, mass |-> Sent(inbox[n])]}
    /\ UNCHANGED <<weight, started, lost>>

\* _on_message, also at a node that has not started.
OnShare(m) ==
    /\ shares' = shares \ {m}
    /\ inbox' = [inbox EXCEPT ![m.dst] = Plus(@, m.mass)]
    /\ UNCHANGED <<weight, started, estimate, lost, rounds>>

\* The send fails, or the message is lost.
LoseShare(m) ==
    /\ shares' = shares \ {m}
    /\ lost' = Plus(lost, m.mass)
    /\ UNCHANGED <<weight, started, inbox, estimate, rounds>>

NextPushSum ==
    \/ \E n \in Nodes : \E i \in DOMAIN LocalValue[n] : StartAggregation(n, i)
    \/ \E n \in Nodes : \E target \in (Nodes \ {n}) \cup {None} : Round(n, target)
    \/ \E m \in shares : OnShare(m) \/ LoseShare(m)

-----------------------------------------------------------------------------
(* Properties *)

PushSumTypeOK ==
    /\ \A c \in started : c[1] \in Nodes /\ c[2] \in DOMAIN LocalValue[c[1]]
    /\ rounds \in 0..MaxRounds
    /\ inbox \in [Nodes -> Mass] /\ lost \in Mass
    /\ estimate \in [Nodes -> {None} \cup Mass]
    /\ shares \subseteq [dst : Nodes, id : 0..(MaxRounds - 1), mass : Mass]

\* "Total mass is conserved by construction" (aggregate.py): what was put in is
\* in the inboxes, under way or lost, however rounds and messages interleave.
MassConserved ==
    /\ SumOf([n \in Nodes |-> inbox[n].s]) + SumOf([m \in shares |-> m.mass.s]) + lost.s
       = SumOf([c \in started |-> Contribution(c).s])
    /\ SumOf([n \in Nodes |-> inbox[n].w]) + SumOf([m \in shares |-> m.mass.w]) + lost.w
       = SumOf([c \in started |-> Contribution(c).w])

\* An average is never estimated below the smallest or above the greatest value
\* contributed, even when shares are lost.
EstimatesInRange ==
    (\A n \in Nodes : weight[n] = 1) =>
    \A n \in Nodes : estimate[n] # None =>
        /\ \E c \in started : estimate[n].s >= Value(c) * estimate[n].w
        /\ \E c \in started : estimate[n].s <= Value(c) * estimate[n].w
=============================================================================
