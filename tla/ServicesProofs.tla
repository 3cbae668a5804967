---------------------------- MODULE ServicesProofs ----------------------------
(***************************************************************************)
(* Proofs about Services: push-sum aggregation, trust-weighted voting and  *)
(* the replicated data types, for every swarm, every local value and every *)
(* bound.                                                                  *)
(***************************************************************************)
EXTENDS Services, FiniteSetTheorems, WellFoundedInduction, TLAPS

-----------------------------------------------------------------------------
(* Sums *)

\* A function with natural values on a finite set has finitely many units.
LEMMA UnitsFinite ==
    ASSUME NEW S, IsFiniteSet(S), NEW f \in [S -> Nat]
    PROVE  IsFiniteSet(Units(f)) /\ SumOf(f) \in Nat
<1> DEFINE U(x) == {x} \X (1..f[x])
           Us == {U(x) : x \in S}
           g == [x \in S |-> U(x)]
<1>1. IsFiniteSet(Us)
  <2>1. g \in Surjection(S, Us)
    BY DEF Surjection
  <2> QED
    BY <2>1, FS_Surjection
<1>2. ASSUME NEW x \in S PROVE IsFiniteSet(U(x))
  <2>1. IsFiniteSet({x})
    BY FS_Singleton
  <2>2. IsFiniteSet(1..f[x])
    BY FS_Interval
  <2> QED
    BY <2>1, <2>2, FS_Product
<1>3. \A T \in Us : IsFiniteSet(T)
  BY <1>2
<1>4. IsFiniteSet(UNION Us)
  <2> HIDE DEF Us
  <2> QED
    BY <1>1, <1>3, FS_UNION
<1>5. Units(f) = UNION Us
  BY DEF Units
<1> QED
  BY <1>4, <1>5, FS_CardinalityType DEF SumOf

\* One summand can be taken out of a sum.
LEMMA SumSplit ==
    ASSUME NEW S, IsFiniteSet(S), NEW f \in [S -> Nat], NEW x \in S
    PROVE  SumOf(f) = f[x] + SumOf([y \in S \ {x} |-> f[y]])
<1> DEFINE g == [y \in S \ {x} |-> f[y]]
           X == {x} \X (1..f[x])
<1>1. IsFiniteSet(S \ {x}) /\ g \in [S \ {x} -> Nat]
  BY FS_RemoveElement
<1>2. IsFiniteSet(Units(g)) /\ SumOf(g) \in Nat
  <2> HIDE DEF g
  <2> QED
    BY <1>1, UnitsFinite
<1>3. IsFiniteSet(X) /\ Cardinality(X) = f[x]
  <2>1. IsFiniteSet({x}) /\ Cardinality({x}) = 1
    BY FS_Singleton
  <2>2. f[x] \in Nat
    OBVIOUS
  <2>3. IsFiniteSet(1..f[x]) /\ Cardinality(1..f[x]) = f[x]
    BY <2>2, FS_Interval
  <2>4. IsFiniteSet(X) /\ Cardinality(X) = Cardinality({x}) * Cardinality(1..f[x])
    BY <2>1, <2>3, FS_Product
  <2> QED
    BY <2>1, <2>2, <2>3, <2>4
<1>4. Units(f) = X \cup Units(g)
  BY DEF Units
<1>5. X \cap Units(g) = {}
  BY DEF Units
<1> HIDE DEF g, X
<1>6. Cardinality(X \cup Units(g)) = Cardinality(X) + Cardinality(Units(g)) - Cardinality({})
  BY <1>2, <1>3, <1>5, FS_Union
<1>7. Cardinality({}) = 0
  BY FS_EmptySet
<1>8. f[x] \in Nat
  OBVIOUS
<1>9. SumOf(f) = f[x] + SumOf(g)
  BY <1>2, <1>3, <1>4, <1>6, <1>7, <1>8 DEF SumOf
<1> QED
  BY <1>9 DEF g

\* A sum in which one summand changes.
LEMMA SumChange ==
    ASSUME NEW S, IsFiniteSet(S), NEW f \in [S -> Nat], NEW g \in [S -> Nat], NEW x \in S,
           \A y \in S \ {x} : g[y] = f[y]
    PROVE  SumOf(g) + f[x] = SumOf(f) + g[x]
<1>1. [y \in S \ {x} |-> g[y]] = [y \in S \ {x} |-> f[y]]
  OBVIOUS
<1>2. SumOf(f) = f[x] + SumOf([y \in S \ {x} |-> f[y]])
  BY SumSplit
<1>3. SumOf(g) = g[x] + SumOf([y \in S \ {x} |-> g[y]])
  BY SumSplit
<1>4. f[x] \in Nat /\ g[x] \in Nat /\ SumOf([y \in S \ {x} |-> f[y]]) \in Nat
  <2>1. IsFiniteSet(S \ {x}) /\ [y \in S \ {x} |-> f[y]] \in [S \ {x} -> Nat]
    BY FS_RemoveElement
  <2> QED
    BY <2>1, UnitsFinite
<1> QED
  BY <1>1, <1>2, <1>3, <1>4

\* A sum with one summand less.
LEMMA SumLess ==
    ASSUME NEW S, IsFiniteSet(S), NEW f \in [S -> Nat], NEW x \in S,
           NEW g \in [S \ {x} -> Nat], \A y \in S \ {x} : g[y] = f[y]
    PROVE  SumOf(f) = SumOf(g) + f[x]
<1>1. [y \in S \ {x} |-> f[y]] = g
  OBVIOUS
<1>2. SumOf(f) = f[x] + SumOf([y \in S \ {x} |-> f[y]])
  BY SumSplit
<1>3. IsFiniteSet(S \ {x})
  BY FS_RemoveElement
<1>4. SumOf(g) \in Nat /\ f[x] \in Nat
  BY <1>3, UnitsFinite
<1> QED
  BY <1>1, <1>2, <1>4

\* A sum of nothing, or of zeros.
LEMMA SumZero ==
    ASSUME NEW S, NEW f \in [S -> {0}]
    PROVE  SumOf(f) = 0
<1>1. \A x \in S : {x} \X (1..f[x]) = {}
  OBVIOUS
<1>2. Units(f) = {}
  BY <1>1 DEF Units
<1> QED
  BY <1>2, FS_EmptySet DEF SumOf

-----------------------------------------------------------------------------
(* Push-sum *)

\* The sums of PushSum are those above.
LEMMA PushSums == \A f : P!SumOf(f) = SumOf(f)
BY Zenon DEF P!SumOf, P!Units, SumOf, Units, P!Cardinality, Cardinality, P!IsFiniteSet, IsFiniteSet

\* A mass, and what a round makes of it.
LEMMA MassFacts ==
    ASSUME NEW a \in P!Mass, NEW b \in P!Mass
    PROVE  /\ P!Plus(a, b) \in P!Mass
           /\ P!Plus(a, b).s = a.s + b.s /\ P!Plus(a, b).w = a.w + b.w
           /\ P!Kept(a) \in P!Mass /\ P!Sent(a) \in P!Mass
           /\ P!Kept(a).s + P!Sent(a).s = a.s /\ P!Kept(a).w + P!Sent(a).w = a.w
           /\ P!Plus(P!Kept(a), P!Sent(a)) = a
<1>1. ASSUME NEW x \in Nat
      PROVE  x \div 2 \in Nat /\ x - x \div 2 \in Nat /\ x \div 2 + (x - x \div 2) = x
  OBVIOUS
<1>2. a = [s |-> a.s, w |-> a.w] /\ a.s \in Nat /\ a.w \in Nat /\ b.s \in Nat /\ b.w \in Nat
  BY DEF P!Mass
<1>3. ASSUME NEW x \in Nat
      PROVE  \E i, j \in Nat : i = x \div 2 /\ j = x - x \div 2 /\ i + j = x
  BY <1>1
<1>4. PICK i \in Nat, j \in Nat : i = a.s \div 2 /\ j = a.s - a.s \div 2 /\ i + j = a.s
  BY <1>2, <1>3
<1>5. PICK k \in Nat, l \in Nat : k = a.w \div 2 /\ l = a.w - a.w \div 2 /\ k + l = a.w
  BY <1>2, <1>3
<1>6. P!Kept(a) = [s |-> i, w |-> k] /\ P!Sent(a) = [s |-> j, w |-> l]
  BY <1>4, <1>5 DEF P!Kept, P!Sent, P!Minus
<1>7. /\ P!Kept(a) \in P!Mass /\ P!Sent(a) \in P!Mass
      /\ P!Kept(a).s + P!Sent(a).s = a.s /\ P!Kept(a).w + P!Sent(a).w = a.w
  BY <1>4, <1>5, <1>6 DEF P!Mass
<1>8. P!Plus(P!Kept(a), P!Sent(a)) = a
  BY <1>2, <1>4, <1>5, <1>6 DEF P!Plus
<1>9. /\ P!Plus(a, b) \in P!Mass
      /\ P!Plus(a, b).s = a.s + b.s /\ P!Plus(a, b).w = a.w + b.w
  BY <1>2 DEF P!Plus, P!Mass
<1> QED
  BY <1>7, <1>9, <1>8

\* What a node puts in.
LEMMA ContributionType ==
    ASSUME weight \in [Swarm -> {0, 1}], NEW c, c[1] \in Swarm, c[2] \in DOMAIN LocalValue[c[1]]
    PROVE  P!Value(c) \in Nat /\ P!Contribution(c) \in P!Mass
<1>1. LocalValue[c[1]] \in Seq(Nat)
  BY LocalValueAssumption
<1>2. P!Value(c) \in Nat
  BY <1>1 DEF P!Value
<1>3. weight[c[1]] \in Nat /\ Unit \in Nat
  BY UnitAssumption
<1>4. P!Value(c) * Unit \in Nat /\ weight[c[1]] * Unit \in Nat
  BY <1>2, <1>3
<1> QED
  BY <1>2, <1>4 DEF P!Contribution, P!Mass

\* The types, with what keeps the messages apart that rounds send.
PushSumInv ==
    /\ P!PushSumTypeOK
    /\ weight \in [Swarm -> {0, 1}]
    /\ IsFiniteSet(shares) /\ IsFiniteSet(started)
    /\ \A m \in shares : m.id < rounds

\* Every step of the aggregation keeps the types.
LEMMA PushSumTypeStep == PushSumInv /\ P!NextPushSum => PushSumInv'
<1> SUFFICES ASSUME PushSumInv, P!NextPushSum PROVE PushSumInv'
  OBVIOUS
<1> USE DEF PushSumInv, P!PushSumTypeOK
<1>1. ASSUME NEW n \in Swarm, NEW i \in DOMAIN LocalValue[n], P!StartAggregation(n, i) PROVE PushSumInv'
  <2>1. PICK c : c = <<n, i>>
    OBVIOUS
  <2>2. c[1] = n /\ c[2] = i
    BY <2>1
  <2>3. P!Contribution(c) \in P!Mass /\ inbox[n] \in P!Mass
    BY <2>2, ContributionType
  <2>4. P!Plus(inbox[n], P!Contribution(c)) \in P!Mass
    BY <2>3, MassFacts
  <2>5. /\ started' = started \cup {c} /\ inbox' = [inbox EXCEPT ![n] = P!Plus(inbox[n], P!Contribution(c))]
        /\ UNCHANGED <<weight, estimate, shares, lost, rounds>>
    BY <1>1, <2>1 DEF P!StartAggregation
  <2>6. IsFiniteSet(started')
    BY <2>5, FS_AddElement
  <2> QED
    BY <2>2, <2>4, <2>5, <2>6
<1>2. ASSUME NEW n \in Swarm, NEW target \in (Swarm \ {n}) \cup {None}, P!Round(n, target)
      PROVE  PushSumInv'
  <2>1. inbox[n] \in P!Mass /\ P!Kept(inbox[n]) \in P!Mass /\ P!Sent(inbox[n]) \in P!Mass
        /\ P!Plus(P!Kept(inbox[n]), P!Sent(inbox[n])) = inbox[n]
    BY MassFacts
  <2>2. rounds' = rounds + 1 /\ rounds < MaxRounds /\ UNCHANGED <<weight, started, lost>>
        /\ rounds \in Nat /\ MaxRounds \in Nat
    BY <1>2, LocalValueAssumption DEF P!Round
  <2>3. estimate' \in [Swarm -> {None} \cup P!Mass]
    BY <1>2, <2>1 DEF P!Round, P!Estimated
  <2>4. inbox' \in [Swarm -> P!Mass]
    BY <1>2, <2>1 DEF P!Round
  <2>5. CASE target = None
    <3>1. shares' = shares
      BY <1>2, <2>5 DEF P!Round
    <3> QED
      BY <2>2, <2>3, <2>4, <3>1
  <2>6. CASE target # None
    <3> DEFINE m == [dst |-> target, id |-> rounds, mass |-> P!Sent(inbox[n])]
    <3>1. shares' = shares \cup {m}
      BY <1>2, <2>6 DEF P!Round
    <3>2. m \in [dst : Swarm, id : 0..(MaxRounds - 1), mass : P!Mass] /\ m.id = rounds
      BY <2>1, <2>2, <2>6
    <3>3. IsFiniteSet(shares')
      BY <3>1, FS_AddElement
    <3> HIDE DEF m
    <3> QED
      BY <2>2, <2>3, <2>4, <3>1, <3>2, <3>3
  <2> QED
    BY <2>5, <2>6
<1>3. ASSUME NEW m \in shares, P!OnShare(m) PROVE PushSumInv'
  <2>1. inbox[m.dst] \in P!Mass /\ m.mass \in P!Mass /\ m.dst \in Swarm
    OBVIOUS
  <2>2. P!Plus(inbox[m.dst], m.mass) \in P!Mass
    BY <2>1, MassFacts
  <2>3. IsFiniteSet(shares')
    BY <1>3, FS_RemoveElement DEF P!OnShare
  <2> QED
    BY <1>3, <2>1, <2>2, <2>3 DEF P!OnShare
<1>4. ASSUME NEW m \in shares, P!LoseShare(m) PROVE PushSumInv'
  <2>1. m.mass \in P!Mass
    OBVIOUS
  <2>2. P!Plus(lost, m.mass) \in P!Mass
    BY <2>1, MassFacts
  <2>3. IsFiniteSet(shares')
    BY <1>4, FS_RemoveElement DEF P!LoseShare
  <2> QED
    BY <1>4, <2>2, <2>3 DEF P!LoseShare
<1> QED
  BY <1>1, <1>2, <1>3, <1>4 DEF P!NextPushSum

\* "Total mass is conserved by construction" (aggregate.py), step by step: a
\* start adds to an inbox what it adds to the contributions, a round moves what
\* it takes out of the inbox into a message of its own, and a message moves its
\* mass into an inbox or among the losses.
LEMMA MassStep == PushSumInv /\ PushSumInv' /\ P!MassConserved /\ P!NextPushSum => P!MassConserved'
<1> SUFFICES ASSUME PushSumInv, PushSumInv', P!MassConserved, P!NextPushSum
             PROVE  P!MassConserved'
  OBVIOUS
<1> DEFINE Is == [n \in Swarm |-> inbox[n].s]
           Iw == [n \in Swarm |-> inbox[n].w]
           Ss == [m \in shares |-> m.mass.s]
           Sw == [m \in shares |-> m.mass.w]
           Cs == [c \in started |-> P!Contribution(c).s]
           Cw == [c \in started |-> P!Contribution(c).w]
<1>0. /\ IsFiniteSet(Swarm) /\ IsFiniteSet(started) /\ IsFiniteSet(started')
      /\ IsFiniteSet(shares) /\ IsFiniteSet(shares')
  BY SwarmAssumption DEF PushSumInv
<1>1. /\ Is \in [Swarm -> Nat] /\ Is' \in [Swarm -> Nat]
      /\ Iw \in [Swarm -> Nat] /\ Iw' \in [Swarm -> Nat]
  BY DEF PushSumInv, P!PushSumTypeOK, P!Mass
<1>2. /\ Ss \in [shares -> Nat] /\ Ss' \in [shares' -> Nat]
      /\ Sw \in [shares -> Nat] /\ Sw' \in [shares' -> Nat]
  BY DEF PushSumInv, P!PushSumTypeOK, P!Mass
<1>3. /\ lost.s \in Nat /\ lost.w \in Nat /\ lost'.s \in Nat /\ lost'.w \in Nat
  BY DEF PushSumInv, P!PushSumTypeOK, P!Mass
<1>4. weight' = weight
  BY DEF P!NextPushSum, P!StartAggregation, P!Round, P!OnShare, P!LoseShare
<1>5. \A c : c[1] \in Swarm /\ c[2] \in DOMAIN LocalValue[c[1]]
             => /\ P!Contribution(c) \in P!Mass
                /\ P!Contribution(c).s \in Nat /\ P!Contribution(c).w \in Nat
  BY ContributionType DEF PushSumInv, P!Mass
<1>6. /\ Cs \in [started -> Nat] /\ Cw \in [started -> Nat]
      /\ Cs' = [c \in started' |-> P!Contribution(c).s] /\ Cs' \in [started' -> Nat]
      /\ Cw' = [c \in started' |-> P!Contribution(c).w] /\ Cw' \in [started' -> Nat]
  <2>1. /\ \A c \in started : c[1] \in Swarm /\ c[2] \in DOMAIN LocalValue[c[1]]
        /\ \A c \in started' : c[1] \in Swarm /\ c[2] \in DOMAIN LocalValue[c[1]]
    BY DEF PushSumInv, P!PushSumTypeOK
  <2>2. /\ Cs' = [c \in started' |-> P!Contribution(c).s]
        /\ Cw' = [c \in started' |-> P!Contribution(c).w]
    BY <1>4 DEF P!Contribution, P!Value
  <2> QED
    BY <1>5, <2>1, <2>2
<1>7. /\ SumOf(Is) + SumOf(Ss) + lost.s = SumOf(Cs)
      /\ SumOf(Iw) + SumOf(Sw) + lost.w = SumOf(Cw)
  BY PushSums DEF P!MassConserved
<1>8. ASSUME SumOf(Is') + SumOf(Ss') + lost'.s = SumOf(Cs'),
             SumOf(Iw') + SumOf(Sw') + lost'.w = SumOf(Cw')
      PROVE  P!MassConserved'
  BY PushSums, <1>6, <1>8 DEF P!MassConserved
<1>9. SumOf(Is) \in Nat /\ SumOf(Iw) \in Nat /\ SumOf(Ss) \in Nat /\ SumOf(Sw) \in Nat
  <2> HIDE DEF Is, Iw, Ss, Sw
  <2> QED
    BY <1>0, <1>1, <1>2, UnitsFinite
\* An inbox that changes is added to or taken from.
<1>10. ASSUME NEW n \in Swarm, \A p \in Swarm \ {n} : inbox'[p] = inbox[p]
       PROVE  /\ SumOf(Is') + inbox[n].s = SumOf(Is) + inbox'[n].s
              /\ SumOf(Iw') + inbox[n].w = SumOf(Iw) + inbox'[n].w
  <2>1. /\ \A p \in Swarm \ {n} : Is'[p] = Is[p] /\ Iw'[p] = Iw[p]
        /\ Is[n] = inbox[n].s /\ Is'[n] = inbox'[n].s
        /\ Iw[n] = inbox[n].w /\ Iw'[n] = inbox'[n].w
    BY <1>10
  <2>2. PICK f \in [Swarm -> Nat], g \in [Swarm -> Nat] : f = Is /\ g = Is'
    BY <1>1
  <2>3. PICK h \in [Swarm -> Nat], k \in [Swarm -> Nat] : h = Iw /\ k = Iw'
    BY <1>1
  <2> HIDE DEF Is, Iw
  <2>4. SumOf(g) + f[n] = SumOf(f) + g[n]
    BY <1>0, <2>1, <2>2, SumChange
  <2>5. SumOf(k) + h[n] = SumOf(h) + k[n]
    BY <1>0, <2>1, <2>3, SumChange
  <2> QED
    BY <2>1, <2>2, <2>3, <2>4, <2>5
\* A message that comes or goes.
<1>11. ASSUME NEW S, IsFiniteSet(S), NEW m \in S,
              \A x \in S : x.mass.s \in Nat /\ x.mass.w \in Nat
       PROVE  /\ SumOf([x \in S |-> x.mass.s]) = SumOf([x \in S \ {m} |-> x.mass.s]) + m.mass.s
              /\ SumOf([x \in S |-> x.mass.w]) = SumOf([x \in S \ {m} |-> x.mass.w]) + m.mass.w
  <2>1. PICK f \in [S -> Nat] : f = [x \in S |-> x.mass.s]
    BY <1>11
  <2>2. PICK g \in [S \ {m} -> Nat] : g = [x \in S \ {m} |-> x.mass.s]
    BY <1>11
  <2>3. PICK h \in [S -> Nat] : h = [x \in S |-> x.mass.w]
    BY <1>11
  <2>4. PICK k \in [S \ {m} -> Nat] : k = [x \in S \ {m} |-> x.mass.w]
    BY <1>11
  <2>5. f[m] = m.mass.s /\ h[m] = m.mass.w
    BY <2>1, <2>3
  <2>6. SumOf(f) = SumOf(g) + f[m]
    <3>1. \A x \in S \ {m} : g[x] = f[x]
      BY <2>1, <2>2
    <3>2. IsFiniteSet(S)
      BY <1>11
    <3> QED
      BY <3>1, <3>2, SumLess
  <2>7. SumOf(h) = SumOf(k) + h[m]
    <3>1. \A x \in S \ {m} : k[x] = h[x]
      BY <2>3, <2>4
    <3>2. IsFiniteSet(S)
      BY <1>11
    <3> QED
      BY <3>1, <3>2, SumLess
  <2> QED
    BY <2>1, <2>2, <2>3, <2>4, <2>5, <2>6, <2>7
<1>12. /\ \A n \in Swarm : inbox[n] \in P!Mass /\ inbox[n].s \in Nat /\ inbox[n].w \in Nat
       /\ \A m \in shares : /\ m.dst \in Swarm /\ m.mass \in P!Mass
                            /\ m.mass.s \in Nat /\ m.mass.w \in Nat
       /\ lost \in P!Mass
  BY DEF PushSumInv, P!PushSumTypeOK, P!Mass
<1>13. ASSUME NEW n \in Swarm, NEW i \in DOMAIN LocalValue[n], P!StartAggregation(n, i) PROVE P!MassConserved'
  <2>a. \E c : c = <<n, i>> /\ c[1] = n /\ c[2] = i
    <3>1. <<n, i>>[1] = n /\ <<n, i>>[2] = i
      OBVIOUS
    <3> QED
      BY <3>1
  <2>0. PICK c : c = <<n, i>> /\ c[1] = n /\ c[2] = i
    BY <2>a
  <2>1. /\ c \notin started /\ started' = started \cup {c} /\ shares' = shares /\ lost' = lost
        /\ inbox' = [inbox EXCEPT ![n] = P!Plus(@, P!Contribution(c))]
    BY <1>13, <2>0 DEF P!StartAggregation
  <2>2. /\ inbox'[n].s = inbox[n].s + P!Contribution(c).s
        /\ inbox'[n].w = inbox[n].w + P!Contribution(c).w
        /\ \A p \in Swarm \ {n} : inbox'[p] = inbox[p]
    <3>1. inbox'[n] = P!Plus(inbox[n], P!Contribution(c))
          /\ \A p \in Swarm \ {n} : inbox'[p] = inbox[p]
      BY <2>1 DEF PushSumInv, P!PushSumTypeOK
    <3>2. inbox[n] \in P!Mass /\ P!Contribution(c) \in P!Mass
      BY <1>5, <1>12, <2>0
    <3> QED
      BY <3>1, <3>2, MassFacts
  <2>3. SumOf(Cs') = SumOf(Cs) + P!Contribution(c).s
    <3>1. PICK f \in [started' -> Nat] : f = Cs'
      BY <1>6
    <3>0. started' \ {c} = started
      BY <2>1
    <3>2. PICK g \in [started' \ {c} -> Nat] : g = Cs
      BY <1>6, <3>0
    <3>3. c \in started' /\ f[c] = P!Contribution(c).s /\ \A y \in started' \ {c} : g[y] = f[y]
      BY <1>6, <2>1, <3>1, <3>2
    <3>4. SumOf(f) = SumOf(g) + f[c]
      BY <1>0, <3>3, SumLess
    <3> QED
      BY <3>1, <3>2, <3>3, <3>4
  <2>4. SumOf(Cw') = SumOf(Cw) + P!Contribution(c).w
    <3>1. PICK f \in [started' -> Nat] : f = Cw'
      BY <1>6
    <3>0. started' \ {c} = started
      BY <2>1
    <3>2. PICK g \in [started' \ {c} -> Nat] : g = Cw
      BY <1>6, <3>0
    <3>3. c \in started' /\ f[c] = P!Contribution(c).w /\ \A y \in started' \ {c} : g[y] = f[y]
      BY <1>6, <2>1, <3>1, <3>2
    <3>4. SumOf(f) = SumOf(g) + f[c]
      <4>1. IsFiniteSet(started')
        BY <1>0
      <4> QED
        BY <3>3, <4>1, SumLess
    <3> QED
      BY <3>1, <3>2, <3>3, <3>4
  <2>5. SumOf(Ss') = SumOf(Ss) /\ SumOf(Sw') = SumOf(Sw)
    BY <2>1
  <2>6. /\ SumOf(Is') = SumOf(Is) + P!Contribution(c).s
        /\ SumOf(Iw') = SumOf(Iw) + P!Contribution(c).w
    <3>1. /\ SumOf(Is') + inbox[n].s = SumOf(Is) + inbox'[n].s
          /\ SumOf(Iw') + inbox[n].w = SumOf(Iw) + inbox'[n].w
      BY <1>10, <2>2
    <3>2. SumOf(Is') \in Nat /\ SumOf(Iw') \in Nat
      <4> HIDE DEF Is, Iw
      <4> QED
        BY <1>0, <1>1, UnitsFinite
    <3> HIDE DEF Is, Iw, Ss, Sw
    <3> QED
      BY <1>5, <1>9, <1>12, <2>0, <2>2, <3>1, <3>2
  <2> HIDE DEF Is, Iw, Ss, Sw, Cs, Cw
  <2> QED
    BY <1>3, <1>5, <1>7, <1>8, <1>9, <2>0, <2>1, <2>3, <2>4, <2>5, <2>6
<1>14. SumOf(Is') \in Nat /\ SumOf(Iw') \in Nat /\ SumOf(Ss') \in Nat /\ SumOf(Sw') \in Nat
  <2> HIDE DEF Is, Iw, Ss, Sw
  <2> QED
    BY <1>0, <1>1, <1>2, UnitsFinite
<1>15. ASSUME started' = started PROVE SumOf(Cs') = SumOf(Cs) /\ SumOf(Cw') = SumOf(Cw)
  BY <1>6, <1>15
<1>16. ASSUME NEW n \in Swarm, NEW target \in (Swarm \ {n}) \cup {None}, P!Round(n, target)
       PROVE  P!MassConserved'
  <2> DEFINE kept == P!Kept(inbox[n])
             sent == P!Sent(inbox[n])
  <2>1. /\ kept \in P!Mass /\ sent \in P!Mass
        /\ kept.s + sent.s = inbox[n].s /\ kept.w + sent.w = inbox[n].w
        /\ P!Plus(kept, sent) = inbox[n]
    BY <1>12, MassFacts
  <2>2. kept.s \in Nat /\ kept.w \in Nat /\ sent.s \in Nat /\ sent.w \in Nat
    BY <2>1 DEF P!Mass
  <2>3. started' = started /\ lost' = lost
    BY <1>16 DEF P!Round
  <2>4. CASE target = None
    <3>1. inbox' = inbox /\ shares' = shares
      <4>1. inbox' = [inbox EXCEPT ![n] = P!Plus(P!Kept(@), P!Sent(@))] /\ shares' = shares
        BY <1>16, <2>4 DEF P!Round
      <4> QED
        BY <2>1, <4>1 DEF PushSumInv, P!PushSumTypeOK
    <3>2. /\ SumOf(Is') = SumOf(Is) /\ SumOf(Iw') = SumOf(Iw)
          /\ SumOf(Ss') = SumOf(Ss) /\ SumOf(Sw') = SumOf(Sw)
      BY <3>1
    <3> QED
      BY <1>7, <1>8, <1>15, <2>3, <3>2
  <2>5. CASE target # None
    <3> DEFINE m == [dst |-> target, id |-> rounds, mass |-> sent]
    <3>1. inbox' = [inbox EXCEPT ![n] = kept] /\ shares' = shares \cup {m}
      BY <1>16, <2>5 DEF P!Round
    <3>2. m \notin shares /\ m.mass = sent
      BY DEF PushSumInv, P!PushSumTypeOK
    <3>3. inbox'[n] = kept /\ \A p \in Swarm \ {n} : inbox'[p] = inbox[p]
      BY <3>1 DEF PushSumInv, P!PushSumTypeOK
    <3>4. /\ SumOf(Is') + inbox[n].s = SumOf(Is) + kept.s
          /\ SumOf(Iw') + inbox[n].w = SumOf(Iw) + kept.w
      BY <1>10, <3>3
    <3>5. m \in shares' /\ shares' \ {m} = shares
      BY <3>1, <3>2
    <3>6. \A x \in shares' : x.mass.s \in Nat /\ x.mass.w \in Nat
      BY DEF PushSumInv, P!PushSumTypeOK, P!Mass
    <3>7. SumOf(Ss') = SumOf(Ss) + sent.s /\ SumOf(Sw') = SumOf(Sw) + sent.w
      <4>1. PICK T : T = shares'
        OBVIOUS
      <4> HIDE DEF m, sent
      <4>2. /\ SumOf([x \in T |-> x.mass.s]) = SumOf([x \in T \ {m} |-> x.mass.s]) + m.mass.s
            /\ SumOf([x \in T |-> x.mass.w]) = SumOf([x \in T \ {m} |-> x.mass.w]) + m.mass.w
        BY <1>0, <1>11, <3>5, <3>6, <4>1
      <4>3. T \ {m} = shares
        BY <3>5, <4>1
      <4> QED
        BY <3>2, <4>1, <4>2, <4>3
    <3> HIDE DEF Is, Iw, Ss, Sw, Cs, Cw, kept, sent, m
    <3>8. inbox[n].s \in Nat /\ inbox[n].w \in Nat
      BY <1>12
    <3>9. SumOf(Is') + sent.s = SumOf(Is) /\ SumOf(Iw') + sent.w = SumOf(Iw)
      BY <1>9, <1>14, <2>1, <2>2, <3>4, <3>8
    <3>10. /\ SumOf(Is') + SumOf(Ss') + lost'.s = SumOf(Cs')
           /\ SumOf(Iw') + SumOf(Sw') + lost'.w = SumOf(Cw')
      BY <1>3, <1>7, <1>9, <1>14, <1>15, <2>2, <2>3, <3>7, <3>9
    <3> QED
      BY <1>8, <3>10
  <2> QED
    BY <2>4, <2>5
<1>17. ASSUME NEW m \in shares, shares' = shares \ {m}
       PROVE  SumOf(Ss) = SumOf(Ss') + m.mass.s /\ SumOf(Sw) = SumOf(Sw') + m.mass.w
  <2>1. /\ SumOf([x \in shares |-> x.mass.s]) = SumOf([x \in shares \ {m} |-> x.mass.s]) + m.mass.s
        /\ SumOf([x \in shares |-> x.mass.w]) = SumOf([x \in shares \ {m} |-> x.mass.w]) + m.mass.w
    BY <1>0, <1>11, <1>12
  <2> QED
    BY <1>17, <2>1
<1>18. ASSUME NEW m \in shares, P!OnShare(m) PROVE P!MassConserved'
  <2>1. /\ shares' = shares \ {m} /\ started' = started /\ lost' = lost
        /\ inbox' = [inbox EXCEPT ![m.dst] = P!Plus(@, m.mass)]
    BY <1>18 DEF P!OnShare
  <2>2. m.dst \in Swarm /\ inbox[m.dst] \in P!Mass /\ m.mass \in P!Mass
    BY <1>12
  <2>3. /\ inbox'[m.dst] = P!Plus(inbox[m.dst], m.mass)
        /\ \A p \in Swarm \ {m.dst} : inbox'[p] = inbox[p]
    BY <2>1, <2>2 DEF PushSumInv, P!PushSumTypeOK
  <2>4. /\ inbox'[m.dst].s = inbox[m.dst].s + m.mass.s
        /\ inbox'[m.dst].w = inbox[m.dst].w + m.mass.w
    BY <2>2, <2>3, MassFacts
  <2>5. /\ SumOf(Is') + inbox[m.dst].s = SumOf(Is) + inbox'[m.dst].s
        /\ SumOf(Iw') + inbox[m.dst].w = SumOf(Iw) + inbox'[m.dst].w
    BY <1>10, <2>2, <2>3
  <2>6. SumOf(Ss) = SumOf(Ss') + m.mass.s /\ SumOf(Sw) = SumOf(Sw') + m.mass.w
    BY <1>17, <2>1
  <2>7. /\ inbox[m.dst].s \in Nat /\ inbox[m.dst].w \in Nat /\ m.mass.s \in Nat /\ m.mass.w \in Nat
    BY <1>12
  <2> HIDE DEF Is, Iw, Ss, Sw, Cs, Cw
  <2>8. SumOf(Is') = SumOf(Is) + m.mass.s /\ SumOf(Iw') = SumOf(Iw) + m.mass.w
    BY <1>9, <1>14, <2>4, <2>5, <2>7
  <2>9. /\ SumOf(Is') + SumOf(Ss') + lost'.s = SumOf(Cs')
        /\ SumOf(Iw') + SumOf(Sw') + lost'.w = SumOf(Cw')
    BY <1>3, <1>7, <1>9, <1>14, <1>15, <2>1, <2>6, <2>7, <2>8
  <2> QED
    BY <1>8, <2>9
<1>19. ASSUME NEW m \in shares, P!LoseShare(m) PROVE P!MassConserved'
  <2>1. /\ shares' = shares \ {m} /\ started' = started /\ inbox' = inbox
        /\ lost' = P!Plus(lost, m.mass)
    BY <1>19 DEF P!LoseShare
  <2>2. lost'.s = lost.s + m.mass.s /\ lost'.w = lost.w + m.mass.w
    BY <1>12, <2>1, MassFacts
  <2>3. SumOf(Ss) = SumOf(Ss') + m.mass.s /\ SumOf(Sw) = SumOf(Sw') + m.mass.w
    BY <1>17, <2>1
  <2>4. SumOf(Is') = SumOf(Is) /\ SumOf(Iw') = SumOf(Iw)
    BY <2>1
  <2>5. m.mass.s \in Nat /\ m.mass.w \in Nat
    BY <1>12
  <2> HIDE DEF Is, Iw, Ss, Sw, Cs, Cw
  <2>6. /\ SumOf(Is') + SumOf(Ss') + lost'.s = SumOf(Cs')
        /\ SumOf(Iw') + SumOf(Sw') + lost'.w = SumOf(Cw')
    BY <1>3, <1>7, <1>9, <1>14, <1>15, <2>1, <2>2, <2>3, <2>4, <2>5
  <2> QED
    BY <1>8, <2>6
<1> QED
  BY <1>13, <1>16, <1>18, <1>19 DEF P!NextPushSum

\* Between the smallest and the greatest: a mass is between lo and hi times its
\* weight.
Between(a, lo, hi) == lo * a.w <= a.s /\ a.s <= hi * a.w

\* A mass in whole numbers of d.
Whole(a, d) == \E i, j \in Nat : a = [s |-> i * d, w |-> j * d]

\* Part[k]: what Unit becomes when it is halved k times.
Part == CHOOSE part \in [0..MaxRounds -> 1..Unit] :
           part[0] = Unit /\ \A k \in 1..MaxRounds : part[k - 1] = 2 * part[k]

\* Facts about the products in what follows.
LEMMA Products ==
    ASSUME NEW x \in Nat, NEW y \in Nat, NEW z \in Nat
    PROVE  /\ x * y \in Nat
           /\ x * (y + z) = x * y + x * z
           /\ x * (2 * y) = 2 * (x * y)
           /\ y <= z => y * x <= z * x
<1>1. x * y \in Nat /\ x * (y + z) = x * y + x * z /\ x * (2 * y) = 2 * (x * y)
  OBVIOUS
<1>2. y <= z => y * x <= z * x
  OBVIOUS
<1> QED
  BY <1>1, <1>2

\* Unit can be halved MaxRounds times.
LEMMA PartFacts ==
    /\ Part \in [0..MaxRounds -> 1..Unit] /\ Part[0] = Unit
    /\ \A k \in 0..(MaxRounds - 1) : Part[k] = 2 * Part[k + 1] /\ Part[k + 1] \in Nat
<1>1. /\ Part \in [0..MaxRounds -> 1..Unit] /\ Part[0] = Unit
      /\ \A k \in 1..MaxRounds : Part[k - 1] = 2 * Part[k]
  BY UnitAssumption DEF Part
<1>2. ASSUME NEW k \in 0..(MaxRounds - 1)
      PROVE  Part[k] = 2 * Part[k + 1] /\ Part[k + 1] \in Nat
  <2>1. k + 1 \in 1..MaxRounds /\ k + 1 \in 0..MaxRounds /\ (k + 1) - 1 = k
    BY LocalValueAssumption
  <2>2. Part[(k + 1) - 1] = 2 * Part[k + 1]
    BY <1>1, <2>1
  <2>3. Part[k + 1] \in 1..Unit
    BY <1>1, <2>1
  <2> QED
    BY <2>1, <2>2, <2>3, UnitAssumption
<1> QED
  BY <1>1, <1>2

\* Two masses in range add up to one in range.
LEMMA BetweenPlus ==
    ASSUME NEW lo \in Nat, NEW hi \in Nat, NEW a \in P!Mass, NEW b \in P!Mass,
           Between(a, lo, hi), Between(b, lo, hi)
    PROVE  Between(P!Plus(a, b), lo, hi)
<1>1. a.s \in Nat /\ a.w \in Nat /\ b.s \in Nat /\ b.w \in Nat
  BY DEF P!Mass
<1>2. /\ lo * (a.w + b.w) = lo * a.w + lo * b.w /\ hi * (a.w + b.w) = hi * a.w + hi * b.w
      /\ lo * a.w \in Nat /\ lo * b.w \in Nat /\ hi * a.w \in Nat /\ hi * b.w \in Nat
  BY <1>1, Products
<1>3. P!Plus(a, b).s = a.s + b.s /\ P!Plus(a, b).w = a.w + b.w
  BY MassFacts
<1> QED
  BY <1>1, <1>2, <1>3 DEF Between

\* A wider range.
LEMMA BetweenWider ==
    ASSUME NEW lo \in Nat, NEW hi \in Nat, NEW l \in Nat, NEW h \in Nat, l <= lo, hi <= h,
           NEW a \in P!Mass, Between(a, lo, hi)
    PROVE  Between(a, l, h)
<1>1. a.s \in Nat /\ a.w \in Nat
  BY DEF P!Mass
<1>2. /\ l * a.w <= lo * a.w /\ hi * a.w <= h * a.w
      /\ l * a.w \in Nat /\ lo * a.w \in Nat /\ hi * a.w \in Nat /\ h * a.w \in Nat
  BY <1>1, Products
<1> QED
  BY <1>1, <1>2 DEF Between

\* The two halves of a mass in whole numbers of 2 * d are in whole numbers of d,
\* and in the same range.
LEMMA Halves ==
    ASSUME NEW d \in Nat, NEW a, Whole(a, 2 * d)
    PROVE  /\ Whole(a, d) /\ Whole(P!Kept(a), d) /\ Whole(P!Sent(a), d)
           /\ \A lo, hi \in Nat : Between(a, lo, hi) =>
                 Between(P!Kept(a), lo, hi) /\ Between(P!Sent(a), lo, hi)
<1>1. PICK i \in Nat, j \in Nat : a = [s |-> i * (2 * d), w |-> j * (2 * d)]
  BY DEF Whole
<1>2. PICK x \in Nat : x = i * d
  BY Products
<1>3. PICK y \in Nat : y = j * d
  BY Products
<1>4. a = [s |-> 2 * x, w |-> 2 * y] /\ a.s = 2 * x /\ a.w = 2 * y
  BY <1>1, <1>2, <1>3, Products
<1>5. (2 * x) \div 2 = x /\ (2 * y) \div 2 = y /\ 2 * x - x = x /\ 2 * y - y = y
  OBVIOUS
<1>6. P!Kept(a) = [s |-> x, w |-> y] /\ P!Sent(a) = [s |-> x, w |-> y]
  BY <1>4, <1>5 DEF P!Kept, P!Sent, P!Minus
<1>7. Whole(P!Kept(a), d) /\ Whole(P!Sent(a), d)
  BY <1>2, <1>3, <1>6 DEF Whole
<1>8. Whole(a, d)
  <2>1. (2 * i) * d = 2 * x /\ (2 * j) * d = 2 * y /\ 2 * i \in Nat /\ 2 * j \in Nat
    BY <1>2, <1>3
  <2> QED
    BY <1>4, <2>1 DEF Whole
<1>9. ASSUME NEW lo \in Nat, NEW hi \in Nat, Between(a, lo, hi)
      PROVE  Between(P!Kept(a), lo, hi) /\ Between(P!Sent(a), lo, hi)
  <2>1. lo * (2 * y) <= 2 * x /\ 2 * x <= hi * (2 * y)
    BY <1>4, <1>9 DEF Between
  <2>2. /\ lo * (2 * y) = 2 * (lo * y) /\ hi * (2 * y) = 2 * (hi * y)
        /\ lo * y \in Nat /\ hi * y \in Nat
    BY Products
  <2>3. lo * y <= x /\ x <= hi * y
    BY <2>1, <2>2
  <2> QED
    BY <1>6, <2>3 DEF Between
<1> QED
  BY <1>7, <1>8, <1>9

\* Sums of whole numbers of d.
LEMMA WholePlus ==
    ASSUME NEW d \in Nat, NEW a, NEW b, Whole(a, d), Whole(b, d)
    PROVE  Whole(P!Plus(a, b), d)
<1>1. PICK i \in Nat, j \in Nat : a = [s |-> i * d, w |-> j * d]
  BY DEF Whole
<1>2. PICK k \in Nat, l \in Nat : b = [s |-> k * d, w |-> l * d]
  BY DEF Whole
<1>3. i * d + k * d = (i + k) * d /\ j * d + l * d = (j + l) * d /\ i + k \in Nat /\ j + l \in Nat
  BY Products
<1>4. P!Plus(a, b) = [s |-> (i + k) * d, w |-> (j + l) * d]
  BY <1>1, <1>2, <1>3 DEF P!Plus
<1> QED
  BY <1>3, <1>4 DEF Whole

\* Every mass is in whole numbers of what the rounds so far have left of Unit, so
\* that each round can halve it.
WholeInv ==
    /\ Whole([s |-> Unit, w |-> Unit], Part[rounds])
    /\ \A n \in Swarm : Whole(inbox[n], Part[rounds])
    /\ \A m \in shares : Whole(m.mass, Part[rounds])

\* All masses, and the estimates taken from them, are between lo and hi.
AllBetween(lo, hi) ==
    /\ \A n \in Swarm : Between(inbox[n], lo, hi)
    /\ \A m \in shares : Between(m.mass, lo, hi)
    /\ \A n \in Swarm : estimate[n] # None => Between(estimate[n], lo, hi)

\* Nobody has started, or the values of two nodes that have bound everything.
RangeInv ==
    (\A n \in Swarm : weight[n] = 1) =>
    \/ /\ started = {} /\ shares = {}
       /\ \A n \in Swarm : inbox[n] = P!Nothing /\ estimate[n] = None
    \/ \E p, q \in started : AllBetween(P!Value(p), P!Value(q))

\* Rounds halve what can be halved.
LEMMA WholeStep == PushSumInv /\ WholeInv /\ P!NextPushSum => WholeInv'
<1> SUFFICES ASSUME PushSumInv, WholeInv, P!NextPushSum PROVE WholeInv'
  OBVIOUS
<1>0. Part[rounds] \in Nat /\ rounds \in 0..MaxRounds
  BY PartFacts, UnitAssumption DEF PushSumInv, P!PushSumTypeOK
<1>1. ASSUME NEW n \in Swarm, NEW k \in DOMAIN LocalValue[n], P!StartAggregation(n, k) PROVE WholeInv'
  <2>a. \E c : c = <<n, k>> /\ c[1] = n /\ c[2] = k
    <3>1. <<n, k>>[1] = n /\ <<n, k>>[2] = k
      OBVIOUS
    <3> QED
      BY <3>1
  <2>0. PICK c : c = <<n, k>> /\ c[1] = n /\ c[2] = k
    BY <2>a
  <2>1. /\ rounds' = rounds /\ shares' = shares
        /\ inbox' = [inbox EXCEPT ![n] = P!Plus(@, P!Contribution(c))]
    BY <1>1, <2>0 DEF P!StartAggregation
  <2>2. Whole(P!Contribution(c), Part[rounds])
    <3>1. PICK i \in Nat, j \in Nat :
             [s |-> Unit, w |-> Unit] = [s |-> i * Part[rounds], w |-> j * Part[rounds]]
      BY DEF WholeInv, Whole
    <3>2. Unit = i * Part[rounds]
      BY <3>1
    <3>3. P!Value(c) \in Nat /\ weight[n] \in Nat
      BY <2>0, ContributionType DEF PushSumInv
    <3>4. PICK d \in Nat : d = Part[rounds]
      BY <1>0
    <3>5. PICK v \in Nat, w \in Nat : v = P!Value(c) /\ w = weight[n]
      BY <3>3
    <3>6. v * (i * d) = (v * i) * d /\ w * (i * d) = (w * i) * d /\ v * i \in Nat /\ w * i \in Nat
      BY Products
    <3>7. P!Contribution(c) = [s |-> (v * i) * d, w |-> (w * i) * d]
      BY <2>0, <3>2, <3>4, <3>5, <3>6 DEF P!Contribution
    <3> QED
      BY <3>4, <3>6, <3>7 DEF Whole
  <2>3. Whole(P!Plus(inbox[n], P!Contribution(c)), Part[rounds])
    BY <1>0, <2>2, WholePlus DEF WholeInv
  <2> QED
    BY <2>1, <2>3 DEF WholeInv, PushSumInv, P!PushSumTypeOK
<1>2. ASSUME NEW n \in Swarm, NEW target \in (Swarm \ {n}) \cup {None}, P!Round(n, target)
      PROVE  WholeInv'
  <2>1. rounds' = rounds + 1 /\ rounds < MaxRounds
    BY <1>2 DEF P!Round
  <2>2. rounds \in 0..(MaxRounds - 1)
    BY <1>0, <2>1, LocalValueAssumption
  <2>3. PICK d \in Nat : d = Part[rounds'] /\ Part[rounds] = 2 * d
    BY <2>1, <2>2, PartFacts
  <2>4. /\ Whole([s |-> Unit, w |-> Unit], d)
        /\ \A p \in Swarm : Whole(inbox[p], d) /\ Whole(P!Kept(inbox[p]), d) /\ Whole(P!Sent(inbox[p]), d)
        /\ \A m \in shares : Whole(m.mass, d)
    <3>1. /\ Whole([s |-> Unit, w |-> Unit], 2 * d)
          /\ \A p \in Swarm : Whole(inbox[p], 2 * d)
          /\ \A m \in shares : Whole(m.mass, 2 * d)
      BY <2>3 DEF WholeInv
    <3> QED
      BY <3>1, Halves
  <2>5. \A p \in Swarm : Whole(inbox'[p], d)
    <3>1. P!Plus(P!Kept(inbox[n]), P!Sent(inbox[n])) = inbox[n]
      BY MassFacts DEF PushSumInv, P!PushSumTypeOK
    <3>2. inbox' \in {[inbox EXCEPT ![n] = P!Plus(P!Kept(@), P!Sent(@))], [inbox EXCEPT ![n] = P!Kept(@)]}
      BY <1>2 DEF P!Round
    <3> QED
      BY <2>4, <3>1, <3>2 DEF PushSumInv, P!PushSumTypeOK
  <2>6. \A m \in shares' : Whole(m.mass, d)
    <3> DEFINE x == [dst |-> target, id |-> rounds, mass |-> P!Sent(inbox[n])]
    <3>1. shares' = shares \/ shares' = shares \cup {x}
      BY <1>2 DEF P!Round
    <3>2. x.mass = P!Sent(inbox[n])
      OBVIOUS
    <3> HIDE DEF x
    <3> QED
      BY <2>4, <3>1, <3>2
  <2> QED
    BY <2>3, <2>4, <2>5, <2>6 DEF WholeInv
<1>3. ASSUME NEW m \in shares, P!OnShare(m) PROVE WholeInv'
  <2>1. m.dst \in Swarm /\ Whole(P!Plus(inbox[m.dst], m.mass), Part[rounds])
    BY <1>0, WholePlus DEF WholeInv, PushSumInv, P!PushSumTypeOK
  <2> QED
    BY <1>3, <2>1 DEF P!OnShare, WholeInv, PushSumInv, P!PushSumTypeOK
<1>4. ASSUME NEW m \in shares, P!LoseShare(m) PROVE WholeInv'
  BY <1>4 DEF P!LoseShare, WholeInv
<1> QED
  BY <1>1, <1>2, <1>3, <1>4 DEF P!NextPushSum

\* Starts widen the range by the value they bring in; rounds and messages keep it.
LEMMA RangeStep == PushSumInv /\ WholeInv /\ RangeInv /\ P!NextPushSum => RangeInv'
<1> SUFFICES ASSUME PushSumInv, WholeInv, RangeInv, P!NextPushSum, \A n \in Swarm : weight'[n] = 1
             PROVE  \/ /\ started' = {} /\ shares' = {}
                       /\ \A n \in Swarm : inbox'[n] = P!Nothing /\ estimate'[n] = None
                    \/ \E p, q \in started' : AllBetween(P!Value(p), P!Value(q))'
  BY DEF RangeInv, AllBetween, P!Value
<1>1. weight' = weight /\ \A n \in Swarm : weight[n] = 1
  <2>1. weight' = weight
    BY DEF P!NextPushSum, P!StartAggregation, P!Round, P!OnShare, P!LoseShare
  <2> QED
    BY <2>1
<1>2. /\ \A n \in Swarm : inbox[n] \in P!Mass
      /\ \A m \in shares : m.dst \in Swarm /\ m.mass \in P!Mass
      /\ \A n \in Swarm : estimate[n] # None => estimate[n] \in P!Mass
      /\ \A c \in started : P!Value(c) \in Nat
  BY ContributionType DEF PushSumInv, P!PushSumTypeOK
<1>3. ASSUME NEW n \in Swarm, NEW i \in DOMAIN LocalValue[n], P!StartAggregation(n, i)
      PROVE  \E p, q \in started' : AllBetween(P!Value(p), P!Value(q))'
  <2>a. \E c : c = <<n, i>> /\ c[1] = n /\ c[2] = i
    <3>1. <<n, i>>[1] = n /\ <<n, i>>[2] = i
      OBVIOUS
    <3> QED
      BY <3>1
  <2>0. PICK c : c = <<n, i>> /\ c[1] = n /\ c[2] = i
    BY <2>a
  <2>1. /\ started' = started \cup {c} /\ shares' = shares /\ estimate' = estimate
        /\ inbox'[n] = P!Plus(inbox[n], P!Contribution(c))
        /\ \A p \in Swarm \ {n} : inbox'[p] = inbox[p]
    BY <1>3, <2>0 DEF P!StartAggregation, PushSumInv, P!PushSumTypeOK
  <2>9. P!Contribution(c) \in P!Mass /\ P!Value(c) \in Nat
    BY <2>0, ContributionType DEF PushSumInv
  <2>2. P!Contribution(c) \in P!Mass /\ Between(P!Contribution(c), P!Value(c), P!Value(c))
    <3>1. P!Contribution(c) \in P!Mass
      BY <2>9
    <3>2. P!Contribution(c) = [s |-> P!Value(c) * Unit, w |-> 1 * Unit]
      BY <1>1, <2>0 DEF P!Contribution
    <3>3. 1 * Unit = Unit /\ P!Value(c) * Unit \in Nat
      BY <2>9, UnitAssumption, Products
    <3> QED
      BY <3>1, <3>2, <3>3 DEF Between
  <2>3. ASSUME NEW lo \in Nat, NEW hi \in Nat, AllBetween(lo, hi),
               NEW l \in Nat, NEW h \in Nat,
               l <= lo, l <= P!Value(c), hi <= h, P!Value(c) <= h
        PROVE  AllBetween(l, h)'
    <3>1. /\ \A p \in Swarm : Between(inbox[p], l, h)
          /\ \A m \in shares : Between(m.mass, l, h)
          /\ \A p \in Swarm : estimate[p] # None => Between(estimate[p], l, h)
      BY <1>2, <2>3, BetweenWider DEF AllBetween
    <3>2. Between(P!Contribution(c), l, h)
      BY <1>2, <2>2, <2>3, <2>9, BetweenWider
    <3>3. Between(P!Plus(inbox[n], P!Contribution(c)), l, h)
      BY <1>2, <2>2, <3>1, <3>2, BetweenPlus
    <3> QED
      BY <2>1, <3>1, <3>3 DEF AllBetween
  <2>4. CASE \E p, q \in started : AllBetween(P!Value(p), P!Value(q))
    <3>1. PICK p \in started, q \in started : AllBetween(P!Value(p), P!Value(q))
      BY <2>4
    <3>2. PICK x \in {p, c} : P!Value(x) <= P!Value(p) /\ P!Value(x) <= P!Value(c)
      BY <1>2, <2>9, <3>1
    <3>3. PICK y \in {q, c} : P!Value(q) <= P!Value(y) /\ P!Value(c) <= P!Value(y)
      BY <1>2, <2>9, <3>1
    <3>4. x \in started' /\ y \in started' /\ P!Value(x) \in Nat /\ P!Value(y) \in Nat
      BY <1>2, <2>1, <2>9, <3>1
    <3>5. AllBetween(P!Value(x), P!Value(y))'
      BY <1>2, <2>3, <3>1, <3>2, <3>3, <3>4
    <3> QED
      BY <3>4, <3>5
  <2>5. CASE /\ started = {} /\ shares = {}
             /\ \A p \in Swarm : inbox[p] = P!Nothing /\ estimate[p] = None
    <3>1. Between(P!Nothing, P!Value(c), P!Value(c))
      BY <2>9 DEF Between, P!Nothing
    <3>2. AllBetween(P!Value(c), P!Value(c))
      BY <2>5, <3>1 DEF AllBetween
    <3>3. AllBetween(P!Value(c), P!Value(c))'
      BY <2>3, <2>9, <3>2
    <3> QED
      BY <2>1, <3>3
  <2> QED
    BY <1>1, <2>4, <2>5 DEF RangeInv
<1>4. ASSUME NEW n \in Swarm, NEW target \in (Swarm \ {n}) \cup {None}, P!Round(n, target)
      PROVE  \E p, q \in started' : AllBetween(P!Value(p), P!Value(q))'
  <2>1. inbox[n] # P!Nothing /\ started' = started /\ rounds < MaxRounds
    BY <1>4 DEF P!Round
  <2>2. PICK p \in started, q \in started : AllBetween(P!Value(p), P!Value(q))
    BY <1>1, <2>1 DEF RangeInv
  <2>3. PICK lo \in Nat, hi \in Nat : lo = P!Value(p) /\ hi = P!Value(q)
    BY <1>2
  <2>4. AllBetween(lo, hi)
    BY <2>2, <2>3
  <2>5. Between(P!Kept(inbox[n]), lo, hi) /\ Between(P!Sent(inbox[n]), lo, hi)
    <3>1. rounds \in 0..(MaxRounds - 1)
      BY <2>1, LocalValueAssumption DEF PushSumInv, P!PushSumTypeOK
    <3>2. PICK d \in Nat : Part[rounds] = 2 * d
      BY <3>1, PartFacts
    <3> QED
      BY <2>4, <3>2, Halves DEF AllBetween, WholeInv
  <2>6. \A x \in Swarm : Between(inbox'[x], lo, hi)
    <3>1. P!Plus(P!Kept(inbox[n]), P!Sent(inbox[n])) = inbox[n]
      BY <1>2, MassFacts
    <3>2. inbox' \in {[inbox EXCEPT ![n] = P!Plus(P!Kept(@), P!Sent(@))], [inbox EXCEPT ![n] = P!Kept(@)]}
      BY <1>4 DEF P!Round
    <3> QED
      BY <2>4, <2>5, <3>1, <3>2 DEF AllBetween, PushSumInv, P!PushSumTypeOK
  <2>7. \A m \in shares' : Between(m.mass, lo, hi)
    <3> DEFINE x == [dst |-> target, id |-> rounds, mass |-> P!Sent(inbox[n])]
    <3>1. shares' = shares \/ shares' = shares \cup {x}
      BY <1>4 DEF P!Round
    <3>2. x.mass = P!Sent(inbox[n])
      OBVIOUS
    <3> HIDE DEF x
    <3> QED
      BY <2>4, <2>5, <3>1, <3>2 DEF AllBetween
  <2>8. \A x \in Swarm : estimate'[x] # None => Between(estimate'[x], lo, hi)
    <3>1. estimate' = [estimate EXCEPT ![n] = P!Estimated(n, inbox[n])]
      BY <1>4 DEF P!Round
    <3>2. P!Estimated(n, inbox[n]) \in {inbox[n], estimate[n]}
      BY DEF P!Estimated
    <3> QED
      BY <2>4, <3>1, <3>2 DEF AllBetween, PushSumInv, P!PushSumTypeOK
  <2>9. AllBetween(lo, hi)'
    BY <2>6, <2>7, <2>8 DEF AllBetween
  <2> QED
    BY <2>1, <2>3, <2>9
<1>5. ASSUME NEW m \in shares, P!OnShare(m) \/ P!LoseShare(m)
      PROVE  \E p, q \in started' : AllBetween(P!Value(p), P!Value(q))'
  <2>1. PICK p \in started, q \in started : AllBetween(P!Value(p), P!Value(q))
    BY <1>1 DEF RangeInv
  <2>2. PICK lo \in Nat, hi \in Nat : lo = P!Value(p) /\ hi = P!Value(q)
    BY <1>2
  <2>3. AllBetween(lo, hi)
    BY <2>1, <2>2
  <2>4. Between(P!Plus(inbox[m.dst], m.mass), lo, hi)
    BY <1>2, <2>3, BetweenPlus DEF AllBetween
  <2>5. started' = started /\ AllBetween(lo, hi)'
    BY <1>2, <1>5, <2>3, <2>4 DEF P!OnShare, P!LoseShare, AllBetween, PushSumInv, P!PushSumTypeOK
  <2> QED
    BY <2>2, <2>5
<1> QED
  BY <1>3, <1>4, <1>5 DEF P!NextPushSum

\* Nothing has been put in yet.
LEMMA PushSumInit ==
    ASSUME NEW W, W \subseteq [Swarm -> {0, 1}], P!InitPushSum(W)
    PROVE  PushSumInv /\ P!MassConserved /\ WholeInv /\ RangeInv
<1> USE DEF P!InitPushSum
<1>1. P!Nothing \in P!Mass /\ P!Nothing.s = 0 /\ P!Nothing.w = 0
  BY DEF P!Nothing, P!Mass
<1>2. PushSumInv
  BY <1>1, LocalValueAssumption, FS_EmptySet DEF PushSumInv, P!PushSumTypeOK
<1>3. P!MassConserved
  <2>1. /\ [n \in Swarm |-> inbox[n].s] \in [Swarm -> {0}]
        /\ [n \in Swarm |-> inbox[n].w] \in [Swarm -> {0}]
    BY <1>1
  <2>2. /\ [m \in shares |-> m.mass.s] \in [shares -> {0}]
        /\ [m \in shares |-> m.mass.w] \in [shares -> {0}]
        /\ [c \in started |-> P!Contribution(c).s] \in [started -> {0}]
        /\ [c \in started |-> P!Contribution(c).w] \in [started -> {0}]
    OBVIOUS
  <2>3. /\ SumOf([n \in Swarm |-> inbox[n].s]) = 0 /\ SumOf([n \in Swarm |-> inbox[n].w]) = 0
    BY <2>1, SumZero
  <2>4. /\ SumOf([m \in shares |-> m.mass.s]) = 0 /\ SumOf([m \in shares |-> m.mass.w]) = 0
        /\ SumOf([c \in started |-> P!Contribution(c).s]) = 0
        /\ SumOf([c \in started |-> P!Contribution(c).w]) = 0
    BY <2>2, SumZero
  <2>5. lost.s = 0 /\ lost.w = 0
    BY <1>1
  <2> QED
    BY <2>3, <2>4, <2>5, PushSums DEF P!MassConserved
<1>4. WholeInv
  <2>1. Part[rounds] = Unit /\ Unit \in Nat
    BY PartFacts, UnitAssumption
  <2>2. 1 * Unit = Unit /\ 0 * Unit = 0
    BY <2>1
  <2>3. Whole([s |-> Unit, w |-> Unit], Unit) /\ Whole([s |-> 0, w |-> 0], Unit)
    <3>1. [s |-> Unit, w |-> Unit] = [s |-> 1 * Unit, w |-> 1 * Unit]
          /\ [s |-> 0, w |-> 0] = [s |-> 0 * Unit, w |-> 0 * Unit]
      BY <2>2
    <3> QED
      BY <3>1 DEF Whole
  <2> QED
    BY <2>1, <2>3 DEF WholeInv, P!Nothing
<1>5. RangeInv
  BY DEF RangeInv
<1> QED
  BY <1>2, <1>3, <1>4, <1>5

\* The range of the masses is one of the estimates.
LEMMA RangeImplies == PushSumInv /\ RangeInv => P!EstimatesInRange
<1> SUFFICES ASSUME PushSumInv, RangeInv, \A n \in Swarm : weight[n] = 1,
                    NEW n \in Swarm, estimate[n] # None
             PROVE  /\ \E c \in started : estimate[n].s >= P!Value(c) * estimate[n].w
                    /\ \E c \in started : estimate[n].s <= P!Value(c) * estimate[n].w
  BY DEF P!EstimatesInRange
<1>1. PICK p \in started, q \in started : AllBetween(P!Value(p), P!Value(q))
  BY DEF RangeInv
<1>2. /\ P!Value(p) * estimate[n].w <= estimate[n].s
      /\ estimate[n].s <= P!Value(q) * estimate[n].w
  BY <1>1 DEF AllBetween, Between
<1>3. estimate[n].s \in Nat /\ estimate[n].w \in Nat /\ P!Value(p) \in Nat
  BY ContributionType DEF PushSumInv, P!PushSumTypeOK, P!Mass
<1>4. P!Value(p) * estimate[n].w \in Nat
  BY <1>3, Products
<1>5. estimate[n].s >= P!Value(p) * estimate[n].w
  BY <1>2, <1>3, <1>4
<1> QED
  BY <1>2, <1>5

-----------------------------------------------------------------------------
(* Voting *)

\* The sums of Voting are those above.
LEMMA VotingSums == \A f : V!SumOf(f) = SumOf(f)
BY Zenon DEF V!SumOf, V!Units, SumOf, Units, V!Cardinality, Cardinality

\* A sum of at most c for each member of S, and one of at least c.
LEMMA SumAtMost ==
    ASSUME NEW S, IsFiniteSet(S), NEW c \in Nat, NEW T \in SUBSET S, NEW f \in [T -> Nat],
           \A x \in T : f[x] <= c
    PROVE  SumOf(f) <= Cardinality(S) * c
<1>1. IsFiniteSet(1..c) /\ Cardinality(1..c) = c
  BY FS_Interval
<1>2. IsFiniteSet(S \X (1..c)) /\ Cardinality(S \X (1..c)) = Cardinality(S) * c
  BY <1>1, FS_Product
<1>3. Units(f) \subseteq S \X (1..c)
  <2>1. ASSUME NEW x \in T PROVE {x} \X (1..f[x]) \subseteq S \X (1..c)
    <3>1. 1..f[x] \subseteq 1..c
      OBVIOUS
    <3> QED
      BY <3>1
  <2> QED
    BY <2>1 DEF Units
<1> QED
  BY <1>2, <1>3, FS_Subset DEF SumOf

\* A sum of at least c for each member of S.
LEMMA SumAtLeast ==
    ASSUME NEW T, IsFiniteSet(T), NEW c \in Nat, NEW S \in SUBSET T, NEW f \in [T -> Nat],
           \A x \in S : c <= f[x]
    PROVE  Cardinality(S) * c <= SumOf(f)
<1>1. IsFiniteSet(1..c) /\ Cardinality(1..c) = c
  BY FS_Interval
<1>2. IsFiniteSet(S)
  BY FS_Subset
<1>3. Cardinality(S \X (1..c)) = Cardinality(S) * c
  BY <1>1, <1>2, FS_Product
<1>4. S \X (1..c) \subseteq Units(f)
  <2>1. ASSUME NEW x \in S PROVE {x} \X (1..c) \subseteq {x} \X (1..f[x])
    <3>1. 1..c \subseteq 1..f[x]
      OBVIOUS
    <3> QED
      BY <3>1
  <2> QED
    BY <2>1 DEF Units
<1>5. IsFiniteSet(Units(f))
  BY UnitsFinite
<1> QED
  BY <1>3, <1>4, <1>5, FS_Subset DEF SumOf

\* Fewer nodes are faulty than correct.
HonestMajority == Cardinality(Faulty) < Cardinality(Swarm \ Faulty)

\* Correct nodes vote for the truth only.
VotesInv ==
    /\ V!VotingTypeOK
    /\ \A m \in ballots : m.value = Truth
    /\ \A n, p \in V!Correct : votes[n][p] \in {Truth, None}

\* At a node that was not hasty all correct nodes are trusted alike, no less than
\* in the beginning, and no faulty one more.
TrustInv ==
    \A n \in V!Correct \ hasty :
        /\ \A p, q \in V!Correct : score[n][p] = score[n][q]
        /\ \A p \in V!Correct : score[n][p] >= V!Initial
        /\ \A p \in V!Correct, f \in Faulty : score[n][f] <= score[n][p]

\* With all correct votes in, the weight of the truth is greater.
LEMMA NoLieWins ==
    ASSUME HonestMajority, VotesInv, TrustInv, NEW n \in V!Correct \ hasty,
           \A p \in V!Correct : votes[n][p] # None
    PROVE  ~V!Wins(n, Lie)
<1> DEFINE c == score[n][n]
           fl == [p \in V!Voters(n, Lie) |-> score[n][p]]
           ft == [p \in V!Voters(n, Truth) |-> score[n][p]]
<1>1. /\ n \in V!Correct /\ V!Correct = Swarm \ Faulty
      /\ \A p \in Swarm : score[n][p] \in Nat
  BY DEF V!Correct, VotesInv, V!VotingTypeOK, V!MaxScore
<1>2. c \in Nat /\ c > 0
  BY <1>1 DEF TrustInv, V!Initial, V!Correct
<1>3. V!Voters(n, Lie) \in SUBSET Faulty
  BY <1>1, VotesAssumption DEF V!Voters, VotesInv
<1>4. V!Correct \in SUBSET V!Voters(n, Truth)
  BY <1>1 DEF V!Voters, VotesInv
<1>5. IsFiniteSet(Faulty) /\ IsFiniteSet(V!Correct) /\ IsFiniteSet(V!Voters(n, Truth))
  BY <1>1, SwarmAssumption, FaultyAssumption, FS_Subset DEF V!Voters
<1>6. fl \in [V!Voters(n, Lie) -> Nat] /\ ft \in [V!Voters(n, Truth) -> Nat]
  BY <1>1 DEF V!Voters
<1>7. \A p \in V!Voters(n, Lie) : fl[p] <= c
  BY <1>1, <1>3 DEF TrustInv
<1>8. \A p \in V!Correct : c <= ft[p]
  <2>1. ASSUME NEW p \in V!Correct PROVE c <= ft[p]
    <3>1. score[n][p] = score[n][n] /\ ft[p] = score[n][p]
      BY <1>1, <1>4 DEF TrustInv
    <3> QED
      BY <1>2, <3>1
  <2> QED
    BY <2>1
<1>9. V!Weight(n, Lie) = SumOf(fl) /\ V!Weight(n, Truth) = SumOf(ft)
  BY VotingSums DEF V!Weight
<1> HIDE DEF c, fl, ft
<1>10. SumOf(fl) <= Cardinality(Faulty) * c
  BY <1>2, <1>3, <1>5, <1>6, <1>7, SumAtMost
<1>11. Cardinality(V!Correct) * c <= SumOf(ft)
  BY <1>2, <1>4, <1>5, <1>6, <1>8, SumAtLeast
<1>12. IsFiniteSet(V!Voters(n, Lie))
  BY <1>3, <1>5, FS_Subset
<1>13. SumOf(fl) \in Nat /\ SumOf(ft) \in Nat
  BY <1>5, <1>6, <1>12, UnitsFinite
<1>14. /\ Cardinality(Faulty) \in Nat /\ Cardinality(V!Correct) \in Nat
       /\ Cardinality(Faulty) < Cardinality(V!Correct)
  BY <1>1, <1>5, FS_CardinalityType DEF HonestMajority
<1>15. Cardinality(Faulty) * c < Cardinality(V!Correct) * c
  <2>1. PICK x \in Nat, y \in Nat : x = Cardinality(Faulty) /\ y = Cardinality(V!Correct)
    BY <1>14
  <2>2. (x + 1) * c = x * c + c /\ (x + 1) * c <= y * c /\ x * c \in Nat /\ y * c \in Nat
    BY <1>2, <1>14, <2>1, Products
  <2> QED
    BY <1>2, <2>1, <2>2
<1>16. Cardinality(Faulty) * c \in Nat /\ Cardinality(V!Correct) * c \in Nat
  BY <1>2, <1>14, Products
<1>17. SumOf(fl) < SumOf(ft)
  BY <1>10, <1>11, <1>13, <1>15, <1>16
<1> QED
  BY <1>9, <1>13, <1>17 DEF V!Wins

\* Trust stays within its bounds, and rewards and penalties keep their order.
LEMMA TrustBounds ==
    ASSUME NEW s \in 0..V!MaxScore
    PROVE  /\ V!Rewarded(s) \in 0..V!MaxScore /\ V!Penalized(s) \in 0..V!MaxScore
           /\ \A b : V!Judged(s, b) \in 0..V!MaxScore
           /\ V!Penalized(s) <= s /\ s <= V!Rewarded(s)
           /\ \A t \in 0..V!MaxScore : s <= t => V!Rewarded(s) <= V!Rewarded(t)
BY DEF V!Rewarded, V!Penalized, V!Judged, V!MaxScore

\* Votes of correct nodes are recorded as they were cast.
LEMMA VotesStep == VotesInv /\ V!NextVoting => VotesInv'
<1> SUFFICES ASSUME VotesInv, V!NextVoting PROVE VotesInv'
  OBVIOUS
<1> USE DEF VotesInv, V!VotingTypeOK
<1>1. ASSUME NEW n \in V!Correct, V!Vote(n) PROVE VotesInv'
  BY <1>1 DEF V!Vote, V!Correct
<1>2. ASSUME NEW n \in V!Correct, NEW targets \in SUBSET (V!Correct \ {n}), V!SendVotes(n, targets)
      PROVE  VotesInv'
  <2>1. votes[n][n] = Truth
    BY <1>2 DEF V!SendVotes
  <2>2. ballots' = ballots \cup [src : {n}, dst : targets, value : {Truth}]
        /\ UNCHANGED <<votes, score, resolves, hasty>>
    BY <1>2, <2>1 DEF V!SendVotes
  <2> QED
    BY <2>2
<1>3. ASSUME NEW n \in V!Correct, NEW p \in Swarm, NEW value \in {Truth, Lie}, V!Record(n, p, value),
             p \in V!Correct => value = Truth
      PROVE  VotesInv'
  BY <1>3 DEF V!Record
<1>4. ASSUME NEW n \in V!Correct, NEW p \in Faulty, NEW value \in {Truth, Lie},
             V!OnFaultyVote(n, p, value)
      PROVE  VotesInv'
  BY <1>3, <1>4, FaultyAssumption DEF V!OnFaultyVote, V!Correct
<1>5. ASSUME NEW m \in ballots, V!OnVote(m) PROVE VotesInv'
  <2>1. m.dst \in V!Correct /\ m.src \in Swarm /\ m.value = Truth
    BY DEF V!Correct
  <2> QED
    BY <1>3, <1>5, <2>1 DEF V!OnVote
<1>6. ASSUME NEW n \in V!Correct, NEW value \in {Truth, Lie}, V!Resolve(n, value) PROVE VotesInv'
  <2>1. score' = [score EXCEPT ![n] = [p \in Swarm |->
                    IF votes[n][p] = None THEN @[p] ELSE V!Judged(@[p], votes[n][p] = value)]]
    BY <1>6 DEF V!Resolve
  <2>2. score[n] \in [Swarm -> 0..V!MaxScore]
    OBVIOUS
  <2>3. \A p \in Swarm : V!Judged(score[n][p], votes[n][p] = value) \in 0..V!MaxScore
    BY <2>2, TrustBounds
  <2>4. score' \in [V!Correct -> [Swarm -> 0..V!MaxScore]]
    BY <2>1, <2>2, <2>3
  <2>5. resolves' \in 0..MaxResolves /\ hasty' \subseteq V!Correct /\ votes' = votes /\ ballots' = ballots
    BY <1>6, FaultyAssumption DEF V!Resolve
  <2> QED
    BY <2>4, <2>5
<1> QED
  BY <1>1, <1>2, <1>4, <1>5, <1>6 DEF V!NextVoting

\* A decision with all correct votes in is for the truth, and rewards all correct
\* nodes alike.
LEMMA TrustStep == HonestMajority /\ VotesInv /\ TrustInv /\ V!NextVoting => TrustInv'
<1> SUFFICES ASSUME HonestMajority, VotesInv, TrustInv, V!NextVoting PROVE TrustInv'
  OBVIOUS
<1>1. ASSUME UNCHANGED <<score, hasty>> PROVE TrustInv'
  BY <1>1 DEF TrustInv
<1>2. ASSUME NEW n \in V!Correct, NEW value \in {Truth, Lie}, V!Resolve(n, value) PROVE TrustInv'
  <2>1. /\ V!Wins(n, value)
        /\ score' = [score EXCEPT ![n] = [p \in Swarm |->
                       IF votes[n][p] = None THEN @[p] ELSE V!Judged(@[p], votes[n][p] = value)]]
        /\ hasty' = IF \A p \in V!Correct : votes[n][p] # None THEN hasty ELSE hasty \cup {n}
    BY <1>2 DEF V!Resolve
  <2>2. score \in [V!Correct -> [Swarm -> 0..V!MaxScore]]
    BY DEF VotesInv, V!VotingTypeOK
  <2>3. /\ \A k \in V!Correct \ {n} : score'[k] = score[k]
        /\ score'[n] = [p \in Swarm |-> IF votes[n][p] = None THEN score[n][p]
                                        ELSE V!Judged(score[n][p], votes[n][p] = value)]
    BY <2>1, <2>2
  <2>4. SUFFICES ASSUME NEW k \in V!Correct \ hasty'
                 PROVE  /\ \A p, q \in V!Correct : score'[k][p] = score'[k][q]
                        /\ \A p \in V!Correct : score'[k][p] >= V!Initial
                        /\ \A p \in V!Correct, f \in Faulty : score'[k][f] <= score'[k][p]
    BY DEF TrustInv
  <2>5. k \in V!Correct \ hasty
    BY <2>1
  <2>6. CASE k # n
    BY <2>3, <2>5, <2>6 DEF TrustInv
  <2>7. CASE k = n
    <3>1. \A p \in V!Correct : votes[n][p] # None
      BY <2>1, <2>7
    <3>2. value = Truth
      BY <2>1, <2>5, <2>7, <3>1, NoLieWins
    <3>3. \A p \in V!Correct : p \in Swarm /\ votes[n][p] = Truth
      BY <3>1 DEF VotesInv, V!Correct
    <3>4. \A p \in V!Correct : score'[n][p] = V!Rewarded(score[n][p])
      BY <2>3, <3>1, <3>2, <3>3 DEF V!Judged
    <3>5. \A p \in Swarm : score[n][p] \in 0..V!MaxScore
      BY <2>2
    <3>6. \A f \in Faulty : f \in Swarm /\ score'[n][f] \in {score[n][f], V!Rewarded(score[n][f]), V!Penalized(score[n][f])}
      BY <2>3, FaultyAssumption DEF V!Judged
    <3>7. ASSUME NEW p \in V!Correct
          PROVE  /\ score[n][p] \in 0..V!MaxScore /\ V!Rewarded(score[n][p]) \in 0..V!MaxScore
                 /\ score[n][p] <= V!Rewarded(score[n][p])
                 /\ score[n][p] >= V!Initial
      BY <2>5, <2>7, <3>3, <3>5, TrustBounds DEF TrustInv
    <3>8. ASSUME NEW p \in V!Correct, NEW f \in Faulty PROVE score'[n][f] <= score'[n][p]
      <4>1. score[n][f] <= score[n][p]
        BY <2>5, <2>7 DEF TrustInv
      <4>2. /\ score[n][f] \in 0..V!MaxScore /\ score[n][p] \in 0..V!MaxScore
        BY <3>5, <3>6, <3>7
      <4>3. /\ V!Penalized(score[n][f]) <= score[n][f] /\ V!Penalized(score[n][f]) \in 0..V!MaxScore
            /\ V!Rewarded(score[n][f]) <= V!Rewarded(score[n][p])
            /\ V!Rewarded(score[n][f]) \in 0..V!MaxScore
        BY <4>1, <4>2, TrustBounds
      <4>4. V!MaxScore \in Nat
        BY DEF V!MaxScore
      <4> QED
        BY <3>4, <3>6, <3>7, <4>1, <4>2, <4>3, <4>4
    <3>9. ASSUME NEW p \in V!Correct PROVE score'[n][p] >= V!Initial
      BY <3>4, <3>7 DEF V!Initial, V!MaxScore
    <3>10. \A p, q \in V!Correct : score'[n][p] = score'[n][q]
      BY <2>5, <2>7, <3>4 DEF TrustInv
    <3> QED
      BY <2>7, <3>8, <3>9, <3>10
  <2> QED
    BY <2>6, <2>7
<1> QED
  BY <1>1, <1>2 DEF V!NextVoting, V!Vote, V!SendVotes, V!OnVote, V!OnFaultyVote, V!Record

\* Nobody has voted, and all are trusted alike.
LEMMA VotingInit == V!InitVoting => VotesInv /\ TrustInv
BY FaultyAssumption DEF V!InitVoting, VotesInv, TrustInv, V!VotingTypeOK, V!Correct, V!Initial, V!MaxScore

-----------------------------------------------------------------------------
(* The replicator: operations and their past *)

\* A nonempty set of natural numbers has a smallest and, if it is bounded, a
\* greatest member.
LEMMA SmallestNat ==
    ASSUME NEW S \in SUBSET Nat, S # {}
    PROVE  \E x \in S : \A y \in S : x <= y
<1> DEFINE R == OpToRel(<, Nat)
<1>1. IsWellFoundedOn(R, Nat)
  BY NatLessThanWellFounded
<1>2. \A x, y \in Nat : <<y, x>> \in R <=> y < x
  BY DEF OpToRel
<1> HIDE DEF R
<1>3. PICK x \in S : \A y \in S : ~(<<y, x>> \in R)
  BY <1>1, WFMin
<1>4. ASSUME NEW y \in S PROVE x <= y
  <2>1. x \in Nat /\ y \in Nat
    OBVIOUS
  <2>2. ~(y < x)
    BY <1>2, <1>3, <2>1
  <2> QED
    BY <2>1, <2>2
<1> QED
  BY <1>4

\* The greatest of the numbers up to b that are in S.
LEMMA GreatestNat ==
    ASSUME NEW b \in Nat, NEW S \in SUBSET (0..b), S # {}
    PROVE  \E x \in S : \A y \in S : y <= x
<1> DEFINE T == {b - x : x \in S}
<1>1. T \in SUBSET Nat /\ T # {}
  <2>1. \A x \in S : b - x \in Nat
    OBVIOUS
  <2>2. PICK s \in S : TRUE
    OBVIOUS
  <2>3. b - s \in T
    OBVIOUS
  <2> QED
    BY <2>1, <2>3
<1>2. PICK z \in T : \A y \in T : z <= y
  BY <1>1, SmallestNat
<1>3. PICK x \in S : z = b - x
  OBVIOUS
<1>4. ASSUME NEW y \in S PROVE y <= x
  <2>1. b - y \in T
    OBVIOUS
  <2>2. b - x <= b - y
    BY <1>2, <1>3, <2>1
  <2> QED
    BY <2>2
<1> QED
  BY <1>4

IsSeq(h) == \E S : h \in Seq(S)

\* What Append does.
LEMMA AppendFacts ==
    ASSUME NEW h, IsSeq(h), NEW e
    PROVE  /\ IsSeq(Append(h, e)) /\ Len(h) \in Nat
           /\ DOMAIN h = 1..Len(h) /\ DOMAIN Append(h, e) = 1..(Len(h) + 1)
           /\ \A i \in DOMAIN h : Append(h, e)[i] = h[i]
           /\ Append(h, e)[Len(h) + 1] = e /\ Len(Append(h, e)) = Len(h) + 1
<1>1. PICK S : h \in Seq(S)
  BY DEF IsSeq
<1>2. h \in Seq(S \cup {e}) /\ e \in S \cup {e}
  BY <1>1
<1> QED
  BY <1>2 DEF IsSeq

\* A history of operations: each was done by a node that had seen its past, which
\* is closed and has all earlier operations of that node.
HistoryOK(h) ==
    /\ IsSeq(h)
    /\ \A i \in DOMAIN h :
          /\ h[i].node \in Nodes
          /\ h[i].past \subseteq 1..(i - 1)
          /\ \A j \in h[i].past : h[j].past \subseteq h[i].past
          /\ \A j \in 1..(i - 1) : h[j].node = h[i].node => j \in h[i].past

\* A set of operations that replicas can have seen: with each its past.
Closed(h, O) == O \subseteq DOMAIN h /\ \A i \in O : h[i].past \subseteq O

\* The history g goes on from h.
GoesOn(h, g) == DOMAIN h \subseteq DOMAIN g /\ \A i \in DOMAIN h : g[i] = h[i]

\* Sets of operations stay closed.
LEMMA ClosedGoesOn ==
    ASSUME NEW h, NEW g, GoesOn(h, g), NEW O, Closed(h, O)
    PROVE  Closed(g, O)
BY DEF GoesOn, Closed

\* What one replica has seen and what another has are closed together.
LEMMA ClosedUnion ==
    ASSUME NEW h, NEW A, NEW B, Closed(h, A), Closed(h, B)
    PROVE  Closed(h, A \cup B)
BY DEF Closed

\* Closed sets are finite sets of numbers.
LEMMA ClosedFinite ==
    ASSUME NEW h, HistoryOK(h), NEW O, O \subseteq DOMAIN h
    PROVE  /\ Len(h) \in Nat /\ DOMAIN h = 1..Len(h) /\ IsFiniteSet(DOMAIN h)
           /\ O \subseteq Nat /\ O \subseteq 1..Len(h) /\ IsFiniteSet(O) /\ Cardinality(O) \in Nat
<1>1. Len(h) \in Nat /\ DOMAIN h = 1..Len(h)
  BY AppendFacts DEF HistoryOK
<1>2. IsFiniteSet(1..Len(h))
  BY <1>1, FS_Interval
<1>3. IsFiniteSet(O)
  BY <1>1, <1>2, FS_Subset
<1> QED
  BY <1>1, <1>2, <1>3, FS_CardinalityType

\* A node that has seen O, with all its own operations, does another one.
LEMMA HistoryGrows ==
    ASSUME NEW h, HistoryOK(h), NEW O, Closed(h, O), NEW e, e.node \in Nodes, e.past = O,
           \A i \in DOMAIN h : h[i].node = e.node => i \in O
    PROVE  /\ HistoryOK(Append(h, e)) /\ GoesOn(h, Append(h, e))
           /\ Closed(Append(h, e), O \cup {Len(h) + 1})
<1> DEFINE g == Append(h, e)
           k == Len(h) + 1
<1>1. /\ IsSeq(g) /\ Len(h) \in Nat /\ DOMAIN h = 1..Len(h) /\ DOMAIN g = 1..k
      /\ \A i \in DOMAIN h : g[i] = h[i]
      /\ g[k] = e
  BY AppendFacts DEF HistoryOK
<1> HIDE DEF g
<1>2. GoesOn(h, g)
  BY <1>1 DEF GoesOn
<1>3. ASSUME NEW i \in DOMAIN h
      PROVE  /\ g[i].node \in Nodes
             /\ g[i].past \subseteq 1..(i - 1)
             /\ \A j \in g[i].past : g[j].past \subseteq g[i].past
             /\ \A j \in 1..(i - 1) : g[j].node = g[i].node => j \in g[i].past
  <2>1. g[i] = h[i] /\ 1..(i - 1) \subseteq DOMAIN h
    BY <1>1
  <2>2. /\ h[i].node \in Nodes
        /\ h[i].past \subseteq 1..(i - 1)
        /\ \A j \in h[i].past : h[j].past \subseteq h[i].past
        /\ \A j \in 1..(i - 1) : h[j].node = h[i].node => j \in h[i].past
    BY DEF HistoryOK
  <2>3. \A j \in 1..(i - 1) : g[j] = h[j]
    BY <1>1, <2>1
  <2> QED
    BY <2>1, <2>2, <2>3
<1>4. /\ g[k].node \in Nodes
      /\ g[k].past \subseteq 1..(k - 1)
      /\ \A j \in g[k].past : g[j].past \subseteq g[k].past
      /\ \A j \in 1..(k - 1) : g[j].node = g[k].node => j \in g[k].past
  <2>1. k - 1 = Len(h)
    BY <1>1
  <2> QED
    BY <1>1, <2>1 DEF Closed
<1>5. HistoryOK(g)
  <2>1. \A i \in DOMAIN g : i \in DOMAIN h \/ i = k
    BY <1>1
  <2> QED
    BY <1>1, <1>3, <1>4, <2>1 DEF HistoryOK
<1>6. Closed(g, O \cup {k})
  <2>1. k \in DOMAIN g /\ O \subseteq DOMAIN g
    BY <1>1 DEF Closed
  <2>2. \A i \in O : g[i].past \subseteq O
    BY <1>1 DEF Closed
  <2> QED
    BY <1>1, <2>1, <2>2 DEF Closed
<1> QED
  BY <1>2, <1>5, <1>6 DEF g

-----------------------------------------------------------------------------
(* Counters and clocks *)

\* The operations op of node m among O, and how many each node has done.
Of(h, O, m, op) == {i \in O : h[i].node = m /\ h[i].op = op}

Counts(h, O, op) == [m \in Nodes |-> Cardinality(Of(h, O, m, op))]

\* How many there are, counts them all.
LEMMA OfFacts ==
    ASSUME NEW h, HistoryOK(h), NEW O, O \subseteq DOMAIN h, NEW m, NEW op
    PROVE  /\ Of(h, O, m, op) \subseteq O /\ IsFiniteSet(Of(h, O, m, op))
           /\ Cardinality(Of(h, O, m, op)) \in Nat
<1>1. Of(h, O, m, op) \subseteq DOMAIN h /\ Of(h, O, m, op) \subseteq O
  BY DEF Of
<1> QED
  BY <1>1, ClosedFinite

\* A count for every node.
LEMMA CountsType ==
    ASSUME NEW h, HistoryOK(h), NEW O, O \subseteq DOMAIN h, NEW op
    PROVE  Counts(h, O, op) \in [Nodes -> Nat]
BY OfFacts DEF Counts

\* Of the operations of one node two closed sets have one those of the other.
LEMMA OwnOrder ==
    ASSUME NEW h, HistoryOK(h), NEW A, NEW B, Closed(h, A), Closed(h, B), NEW m, NEW op
    PROVE  \/ Of(h, A, m, op) \subseteq Of(h, B, m, op)
           \/ Of(h, B, m, op) \subseteq Of(h, A, m, op)
<1> SUFFICES ASSUME NEW i \in Of(h, A, m, op) \ Of(h, B, m, op),
                    NEW j \in Of(h, B, m, op) \ Of(h, A, m, op)
             PROVE  FALSE
  OBVIOUS
<1>1. /\ i \in A /\ i \notin B /\ h[i].node = m /\ j \in B /\ j \notin A /\ h[j].node = m
      /\ i \in DOMAIN h /\ j \in DOMAIN h
  BY DEF Of, Closed
<1>2. i \in Nat /\ j \in Nat /\ i > 0 /\ j > 0 /\ i # j
  BY <1>1, ClosedFinite
<1>3. CASE i < j
  <2>1. i \in 1..(j - 1)
    BY <1>2, <1>3
  <2>2. i \in h[j].past
    BY <1>1, <2>1 DEF HistoryOK
  <2> QED
    BY <1>1, <2>2 DEF Closed
<1>4. CASE j < i
  <2>1. j \in 1..(i - 1)
    BY <1>2, <1>4
  <2>2. j \in h[i].past
    BY <1>1, <2>1 DEF HistoryOK
  <2> QED
    BY <1>1, <2>2 DEF Closed
<1> QED
  BY <1>2, <1>3, <1>4

\* merge of two counters counts what either has seen.
LEMMA CountsJoin ==
    ASSUME NEW h, HistoryOK(h), NEW A, NEW B, Closed(h, A), Closed(h, B), NEW op
    PROVE  JoinCounts(Counts(h, A, op), Counts(h, B, op)) = Counts(h, A \cup B, op)
<1>1. ASSUME NEW m \in Nodes
      PROVE  Cardinality(Of(h, A \cup B, m, op)) =
                IF Cardinality(Of(h, B, m, op)) > Cardinality(Of(h, A, m, op))
                THEN Cardinality(Of(h, B, m, op)) ELSE Cardinality(Of(h, A, m, op))
  <2>1. Of(h, A \cup B, m, op) = Of(h, A, m, op) \cup Of(h, B, m, op)
    BY DEF Of
  <2>2. /\ IsFiniteSet(Of(h, A, m, op)) /\ IsFiniteSet(Of(h, B, m, op))
        /\ Cardinality(Of(h, A, m, op)) \in Nat /\ Cardinality(Of(h, B, m, op)) \in Nat
    BY OfFacts DEF Closed
  <2>3. CASE Of(h, A, m, op) \subseteq Of(h, B, m, op)
    <3>1. Of(h, A \cup B, m, op) = Of(h, B, m, op)
      BY <2>1, <2>3
    <3>2. /\ Cardinality(Of(h, A, m, op)) <= Cardinality(Of(h, B, m, op))
          /\ Cardinality(Of(h, A, m, op)) = Cardinality(Of(h, B, m, op)) =>
                Of(h, A, m, op) = Of(h, B, m, op)
      BY <2>2, <2>3, FS_Subset
    <3> QED
      BY <2>2, <3>1, <3>2
  <2>4. CASE Of(h, B, m, op) \subseteq Of(h, A, m, op)
    <3>1. Of(h, A \cup B, m, op) = Of(h, A, m, op)
      BY <2>1, <2>4
    <3>2. Cardinality(Of(h, B, m, op)) <= Cardinality(Of(h, A, m, op))
      BY <2>2, <2>4, FS_Subset
    <3> QED
      BY <2>2, <3>1, <3>2
  <2> QED
    BY <2>3, <2>4, OwnOrder
<1> QED
  BY <1>1 DEF Counts, JoinCounts

\* Counts do not change when the history goes on.
LEMMA CountsGoOn ==
    ASSUME NEW h, NEW g, GoesOn(h, g), NEW O, O \subseteq DOMAIN h, NEW op
    PROVE  /\ Counts(g, O, op) = Counts(h, O, op)
           /\ \A m : Of(g, O, m, op) = Of(h, O, m, op)
<1>1. \A m : Of(g, O, m, op) = Of(h, O, m, op)
  BY DEF Of, GoesOn
<1> QED
  BY <1>1 DEF Counts

\* One more operation counts for its node, and not for other operations.
LEMMA CountsOneMore ==
    ASSUME NEW g, HistoryOK(g), NEW O, O \subseteq DOMAIN g, NEW k \in DOMAIN g, k \notin O, NEW op
    PROVE  /\ g[k].op = op => Counts(g, O \cup {k}, op) = Increment(Counts(g, O, op), g[k].node, 1)
           /\ g[k].op # op => Counts(g, O \cup {k}, op) = Counts(g, O, op)
<1>1. ASSUME NEW m \in Nodes, g[k].op = op, m = g[k].node
      PROVE  Cardinality(Of(g, O \cup {k}, m, op)) = Cardinality(Of(g, O, m, op)) + 1
  <2>1. Of(g, O \cup {k}, m, op) = Of(g, O, m, op) \cup {k} /\ k \notin Of(g, O, m, op)
    BY <1>1 DEF Of
  <2>2. IsFiniteSet(Of(g, O, m, op))
    BY OfFacts
  <2> QED
    BY <2>1, <2>2, FS_AddElement
<1>2. ASSUME NEW m \in Nodes, g[k].op # op \/ m # g[k].node
      PROVE  Of(g, O \cup {k}, m, op) = Of(g, O, m, op)
  BY <1>2 DEF Of
<1>3. CASE g[k].op = op
  BY <1>1, <1>2, <1>3 DEF Counts, Increment
<1>4. CASE g[k].op # op
  BY <1>2, <1>4 DEF Counts
<1> QED
  BY <1>3, <1>4

\* The operations op among O.
AllOf(h, O, op) == {i \in O : h[i].op = op}

\* What the counts of all nodes add up to: shown for sets of operations one
\* larger than the other.
LEMMA CountsTotal ==
    ASSUME NEW h, HistoryOK(h), NEW O, O \subseteq DOMAIN h, NEW op
    PROVE  SumOf(Counts(h, O, op)) = Cardinality(AllOf(h, O, op))
<1> DEFINE Good(Q) == SumOf(Counts(h, Q, op)) = Cardinality(AllOf(h, Q, op))
           Bad == {Q \in SUBSET O : ~Good(Q)}
           K == {Cardinality(Q) : Q \in Bad}
<1>0. \A Q \in SUBSET O : /\ Q \subseteq DOMAIN h /\ IsFiniteSet(Q) /\ Cardinality(Q) \in Nat
                          /\ Counts(h, Q, op) \in [Nodes -> Nat]
  BY ClosedFinite, CountsType
<1>1. Good({})
  <2>1. \A m : Of(h, {}, m, op) = {}
    BY DEF Of
  <2>2. Counts(h, {}, op) \in [Nodes -> {0}]
    BY <2>1, FS_EmptySet DEF Counts
  <2>3. AllOf(h, {}, op) = {}
    BY DEF AllOf
  <2> QED
    BY <2>2, <2>3, SumZero, FS_EmptySet
<1>2. ASSUME NEW Q \in SUBSET O, NEW k \in Q, Good(Q \ {k}) PROVE Good(Q)
  <2> DEFINE R == Q \ {k}
  <2>1. R \subseteq DOMAIN h /\ k \in DOMAIN h /\ k \notin R /\ Q = R \cup {k} /\ IsFiniteSet(R)
    BY <1>0
  <2>2. AllOf(h, R, op) \subseteq R /\ IsFiniteSet(AllOf(h, R, op))
    BY <2>1, FS_Subset DEF AllOf
  <2> HIDE DEF R
  <2>3. CASE h[k].op = op
    <3>1. Counts(h, Q, op) = Increment(Counts(h, R, op), h[k].node, 1)
      BY <2>1, <2>3, CountsOneMore
    <3>2. h[k].node \in Nodes
      BY <2>1 DEF HistoryOK
    <3>3. PICK f \in [Nodes -> Nat] : f = Counts(h, R, op)
      BY <2>1, CountsType
    <3>4. PICK g \in [Nodes -> Nat] : g = Counts(h, Q, op)
      BY <1>0
    <3>5. PICK x \in Nodes : x = h[k].node
      BY <3>2
    <3>6. g[x] = f[x] + 1 /\ \A y \in Nodes \ {x} : g[y] = f[y]
      BY <3>1, <3>3, <3>4, <3>5 DEF Increment
    <3>7. SumOf(g) + f[x] = SumOf(f) + g[x]
      <4>1. \A y \in Nodes \ {x} : g[y] = f[y]
        BY <3>6
      <4>2. IsFiniteSet(Nodes)
        BY NodesAssumption
      <4> QED
        BY <4>1, <4>2, SumChange
    <3>8. SumOf(f) \in Nat /\ SumOf(g) \in Nat /\ f[x] \in Nat
      BY NodesAssumption, UnitsFinite
    <3>9. SumOf(g) = SumOf(f) + 1
      BY <3>6, <3>7, <3>8
    <3>10. AllOf(h, Q, op) = AllOf(h, R, op) \cup {k} /\ k \notin AllOf(h, R, op)
      BY <2>1, <2>3 DEF AllOf
    <3>11. Cardinality(AllOf(h, Q, op)) = Cardinality(AllOf(h, R, op)) + 1
      BY <2>2, <3>10, FS_AddElement
    <3> QED
      BY <1>2, <3>3, <3>4, <3>9, <3>11 DEF R
  <2>4. CASE h[k].op # op
    <3>1. Counts(h, Q, op) = Counts(h, R, op)
      BY <2>1, <2>4, CountsOneMore
    <3>2. AllOf(h, Q, op) = AllOf(h, R, op)
      BY <2>1, <2>4 DEF AllOf
    <3> QED
      BY <1>2, <3>1, <3>2 DEF R
  <2> QED
    BY <2>3, <2>4
<1>3. ASSUME Bad # {} PROVE FALSE
  <2>1. K \in SUBSET Nat /\ K # {}
    <3>1. PICK Q \in Bad : TRUE
      BY <1>3
    <3>2. Cardinality(Q) \in K
      BY <3>1
    <3> HIDE DEF Good
    <3> QED
      BY <1>0, <3>2
  <2>2. PICK x \in K : \A y \in K : x <= y
    <3> HIDE DEF K
    <3> QED
      BY <2>1, SmallestNat
  <2>3. PICK Q \in Bad : x = Cardinality(Q)
    OBVIOUS
  <2> HIDE DEF Good
  <2>4. Q \in SUBSET O /\ ~Good(Q)
    OBVIOUS
  <2>5. Q # {}
    BY <1>1, <2>4
  <2>6. PICK k \in Q : TRUE
    BY <2>5
  <2>7. Q \ {k} \in SUBSET O /\ Cardinality(Q \ {k}) = Cardinality(Q) - 1 /\ Cardinality(Q) \in Nat
    BY <1>0, <2>4, <2>6, FS_RemoveElement
  <2>8. ~Good(Q \ {k})
    BY <1>2, <2>4, <2>6
  <2>9. Cardinality(Q \ {k}) \in K
    BY <2>7, <2>8
  <2>10. Cardinality(Q) <= Cardinality(Q \ {k})
    BY <2>2, <2>3, <2>9
  <2> QED
    BY <2>7, <2>10
<1>4. Good(O)
  <2> HIDE DEF Good
  <2> QED
    BY <1>3
<1> QED
  BY <1>4

-----------------------------------------------------------------------------
(* Sets *)

\* The tag of an add: its node, and the how many-th add of that node it is.
Tag(h, i) == <<h[i].node, Cardinality(Of(h, 1..i, h[i].node, "add"))>>

\* What an ORSet holds after O: every add with its tag, and the tags of the adds
\* that a remove of their element had observed.
Tagged(h, O) == {<<h[i].arg, Tag(h, i)>> : i \in AllOf(h, O, "add")}

Removed(h, O, i) == \E k \in O : h[k].op = "remove" /\ h[k].arg = h[i].arg /\ i \in h[k].past

Gone(h, O) == {Tag(h, i) : i \in {j \in AllOf(h, O, "add") : Removed(h, O, j)}}

\* The tags of the adds of e among A.
TagsOf(A, e) == {a[2] : a \in {b \in A : b[1] = e}}

\* Tags are unique.
LEMMA TagsDiffer ==
    ASSUME NEW h, HistoryOK(h), NEW i \in DOMAIN h, NEW j \in DOMAIN h, h[i].op = "add", h[j].op = "add",
           Tag(h, i) = Tag(h, j)
    PROVE  i = j
<1>1. h[i].node = h[j].node
  BY DEF Tag
<1>2. /\ i \in Nat /\ j \in Nat /\ i > 0 /\ j > 0 /\ 1..i \subseteq DOMAIN h /\ 1..j \subseteq DOMAIN h
  <2>1. Len(h) \in Nat /\ DOMAIN h = 1..Len(h)
    BY ClosedFinite
  <2> QED
    BY <2>1
<1>3. ASSUME NEW x \in DOMAIN h, NEW y \in DOMAIN h, x < y, h[x].node = h[y].node, h[y].op = "add",
             1..x \subseteq DOMAIN h, 1..y \subseteq DOMAIN h, x \in Nat, y \in Nat, y > 0
      PROVE  Cardinality(Of(h, 1..x, h[x].node, "add")) # Cardinality(Of(h, 1..y, h[y].node, "add"))
  <2> DEFINE X == Of(h, 1..x, h[x].node, "add")
             Y == Of(h, 1..y, h[y].node, "add")
  <2>1. IsFiniteSet(Y)
    BY <1>3, OfFacts
  <2>2. X \subseteq Y /\ y \in Y /\ y \notin X
    BY <1>3 DEF Of
  <2> HIDE DEF X, Y
  <2>3. Cardinality(X) = Cardinality(Y) => X = Y
    BY <2>1, <2>2, FS_Subset
  <2>4. Cardinality(X) # Cardinality(Y)
    BY <2>2, <2>3
  <2> QED
    BY <2>4 DEF X, Y
<1>4. Cardinality(Of(h, 1..i, h[i].node, "add")) = Cardinality(Of(h, 1..j, h[j].node, "add"))
  BY DEF Tag
<1>5. ~(i < j)
  BY <1>1, <1>2, <1>3, <1>4
<1>6. ~(j < i)
  BY <1>1, <1>2, <1>3, <1>4
<1> QED
  BY <1>2, <1>5, <1>6

\* Tags, adds and removes do not change when the history goes on.
LEMMA TagsGoOn ==
    ASSUME NEW h, HistoryOK(h), NEW g, GoesOn(h, g), NEW O, Closed(h, O)
    PROVE  /\ \A i \in DOMAIN h : Tag(g, i) = Tag(h, i)
           /\ Tagged(g, O) = Tagged(h, O) /\ Gone(g, O) = Gone(h, O)
<1>1. ASSUME NEW i \in DOMAIN h PROVE Tag(g, i) = Tag(h, i)
  <2>1. 1..i \subseteq DOMAIN h
    <3>1. Len(h) \in Nat /\ DOMAIN h = 1..Len(h)
      BY ClosedFinite
    <3> QED
      BY <3>1
  <2>2. g[i] = h[i]
    BY DEF GoesOn
  <2>3. Of(g, 1..i, h[i].node, "add") = Of(h, 1..i, h[i].node, "add")
    <3>1. \A j \in 1..i : g[j] = h[j]
      BY <2>1 DEF GoesOn
    <3> QED
      BY <3>1 DEF Of
  <2> QED
    BY <2>2, <2>3 DEF Tag
<1>2. O \subseteq DOMAIN h /\ \A i \in O : g[i] = h[i]
  BY DEF Closed, GoesOn
<1>3. AllOf(g, O, "add") = AllOf(h, O, "add") /\ AllOf(h, O, "add") \subseteq O
  BY <1>2 DEF AllOf
<1>4. \A i \in O : Removed(g, O, i) = Removed(h, O, i)
  BY <1>2 DEF Removed
<1>5. Tagged(g, O) = Tagged(h, O)
  BY <1>1, <1>2, <1>3 DEF Tagged
<1>6. Gone(g, O) = Gone(h, O)
  BY <1>1, <1>2, <1>3, <1>4 DEF Gone
<1> QED
  BY <1>1, <1>5, <1>6

\* merge of two ORSets holds what either has seen.
LEMMA TagsJoin ==
    ASSUME NEW h, NEW A, NEW B, Closed(h, A), Closed(h, B)
    PROVE  /\ \A t : t \in Tagged(h, A \cup B) <=> t \in Tagged(h, A) \/ t \in Tagged(h, B)
           /\ \A t : t \in Gone(h, A \cup B) <=> t \in Gone(h, A) \/ t \in Gone(h, B)
<1>1. AllOf(h, A \cup B, "add") = AllOf(h, A, "add") \cup AllOf(h, B, "add")
  BY DEF AllOf
<1>2. Tagged(h, A \cup B) = Tagged(h, A) \cup Tagged(h, B)
  BY <1>1 DEF Tagged
<1>3. \A i : Removed(h, A \cup B, i) <=> Removed(h, A, i) \/ Removed(h, B, i)
  BY DEF Removed
<1>4. /\ \A i : Removed(h, A, i) => i \in A
      /\ \A i : Removed(h, B, i) => i \in B
  BY DEF Removed, Closed
<1>5. ASSUME NEW i
      PROVE  (i \in AllOf(h, A \cup B, "add") /\ Removed(h, A \cup B, i)) <=>
             \/ i \in AllOf(h, A, "add") /\ Removed(h, A, i)
             \/ i \in AllOf(h, B, "add") /\ Removed(h, B, i)
  BY <1>3, <1>4 DEF AllOf
<1>6. Gone(h, A \cup B) = Gone(h, A) \cup Gone(h, B)
  BY <1>5 DEF Gone
<1> QED
  BY <1>2, <1>6

\* Two closed sets of which one is {k} more, where nobody has seen k yet.
LEMMA TagsOneMore ==
    ASSUME NEW g, HistoryOK(g), NEW O, Closed(g, O), NEW k \in DOMAIN g, k \notin O, g[k].past = O,
           \A i \in O : i < k
    PROVE  /\ g[k].op = "add" =>
                /\ \A t : t \in Tagged(g, O \cup {k}) <=> t \in Tagged(g, O) \/ t = <<g[k].arg, Tag(g, k)>>
                /\ \A t : t \in Gone(g, O \cup {k}) <=> t \in Gone(g, O)
           /\ g[k].op = "remove" =>
                /\ \A t : t \in Tagged(g, O \cup {k}) <=> t \in Tagged(g, O)
                /\ \A t : t \in Gone(g, O \cup {k}) <=>
                      t \in Gone(g, O) \/ t \in TagsOf(Tagged(g, O), g[k].arg)
<1>1. \A i \in O : k \notin g[i].past
  BY DEF Closed
<1>2. CASE g[k].op = "add"
  <2>1. AllOf(g, O \cup {k}, "add") = AllOf(g, O, "add") \cup {k} /\ AllOf(g, O, "add") \subseteq O
    BY <1>2 DEF AllOf
  <2>2. Tagged(g, O \cup {k}) = Tagged(g, O) \cup {<<g[k].arg, Tag(g, k)>>}
    BY <2>1 DEF Tagged
  <2>3. \A i \in O : Removed(g, O \cup {k}, i) <=> Removed(g, O, i)
    BY <1>2 DEF Removed
  <2>4. ~Removed(g, O \cup {k}, k)
    BY <1>1, <1>2 DEF Removed
  <2>5. {j \in AllOf(g, O \cup {k}, "add") : Removed(g, O \cup {k}, j)}
        = {j \in AllOf(g, O, "add") : Removed(g, O, j)}
    BY <2>1, <2>3, <2>4
  <2>6. Gone(g, O \cup {k}) = Gone(g, O)
    BY <2>5 DEF Gone
  <2> QED
    BY <1>2, <2>2, <2>6
<1>3. CASE g[k].op = "remove"
  <2>1. AllOf(g, O \cup {k}, "add") = AllOf(g, O, "add") /\ AllOf(g, O, "add") \subseteq O
    BY <1>3 DEF AllOf
  <2>2. Tagged(g, O \cup {k}) = Tagged(g, O)
    BY <2>1 DEF Tagged
  <2>3. \A i \in O : Removed(g, O \cup {k}, i) <=> Removed(g, O, i) \/ g[i].arg = g[k].arg
    BY <1>3 DEF Removed
  <2>4. Gone(g, O \cup {k}) = Gone(g, O) \cup {Tag(g, i) : i \in {j \in AllOf(g, O, "add") : g[j].arg = g[k].arg}}
    BY <2>1, <2>3 DEF Gone
  <2>5. {Tag(g, i) : i \in {j \in AllOf(g, O, "add") : g[j].arg = g[k].arg}}
        = {a[2] : a \in {b \in Tagged(g, O) : b[1] = g[k].arg}}
    <3>1. ASSUME NEW i \in AllOf(g, O, "add"), g[i].arg = g[k].arg
          PROVE  Tag(g, i) \in {a[2] : a \in {b \in Tagged(g, O) : b[1] = g[k].arg}}
      <4> DEFINE c == <<g[i].arg, Tag(g, i)>>
      <4>1. c \in Tagged(g, O) /\ c[1] = g[k].arg /\ c[2] = Tag(g, i)
        BY <3>1 DEF Tagged
      <4> HIDE DEF c
      <4> QED
        BY <4>1
    <3>2. ASSUME NEW b \in Tagged(g, O), b[1] = g[k].arg
          PROVE  b[2] \in {Tag(g, i) : i \in {j \in AllOf(g, O, "add") : g[j].arg = g[k].arg}}
      <4>1. PICK i \in AllOf(g, O, "add") : b = <<g[i].arg, Tag(g, i)>>
        BY DEF Tagged
      <4>2. b[1] = g[i].arg /\ b[2] = Tag(g, i)
        BY <4>1
      <4> QED
        BY <3>2, <4>2
    <3> QED
      BY <3>1, <3>2
  <2> QED
    BY <1>3, <2>2, <2>4, <2>5 DEF TagsOf
<1> QED
  BY <1>2, <1>3

\* elements: what the tags that are left stand for.
LEMMA SetReads ==
    ASSUME NEW h, HistoryOK(h), NEW O, Closed(h, O), NEW s, s.adds = Tagged(h, O), s.removed = Gone(h, O),
           \A i \in O : h[i].op = "add" => h[i].arg \in Elements
    PROVE  Contents(s) =
             {e \in Elements : \E i \in O : (h[i].op = "add" /\ h[i].arg = e)
                                            /\ \A j \in O : (h[j].op = "remove" /\ h[j].arg = e) => i \notin h[j].past}
<1> DEFINE Left == {e \in Elements : \E i \in O : (h[i].op = "add" /\ h[i].arg = e)
                                            /\ \A j \in O : (h[j].op = "remove" /\ h[j].arg = e) => i \notin h[j].past}
<1>1. ASSUME NEW i \in AllOf(h, O, "add")
      PROVE  Tag(h, i) \in Gone(h, O) <=> Removed(h, O, i)
  <2>1. ASSUME Tag(h, i) \in Gone(h, O) PROVE Removed(h, O, i)
    <3>1. PICK j \in AllOf(h, O, "add") : Removed(h, O, j) /\ Tag(h, i) = Tag(h, j)
      BY <2>1 DEF Gone
    <3>2. /\ i \in DOMAIN h /\ j \in DOMAIN h /\ h[i].op = "add" /\ h[j].op = "add"
      BY DEF AllOf, Closed
    <3>3. i = j
      BY <3>1, <3>2, TagsDiffer
    <3> QED
      BY <3>1, <3>3
  <2> QED
    BY <2>1 DEF Gone
<1>2. ASSUME NEW e \in Contents(s) PROVE e \in Left
  <2>1. PICK b \in Tagged(h, O) : b[2] \notin Gone(h, O) /\ e = b[1]
    BY <1>2 DEF Contents
  <2>2. PICK i \in AllOf(h, O, "add") : b = <<h[i].arg, Tag(h, i)>>
    BY DEF Tagged
  <2>3. e = h[i].arg /\ Tag(h, i) \notin Gone(h, O)
    BY <2>1, <2>2
  <2>4. ~Removed(h, O, i)
    BY <1>1, <2>3
  <2>5. i \in O /\ h[i].op = "add"
    BY DEF AllOf
  <2> QED
    BY <2>3, <2>4, <2>5 DEF Removed
<1>3. ASSUME NEW e \in Left PROVE e \in Contents(s)
  <2>1. PICK i \in O : (h[i].op = "add" /\ h[i].arg = e)
                       /\ \A j \in O : (h[j].op = "remove" /\ h[j].arg = e) => i \notin h[j].past
    BY <1>3
  <2>2. ~Removed(h, O, i) /\ i \in AllOf(h, O, "add")
    BY <2>1 DEF Removed, AllOf
  <2>3. Tag(h, i) \notin Gone(h, O)
    BY <1>1, <2>2
  <2> DEFINE b == <<h[i].arg, Tag(h, i)>>
  <2>4. b \in Tagged(h, O) /\ b[1] = e /\ b[2] = Tag(h, i)
    BY <2>1, <2>2 DEF Tagged
  <2> HIDE DEF b
  <2> QED
    BY <2>3, <2>4 DEF Contents
<1> QED
  BY <1>2, <1>3

-----------------------------------------------------------------------------
(* Maps: the entry is the newest one *)

\* Entries are stamped by the nodes that write them, which use no stamp twice.
StampsOK(h) ==
    /\ IsSeq(h)
    /\ \A i \in DOMAIN h : h[i].arg \in MapEntry /\ h[i].arg.origin = h[i].node
    /\ \A i, j \in DOMAIN h : h[i].node = h[j].node /\ i # j => h[i].arg.ts # h[j].arg.ts

\* i is the newest of O, by the order of NewerThan.
Newest(h, O, i) == i \in O /\ \A j \in O \ {i} : NewerThan(h[i].arg, h[j].arg)

NewestEntry(h, O, entry) ==
    /\ O = {} => entry = None
    /\ O # {} => \E i \in O : Newest(h, O, i) /\ entry = h[i].arg

\* NewerThan orders entries.
LEMMA NewerOrder ==
    ASSUME NEW e \in MapEntry, NEW f \in MapEntry, NEW d \in MapEntry
    PROVE  /\ ~(NewerThan(e, f) /\ NewerThan(f, e))
           /\ NewerThan(e, f) /\ NewerThan(f, d) => NewerThan(e, d)
           /\ NewerThan(e, f) \/ NewerThan(f, e) \/ (e.ts = f.ts /\ e.origin = f.origin)
<1>1. /\ e.ts \in Nat /\ f.ts \in Nat /\ d.ts \in Nat
      /\ e.origin \in Nat /\ f.origin \in Nat /\ d.origin \in Nat
  BY NodesAssumption DEF MapEntry
<1> QED
  BY <1>1 DEF NewerThan

\* Two writes never have the same stamp and origin.
LEMMA StampsDiffer ==
    ASSUME NEW h, StampsOK(h), NEW i \in DOMAIN h, NEW j \in DOMAIN h, i # j
    PROVE  NewerThan(h[i].arg, h[j].arg) \/ NewerThan(h[j].arg, h[i].arg)
<1>1. /\ h[i].arg \in MapEntry /\ h[j].arg \in MapEntry
      /\ h[i].arg.origin = h[i].node /\ h[j].arg.origin = h[j].node
  BY DEF StampsOK
<1>2. h[i].node = h[j].node => h[i].arg.ts # h[j].arg.ts
  BY DEF StampsOK
<1> QED
  BY <1>1, <1>2, NewerOrder

\* merge keeps the newer of two entries.
LEMMA NewestJoin ==
    ASSUME NEW h, StampsOK(h), NEW A, NEW B, A \subseteq DOMAIN h, B \subseteq DOMAIN h,
           NEW s, NEW d, NewestEntry(h, A, s.entry), NewestEntry(h, B, d.entry), None \notin MapEntry
    PROVE  NewestEntry(h, A \cup B, JoinMaps(s, d).entry)
<1>0. \A i \in DOMAIN h : h[i].arg \in MapEntry
  BY DEF StampsOK
<1>1. CASE B = {}
  <2>1. d.entry = None /\ A \cup B = A
    BY <1>1 DEF NewestEntry
  <2> QED
    BY <2>1 DEF JoinMaps
<1>2. CASE B # {} /\ A = {}
  <2>1. s.entry = None /\ A \cup B = B
    BY <1>2 DEF NewestEntry
  <2>2. d.entry # None
    BY <1>0, <1>2 DEF NewestEntry
  <2> QED
    BY <2>1, <2>2 DEF JoinMaps
<1>3. CASE B # {} /\ A # {}
  <2>1. PICK i \in A : Newest(h, A, i) /\ s.entry = h[i].arg
    BY <1>3 DEF NewestEntry
  <2>2. PICK j \in B : Newest(h, B, j) /\ d.entry = h[j].arg
    BY <1>3 DEF NewestEntry
  <2>3. i \in DOMAIN h /\ j \in DOMAIN h /\ s.entry # None /\ d.entry # None /\ A \cup B # {}
    BY <1>0, <1>3, <2>1, <2>2
  <2>4. CASE NewerThan(d.entry, s.entry)
    <3>1. JoinMaps(s, d) = d
      BY <2>3, <2>4 DEF JoinMaps
    <3>2. ASSUME NEW x \in (A \cup B) \ {j} PROVE NewerThan(h[j].arg, h[x].arg)
      <4>1. CASE x \in B
        BY <2>2, <3>2, <4>1 DEF Newest
      <4>2. CASE x = i
        BY <2>1, <2>2, <2>4, <4>2
      <4>3. CASE x \in A \ {i}
        <5>1. NewerThan(h[i].arg, h[x].arg)
          BY <2>1, <4>3 DEF Newest
        <5>2. NewerThan(h[j].arg, h[i].arg)
          BY <2>1, <2>2, <2>4
        <5>3. h[x].arg \in MapEntry /\ h[i].arg \in MapEntry /\ h[j].arg \in MapEntry
          BY <1>0, <2>3, <4>3
        <5> QED
          BY <5>1, <5>2, <5>3, NewerOrder
      <4> QED
        BY <3>2, <4>1, <4>2, <4>3
    <3>3. Newest(h, A \cup B, j)
      BY <3>2 DEF Newest
    <3> QED
      BY <2>2, <2>3, <3>1, <3>3 DEF NewestEntry
  <2>5. CASE ~NewerThan(d.entry, s.entry)
    <3>1. JoinMaps(s, d) = s
      BY <2>3, <2>5 DEF JoinMaps
    <3>2. ASSUME NEW x \in (A \cup B) \ {i} PROVE NewerThan(h[i].arg, h[x].arg)
      <4>1. CASE x \in A
        BY <2>1, <3>2, <4>1 DEF Newest
      <4>2. j # i => NewerThan(h[i].arg, h[j].arg)
        BY <2>1, <2>2, <2>3, <2>5, StampsDiffer
      <4>3. CASE x \in B \ {j} /\ j # i
        <5>1. NewerThan(h[j].arg, h[x].arg)
          BY <2>2, <4>3 DEF Newest
        <5>2. h[x].arg \in MapEntry /\ h[i].arg \in MapEntry /\ h[j].arg \in MapEntry
          BY <1>0, <2>3, <4>3
        <5> QED
          BY <4>2, <4>3, <5>1, <5>2, NewerOrder
      <4>4. CASE x \in B /\ j = i
        BY <2>2, <3>2, <4>4 DEF Newest
      <4>5. CASE x = j /\ j # i
        BY <4>2, <4>5
      <4> QED
        BY <3>2, <4>1, <4>3, <4>4, <4>5
    <3>3. Newest(h, A \cup B, i)
      BY <3>2 DEF Newest
    <3> QED
      BY <2>1, <2>3, <3>1, <3>3 DEF NewestEntry
  <2> QED
    BY <2>4, <2>5
<1> QED
  BY <1>1, <1>2, <1>3

\* There is one newest entry.
LEMMA NewestUnique ==
    ASSUME NEW h, StampsOK(h), NEW O, O \subseteq DOMAIN h, NEW i, NEW j, Newest(h, O, i), Newest(h, O, j)
    PROVE  i = j
<1> SUFFICES ASSUME i # j PROVE FALSE
  OBVIOUS
<1>1. NewerThan(h[i].arg, h[j].arg) /\ NewerThan(h[j].arg, h[i].arg)
  BY DEF Newest
<1>2. h[i].arg \in MapEntry /\ h[j].arg \in MapEntry
  BY DEF Newest, StampsOK
<1> QED
  BY <1>1, <1>2, NewerOrder

-----------------------------------------------------------------------------
(* Registers: the clocks of versions say what each had observed *)

\* The clock that the write i has stamped its version with.
Clock(h, i) == Counts(h, h[i].past \cup {i}, "write")

Version(h, i) == [value |-> h[i].arg, vc |-> Clock(h, i)]

\* The operations of O that none of O had observed.
Tops(h, O) == {j \in O : \A k \in O : j \notin h[k].past}

Versions(h, O) == {Version(h, i) : i \in Tops(h, O)}

\* What an operation had observed, with itself, is closed.
LEMMA ClosedPast ==
    ASSUME NEW h, HistoryOK(h), NEW i \in DOMAIN h
    PROVE  Closed(h, h[i].past \cup {i})
<1>1. i \in Nat /\ i > 0 /\ 1..(i - 1) \subseteq DOMAIN h
  <2>1. Len(h) \in Nat /\ DOMAIN h = 1..Len(h)
    BY ClosedFinite
  <2> QED
    BY <2>1
<1>2. /\ h[i].past \subseteq 1..(i - 1)
      /\ \A j \in h[i].past : h[j].past \subseteq h[i].past
  BY DEF HistoryOK
<1> QED
  BY <1>1, <1>2 DEF Closed

\* Clocks of closed sets of writes are ordered as the sets are.
LEMMA CountsOrder ==
    ASSUME NEW h, HistoryOK(h), NEW A, NEW B, Closed(h, A), Closed(h, B),
           \A i \in DOMAIN h : h[i].op = "write"
    PROVE  A \subseteq B <=> \A m \in Nodes : ~(Counts(h, A, "write")[m] > Counts(h, B, "write")[m])
<1>0. /\ A \subseteq DOMAIN h /\ B \subseteq DOMAIN h
  BY DEF Closed
<1>1. ASSUME NEW m \in Nodes
      PROVE  /\ IsFiniteSet(Of(h, A, m, "write")) /\ IsFiniteSet(Of(h, B, m, "write"))
             /\ Counts(h, A, "write")[m] = Cardinality(Of(h, A, m, "write"))
             /\ Counts(h, B, "write")[m] = Cardinality(Of(h, B, m, "write"))
             /\ Cardinality(Of(h, A, m, "write")) \in Nat /\ Cardinality(Of(h, B, m, "write")) \in Nat
  BY <1>0, OfFacts DEF Counts
<1>2. ASSUME A \subseteq B, NEW m \in Nodes
      PROVE  ~(Counts(h, A, "write")[m] > Counts(h, B, "write")[m])
  <2>1. Of(h, A, m, "write") \subseteq Of(h, B, m, "write")
    BY <1>2 DEF Of
  <2>2. Cardinality(Of(h, A, m, "write")) <= Cardinality(Of(h, B, m, "write"))
    BY <1>1, <2>1, FS_Subset
  <2> QED
    BY <1>1, <2>2
<1>3. ASSUME \A m \in Nodes : ~(Counts(h, A, "write")[m] > Counts(h, B, "write")[m]), NEW i \in A
      PROVE  i \in B
  <2> DEFINE m == h[i].node
             X == Of(h, A, m, "write")
             Y == Of(h, B, m, "write")
  <2>1. m \in Nodes /\ h[i].op = "write"
    BY <1>0, <1>3 DEF HistoryOK
  <2>2. i \in X
    BY <2>1 DEF Of
  <2>3. X \subseteq Y \/ Y \subseteq X
    BY OwnOrder
  <2>4. IsFiniteSet(X) /\ IsFiniteSet(Y) /\ Cardinality(X) \in Nat /\ Cardinality(Y) \in Nat
    BY <1>1, <2>1
  <2>5. ~(Cardinality(X) > Cardinality(Y))
    BY <1>1, <1>3, <2>1
  <2>6. Y \subseteq B
    BY DEF Of
  <2> HIDE DEF X, Y, m
  <2>7. ASSUME Y \subseteq X PROVE X = Y
    <3>1. Cardinality(Y) <= Cardinality(X) /\ (Cardinality(Y) = Cardinality(X) => Y = X)
      BY <2>4, <2>7, FS_Subset
    <3> QED
      BY <2>4, <2>5, <3>1
  <2> QED
    BY <2>2, <2>3, <2>6, <2>7
<1> QED
  BY <1>2, <1>3

\* compare finds one clock before another when its write was observed by the other.
LEMMA ClocksTell ==
    ASSUME NEW h, HistoryOK(h), NEW i \in DOMAIN h, NEW j \in DOMAIN h,
           \A k \in DOMAIN h : h[k].op = "write"
    PROVE  Compare(Clock(h, i), Clock(h, j)) = "before" <=> i \in h[j].past
<1> DEFINE A == h[i].past \cup {i}
           B == h[j].past \cup {j}
           c == Counts(h, A, "write")
           d == Counts(h, B, "write")
<1>1. Closed(h, A) /\ Closed(h, B)
  BY ClosedPast
<1>2. /\ i \in Nat /\ j \in Nat /\ h[i].past \subseteq 1..(i - 1) /\ h[j].past \subseteq 1..(j - 1)
      /\ \A k \in h[j].past : h[k].past \subseteq h[j].past
  BY ClosedFinite DEF HistoryOK
<1>3. A \subseteq B <=> \A m \in Nodes : ~(c[m] > d[m])
  <2> HIDE DEF A, B
  <2> QED
    BY <1>1, CountsOrder
<1>4. B \subseteq A <=> \A m \in Nodes : ~(d[m] > c[m])
  <2> HIDE DEF A, B
  <2> QED
    BY <1>1, CountsOrder
<1>5. c \in [Nodes -> Nat] /\ d \in [Nodes -> Nat]
  <2> HIDE DEF A, B
  <2> QED
    BY <1>1, CountsType DEF Closed
<1>6. Clock(h, i) = c /\ Clock(h, j) = d
  BY DEF Clock
<1>7. A \subseteq B /\ ~(B \subseteq A) <=> i \in h[j].past
  <2>1. i \in h[j].past => A \subseteq B
    BY <1>2
  <2>2. i \in h[j].past => j \notin A
    BY <1>2
  <2>3. A \subseteq B => i \in h[j].past \/ i = j
    OBVIOUS
  <2>4. i = j => B \subseteq A
    OBVIOUS
  <2> QED
    BY <2>1, <2>2, <2>3, <2>4
<1> HIDE DEF A, B, c, d
<1>8. (\E m \in Nodes : c[m] < d[m]) <=> ~(B \subseteq A)
  BY <1>4, <1>5
<1>9. (\E m \in Nodes : c[m] > d[m]) <=> ~(A \subseteq B)
  BY <1>3
<1>10. Compare(c, d) = "before" <=> (\E m \in Nodes : c[m] < d[m]) /\ ~(\E m \in Nodes : c[m] > d[m])
  BY DEF Compare
<1> QED
  BY <1>6, <1>7, <1>8, <1>9, <1>10

\* What was observed by some operation of a closed set was observed by a top of it.
LEMMA TopAbove ==
    ASSUME NEW h, HistoryOK(h), NEW B, Closed(h, B), NEW i, NEW k \in B, i \in h[k].past
    PROVE  \E t \in Tops(h, B) : i \in h[t].past
<1> DEFINE S == {x \in B : i \in h[x].past}
<1>1. /\ Len(h) \in Nat /\ B \subseteq 1..Len(h) /\ S # {} /\ S \in SUBSET (0..Len(h))
  <2>1. Len(h) \in Nat /\ B \subseteq 1..Len(h)
    BY ClosedFinite DEF Closed
  <2>2. k \in S /\ S \subseteq B
    OBVIOUS
  <2> HIDE DEF S
  <2>3. \A x \in B : x \in 0..Len(h)
    BY <2>1
  <2> QED
    BY <2>1, <2>2, <2>3
<1> HIDE DEF S
<1>2. PICK t \in S : \A y \in S : y <= t
  BY <1>1, GreatestNat
<1>3. t \in B /\ i \in h[t].past
  BY DEF S
<1>4. ASSUME NEW x \in B, t \in h[x].past PROVE FALSE
  <2>1. /\ x \in DOMAIN h /\ h[x].past \subseteq 1..(x - 1)
        /\ \A y \in h[x].past : h[y].past \subseteq h[x].past
    BY DEF HistoryOK, Closed
  <2>2. x \in S
    BY <1>3, <1>4, <2>1 DEF S
  <2>3. x <= t
    BY <1>2, <2>2
  <2>4. x \in Nat /\ t \in 1..(x - 1)
    BY <1>1, <1>4, <2>1
  <2> QED
    BY <2>3, <2>4
<1> QED
  BY <1>3, <1>4 DEF Tops

\* merge keeps the versions that nothing either has seen supersedes.
LEMMA VersionsJoin ==
    ASSUME NEW h, HistoryOK(h), NEW A, NEW B, Closed(h, A), Closed(h, B),
           \A k \in DOMAIN h : h[k].op = "write"
    PROVE  Undominated(Versions(h, A) \cup Versions(h, B)) = Versions(h, A \cup B)
<1>1. /\ A \subseteq DOMAIN h /\ B \subseteq DOMAIN h
      /\ Tops(h, A) \subseteq A /\ Tops(h, B) \subseteq B /\ Tops(h, A \cup B) \subseteq A \cup B
  BY DEF Closed, Tops
<1>2. \A i \in DOMAIN h, j \in DOMAIN h :
         Compare(Version(h, i).vc, Version(h, j).vc) = "before" <=> i \in h[j].past
  BY ClocksTell DEF Version
<1>3. ASSUME NEW i \in Tops(h, A) \cup Tops(h, B),
             \A j \in Tops(h, A) \cup Tops(h, B) : i \notin h[j].past
      PROVE  i \in Tops(h, A \cup B)
  <2>1. \A k \in A : i \notin h[k].past
    BY <1>3, TopAbove
  <2>2. \A k \in B : i \notin h[k].past
    BY <1>3, TopAbove
  <2> QED
    BY <1>1, <2>1, <2>2 DEF Tops
<1>4. ASSUME NEW v \in Undominated(Versions(h, A) \cup Versions(h, B))
      PROVE  v \in Versions(h, A \cup B)
  <2>1. v \in Versions(h, A) \cup Versions(h, B)
        /\ \A w \in Versions(h, A) \cup Versions(h, B) : Compare(v.vc, w.vc) # "before"
    BY DEF Undominated
  <2>2. PICK i \in Tops(h, A) \cup Tops(h, B) : v = Version(h, i)
    BY <2>1 DEF Versions
  <2>3. ASSUME NEW j \in Tops(h, A) \cup Tops(h, B) PROVE i \notin h[j].past
    <3>1. Version(h, j) \in Versions(h, A) \cup Versions(h, B)
      BY DEF Versions
    <3> QED
      BY <1>1, <1>2, <2>1, <2>2, <3>1
  <2>4. i \in Tops(h, A \cup B)
    BY <1>3, <2>3
  <2> QED
    BY <2>2, <2>4 DEF Versions
<1>5. ASSUME NEW v \in Versions(h, A \cup B)
      PROVE  v \in Undominated(Versions(h, A) \cup Versions(h, B))
  <2>1. PICK i \in Tops(h, A \cup B) : v = Version(h, i)
    BY DEF Versions
  <2>2. i \in Tops(h, A) \cup Tops(h, B)
    BY DEF Tops
  <2>3. ASSUME NEW w \in Versions(h, A) \cup Versions(h, B) PROVE Compare(v.vc, w.vc) # "before"
    <3>1. PICK j \in Tops(h, A) \cup Tops(h, B) : w = Version(h, j)
      BY DEF Versions
    <3>2. i \notin h[j].past
      BY <1>1 DEF Tops
    <3> QED
      BY <1>1, <1>2, <2>1, <3>1, <3>2
  <2>4. v \in Versions(h, A) \cup Versions(h, B)
    BY <2>1, <2>2 DEF Versions
  <2> QED
    BY <2>3, <2>4 DEF Undominated
<1> QED
  BY <1>4, <1>5

\* Versions do not change when the history goes on.
LEMMA VersionsGoOn ==
    ASSUME NEW h, HistoryOK(h), NEW g, GoesOn(h, g), NEW O, Closed(h, O)
    PROVE  Versions(g, O) = Versions(h, O)
<1>1. O \subseteq DOMAIN h /\ \A i \in O : g[i] = h[i]
  BY DEF Closed, GoesOn
<1>2. Tops(g, O) = Tops(h, O) /\ Tops(h, O) \subseteq O
  BY <1>1 DEF Tops
<1>3. ASSUME NEW i \in O PROVE Version(g, i) = Version(h, i)
  <2>1. h[i].past \cup {i} \subseteq DOMAIN h
    BY <1>1, ClosedPast DEF Closed
  <2>2. Counts(g, h[i].past \cup {i}, "write") = Counts(h, h[i].past \cup {i}, "write")
    BY <2>1, CountsGoOn
  <2> QED
    BY <1>1, <2>2 DEF Version, Clock
<1> QED
  BY <1>2, <1>3 DEF Versions

\* A write supersedes all that its node has seen.
LEMMA VersionsOneMore ==
    ASSUME NEW g, NEW O, Closed(g, O), NEW k \in DOMAIN g, k \notin O, g[k].past = O
    PROVE  Versions(g, O \cup {k}) = {Version(g, k)}
<1>1. Tops(g, O \cup {k}) = {k}
  BY DEF Tops, Closed
<1> QED
  BY <1>1 DEF Versions

-----------------------------------------------------------------------------
(* What an object holds after the operations that have reached it *)

\* The operations of each type.
OpsOK(k, h) ==
    /\ k = "GCounter" => \A i \in DOMAIN h : h[i].op = "increment"
    /\ k = "ORSet" => \A i \in DOMAIN h : h[i].arg \in Elements
    /\ k = "MVRegister" => \A i \in DOMAIN h : h[i].op = "write"

\* The object s of type k reflects the operations O, and nothing else.  Of an RGA
\* nothing is said here, and of an LWWMap further down.
Represents(k, h, s, O) ==
    /\ k = "GCounter" => s = [p |-> Counts(h, O, "increment")]
    /\ k = "PNCounter" => s = [p |-> Counts(h, O, "increment"), n |-> Counts(h, O, "decrement")]
    /\ k = "ORSet" => s = [adds |-> Tagged(h, O), removed |-> Gone(h, O), counter |-> s.counter]
    /\ k = "MVRegister" => s = [versions |-> Versions(h, O), vc |-> Counts(h, O, "write")]

\* Later operations do not change what an object holds.
LEMMA RepresentsGoesOn ==
    ASSUME NEW h, HistoryOK(h), NEW g, GoesOn(h, g), NEW O, Closed(h, O), NEW k, NEW s, Represents(k, h, s, O)
    PROVE  Represents(k, g, s, O)
<1>1. \A op : Counts(g, O, op) = Counts(h, O, op)
  BY CountsGoOn DEF Closed
<1>2. Tagged(g, O) = Tagged(h, O) /\ Gone(g, O) = Gone(h, O)
  BY TagsGoOn
<1>3. Versions(g, O) = Versions(h, O)
  BY VersionsGoOn
<1> QED
  BY <1>1, <1>2, <1>3 DEF Represents

\* A fresh object reflects nothing.
LEMMA RepresentsFresh ==
    ASSUME NEW h, NEW k \in Kinds
    PROVE  Represents(k, h, Fresh(k), {})
<1>1. \A op : Counts(h, {}, op) = Zero
  BY FS_EmptySet DEF Counts, Of, Zero
<1>2. Tagged(h, {}) = {} /\ Gone(h, {}) = {}
  BY DEF Tagged, Gone, AllOf
<1>3. Versions(h, {}) = {}
  BY DEF Versions, Tops
<1> QED
  BY <1>1, <1>2, <1>3 DEF Represents, Fresh

\* An update of both sets of an ORSet.
LEMMA TagsUpdated ==
    ASSUME NEW s, NEW a, NEW x, NEW c, s = [adds |-> a, removed |-> x, counter |-> c], NEW b, NEW y
    PROVE  [s EXCEPT !.adds = b, !.removed = y] = [adds |-> b, removed |-> y, counter |-> c]
<1> DEFINE t == [s EXCEPT !.adds = b, !.removed = y]
<1>1. DOMAIN s = {"adds", "removed", "counter"}
  OBVIOUS
<1>2. t = [f \in {"adds", "removed", "counter"} |-> t[f]]
  BY <1>1
<1>3. t.adds = b /\ t.removed = y /\ t.counter = c
  BY <1>1
<1> HIDE DEF t
<1>4. t = [adds |-> b, removed |-> y, counter |-> c]
  BY <1>2, <1>3
<1> QED
  BY <1>4 DEF t

\* An update of the counter and the adds of an ORSet.
LEMMA AddsUpdated ==
    ASSUME NEW s, NEW a, NEW x, NEW c, s = [adds |-> a, removed |-> x, counter |-> c], NEW b, NEW y
    PROVE  [s EXCEPT !.counter = b, !.adds = y] = [adds |-> y, removed |-> x, counter |-> b]
<1> DEFINE t == [s EXCEPT !.counter = b, !.adds = y]
<1>1. DOMAIN s = {"adds", "removed", "counter"}
  OBVIOUS
<1>2. t = [f \in {"adds", "removed", "counter"} |-> t[f]]
  BY <1>1
<1>3. t.adds = y /\ t.removed = x /\ t.counter = b
  BY <1>1
<1> HIDE DEF t
<1>4. t = [adds |-> y, removed |-> x, counter |-> b]
  BY <1>2, <1>3
<1> QED
  BY <1>4 DEF t

\* What merge makes of two objects reflects what either does.
LEMMA RepresentsMerge ==
    ASSUME NEW k \in Kinds, NEW h, HistoryOK(h), OpsOK(k, h), NEW A, NEW B, Closed(h, A), Closed(h, B),
           NEW s, NEW d, Represents(k, h, s, A), Represents(k, h, d, B)
    PROVE  Represents(k, h, Merge(k, s, d), A \cup B)
<1>1. \A op : JoinCounts(Counts(h, A, op), Counts(h, B, op)) = Counts(h, A \cup B, op)
  BY CountsJoin
<1>2. CASE k = "GCounter"
  <2>1. s.p = Counts(h, A, "increment") /\ d.p = Counts(h, B, "increment")
    BY <1>2 DEF Represents
  <2>2. Merge(k, s, d) = [p |-> JoinCounts(s.p, d.p)]
    BY <1>2 DEF Merge
  <2> QED
    BY <1>1, <1>2, <2>1, <2>2 DEF Represents
<1>3. CASE k = "PNCounter"
  <2>1. /\ s.p = Counts(h, A, "increment") /\ d.p = Counts(h, B, "increment")
        /\ s.n = Counts(h, A, "decrement") /\ d.n = Counts(h, B, "decrement")
    BY <1>3 DEF Represents
  <2>2. Merge(k, s, d) = [p |-> JoinCounts(s.p, d.p), n |-> JoinCounts(s.n, d.n)]
    BY <1>3 DEF Merge, JoinPairs
  <2> QED
    BY <1>1, <1>3, <2>1, <2>2 DEF Represents
<1>4. CASE k = "ORSet"
  <2>1. /\ s = [adds |-> Tagged(h, A), removed |-> Gone(h, A), counter |-> s.counter]
        /\ d.adds = Tagged(h, B) /\ d.removed = Gone(h, B)
    BY <1>4 DEF Represents
  <2>2. Merge(k, s, d) = [s EXCEPT !.adds = @ \cup d.adds, !.removed = @ \cup d.removed]
    BY <1>4 DEF Merge, JoinSets
  <2>3. /\ Tagged(h, A \cup B) = Tagged(h, A) \cup Tagged(h, B)
        /\ Gone(h, A \cup B) = Gone(h, A) \cup Gone(h, B)
    BY TagsJoin
  <2>4. PICK a, x, c : a = Tagged(h, A) /\ x = Gone(h, A) /\ c = s.counter
    OBVIOUS
  <2>5. s = [adds |-> a, removed |-> x, counter |-> c] /\ s.adds = a /\ s.removed = x
    <3>1. s = [adds |-> a, removed |-> x, counter |-> c]
      BY <2>1, <2>4, Zenon
    <3> QED
      BY <3>1
  <2>6. PICK b, y : b = s.adds \cup d.adds /\ y = s.removed \cup d.removed
    OBVIOUS
  <2>7. b = Tagged(h, A \cup B) /\ y = Gone(h, A \cup B)
    BY <2>1, <2>3, <2>4, <2>5, <2>6
  <2>8. Merge(k, s, d) = [s EXCEPT !.adds = b, !.removed = y]
    BY <2>2, <2>6
  <2>9. Merge(k, s, d) = [adds |-> b, removed |-> y, counter |-> c]
    BY <2>5, <2>8, TagsUpdated
  <2>10. Merge(k, s, d).counter = c
    BY <2>9
  <2> QED
    BY <1>4, <2>7, <2>9, <2>10 DEF Represents
<1>5. CASE k = "LWWMap"
  BY <1>5 DEF Represents
<1>6. CASE k = "MVRegister"
  <2>1. /\ s.versions = Versions(h, A) /\ s.vc = Counts(h, A, "write")
        /\ d.versions = Versions(h, B) /\ d.vc = Counts(h, B, "write")
    BY <1>6 DEF Represents
  <2>2. Merge(k, s, d) = [versions |-> Undominated(s.versions \cup d.versions), vc |-> JoinCounts(s.vc, d.vc)]
    BY <1>6 DEF Merge, JoinRegisters
  <2>3. Undominated(Versions(h, A) \cup Versions(h, B)) = Versions(h, A \cup B)
    BY <1>6, VersionsJoin DEF OpsOK
  <2> QED
    BY <1>1, <1>6, <2>1, <2>2, <2>3 DEF Represents
<1>7. CASE k = "RGA"
  BY <1>7 DEF Represents
<1> QED
  BY <1>2, <1>3, <1>4, <1>5, <1>6, <1>7 DEF Kinds

\* A digest says what the object holds.
LEMMA RepresentsDigest ==
    ASSUME NEW k, NEW h, NEW O, NEW s, Represents(k, h, s, O)
    PROVE  Represents(k, h, DigestOf(k, s), O)
<1>1. CASE k = "ORSet"
  <2>1. s = [adds |-> Tagged(h, O), removed |-> Gone(h, O), counter |-> s.counter]
    BY <1>1 DEF Represents
  <2>2. DigestOf(k, s) = [s EXCEPT !.counter = 0]
    BY <1>1 DEF DigestOf
  <2>3. DigestOf(k, s) = [adds |-> Tagged(h, O), removed |-> Gone(h, O), counter |-> 0]
    BY <2>1, <2>2
  <2>4. DigestOf(k, s).counter = 0
    BY <2>3
  <2> QED
    BY <1>1, <2>3, <2>4 DEF Represents
<1>2. CASE k = "RGA"
  BY <1>2 DEF Represents
<1>3. CASE k \notin {"ORSet", "RGA"}
  BY <1>3 DEF DigestOf
<1> QED
  BY <1>1, <1>2, <1>3

\* An object that reflects O reads as O means.
LEMMA RepresentsReads ==
    ASSUME NEW O, HistoryOK(history), OpsOK(kind, history), Closed(history, O), kind \in Kinds \ {"RGA", "LWWMap"},
           NEW s, Represents(kind, history, s, O)
    PROVE  Read(kind, s) = Meaning(O)
<1>0. O \subseteq DOMAIN history
  BY DEF Closed
<1>1. \A op : SumOf(Counts(history, O, op)) = Cardinality(AllOf(history, O, op))
  BY <1>0, CountsTotal
<1>2. \A op : AllOf(history, O, op) \subseteq DOMAIN history
  BY <1>0 DEF AllOf
<1>3. \A op : Cardinality(AllOf(history, O, op)) \in Nat
  BY <1>2, ClosedFinite
<1>4. CASE kind \in {"GCounter", "PNCounter"}
  <2>1. Meaning(O) = Cardinality(AllOf(history, O, "increment")) - Cardinality(AllOf(history, O, "decrement"))
    BY <1>4 DEF Meaning, AllOf
  <2>2. CASE kind = "GCounter"
    <3>1. AllOf(history, O, "decrement") = {}
      BY <1>0, <2>2 DEF AllOf, OpsOK
    <3>2. Cardinality(AllOf(history, O, "decrement")) = 0
      BY <3>1, FS_EmptySet
    <3>3. s.p = Counts(history, O, "increment")
      BY <2>2 DEF Represents
    <3>4. Read(kind, s) = SumOf(s.p)
      BY <2>2 DEF Read, Total
    <3> QED
      BY <1>1, <1>3, <2>1, <3>2, <3>3, <3>4
  <2>3. CASE kind = "PNCounter"
    <3>1. s.p = Counts(history, O, "increment") /\ s.n = Counts(history, O, "decrement")
      BY <2>3 DEF Represents
    <3>2. Read(kind, s) = SumOf(s.p) - SumOf(s.n)
      BY <2>3 DEF Read, Total
    <3> QED
      BY <1>1, <2>1, <3>1, <3>2
  <2> QED
    BY <1>4, <2>2, <2>3
<1>5. CASE kind = "ORSet"
  <2>1. s.adds = Tagged(history, O) /\ s.removed = Gone(history, O)
    BY <1>5 DEF Represents
  <2>2. \A i \in O : history[i].op = "add" => history[i].arg \in Elements
    BY <1>0, <1>5 DEF OpsOK
  <2>3. Read(kind, s) = Contents(s)
    BY <1>5 DEF Read
  <2>4. Meaning(O) =
          {e \in Elements : \E i \in O : (history[i].op = "add" /\ history[i].arg = e)
                              /\ \A j \in O : (history[j].op = "remove" /\ history[j].arg = e) => i \notin history[j].past}
    BY <1>5 DEF Meaning, Does
  <2>5. Contents(s) =
          {e \in Elements : \E i \in O : (history[i].op = "add" /\ history[i].arg = e)
                              /\ \A j \in O : (history[j].op = "remove" /\ history[j].arg = e) => i \notin history[j].past}
    BY <2>1, <2>2, SetReads
  <2> QED
    BY <2>3, <2>4, <2>5
<1>7. CASE kind = "MVRegister"
  <2>1. s.versions = Versions(history, O)
    BY <1>7 DEF Represents
  <2>2. Read(kind, s) = {v.value : v \in s.versions}
    BY <1>7 DEF Read
  <2>3. Meaning(O) = {history[i].arg : i \in Tops(history, O)}
    BY <1>7 DEF Meaning, Tops
  <2>4. \A i : Version(history, i).value = history[i].arg
    BY DEF Version
  <2>5. {v.value : v \in Versions(history, O)} = {history[i].arg : i \in Tops(history, O)}
    <3>1. ASSUME NEW v \in Versions(history, O) PROVE v.value \in {history[i].arg : i \in Tops(history, O)}
      <4>1. PICK i \in Tops(history, O) : v = Version(history, i)
        BY DEF Versions
      <4> QED
        BY <2>4, <4>1
    <3>2. ASSUME NEW i \in Tops(history, O) PROVE history[i].arg \in {v.value : v \in Versions(history, O)}
      <4>1. Version(history, i) \in Versions(history, O)
        BY DEF Versions
      <4> QED
        BY <2>4, <4>1
    <3> QED
      BY <3>1, <3>2
  <2> QED
    BY <2>1, <2>2, <2>3, <2>5
<1> QED
  BY <1>4, <1>5, <1>7 DEF Kinds

-----------------------------------------------------------------------------
(* The replicator *)

\* Each replica reflects the operations it has seen, which are a closed set with
\* all that its node did, and each message those its sender had seen; an ORSet's
\* counter counts the adds of its node.
CausalInv ==
    /\ kind \in Kinds \ {"LWWMap"} /\ ticks \in [Nodes -> 0..(FullSyncEvery - 1)]
    /\ HistoryOK(history) /\ OpsOK(kind, history)
    /\ crdt = [n \in Nodes |-> crdt[n]] /\ seen \in [Nodes -> SUBSET DOMAIN history]
    /\ \A n \in Nodes :
          /\ Closed(history, seen[n]) /\ Represents(kind, history, crdt[n], seen[n])
          /\ \A i \in DOMAIN history : history[i].node = n => i \in seen[n]
          /\ kind = "ORSet" => crdt[n].counter = Cardinality(Of(history, DOMAIN history, n, "add"))
    /\ \A m \in syncs :
          /\ m.dst \in Nodes /\ m.src # m.dst
          /\ Closed(history, m.seen) /\ Represents(kind, history, m.digest, m.seen)

\* The operation e, numbered k, of a node that has seen O makes the history g of h.
Grown(h, g, k, O, e) ==
    /\ HistoryOK(h) /\ Closed(h, O) /\ e.node \in Nodes /\ e.past = O
    /\ HistoryOK(g) /\ GoesOn(h, g) /\ Closed(g, O) /\ Closed(g, O \cup {k})
    /\ k \in DOMAIN g /\ k \notin O /\ g[k] = e /\ DOMAIN g = DOMAIN h \cup {k}
    /\ k \notin DOMAIN h /\ \A i \in DOMAIN h : g[i] = h[i]
    /\ DOMAIN g = 1..k /\ \A i \in O : i < k

\* The history after an operation.
LEMMA OneMore ==
    ASSUME NEW h, HistoryOK(h), NEW O, Closed(h, O), NEW e, e.node \in Nodes, e.past = O,
           \A i \in DOMAIN h : h[i].node = e.node => i \in O,
           NEW g, g = Append(h, e), NEW k, k = Len(h) + 1
    PROVE  Grown(h, g, k, O, e) /\ k = Len(g)
<1>1. HistoryOK(g) /\ GoesOn(h, g) /\ Closed(g, O \cup {k})
  BY HistoryGrows
<1>2. Closed(g, O)
  BY <1>1, ClosedGoesOn
<1>3. /\ Len(h) \in Nat /\ DOMAIN h = 1..Len(h) /\ DOMAIN g = 1..(Len(h) + 1)
      /\ \A i \in DOMAIN h : g[i] = h[i]
      /\ g[Len(h) + 1] = e /\ Len(g) = Len(h) + 1
  BY AppendFacts DEF HistoryOK
<1>4. O \subseteq 1..Len(h)
  BY <1>3 DEF Closed
<1>5. DOMAIN g = DOMAIN h \cup {k} /\ k \notin DOMAIN h /\ k \notin O /\ k \in DOMAIN g
  BY <1>3, <1>4
<1>6. \A i \in O : i < k
  BY <1>3, <1>4
<1> QED
  BY <1>1, <1>2, <1>3, <1>5, <1>6 DEF Grown

\* increment of a GCounter.
LEMMA CountGrown ==
    ASSUME NEW h, NEW g, NEW k, NEW O, NEW e, Grown(h, g, k, O, e), e.op = "increment",
           NEW s, Represents("GCounter", h, s, O)
    PROVE  Represents("GCounter", g, [s EXCEPT !.p = Increment(@, e.node, 1)], O \cup {k})
<1>1. Represents("GCounter", g, s, O)
  BY RepresentsGoesOn DEF Grown
<1>2. s = [p |-> Counts(g, O, "increment")]
  BY <1>1 DEF Represents
<1>3. Counts(g, O \cup {k}, "increment") = Increment(Counts(g, O, "increment"), e.node, 1)
  BY CountsOneMore DEF Grown, Closed
<1>4. [s EXCEPT !.p = Increment(@, e.node, 1)] = [p |-> Increment(Counts(g, O, "increment"), e.node, 1)]
  BY <1>2
<1> QED
  BY <1>3, <1>4 DEF Represents

\* increment and decrement of a PNCounter.
LEMMA PairGrown ==
    ASSUME NEW h, NEW g, NEW k, NEW O, NEW e, Grown(h, g, k, O, e), NEW s, Represents("PNCounter", h, s, O)
    PROVE  /\ e.op = "increment" =>
                Represents("PNCounter", g, [s EXCEPT !.p = Increment(@, e.node, 1)], O \cup {k})
           /\ e.op = "decrement" =>
                Represents("PNCounter", g, [s EXCEPT !.n = Increment(@, e.node, 1)], O \cup {k})
<1>1. Represents("PNCounter", g, s, O)
  BY RepresentsGoesOn DEF Grown
<1>2. s = [p |-> Counts(g, O, "increment"), n |-> Counts(g, O, "decrement")]
  BY <1>1 DEF Represents
<1>3. \A op : /\ e.op = op => Counts(g, O \cup {k}, op) = Increment(Counts(g, O, op), e.node, 1)
              /\ e.op # op => Counts(g, O \cup {k}, op) = Counts(g, O, op)
  BY CountsOneMore DEF Grown, Closed
<1>4. [s EXCEPT !.p = Increment(@, e.node, 1)]
      = [p |-> Increment(Counts(g, O, "increment"), e.node, 1), n |-> Counts(g, O, "decrement")]
  BY <1>2
<1>5. [s EXCEPT !.n = Increment(@, e.node, 1)]
      = [p |-> Counts(g, O, "increment"), n |-> Increment(Counts(g, O, "decrement"), e.node, 1)]
  BY <1>2
<1> QED
  BY <1>3, <1>4, <1>5 DEF Represents

\* The counter of the ORSet s of n counts the adds of n.
CountsAdds(h, n, s) == s.counter = Cardinality(Of(h, DOMAIN h, n, "add"))

\* add of an ORSet, whose counter counts the adds of its node.
LEMMA AddGrown ==
    ASSUME NEW h, NEW g, NEW k, NEW O, NEW e, Grown(h, g, k, O, e), e.op = "add",
           NEW s, Represents("ORSet", h, s, O), CountsAdds(h, e.node, s)
    PROVE  /\ Represents("ORSet", g, Add(s, e.node, e.arg), O \cup {k})
           /\ CountsAdds(g, e.node, Add(s, e.node, e.arg))
<1>1. Represents("ORSet", g, s, O)
  BY RepresentsGoesOn DEF Grown
<1>2. s = [adds |-> Tagged(g, O), removed |-> Gone(g, O), counter |-> s.counter]
  BY <1>1 DEF Represents
<1>3. Of(g, DOMAIN g, e.node, "add") = Of(h, DOMAIN h, e.node, "add") \cup {k} /\ k \notin Of(h, DOMAIN h, e.node, "add")
  BY DEF Grown, Of
<1>4. Cardinality(Of(g, DOMAIN g, e.node, "add")) = s.counter + 1
  <2>1. IsFiniteSet(Of(h, DOMAIN h, e.node, "add"))
    BY OfFacts DEF Grown
  <2> QED
    BY <1>3, <2>1, FS_AddElement DEF CountsAdds
<1>5. Tag(g, k) = <<e.node, s.counter + 1>>
  BY <1>4 DEF Tag, Grown
<1>6. /\ Tagged(g, O \cup {k}) = Tagged(g, O) \cup {<<e.arg, <<e.node, s.counter + 1>>>>}
      /\ Gone(g, O \cup {k}) = Gone(g, O)
  <2>1. /\ HistoryOK(g) /\ Closed(g, O) /\ k \in DOMAIN g /\ k \notin O /\ g[k] = e /\ e.past = O
        /\ \A i \in O : i < k
    BY DEF Grown
  <2>2. /\ \A t : t \in Tagged(g, O \cup {k}) <=> t \in Tagged(g, O) \/ t = <<e.arg, Tag(g, k)>>
        /\ \A t : t \in Gone(g, O \cup {k}) <=> t \in Gone(g, O)
    BY <2>1, TagsOneMore
  <2> QED
    BY <1>5, <2>2
<1>7. PICK a, x, c : a = Tagged(g, O) /\ x = Gone(g, O) /\ c = s.counter
  OBVIOUS
<1>8. s = [adds |-> a, removed |-> x, counter |-> c]
  BY <1>2, <1>7, Zenon
<1>9. s.adds = a /\ s.counter = c
  BY <1>8
<1>10. PICK y : y = a \cup {<<e.arg, <<e.node, c + 1>>>>}
  OBVIOUS
<1>11. Add(s, e.node, e.arg) = [s EXCEPT !.counter = c + 1, !.adds = y]
  BY <1>9, <1>10 DEF Add
<1>12. Add(s, e.node, e.arg) = [adds |-> y, removed |-> x, counter |-> c + 1]
  BY <1>8, <1>11, AddsUpdated
<1>13. Add(s, e.node, e.arg).counter = c + 1
  BY <1>12
<1>14. y = Tagged(g, O \cup {k}) /\ x = Gone(g, O \cup {k})
  BY <1>6, <1>7, <1>10
<1> QED
  BY <1>4, <1>7, <1>12, <1>13, <1>14 DEF Represents, CountsAdds

\* remove of an ORSet.
LEMMA RemoveGrown ==
    ASSUME NEW h, NEW g, NEW k, NEW O, NEW e, Grown(h, g, k, O, e), e.op = "remove",
           NEW s, Represents("ORSet", h, s, O), CountsAdds(h, e.node, s)
    PROVE  /\ Represents("ORSet", g, RemoveObserved(s, e.arg), O \cup {k})
           /\ CountsAdds(g, e.node, RemoveObserved(s, e.arg))
<1>1. Represents("ORSet", g, s, O)
  BY RepresentsGoesOn DEF Grown
<1>2. s = [adds |-> Tagged(g, O), removed |-> Gone(g, O), counter |-> s.counter]
  BY <1>1 DEF Represents
<1>3. Of(g, DOMAIN g, e.node, "add") = Of(h, DOMAIN h, e.node, "add")
  BY DEF Grown, Of
<1>4. /\ Tagged(g, O \cup {k}) = Tagged(g, O)
      /\ Gone(g, O \cup {k}) = Gone(g, O) \cup {a[2] : a \in {b \in Tagged(g, O) : b[1] = e.arg}}
  <2>1. /\ HistoryOK(g) /\ Closed(g, O) /\ k \in DOMAIN g /\ k \notin O /\ g[k] = e /\ e.past = O
        /\ \A i \in O : i < k
    BY DEF Grown
  <2>2. /\ \A t : t \in Tagged(g, O \cup {k}) <=> t \in Tagged(g, O)
        /\ \A t : t \in Gone(g, O \cup {k}) <=>
              t \in Gone(g, O) \/ t \in TagsOf(Tagged(g, O), e.arg)
    BY <2>1, TagsOneMore
  <2> QED
    BY <2>2 DEF TagsOf
<1>5. PICK a, x, c : a = Tagged(g, O) /\ x = Gone(g, O) /\ c = s.counter
  OBVIOUS
<1>6. s = [adds |-> a, removed |-> x, counter |-> c]
  BY <1>2, <1>5, Zenon
<1>7. s.adds = a /\ s.removed = x
  BY <1>6
<1>8. PICK y : y = x \cup {z[2] : z \in {b \in a : b[1] = e.arg}}
  OBVIOUS
<1>9. RemoveObserved(s, e.arg) = [s EXCEPT !.removed = y]
  BY <1>7, <1>8 DEF RemoveObserved
<1>10. RemoveObserved(s, e.arg) = [adds |-> a, removed |-> y, counter |-> c]
  BY <1>6, <1>9
<1>11. RemoveObserved(s, e.arg).counter = c
  BY <1>10
<1>12. a = Tagged(g, O \cup {k}) /\ y = Gone(g, O \cup {k})
  BY <1>4, <1>5, <1>8
<1> QED
  BY <1>3, <1>5, <1>10, <1>11, <1>12 DEF Represents, CountsAdds

\* A write of an MVRegister.
LEMMA WriteGrown ==
    ASSUME NEW h, NEW g, NEW k, NEW O, NEW e, Grown(h, g, k, O, e), e.op = "write",
           NEW s, Represents("MVRegister", h, s, O)
    PROVE  Represents("MVRegister", g, WriteRegister(s, e.node, e.arg), O \cup {k})
<1>1. Represents("MVRegister", g, s, O)
  BY RepresentsGoesOn DEF Grown
<1>2. s.vc = Counts(g, O, "write")
  BY <1>1 DEF Represents
<1>3. Counts(g, O \cup {k}, "write") = Increment(Counts(g, O, "write"), e.node, 1)
  BY CountsOneMore DEF Grown, Closed
<1>4. Versions(g, O \cup {k}) = {Version(g, k)}
  BY VersionsOneMore DEF Grown
<1>5. Version(g, k) = [value |-> e.arg, vc |-> Counts(g, O \cup {k}, "write")]
  BY DEF Version, Clock, Grown
<1> QED
  BY <1>2, <1>3, <1>4, <1>5 DEF WriteRegister, Represents

\* The object s of n after its operation, numbered k in g: it reflects that one too.
Reflected(g, k, n, s, O) ==
    /\ OpsOK(kind, g) /\ Represents(kind, g, s, O \cup {k})
    /\ kind = "ORSet" => s.counter = Cardinality(Of(g, DOMAIN g, n, "add"))

\* An operation whose object reflects it too keeps the invariant.
LEMMA OperateStep ==
    ASSUME CausalInv, NEW n \in Nodes, NEW e, e.node = n, e.past = seen[n], NEW s,
           history' = Append(history, e), crdt' = [crdt EXCEPT ![n] = s],
           seen' = [seen EXCEPT ![n] = @ \cup {Len(history')}],
           UNCHANGED <<kind, lastSent, ticks, syncs>>,
           NEW h, NEW g, NEW k, h = history, g = history', k = Len(h) + 1,
           Grown(h, g, k, seen[n], e) => Reflected(g, k, n, s, seen[n])
    PROVE  CausalInv'
<1>1. /\ HistoryOK(h) /\ Closed(h, seen[n]) /\ e.node \in Nodes
      /\ \A i \in DOMAIN h : h[i].node = e.node => i \in seen[n]
  BY DEF CausalInv
<1>2. PICK O : O = seen[n]
  OBVIOUS
<1>3. /\ HistoryOK(g) /\ GoesOn(h, g) /\ Closed(g, O) /\ Closed(g, O \cup {k})
      /\ k \in DOMAIN g /\ k \notin O /\ g[k] = e /\ DOMAIN g = DOMAIN h \cup {k} /\ k = Len(g)
      /\ k \notin DOMAIN h /\ \A i \in DOMAIN h : g[i] = h[i]
      /\ DOMAIN g = 1..k /\ \A i \in O : i < k
  <2>1. Grown(h, g, k, O, e) /\ k = Len(g)
    BY <1>1, <1>2, OneMore
  <2> QED
    BY <2>1 DEF Grown
<1>4. Reflected(g, k, n, s, seen[n])
  <2>1. Grown(h, g, k, seen[n], e)
    BY <1>1, <1>2, <1>3 DEF Grown
  <2> QED
    BY <2>1
<1>5. OpsOK(kind, g) /\ Represents(kind, g, s, O \cup {k})
      /\ (kind = "ORSet" => s.counter = Cardinality(Of(g, DOMAIN g, n, "add")))
  BY <1>2, <1>4 DEF Reflected
<1>6. /\ crdt'[n] = s /\ seen'[n] = O \cup {k}
      /\ \A m \in Nodes \ {n} : crdt'[m] = crdt[m] /\ seen'[m] = seen[m]
      /\ crdt' = [m \in Nodes |-> crdt'[m]] /\ seen' \in [Nodes -> SUBSET DOMAIN g]
  <2>1. crdt = [m \in Nodes |-> crdt[m]] /\ seen \in [Nodes -> SUBSET DOMAIN h]
    BY DEF CausalInv
  <2>2. crdt'[n] = s /\ crdt' = [m \in Nodes |-> crdt'[m]] /\ \A m \in Nodes \ {n} : crdt'[m] = crdt[m]
    BY <2>1
  <2>3. seen'[n] = O \cup {k} /\ \A m \in Nodes \ {n} : seen'[m] = seen[m]
    BY <1>2, <1>3, <2>1
  <2>4. O \cup {k} \subseteq DOMAIN g /\ DOMAIN h \subseteq DOMAIN g
    BY <1>3 DEF Closed
  <2>5. seen' \in [Nodes -> SUBSET DOMAIN g]
    BY <1>2, <1>3, <2>1, <2>4
  <2> QED
    BY <2>2, <2>3, <2>5
<1>7. ASSUME NEW m \in Nodes
      PROVE  /\ Closed(g, seen'[m]) /\ Represents(kind, g, crdt'[m], seen'[m])
             /\ \A i \in DOMAIN g : g[i].node = m => i \in seen'[m]
             /\ kind = "ORSet" => crdt'[m].counter = Cardinality(Of(g, DOMAIN g, m, "add"))
  <2>1. CASE m = n
    <3>1. \A i \in DOMAIN g : g[i].node = n => i \in O \cup {k}
      BY <1>1, <1>2, <1>3
    <3> QED
      BY <1>3, <1>5, <1>6, <2>1, <3>1
  <2>2. CASE m # n
    <3>1. /\ Closed(h, seen[m]) /\ Represents(kind, h, crdt[m], seen[m])
          /\ \A i \in DOMAIN h : h[i].node = m => i \in seen[m]
          /\ kind = "ORSet" => crdt[m].counter = Cardinality(Of(h, DOMAIN h, m, "add"))
      BY DEF CausalInv
    <3>2. Of(g, DOMAIN g, m, "add") = Of(h, DOMAIN h, m, "add")
      BY <1>3, <2>2 DEF Of
    <3>3. \A i \in DOMAIN g : g[i].node = m => i \in seen[m]
      BY <1>3, <2>2, <3>1
    <3>4. Closed(g, seen[m])
      BY <1>3, <3>1, ClosedGoesOn
    <3>5. Represents(kind, g, crdt[m], seen[m])
      BY <1>1, <1>3, <3>1, RepresentsGoesOn
    <3>6. crdt'[m] = crdt[m] /\ seen'[m] = seen[m]
      BY <1>6, <2>2
    <3> QED
      BY <3>1, <3>2, <3>3, <3>4, <3>5, <3>6
  <2> QED
    BY <2>1, <2>2
<1>8. ASSUME NEW m \in syncs
      PROVE  /\ m.dst \in Nodes /\ m.src # m.dst
             /\ Closed(g, m.seen) /\ Represents(kind, g, m.digest, m.seen)
  <2>1. /\ m.dst \in Nodes /\ m.src # m.dst
        /\ Closed(h, m.seen) /\ Represents(kind, h, m.digest, m.seen)
    BY DEF CausalInv
  <2>2. Closed(g, m.seen)
    BY <1>3, <2>1, ClosedGoesOn
  <2>3. Represents(kind, g, m.digest, m.seen)
    BY <1>1, <1>3, <2>1, RepresentsGoesOn
  <2> QED
    BY <2>1, <2>2, <2>3
<1>9. kind' = kind /\ ticks' = ticks /\ syncs' = syncs /\ history' = g
  OBVIOUS
<1>10. kind \in Kinds \ {"LWWMap"} /\ ticks \in [Nodes -> 0..(FullSyncEvery - 1)]
  BY DEF CausalInv
<1>11. (\A m \in Nodes :
           /\ Closed(history, seen[m]) /\ Represents(kind, history, crdt[m], seen[m])
           /\ \A i \in DOMAIN history : history[i].node = m => i \in seen[m]
           /\ kind = "ORSet" => crdt[m].counter = Cardinality(Of(history, DOMAIN history, m, "add")))'
  BY <1>7, <1>9
<1>12. (\A m \in syncs : /\ m.dst \in Nodes /\ m.src # m.dst
                         /\ Closed(history, m.seen) /\ Represents(kind, history, m.digest, m.seen))'
  BY <1>8, <1>9
<1>13. (HistoryOK(history) /\ OpsOK(kind, history))'
  BY <1>3, <1>5, <1>9
<1> QED
  BY <1>6, <1>9, <1>10, <1>11, <1>12, <1>13 DEF CausalInv

\* An operation of n keeps the invariant when the object it leaves reflects it.
LEMMA OperationStep ==
    ASSUME CausalInv, NEW n \in Nodes, NEW op, NEW arg, NEW s, Operate(n, op, arg, s),
           \A g, k, e : /\ e.node = n /\ e.op = op /\ e.arg = arg
                        /\ Grown(history, g, k, seen[n], e)
                        => Reflected(g, k, n, s, seen[n])
    PROVE  CausalInv'
<1>1. PICK list : history' = Append(history, [node |-> n, op |-> op, arg |-> arg, past |-> seen[n], list |-> list])
  BY DEF Operate, OperateOver
<1>2. PICK e : e = [node |-> n, op |-> op, arg |-> arg, past |-> seen[n], list |-> list]
  OBVIOUS
<1>3. e.node = n /\ e.op = op /\ e.arg = arg /\ e.past = seen[n]
  BY <1>2
<1>4. history' = Append(history, e)
  BY <1>1, <1>2
<1>5. PICK h : h = history
  OBVIOUS
<1>6. PICK g : g = history'
  OBVIOUS
<1>7. PICK k : k = Len(h) + 1
  OBVIOUS
<1>8. Grown(h, g, k, seen[n], e) => Reflected(g, k, n, s, seen[n])
  BY <1>3, <1>5
<1>9. /\ crdt' = [crdt EXCEPT ![n] = s] /\ seen' = [seen EXCEPT ![n] = @ \cup {Len(history')}]
      /\ UNCHANGED <<kind, lastSent, ticks, syncs>>
  BY DEF Operate, OperateOver
<1> QED
  BY <1>3, <1>4, <1>5, <1>6, <1>7, <1>8, <1>9, OperateStep

\* Counters.
LEMMA CountStep ==
    ASSUME CausalInv, NEW n \in Nodes, Count(n) \/ Decrement(n)
    PROVE  CausalInv'
<1>0. Represents(kind, history, crdt[n], seen[n]) /\ OpsOK(kind, history)
  BY DEF CausalInv
<1>1. CASE Count(n)
  <2>1. PICK s : s = [crdt[n] EXCEPT !.p = Increment(@, n, 1)]
    OBVIOUS
  <2>2. Operate(n, "increment", 1, s) /\ kind \in {"GCounter", "PNCounter"}
    BY <1>1, <2>1 DEF Count
  <2>3. ASSUME NEW g, NEW k, NEW e, e.node = n, e.op = "increment", e.arg = 1,
               Grown(history, g, k, seen[n], e)
        PROVE  Reflected(g, k, n, s, seen[n])
    <3>1. CASE kind = "GCounter"
      <4>1. Represents("GCounter", g, s, seen[n] \cup {k})
        BY <1>0, <2>1, <2>3, <3>1, CountGrown
      <4>2. OpsOK(kind, g)
        BY <1>0, <2>3, <3>1 DEF OpsOK, Grown
      <4> QED
        BY <3>1, <4>1, <4>2 DEF Reflected
    <3>2. CASE kind = "PNCounter"
      <4>1. Represents("PNCounter", g, s, seen[n] \cup {k})
        BY <1>0, <2>1, <2>3, <3>2, PairGrown
      <4>2. OpsOK(kind, g)
        BY <3>2 DEF OpsOK
      <4> QED
        BY <3>2, <4>1, <4>2 DEF Reflected
    <3> QED
      BY <2>2, <3>1, <3>2
  <2> QED
    BY <2>2, <2>3, OperationStep
<1>2. CASE Decrement(n)
  <2>1. PICK s : s = [crdt[n] EXCEPT !.n = Increment(@, n, 1)]
    OBVIOUS
  <2>2. Operate(n, "decrement", 1, s) /\ kind = "PNCounter"
    BY <1>2, <2>1 DEF Decrement
  <2>3. ASSUME NEW g, NEW k, NEW e, e.node = n, e.op = "decrement", e.arg = 1,
               Grown(history, g, k, seen[n], e)
        PROVE  Reflected(g, k, n, s, seen[n])
    <3>1. Represents("PNCounter", g, s, seen[n] \cup {k})
      BY <1>0, <2>1, <2>2, <2>3, PairGrown
    <3>2. OpsOK(kind, g)
      BY <2>2 DEF OpsOK
    <3> QED
      BY <2>2, <3>1, <3>2 DEF Reflected
  <2> QED
    BY <2>2, <2>3, OperationStep
<1> QED
  BY <1>1, <1>2

\* Sets.
LEMMA SetStep ==
    ASSUME CausalInv, NEW n \in Nodes, NEW x \in Elements, AddElement(n, x) \/ RemoveElement(n, x)
    PROVE  CausalInv'
<1>1. kind = "ORSet"
  BY DEF AddElement, RemoveElement
<1>2. /\ Represents("ORSet", history, crdt[n], seen[n]) /\ OpsOK(kind, history)
      /\ crdt[n].counter = Cardinality(Of(history, DOMAIN history, n, "add"))
  BY <1>1 DEF CausalInv
<1>3. ASSUME NEW g, NEW k, NEW e, e.arg = x, Grown(history, g, k, seen[n], e)
      PROVE  OpsOK(kind, g)
  BY <1>1, <1>2, <1>3 DEF OpsOK, Grown
<1>4. CASE AddElement(n, x)
  <2>1. PICK s : s = Add(crdt[n], n, x)
    OBVIOUS
  <2>2. Operate(n, "add", x, s)
    BY <1>4, <2>1 DEF AddElement
  <2>3. ASSUME NEW g, NEW k, NEW e, e.node = n, e.op = "add", e.arg = x, Grown(history, g, k, seen[n], e)
        PROVE  Reflected(g, k, n, s, seen[n])
    <3>1. /\ Represents("ORSet", g, s, seen[n] \cup {k})
          /\ s.counter = Cardinality(Of(g, DOMAIN g, n, "add"))
      <4>1. PICK h, O, c : h = history /\ O = seen[n] /\ c = crdt[n]
        OBVIOUS
      <4>2. Grown(h, g, k, O, e)
        BY <2>3, <4>1
      <4>3. Represents("ORSet", h, c, O)
        BY <1>2, <4>1
      <4>4. CountsAdds(h, e.node, c)
        BY <1>2, <2>3, <4>1 DEF CountsAdds
      <4>5. /\ Represents("ORSet", g, Add(c, e.node, e.arg), O \cup {k})
            /\ CountsAdds(g, e.node, Add(c, e.node, e.arg))
        BY <2>3, <4>2, <4>3, <4>4, AddGrown
      <4>6. s = Add(c, e.node, e.arg)
        BY <2>1, <2>3, <4>1
      <4> QED
        BY <2>3, <4>1, <4>5, <4>6 DEF CountsAdds
    <3> QED
      BY <1>1, <1>3, <2>3, <3>1 DEF Reflected
  <2> QED
    BY <2>2, <2>3, OperationStep
<1>5. CASE RemoveElement(n, x)
  <2>1. PICK s : s = RemoveObserved(crdt[n], x)
    OBVIOUS
  <2>2. Operate(n, "remove", x, s)
    BY <1>5, <2>1 DEF RemoveElement
  <2>3. ASSUME NEW g, NEW k, NEW e, e.node = n, e.op = "remove", e.arg = x, Grown(history, g, k, seen[n], e)
        PROVE  Reflected(g, k, n, s, seen[n])
    <3>1. /\ Represents("ORSet", g, s, seen[n] \cup {k})
          /\ s.counter = Cardinality(Of(g, DOMAIN g, n, "add"))
      <4>1. PICK h, O, c : h = history /\ O = seen[n] /\ c = crdt[n]
        OBVIOUS
      <4>2. Grown(h, g, k, O, e)
        BY <2>3, <4>1
      <4>3. Represents("ORSet", h, c, O)
        BY <1>2, <4>1
      <4>4. CountsAdds(h, e.node, c)
        BY <1>2, <2>3, <4>1 DEF CountsAdds
      <4>5. /\ Represents("ORSet", g, RemoveObserved(c, e.arg), O \cup {k})
            /\ CountsAdds(g, e.node, RemoveObserved(c, e.arg))
        BY <2>3, <4>2, <4>3, <4>4, RemoveGrown
      <4>6. s = RemoveObserved(c, e.arg)
        BY <2>1, <2>3, <4>1
      <4> QED
        BY <2>3, <4>1, <4>5, <4>6 DEF CountsAdds
    <3> QED
      BY <1>1, <1>3, <2>3, <3>1 DEF Reflected
  <2> QED
    BY <2>2, <2>3, OperationStep
<1> QED
  BY <1>4, <1>5

\* Registers.
LEMMA RegisterStep ==
    ASSUME CausalInv, NEW n \in Nodes, SetRegister(n)
    PROVE  CausalInv'
<1>1. kind = "MVRegister"
  BY DEF SetRegister
<1>2. PICK v : v = NewValue
  OBVIOUS
<1>3. PICK s : s = WriteRegister(crdt[n], n, v)
  OBVIOUS
<1>4. Operate(n, "write", v, s)
  BY <1>2, <1>3 DEF SetRegister
<1>5. ASSUME NEW g, NEW k, NEW e, e.node = n, e.op = "write", e.arg = v, Grown(history, g, k, seen[n], e)
      PROVE  Reflected(g, k, n, s, seen[n])
  <2>1. Represents("MVRegister", history, crdt[n], seen[n]) /\ OpsOK(kind, history)
    BY <1>1 DEF CausalInv
  <2>2. Represents("MVRegister", g, s, seen[n] \cup {k})
    BY <1>3, <1>5, <2>1, WriteGrown
  <2>3. OpsOK(kind, g)
    BY <1>1, <1>5, <2>1 DEF OpsOK, Grown
  <2> QED
    BY <1>1, <2>2, <2>3 DEF Reflected
<1> QED
  BY <1>4, <1>5, OperationStep

\* Sequences, of whose contents nothing is said.
LEMMA SequenceStep ==
    ASSUME CausalInv, NEW n \in Nodes, NEW i, InsertElement(n, i) \/ DeleteElement(n, i)
    PROVE  CausalInv'
<1>1. PICK op, arg, s : Operate(n, op, arg, s) /\ kind = "RGA"
  BY DEF InsertElement, DeleteElement
<1>2. \A g, k : Reflected(g, k, n, s, seen[n])
  BY <1>1 DEF Reflected, OpsOK, Represents
<1> QED
  BY <1>1, <1>2, OperationStep

\* Ticks are counted modulo full_sync_every.
LEMMA TicksStep ==
    ASSUME NEW t \in [Nodes -> 0..(FullSyncEvery - 1)], NEW n \in Nodes
    PROVE  [t EXCEPT ![n] = (@ + 1) % FullSyncEvery] \in [Nodes -> 0..(FullSyncEvery - 1)]
<1>1. FullSyncEvery \in Nat \ {0} /\ t[n] \in Nat
  BY FullSyncAssumption
<1>2. \A x \in Nat : (x + 1) % FullSyncEvery \in 0..(FullSyncEvery - 1)
  BY <1>1
<1> QED
  BY <1>1, <1>2

\* A tick, sent or not.
LEMMA TickStep ==
    ASSUME CausalInv, NEW n \in Nodes,
           StayQuiet(n) \/ \E targets \in SUBSET (Nodes \ {n}) : Sync(n, targets)
    PROVE  CausalInv'
<1>1. /\ UNCHANGED <<kind, crdt, history, seen>>
      /\ ticks' = [ticks EXCEPT ![n] = (@ + 1) % FullSyncEvery]
  BY DEF StayQuiet, Sync
<1>2. ticks' \in [Nodes -> 0..(FullSyncEvery - 1)]
  <2>1. ticks \in [Nodes -> 0..(FullSyncEvery - 1)]
    BY DEF CausalInv
  <2> QED
    BY <1>1, <2>1, TicksStep
<1>3. ASSUME NEW m \in syncs'
      PROVE  /\ m.dst \in Nodes /\ m.src # m.dst
             /\ Closed(history, m.seen) /\ Represents(kind, history, m.digest, m.seen)
  <2>1. CASE m \in syncs
    BY <2>1 DEF CausalInv
  <2>2. CASE m \notin syncs
    <3>1. PICK targets \in SUBSET (Nodes \ {n}) :
             m \in [src : {n}, dst : targets, digest : {DigestOf(kind, crdt[n])}, seen : {seen[n]}]
      BY <1>3, <2>2 DEF Sync, StayQuiet
    <3>2. m.src = n /\ m.dst \in Nodes \ {n} /\ m.digest = DigestOf(kind, crdt[n]) /\ m.seen = seen[n]
      BY <3>1
    <3>3. Closed(history, seen[n]) /\ Represents(kind, history, crdt[n], seen[n])
      BY DEF CausalInv
    <3>4. Represents(kind, history, DigestOf(kind, crdt[n]), seen[n])
      BY <3>3, RepresentsDigest
    <3> QED
      BY <3>2, <3>3, <3>4
  <2> QED
    BY <2>1, <2>2
<1> QED
  BY <1>1, <1>2, <1>3 DEF CausalInv

\* A digest arrives.
LEMMA OnSyncStep ==
    ASSUME CausalInv, NEW m \in syncs, OnSync(m)
    PROVE  CausalInv'
<1>1. /\ UNCHANGED <<kind, lastSent, ticks, history>> /\ syncs' = syncs \ {m}
      /\ crdt' = [crdt EXCEPT ![m.dst] = Merge(kind, @, m.digest)]
      /\ seen' = [seen EXCEPT ![m.dst] = @ \cup m.seen]
  BY DEF OnSync
<1>2. /\ m.dst \in Nodes /\ Closed(history, m.seen) /\ Represents(kind, history, m.digest, m.seen)
      /\ crdt = [n \in Nodes |-> crdt[n]] /\ seen \in [Nodes -> SUBSET DOMAIN history]
      /\ kind \in Kinds /\ HistoryOK(history) /\ OpsOK(kind, history)
  BY DEF CausalInv
<1>3. PICK d \in Nodes : d = m.dst
  BY <1>2
<1>4. /\ Closed(history, seen[d]) /\ Represents(kind, history, crdt[d], seen[d])
      /\ \A i \in DOMAIN history : history[i].node = d => i \in seen[d]
      /\ kind = "ORSet" => CountsAdds(history, d, crdt[d])
  BY DEF CausalInv, CountsAdds
<1>5. /\ crdt'[d] = Merge(kind, crdt[d], m.digest) /\ \A n \in Nodes \ {d} : crdt'[n] = crdt[n]
      /\ crdt' = [n \in Nodes |-> crdt'[n]]
  BY <1>1, <1>2, <1>3
<1>6. /\ seen'[d] = seen[d] \cup m.seen /\ \A n \in Nodes \ {d} : seen'[n] = seen[n]
      /\ seen' \in [Nodes -> SUBSET DOMAIN history]
  BY <1>1, <1>2, <1>3 DEF Closed
<1>7. Closed(history, seen'[d])
  BY <1>2, <1>4, <1>6, ClosedUnion
<1>8. Represents(kind, history, crdt'[d], seen'[d])
  <2>1. PICK s, A, B, k, h : s = crdt[d] /\ A = seen[d] /\ B = m.seen /\ k = kind /\ h = history
    OBVIOUS
  <2>2. Represents(k, h, Merge(k, s, m.digest), A \cup B)
    BY <1>2, <1>4, <2>1, RepresentsMerge
  <2> QED
    BY <1>5, <1>6, <2>1, <2>2
<1>9. kind = "ORSet" => CountsAdds(history, d, crdt'[d])
  <2> SUFFICES ASSUME kind = "ORSet" PROVE CountsAdds(history, d, crdt'[d])
    OBVIOUS
  <2>1. crdt[d] = [adds |-> Tagged(history, seen[d]), removed |-> Gone(history, seen[d]), counter |-> crdt[d].counter]
    BY <1>4 DEF Represents
  <2>2. PICK s, a, x, c : s = crdt[d] /\ a = Tagged(history, seen[d]) /\ x = Gone(history, seen[d]) /\ c = crdt[d].counter
    OBVIOUS
  <2>3. s = [adds |-> a, removed |-> x, counter |-> c]
    BY <2>1, <2>2, Zenon
  <2>4. PICK b, y : b = s.adds \cup m.digest.adds /\ y = s.removed \cup m.digest.removed
    OBVIOUS
  <2>5. crdt'[d] = [s EXCEPT !.adds = b, !.removed = y]
    BY <1>5, <2>2, <2>4 DEF Merge, JoinSets
  <2>6. crdt'[d] = [adds |-> b, removed |-> y, counter |-> c]
    BY <2>3, <2>5, TagsUpdated
  <2>7. crdt'[d].counter = c
    BY <2>6
  <2> QED
    BY <1>4, <2>2, <2>7 DEF CountsAdds
<1>10. ASSUME NEW n \in Nodes
       PROVE  /\ Closed(history, seen'[n]) /\ Represents(kind, history, crdt'[n], seen'[n])
              /\ \A i \in DOMAIN history : history[i].node = n => i \in seen'[n]
              /\ kind = "ORSet" => CountsAdds(history, n, crdt'[n])
  <2>1. CASE n = d
    BY <1>4, <1>6, <1>7, <1>8, <1>9, <2>1
  <2>2. CASE n # d
    <3>1. crdt'[n] = crdt[n] /\ seen'[n] = seen[n]
      BY <1>5, <1>6, <2>2
    <3> QED
      BY <3>1 DEF CausalInv, CountsAdds
  <2> QED
    BY <2>1, <2>2
<1>11. (\A n \in Nodes :
           /\ Closed(history, seen[n]) /\ Represents(kind, history, crdt[n], seen[n])
           /\ \A i \in DOMAIN history : history[i].node = n => i \in seen[n]
           /\ kind = "ORSet" => crdt[n].counter = Cardinality(Of(history, DOMAIN history, n, "add")))'
  BY <1>1, <1>10 DEF CountsAdds
<1>12. (\A x \in syncs : /\ x.dst \in Nodes /\ x.src # x.dst
                         /\ Closed(history, x.seen) /\ Represents(kind, history, x.digest, x.seen))'
  BY <1>1 DEF CausalInv
<1>13. (HistoryOK(history) /\ OpsOK(kind, history) /\ kind \in Kinds \ {"LWWMap"} /\ ticks \in [Nodes -> 0..(FullSyncEvery - 1)])'
  BY <1>1 DEF CausalInv
<1> QED
  BY <1>1, <1>5, <1>6, <1>11, <1>12, <1>13 DEF CausalInv

-----------------------------------------------------------------------------
(* Maps in the replicator *)

\* Of an LWWMap, whose set may hide newer entries, each replica has the newest of
\* the entries that it reflects, and each message the newest of the sender's.
MapInv ==
    /\ kind = "LWWMap" /\ ticks \in [Nodes -> 0..(FullSyncEvery - 1)]
    /\ StampsOK(history)
    /\ crdt = [n \in Nodes |-> crdt[n]] /\ seen \in [Nodes -> SUBSET DOMAIN history]
    /\ \A n \in Nodes : NewestEntry(history, seen[n], crdt[n].entry)
    /\ \A m \in syncs :
          /\ m.dst \in Nodes /\ m.src # m.dst
          /\ m.seen \subseteq DOMAIN history /\ NewestEntry(history, m.seen, m.digest.entry)

\* Later operations do not change which entry is the newest.
LEMMA NewestGoesOn ==
    ASSUME NEW h, NEW g, GoesOn(h, g), NEW O, O \subseteq DOMAIN h, NEW e, NewestEntry(h, O, e)
    PROVE  NewestEntry(g, O, e)
<1>1. \A i \in O : g[i] = h[i]
  BY DEF GoesOn
<1> QED
  BY <1>1 DEF NewestEntry, Newest

\* set, whatever the stamps of the entries it replaces.
LEMMA MapStep ==
    ASSUME MapInv, NEW n \in Nodes, NEW ts \in 1..MaxClock, SetEntry(n, ts)
    PROVE  MapInv'
<1>1. kind = "LWWMap" /\ \A i \in DOMAIN history : history[i].node = n => history[i].arg.ts < ts
  BY DEF SetEntry
<1>2. PICK h : h = history
  OBVIOUS
<1>3. PICK entry : entry = [value |-> NewValue, ts |-> ts, origin |-> n]
  OBVIOUS
<1>4. PICK older : older = {i \in seen[n] : NewerThan(entry, h[i].arg)}
  OBVIOUS
<1>5. PICK s : s = [entry |-> entry]
  OBVIOUS
<1>6. OperateOver(n, older, "set", entry, s)
  BY <1>2, <1>3, <1>4, <1>5 DEF SetEntry
<1>7. PICK list : history' = Append(h, [node |-> n, op |-> "set", arg |-> entry, past |-> seen[n], list |-> list])
  BY <1>2, <1>6 DEF OperateOver
<1>8. PICK e : e = [node |-> n, op |-> "set", arg |-> entry, past |-> seen[n], list |-> list]
  OBVIOUS
<1>9. PICK g : g = history' /\ g = Append(h, e)
  BY <1>7, <1>8
<1>10. PICK k : k = Len(h) + 1
  OBVIOUS
<1>11. /\ IsSeq(g) /\ Len(h) \in Nat /\ DOMAIN h = 1..Len(h) /\ DOMAIN g = 1..k
       /\ \A i \in DOMAIN h : g[i] = h[i]
       /\ g[k] = e /\ Len(g) = k
  <2>1. IsSeq(h)
    BY <1>2 DEF MapInv, StampsOK
  <2> QED
    BY <1>9, <1>10, <2>1, AppendFacts
<1>12. DOMAIN g = DOMAIN h \cup {k} /\ k \notin DOMAIN h /\ GoesOn(h, g)
  BY <1>10, <1>11 DEF GoesOn
<1>13. entry \in MapEntry /\ entry.origin = n /\ entry.ts = ts /\ e.arg = entry /\ e.node = n
  <2>1. NewValue \in Nat /\ ts \in Nat
    BY <1>2, <1>11, FullSyncAssumption DEF NewValue
  <2> QED
    BY <1>3, <1>8, <2>1 DEF MapEntry
<1>14. StampsOK(g)
  <2>0. StampsOK(h) /\ \A i \in DOMAIN h : h[i].node = n => h[i].arg.ts < ts
    BY <1>1, <1>2 DEF MapInv
  <2>1. \A i \in DOMAIN g : g[i].arg \in MapEntry /\ g[i].arg.origin = g[i].node
    BY <1>11, <1>12, <1>13, <2>0 DEF StampsOK
  <2>2. ASSUME NEW i \in DOMAIN g, NEW j \in DOMAIN g, g[i].node = g[j].node, i # j
        PROVE  g[i].arg.ts # g[j].arg.ts
    <3>0. \A x \in DOMAIN h : h[x].arg.ts \in Nat
      BY <2>0 DEF StampsOK, MapEntry
    <3>1. CASE i \in DOMAIN h /\ j \in DOMAIN h
      BY <1>11, <2>0, <2>2, <3>1 DEF StampsOK
    <3>2. CASE i = k /\ j \in DOMAIN h
      BY <1>11, <1>13, <2>0, <2>2, <3>0, <3>2
    <3>3. CASE j = k /\ i \in DOMAIN h
      BY <1>11, <1>13, <2>0, <2>2, <3>0, <3>3
    <3> QED
      BY <1>12, <2>2, <3>1, <3>2, <3>3
  <2> QED
    BY <1>11, <2>1, <2>2 DEF StampsOK
<1>15. /\ crdt = [m \in Nodes |-> crdt[m]] /\ seen \in [Nodes -> SUBSET DOMAIN h]
       /\ \A m \in Nodes : NewestEntry(h, seen[m], crdt[m].entry)
  BY <1>2 DEF MapInv
<1>16. /\ crdt' = [crdt EXCEPT ![n] = s] /\ seen' = [seen EXCEPT ![n] = older \cup {k}]
       /\ UNCHANGED <<kind, ticks, syncs>>
  BY <1>6, <1>9, <1>11 DEF OperateOver
<1>17. /\ crdt'[n] = s /\ seen'[n] = older \cup {k}
       /\ \A m \in Nodes \ {n} : crdt'[m] = crdt[m] /\ seen'[m] = seen[m]
       /\ crdt' = [m \in Nodes |-> crdt'[m]]
  BY <1>15, <1>16
<1>18. older \subseteq DOMAIN h
  BY <1>4, <1>15
<1>19. seen' \in [Nodes -> SUBSET DOMAIN g]
  BY <1>12, <1>15, <1>16, <1>18
<1>20. ASSUME NEW m \in Nodes PROVE NewestEntry(g, seen'[m], crdt'[m].entry)
  <2>1. CASE m = n
    <3>1. \A j \in older : NewerThan(g[k].arg, g[j].arg)
      BY <1>4, <1>11, <1>13, <1>18
    <3>2. k \in older \cup {k} /\ Newest(g, older \cup {k}, k) /\ g[k].arg = entry
      BY <1>11, <1>13, <3>1 DEF Newest
    <3>3. NewestEntry(g, older \cup {k}, entry)
      BY <3>2 DEF NewestEntry
    <3>4. s.entry = entry
      BY <1>5
    <3> QED
      BY <1>17, <2>1, <3>3, <3>4
  <2>2. CASE m # n
    <3>1. seen[m] \subseteq DOMAIN h /\ NewestEntry(h, seen[m], crdt[m].entry)
      BY <1>15
    <3>2. NewestEntry(g, seen[m], crdt[m].entry)
      BY <1>12, <3>1, NewestGoesOn
    <3> QED
      BY <1>17, <2>2, <3>2
  <2> QED
    BY <2>1, <2>2
<1>21. ASSUME NEW m \in syncs'
       PROVE  /\ m.dst \in Nodes /\ m.src # m.dst
              /\ m.seen \subseteq DOMAIN g /\ NewestEntry(g, m.seen, m.digest.entry)
  <2>1. /\ m.dst \in Nodes /\ m.src # m.dst
        /\ m.seen \subseteq DOMAIN h /\ NewestEntry(h, m.seen, m.digest.entry)
    BY <1>2, <1>16 DEF MapInv
  <2>2. NewestEntry(g, m.seen, m.digest.entry)
    BY <1>12, <2>1, NewestGoesOn
  <2> QED
    BY <1>12, <2>1, <2>2
<1>22. kind' = "LWWMap" /\ ticks' \in [Nodes -> 0..(FullSyncEvery - 1)]
  BY <1>1, <1>16 DEF MapInv
<1> QED
  BY <1>9, <1>14, <1>17, <1>19, <1>20, <1>21, <1>22 DEF MapInv

\* A tick of a map, sent or not.
LEMMA MapTickStep ==
    ASSUME MapInv, NEW n \in Nodes,
           StayQuiet(n) \/ \E targets \in SUBSET (Nodes \ {n}) : Sync(n, targets)
    PROVE  MapInv'
<1>1. /\ UNCHANGED <<kind, crdt, history, seen>>
      /\ ticks' = [ticks EXCEPT ![n] = (@ + 1) % FullSyncEvery]
  BY DEF StayQuiet, Sync
<1>2. ticks' \in [Nodes -> 0..(FullSyncEvery - 1)]
  <2>1. ticks \in [Nodes -> 0..(FullSyncEvery - 1)]
    BY DEF MapInv
  <2> QED
    BY <1>1, <2>1, TicksStep
<1>3. ASSUME NEW m \in syncs'
      PROVE  /\ m.dst \in Nodes /\ m.src # m.dst
             /\ m.seen \subseteq DOMAIN history /\ NewestEntry(history, m.seen, m.digest.entry)
  <2>1. CASE m \in syncs
    BY <2>1 DEF MapInv
  <2>2. CASE m \notin syncs
    <3>1. PICK targets \in SUBSET (Nodes \ {n}) :
             m \in [src : {n}, dst : targets, digest : {DigestOf(kind, crdt[n])}, seen : {seen[n]}]
      BY <1>3, <2>2 DEF Sync, StayQuiet
    <3>2. m.src = n /\ m.dst \in Nodes \ {n} /\ m.digest = DigestOf(kind, crdt[n]) /\ m.seen = seen[n]
      BY <3>1
    <3>3. DigestOf(kind, crdt[n]) = crdt[n]
      BY DEF DigestOf, MapInv
    <3>4. seen[n] \subseteq DOMAIN history /\ NewestEntry(history, seen[n], crdt[n].entry)
      BY DEF MapInv
    <3> QED
      BY <3>2, <3>3, <3>4
  <2> QED
    BY <2>1, <2>2
<1> QED
  BY <1>1, <1>2, <1>3 DEF MapInv

\* The digest of a map arrives.
LEMMA MapSyncStep ==
    ASSUME MapInv, NEW m \in syncs, OnSync(m)
    PROVE  MapInv'
<1>1. /\ UNCHANGED <<kind, lastSent, ticks, history>> /\ syncs' = syncs \ {m}
      /\ crdt' = [crdt EXCEPT ![m.dst] = JoinMaps(@, m.digest)]
      /\ seen' = [seen EXCEPT ![m.dst] = @ \cup m.seen]
  BY DEF OnSync, Merge, MapInv
<1>2. /\ m.dst \in Nodes /\ m.seen \subseteq DOMAIN history /\ NewestEntry(history, m.seen, m.digest.entry)
      /\ crdt = [n \in Nodes |-> crdt[n]] /\ seen \in [Nodes -> SUBSET DOMAIN history]
      /\ StampsOK(history) /\ \A n \in Nodes : NewestEntry(history, seen[n], crdt[n].entry)
  BY DEF MapInv
<1>3. PICK d \in Nodes : d = m.dst
  BY <1>2
<1>4. /\ crdt'[d] = JoinMaps(crdt[d], m.digest) /\ \A n \in Nodes \ {d} : crdt'[n] = crdt[n]
      /\ crdt' = [n \in Nodes |-> crdt'[n]]
  BY <1>1, <1>2, <1>3
<1>5. /\ seen'[d] = seen[d] \cup m.seen /\ \A n \in Nodes \ {d} : seen'[n] = seen[n]
      /\ seen' \in [Nodes -> SUBSET DOMAIN history]
  BY <1>1, <1>2, <1>3
<1>6. NewestEntry(history, seen'[d], crdt'[d].entry)
  <2>1. PICK h, s, t, A, B : h = history /\ s = crdt[d] /\ t = m.digest /\ A = seen[d] /\ B = m.seen
    OBVIOUS
  <2>2. /\ StampsOK(h) /\ A \subseteq DOMAIN h /\ B \subseteq DOMAIN h /\ None \notin MapEntry
        /\ NewestEntry(h, A, s.entry) /\ NewestEntry(h, B, t.entry)
    BY <1>2, <2>1, NoneAssumption
  <2>3. NewestEntry(h, A \cup B, JoinMaps(s, t).entry)
    BY <2>2, NewestJoin
  <2> QED
    BY <1>4, <1>5, <2>1, <2>3
<1>7. \A n \in Nodes : NewestEntry(history, seen'[n], crdt'[n].entry)
  BY <1>2, <1>4, <1>5, <1>6
<1>8. \A x \in syncs' : /\ x.dst \in Nodes /\ x.src # x.dst
                        /\ x.seen \subseteq DOMAIN history /\ NewestEntry(history, x.seen, x.digest.entry)
  BY <1>1 DEF MapInv
<1>9. (kind = "LWWMap" /\ ticks \in [Nodes -> 0..(FullSyncEvery - 1)] /\ StampsOK(history))'
  BY <1>1 DEF MapInv
<1> QED
  BY <1>1, <1>4, <1>5, <1>7, <1>8, <1>9 DEF MapInv

\* A map reads as the newest of the entries that it reflects.
LEMMA MapReads ==
    ASSUME MapInv, NEW n \in Nodes
    PROVE  Read(kind, crdt[n]) = Meaning(seen[n])
<1>0. PICK O, s : O = seen[n] /\ s = crdt[n]
  OBVIOUS
<1>1. kind = "LWWMap" /\ NewestEntry(history, O, s.entry) /\ StampsOK(history) /\ O \subseteq DOMAIN history
  BY <1>0 DEF MapInv
<1>2. Read(kind, s) = IF s.entry = None THEN None ELSE s.entry.value
  BY <1>1 DEF Read
<1>3. CASE O = {}
  BY <1>0, <1>1, <1>2, <1>3 DEF NewestEntry, Meaning
<1>4. CASE O # {}
  <2>1. PICK i \in O : Newest(history, O, i) /\ s.entry = history[i].arg
    BY <1>1, <1>4 DEF NewestEntry
  <2>2. PICK last : last = CHOOSE x \in O : \A j \in O \ {x} : NewerThan(history[x].arg, history[j].arg)
    OBVIOUS
  <2>3. Newest(history, O, last)
    BY <2>1, <2>2 DEF Newest
  <2>4. last = i
    BY <1>1, <2>1, <2>3, NewestUnique
  <2>5. Meaning(O) = history[last].arg.value
    BY <1>1, <1>4, <2>2 DEF Meaning
  <2>6. s.entry # None
    BY <1>1, <2>1, NoneAssumption DEF StampsOK
  <2> QED
    BY <1>0, <1>2, <2>1, <2>4, <2>5, <2>6
<1> QED
  BY <1>3, <1>4

-----------------------------------------------------------------------------
(* The shape of objects and digests *)

\* What the types but RGA are made of, in replicas, digests and _last_sent.
ShapeInv ==
    /\ kind \in Kinds /\ IsSeq(history)
    /\ kind # "RGA" => /\ crdt \in [Nodes -> State(kind)]
                       /\ lastSent \in [Nodes -> State(kind) \cup {None}]
                       /\ \A m \in syncs : m.dst \in Nodes /\ m.digest \in State(kind)

\* The kinds whose shape is known.
Plain == Kinds \ {"RGA"}

\* A fresh object has its shape.
LEMMA FreshShape == \A k \in Plain : Fresh(k) \in State(k)
<1>1. Zero \in [Nodes -> Nat]
  BY DEF Zero
<1> QED
  BY <1>1 DEF Plain, Kinds, Fresh, State

\* merge keeps the shape.
LEMMA MergeShape ==
    ASSUME NEW k \in Plain, NEW s \in State(k), NEW d \in State(k)
    PROVE  Merge(k, s, d) \in State(k)
<1>0. ASSUME NEW a \in [Nodes -> Nat], NEW b \in [Nodes -> Nat] PROVE JoinCounts(a, b) \in [Nodes -> Nat]
  BY DEF JoinCounts
<1>1. CASE k = "GCounter"
  <2>1. s.p \in [Nodes -> Nat] /\ d.p \in [Nodes -> Nat]
    BY <1>1 DEF State
  <2>2. Merge(k, s, d) = [p |-> JoinCounts(s.p, d.p)]
    BY <1>1 DEF Merge
  <2> QED
    BY <1>0, <1>1, <2>1, <2>2 DEF State
<1>2. CASE k = "PNCounter"
  <2>1. s.p \in [Nodes -> Nat] /\ d.p \in [Nodes -> Nat] /\ s.n \in [Nodes -> Nat] /\ d.n \in [Nodes -> Nat]
    BY <1>2 DEF State
  <2>2. Merge(k, s, d) = [p |-> JoinCounts(s.p, d.p), n |-> JoinCounts(s.n, d.n)]
    BY <1>2 DEF Merge, JoinPairs
  <2> QED
    BY <1>0, <1>2, <2>1, <2>2 DEF State
<1>3. CASE k = "ORSet"
  <2>1. /\ s.adds \subseteq Elements \X AddTag /\ d.adds \subseteq Elements \X AddTag
        /\ s.removed \subseteq AddTag /\ d.removed \subseteq AddTag /\ s.counter \in Nat
        /\ s = [adds |-> s.adds, removed |-> s.removed, counter |-> s.counter]
    BY <1>3 DEF State
  <2>2. PICK b, y, c : b = s.adds \cup d.adds /\ y = s.removed \cup d.removed /\ c = s.counter
    OBVIOUS
  <2>3. Merge(k, s, d) = [s EXCEPT !.adds = b, !.removed = y]
    BY <1>3, <2>2 DEF Merge, JoinSets
  <2>4. Merge(k, s, d) = [adds |-> b, removed |-> y, counter |-> c]
    BY <2>1, <2>2, <2>3, TagsUpdated
  <2>5. b \in SUBSET (Elements \X AddTag) /\ y \in SUBSET AddTag /\ c \in Nat
    BY <2>1, <2>2
  <2> QED
    BY <1>3, <2>4, <2>5 DEF State
<1>4. CASE k = "LWWMap"
  BY <1>4 DEF Merge, JoinMaps
<1>5. CASE k = "MVRegister"
  <2>1. /\ s.versions \subseteq RegisterVersion /\ d.versions \subseteq RegisterVersion
        /\ s.vc \in [Nodes -> Nat] /\ d.vc \in [Nodes -> Nat]
    BY <1>5 DEF State
  <2>2. PICK W, c : W = Undominated(s.versions \cup d.versions) /\ c = JoinCounts(s.vc, d.vc)
    OBVIOUS
  <2>3. Merge(k, s, d) = [versions |-> W, vc |-> c]
    BY <1>5, <2>2 DEF Merge, JoinRegisters
  <2>4. W \in SUBSET RegisterVersion
    BY <2>1, <2>2 DEF Undominated
  <2>5. c \in [Nodes -> Nat]
    BY <1>0, <2>1, <2>2
  <2> QED
    BY <1>5, <2>3, <2>4, <2>5 DEF State
<1> QED
  BY <1>1, <1>2, <1>3, <1>4, <1>5 DEF Plain, Kinds

\* So does digest.
LEMMA DigestShape ==
    ASSUME NEW k \in Plain, NEW s \in State(k)
    PROVE  DigestOf(k, s) \in State(k)
<1>1. CASE k = "ORSet"
  <2>1. /\ s.adds \in SUBSET (Elements \X AddTag) /\ s.removed \in SUBSET AddTag
        /\ s = [adds |-> s.adds, removed |-> s.removed, counter |-> s.counter]
    BY <1>1 DEF State
  <2>2. DigestOf(k, s) = [s EXCEPT !.counter = 0]
    BY <1>1 DEF DigestOf
  <2>3. DigestOf(k, s) = [adds |-> s.adds, removed |-> s.removed, counter |-> 0]
    BY <2>1, <2>2
  <2> QED
    BY <1>1, <2>1, <2>3 DEF State
<1>2. CASE k # "ORSet"
  BY <1>2 DEF DigestOf, Plain
<1> QED
  BY <1>1, <1>2

\* An operation that leaves an object of the right shape.
LEMMA ShapeOperation ==
    ASSUME ShapeInv, NEW n \in Nodes, NEW O, NEW op, NEW arg, NEW s, OperateOver(n, O, op, arg, s),
           kind # "RGA" => s \in State(kind)
    PROVE  ShapeInv'
<1>1. PICK e : history' = Append(history, e)
  BY DEF OperateOver
<1>2. IsSeq(history')
  BY <1>1, AppendFacts DEF ShapeInv
<1>3. crdt' = [crdt EXCEPT ![n] = s] /\ UNCHANGED <<kind, lastSent, syncs>>
  BY DEF OperateOver
<1>4. ASSUME kind # "RGA" PROVE crdt' \in [Nodes -> State(kind)]
  BY <1>3, <1>4 DEF ShapeInv
<1> QED
  BY <1>2, <1>3, <1>4 DEF ShapeInv

\* Every step keeps the shapes.
LEMMA ShapeStep == ShapeInv /\ NextReplicator => ShapeInv'
<1> SUFFICES ASSUME ShapeInv, NextReplicator PROVE ShapeInv'
  OBVIOUS
<1>0. Len(history) \in Nat /\ NewValue \in Nat
  BY AppendFacts DEF ShapeInv, NewValue
<1>1. ASSUME NEW n \in Nodes, Count(n) PROVE ShapeInv'
  <2>1. PICK s, c : s = crdt[n] /\ c = Increment(s.p, n, 1)
    OBVIOUS
  <2>2. kind \in {"GCounter", "PNCounter"} /\ s \in State(kind)
    BY <1>1, <2>1 DEF Count, ShapeInv
  <2>3. s.p \in [Nodes -> Nat]
    BY <2>2 DEF State
  <2>4. c \in [Nodes -> Nat]
    BY <2>1, <2>3 DEF Increment
  <2>5. [s EXCEPT !.p = c] \in State(kind)
    <3>1. CASE kind = "GCounter"
      BY <2>2, <2>4, <3>1 DEF State
    <3>2. CASE kind = "PNCounter"
      BY <2>2, <2>4, <3>2 DEF State
    <3> QED
      BY <2>2, <3>1, <3>2
  <2>6. OperateOver(n, seen[n], "increment", 1, [s EXCEPT !.p = c])
    BY <1>1, <2>1 DEF Count, Operate
  <2> QED
    BY <2>5, <2>6, ShapeOperation
<1>2. ASSUME NEW n \in Nodes, Decrement(n) PROVE ShapeInv'
  <2>1. PICK s, c : s = crdt[n] /\ c = Increment(s.n, n, 1)
    OBVIOUS
  <2>2. kind = "PNCounter" /\ s \in State(kind)
    BY <1>2, <2>1 DEF Decrement, ShapeInv
  <2>3. s.n \in [Nodes -> Nat]
    BY <2>2 DEF State
  <2>4. c \in [Nodes -> Nat]
    BY <2>1, <2>3 DEF Increment
  <2>5. [s EXCEPT !.n = c] \in State(kind)
    BY <2>2, <2>4 DEF State
  <2>6. OperateOver(n, seen[n], "decrement", 1, [s EXCEPT !.n = c])
    BY <1>2, <2>1 DEF Decrement, Operate
  <2> QED
    BY <2>5, <2>6, ShapeOperation
<1>3. ASSUME NEW n \in Nodes, NEW x \in Elements, AddElement(n, x) PROVE ShapeInv'
  <2>1. PICK s : s = crdt[n]
    OBVIOUS
  <2>2. kind = "ORSet" /\ s \in State(kind)
    BY <1>3, <2>1 DEF AddElement, ShapeInv
  <2>3. /\ s.adds \in SUBSET (Elements \X AddTag) /\ s.removed \in SUBSET AddTag /\ s.counter \in Nat
        /\ s = [adds |-> s.adds, removed |-> s.removed, counter |-> s.counter]
    BY <2>2 DEF State
  <2>4. PICK c, a : c = s.counter + 1 /\ a = s.adds \cup {<<x, <<n, s.counter + 1>>>>}
    OBVIOUS
  <2>5. Add(s, n, x) = [adds |-> a, removed |-> s.removed, counter |-> c]
    <3>1. PICK b, y, m : b = s.adds /\ y = s.removed /\ m = s.counter
      OBVIOUS
    <3>2. s = [adds |-> b, removed |-> y, counter |-> m]
      BY <2>3, <3>1, Zenon
    <3>3. Add(s, n, x) = [s EXCEPT !.counter = c, !.adds = a]
      BY <2>3, <2>4 DEF Add
    <3>4. Add(s, n, x) = [adds |-> a, removed |-> y, counter |-> c]
      BY <3>2, <3>3, AddsUpdated
    <3> QED
      BY <3>1, <3>4
  <2>6. a \in SUBSET (Elements \X AddTag) /\ c \in Nat
    BY <2>3, <2>4 DEF AddTag
  <2>7. Add(s, n, x) \in State(kind)
    BY <2>2, <2>3, <2>5, <2>6 DEF State
  <2>8. OperateOver(n, seen[n], "add", x, Add(s, n, x))
    BY <1>3, <2>1 DEF AddElement, Operate
  <2> QED
    BY <2>7, <2>8, ShapeOperation
<1>4. ASSUME NEW n \in Nodes, NEW x \in Elements, RemoveElement(n, x) PROVE ShapeInv'
  <2>1. PICK s : s = crdt[n]
    OBVIOUS
  <2>2. kind = "ORSet" /\ s \in State(kind)
    BY <1>4, <2>1 DEF RemoveElement, ShapeInv
  <2>3. /\ s.adds \in SUBSET (Elements \X AddTag) /\ s.removed \in SUBSET AddTag /\ s.counter \in Nat
        /\ s = [adds |-> s.adds, removed |-> s.removed, counter |-> s.counter]
    BY <2>2 DEF State
  <2>4. PICK y : y = s.removed \cup {a[2] : a \in {b \in s.adds : b[1] = x}}
    OBVIOUS
  <2>5. RemoveObserved(s, x) = [s EXCEPT !.removed = y]
    BY <2>4 DEF RemoveObserved
  <2>6. RemoveObserved(s, x) = [adds |-> s.adds, removed |-> y, counter |-> s.counter]
    BY <2>3, <2>5
  <2>7. y \in SUBSET AddTag
    <3>1. \A a \in s.adds : a[2] \in AddTag
      BY <2>3
    <3> QED
      BY <2>3, <2>4, <3>1
  <2>8. RemoveObserved(s, x) \in State(kind)
    BY <2>2, <2>3, <2>6, <2>7 DEF State
  <2>9. OperateOver(n, seen[n], "remove", x, RemoveObserved(s, x))
    BY <1>4, <2>1 DEF RemoveElement, Operate
  <2> QED
    BY <2>8, <2>9, ShapeOperation
<1>5. ASSUME NEW n \in Nodes, NEW ts \in 1..MaxClock, SetEntry(n, ts) PROVE ShapeInv'
  <2>1. PICK entry : entry = [value |-> NewValue, ts |-> ts, origin |-> n]
    OBVIOUS
  <2>2. entry \in MapEntry
    BY <1>0, <2>1, FullSyncAssumption DEF MapEntry
  <2>3. kind = "LWWMap"
    BY <1>5 DEF SetEntry
  <2>4. [entry |-> entry] \in State(kind)
    BY <2>2, <2>3 DEF State
  <2>5. PICK older : OperateOver(n, older, "set", entry, [entry |-> entry])
    BY <1>5, <2>1 DEF SetEntry
  <2> QED
    BY <2>4, <2>5, ShapeOperation
<1>6. ASSUME NEW n \in Nodes, SetRegister(n) PROVE ShapeInv'
  <2>1. PICK s, v, c : s = crdt[n] /\ v = NewValue /\ c = Increment(s.vc, n, 1)
    OBVIOUS
  <2>2. kind = "MVRegister" /\ s \in State(kind)
    BY <1>6, <2>1 DEF SetRegister, ShapeInv
  <2>3. s.vc \in [Nodes -> Nat]
    BY <2>2 DEF State
  <2>4. c \in [Nodes -> Nat] /\ v \in Nat
    BY <1>0, <2>1, <2>3 DEF Increment
  <2>5. WriteRegister(s, n, v) = [versions |-> {[value |-> v, vc |-> c]}, vc |-> c]
    BY <2>1 DEF WriteRegister
  <2>6. {[value |-> v, vc |-> c]} \in SUBSET RegisterVersion
    BY <2>4 DEF RegisterVersion
  <2>7. WriteRegister(s, n, v) \in State(kind)
    BY <2>2, <2>4, <2>5, <2>6 DEF State
  <2>8. OperateOver(n, seen[n], "write", v, WriteRegister(s, n, v))
    BY <1>6, <2>1 DEF SetRegister, Operate
  <2> QED
    BY <2>7, <2>8, ShapeOperation
<1>7. ASSUME NEW n \in Nodes, NEW i, InsertElement(n, i) \/ DeleteElement(n, i) PROVE ShapeInv'
  <2>1. PICK op, arg, s : OperateOver(n, seen[n], op, arg, s) /\ kind = "RGA"
    BY <1>7 DEF InsertElement, DeleteElement, Operate
  <2> QED
    BY <2>1, ShapeOperation
<1>8. ASSUME NEW n \in Nodes, StayQuiet(n) PROVE ShapeInv'
  BY <1>8 DEF StayQuiet, ShapeInv
<1>9. ASSUME NEW n \in Nodes, NEW targets \in SUBSET (Nodes \ {n}), Sync(n, targets) PROVE ShapeInv'
  <2>1. PICK d : d = DigestOf(kind, crdt[n])
    OBVIOUS
  <2>2. ASSUME kind # "RGA" PROVE d \in State(kind)
    BY <2>1, <2>2, DigestShape DEF ShapeInv, Plain
  <2>3. /\ UNCHANGED <<kind, crdt, history>> /\ lastSent' = [lastSent EXCEPT ![n] = d]
        /\ syncs' = syncs \cup [src : {n}, dst : targets, digest : {d}, seen : {seen[n]}]
    BY <1>9, <2>1 DEF Sync
  <2>4. ASSUME kind # "RGA" PROVE lastSent' \in [Nodes -> State(kind) \cup {None}]
    BY <2>2, <2>3, <2>4 DEF ShapeInv
  <2>5. ASSUME kind # "RGA", NEW m \in syncs' PROVE m.dst \in Nodes /\ m.digest \in State(kind)
    BY <2>2, <2>3, <2>5 DEF ShapeInv
  <2> QED
    BY <2>3, <2>4, <2>5 DEF ShapeInv
<1>10. ASSUME NEW m \in syncs, OnSync(m) PROVE ShapeInv'
  <2>1. PICK d, s : d = m.dst /\ s = Merge(kind, crdt[m.dst], m.digest)
    OBVIOUS
  <2>2. ASSUME kind # "RGA" PROVE d \in Nodes /\ s \in State(kind)
    BY <2>1, <2>2, MergeShape DEF ShapeInv, Plain
  <2>3. /\ UNCHANGED <<kind, lastSent, history>> /\ syncs' = syncs \ {m}
        /\ crdt' = [crdt EXCEPT ![d] = s]
    BY <1>10, <2>1 DEF OnSync
  <2>4. ASSUME kind # "RGA" PROVE crdt' \in [Nodes -> State(kind)]
    BY <2>2, <2>3, <2>4 DEF ShapeInv
  <2> QED
    BY <2>3, <2>4 DEF ShapeInv
<1>11. ASSUME NEW m \in syncs, LoseSync(m) PROVE ShapeInv'
  BY <1>11 DEF LoseSync, ShapeInv
<1> QED
  BY <1>1, <1>2, <1>3, <1>4, <1>5, <1>6, <1>7, <1>8, <1>9, <1>10, <1>11 DEF NextReplicator

-----------------------------------------------------------------------------
(* The replicator as a whole *)

ReplicatorInv == ShapeInv /\ (CausalInv \/ MapInv)

\* Every step of the replicator but those of a map.
LEMMA CausalStep == CausalInv /\ NextReplicator => CausalInv'
<1> SUFFICES ASSUME CausalInv, NextReplicator PROVE CausalInv'
  OBVIOUS
<1>1. ASSUME NEW n \in Nodes, Count(n) \/ Decrement(n) PROVE CausalInv'
  BY <1>1, CountStep
<1>2. ASSUME NEW n \in Nodes, SetRegister(n) PROVE CausalInv'
  BY <1>2, RegisterStep
<1>3. ASSUME NEW n \in Nodes, StayQuiet(n) \/ \E targets \in SUBSET (Nodes \ {n}) : Sync(n, targets)
      PROVE  CausalInv'
  BY <1>3, TickStep
<1>4. ASSUME NEW n \in Nodes, NEW x \in Elements, AddElement(n, x) \/ RemoveElement(n, x) PROVE CausalInv'
  BY <1>4, SetStep
<1>5. ASSUME NEW n \in Nodes, NEW ts \in 1..MaxClock, SetEntry(n, ts) PROVE CausalInv'
  BY <1>5 DEF SetEntry, CausalInv
<1>6. ASSUME NEW n \in Nodes, NEW i, InsertElement(n, i) \/ DeleteElement(n, i) PROVE CausalInv'
  BY <1>6, SequenceStep
<1>7. ASSUME NEW m \in syncs, OnSync(m) PROVE CausalInv'
  BY <1>7, OnSyncStep
<1>8. ASSUME NEW m \in syncs, LoseSync(m) PROVE CausalInv'
  BY <1>8 DEF LoseSync, CausalInv
<1> QED
  BY <1>1, <1>2, <1>3, <1>4, <1>5, <1>6, <1>7, <1>8 DEF NextReplicator

\* Every step of a replicated map.
LEMMA MapsStep == MapInv /\ NextReplicator => MapInv'
<1> SUFFICES ASSUME MapInv, NextReplicator PROVE MapInv'
  OBVIOUS
<1>1. kind = "LWWMap"
  BY DEF MapInv
<1>2. ASSUME NEW n \in Nodes, Count(n) \/ Decrement(n) \/ SetRegister(n) PROVE FALSE
  BY <1>1, <1>2 DEF Count, Decrement, SetRegister
<1>3. ASSUME NEW n \in Nodes, StayQuiet(n) \/ \E targets \in SUBSET (Nodes \ {n}) : Sync(n, targets)
      PROVE  MapInv'
  BY <1>3, MapTickStep
<1>4. ASSUME NEW n \in Nodes, NEW x \in Elements, AddElement(n, x) \/ RemoveElement(n, x) PROVE FALSE
  BY <1>1, <1>4 DEF AddElement, RemoveElement
<1>5. ASSUME NEW n \in Nodes, NEW ts \in 1..MaxClock, SetEntry(n, ts) PROVE MapInv'
  BY <1>5, MapStep
<1>6. ASSUME NEW n \in Nodes, NEW i, InsertElement(n, i) \/ DeleteElement(n, i) PROVE FALSE
  BY <1>1, <1>6 DEF InsertElement, DeleteElement
<1>7. ASSUME NEW m \in syncs, OnSync(m) PROVE MapInv'
  BY <1>7, MapSyncStep
<1>8. ASSUME NEW m \in syncs, LoseSync(m) PROVE MapInv'
  BY <1>8 DEF LoseSync, MapInv
<1> QED
  BY <1>2, <1>3, <1>4, <1>5, <1>6, <1>7, <1>8 DEF NextReplicator

\* Every step of the replicator.
LEMMA ReplicatorStep == ReplicatorInv /\ NextReplicator => ReplicatorInv'
BY CausalStep, MapsStep, ShapeStep DEF ReplicatorInv

\* It begins with fresh objects.
LEMMA ReplicatorInit ==
    ASSUME NEW k \in Kinds, InitReplicator(k)
    PROVE  ReplicatorInv
<1> USE DEF InitReplicator
<1>1. DOMAIN history = {} /\ HistoryOK(history) /\ IsSeq(history)
  <2>1. history = <<>> /\ IsSeq(history)
    BY DEF IsSeq
  <2> QED
    BY <2>1 DEF HistoryOK
<1>2. ticks \in [Nodes -> 0..(FullSyncEvery - 1)]
  BY FullSyncAssumption
<1>3. ASSUME k # "LWWMap" PROVE CausalInv
  <2>1. OpsOK(kind, history)
    BY <1>1 DEF OpsOK
  <2>2. Closed(history, {})
    BY DEF Closed
  <2>3. Represents(kind, history, Fresh(k), {})
    BY RepresentsFresh
  <2>4. k = "ORSet" => Fresh(k).counter = 0
    BY DEF Fresh
  <2>5. \A n : Cardinality(Of(history, DOMAIN history, n, "add")) = 0
    <3>1. \A n : Of(history, DOMAIN history, n, "add") = {}
      BY <1>1 DEF Of
    <3> QED
      BY <3>1, FS_EmptySet
  <2> QED
    BY <1>1, <1>2, <1>3, <2>1, <2>2, <2>3, <2>4, <2>5 DEF CausalInv
<1>4. ASSUME k = "LWWMap" PROVE MapInv
  <2>1. StampsOK(history)
    BY <1>1 DEF StampsOK
  <2>2. Fresh(k).entry = None
    BY <1>4 DEF Fresh
  <2>3. NewestEntry(history, {}, Fresh(k).entry)
    BY <2>2 DEF NewestEntry
  <2> QED
    BY <1>1, <1>2, <1>4, <2>1, <2>3 DEF MapInv
<1>5. ShapeInv
  <2>1. k # "RGA" => Fresh(k) \in State(k)
    BY FreshShape DEF Plain
  <2> QED
    BY <1>1, <2>1 DEF ShapeInv
<1> QED
  BY <1>3, <1>4, <1>5 DEF ReplicatorInv

\* What the invariant says of types and of reads.
LEMMA ReplicatorImplies ==
    ReplicatorInv => ReplicatorTypeOK /\ (kind # "RGA" => ReadsAsMeant)
<1> SUFFICES ASSUME ReplicatorInv PROVE ReplicatorTypeOK /\ (kind # "RGA" => ReadsAsMeant)
  OBVIOUS
<1>1. kind \in Kinds /\ ticks \in [Nodes -> 0..(FullSyncEvery - 1)] /\ seen \in [Nodes -> SUBSET DOMAIN history]
      /\ \A m \in syncs : m.src # m.dst /\ m.seen \subseteq DOMAIN history
  <2>1. CASE CausalInv
    BY <2>1 DEF CausalInv, Closed
  <2>2. CASE MapInv
    BY <2>2 DEF MapInv, Kinds
  <2> QED
    BY <2>1, <2>2 DEF ReplicatorInv
<1>2. ReplicatorTypeOK
  BY <1>1 DEF ReplicatorInv, ShapeInv, ReplicatorTypeOK
<1>3. ASSUME kind # "RGA", NEW n \in Nodes PROVE Read(kind, crdt[n]) = Meaning(seen[n])
  <2>1. CASE CausalInv
    BY <1>3, <2>1, RepresentsReads DEF CausalInv
  <2>2. CASE MapInv
    BY <2>2, MapReads
  <2> QED
    BY <2>1, <2>2 DEF ReplicatorInv
<1> QED
  BY <1>2, <1>3 DEF ReadsAsMeant

-----------------------------------------------------------------------------
(* The services together *)

Inv == /\ ReplicatorInv
       /\ PushSumInv /\ P!MassConserved /\ WholeInv /\ RangeInv
       /\ VotesInv /\ (HonestMajority => TrustInv)

\* The invariant holds initially.
LEMMA InvInit == Init => Inv
<1> SUFFICES ASSUME Init PROVE Inv
  OBVIOUS
<1>1. ReplicatorInv
  <2>1. PICK k \in Kinds : InitReplicator(k)
    BY DEF Init, Kinds
  <2> QED
    BY <2>1, ReplicatorInit
<1>2. PICK W : W = IF attached = "aggregator" THEN Weightings ELSE {[n \in Swarm |-> 1]}
  OBVIOUS
<1>3. W \subseteq [Swarm -> {0, 1}] /\ P!InitPushSum(W)
  <2>1. Weightings \subseteq [Swarm -> {0, 1}] /\ [n \in Swarm |-> 1] \in [Swarm -> {0, 1}]
    BY DEF Weightings
  <2> QED
    BY <1>2, <2>1 DEF Init
<1>4. PushSumInv /\ P!MassConserved /\ WholeInv /\ RangeInv
  BY <1>3, PushSumInit
<1>5. VotesInv /\ TrustInv
  BY VotingInit DEF Init
<1> QED
  BY <1>1, <1>4, <1>5 DEF Inv

\* A service that does nothing keeps its part.
LEMMA ReplicatorRests == ReplicatorInv /\ UNCHANGED rvars => ReplicatorInv'
<1> SUFFICES ASSUME ReplicatorInv, UNCHANGED rvars PROVE ReplicatorInv'
  OBVIOUS
<1> USE DEF rvars
<1>1. ShapeInv'
  BY DEF ReplicatorInv, ShapeInv
<1>2. CausalInv => CausalInv'
  BY DEF CausalInv
<1>3. MapInv => MapInv'
  BY DEF MapInv
<1> QED
  BY <1>1, <1>2, <1>3 DEF ReplicatorInv

\* So does the aggregation.
LEMMA PushSumRests ==
    PushSumInv /\ P!MassConserved /\ WholeInv /\ RangeInv /\ UNCHANGED pvars =>
    (PushSumInv /\ P!MassConserved /\ WholeInv /\ RangeInv)'
<1> SUFFICES ASSUME PushSumInv, P!MassConserved, WholeInv, RangeInv, UNCHANGED pvars
             PROVE  (PushSumInv /\ P!MassConserved /\ WholeInv /\ RangeInv)'
  OBVIOUS
<1> USE DEF pvars
<1>1. PushSumInv'
  BY DEF PushSumInv, P!PushSumTypeOK
<1>2. P!MassConserved'
  BY DEF P!MassConserved, P!Contribution
<1>3. WholeInv'
  BY DEF WholeInv
<1>4. RangeInv'
  BY DEF RangeInv, AllBetween
<1> QED
  BY <1>1, <1>2, <1>3, <1>4

\* And voting.
LEMMA VotingRests ==
    VotesInv /\ UNCHANGED vvars => VotesInv' /\ (TrustInv => TrustInv')
BY DEF VotesInv, V!VotingTypeOK, TrustInv, vvars

\* Every step of every service keeps the invariant.
LEMMA InvStep == Inv /\ [Next]_vars => Inv'
<1> SUFFICES ASSUME Inv, [Next]_vars PROVE Inv'
  OBVIOUS
<1> USE DEF Inv
<1>1. HonestMajority' = HonestMajority
  BY DEF HonestMajority
<1>2. CASE NextReplicator /\ UNCHANGED <<pvars, vvars>>
  BY <1>1, <1>2, ReplicatorStep, PushSumRests, VotingRests
<1>3. CASE P!NextPushSum /\ UNCHANGED <<rvars, vvars>>
  <2>1. PushSumInv'
    BY <1>3, PushSumTypeStep
  <2>2. P!MassConserved' /\ WholeInv' /\ RangeInv'
    BY <1>3, <2>1, MassStep, WholeStep, RangeStep
  <2> QED
    BY <1>1, <1>3, <2>1, <2>2, ReplicatorRests, VotingRests
<1>4. CASE V!NextVoting /\ UNCHANGED <<rvars, pvars>>
  BY <1>1, <1>4, VotesStep, TrustStep, ReplicatorRests, PushSumRests
<1>5. CASE UNCHANGED vars
  BY <1>1, <1>5, ReplicatorRests, PushSumRests, VotingRests DEF vars
<1> QED
  BY <1>2, <1>3, <1>4, <1>5 DEF Next

\* The invariant is one.
LEMMA InvHolds == Spec => []Inv
BY InvInit, InvStep, PTL DEF Spec

\* Every service keeps the types of its variables: the counters, sets, maps and
\* registers keep the shape of their type in replicas, digests and what was sent
\* last, through every operation and every merge; ticks are counted modulo
\* full_sync_every, and trust stays within the bounds of TrustLedger (crdt.py,
\* replicate.py, aggregate.py, byzantine.py).
THEOREM ServicesTypeCorrect == Spec => []TypeOK
<1>1. Inv => TypeOK
  BY ReplicatorImplies DEF Inv, TypeOK, PushSumInv, VotesInv
<1> QED
  BY <1>1, InvHolds, PTL

\* "Total mass is conserved by construction" (aggregate.py), for any swarm, local
\* values and number of rounds: and estimates of an average stay among the values
\* that were contributed, although shares get lost.
THEOREM MassSound == Spec => []MassIsSound
<1>1. Inv => MassIsSound
  BY RangeImplies DEF Inv, MassIsSound
<1> QED
  BY <1>1, InvHolds, PTL

\* With more correct than faulty nodes, a node that decides only with every correct
\* vote in trusts no faulty node more than a correct one, and no lie wins there
\* (byzantine.py), whatever faulty nodes vote, and in whatever order.
THEOREM TruthWins ==
    ASSUME HonestMajority
    PROVE  Spec => []TruthPrevails
<1>1. Inv => TruthPrevails
  <2> SUFFICES ASSUME Inv, NEW n \in V!Correct \ hasty
               PROVE  /\ \A p \in V!Correct, f \in Faulty : score[n][f] <= score[n][p]
                      /\ (\A p \in V!Correct : votes[n][p] # None) => ~V!Wins(n, Lie)
    BY DEF TruthPrevails, V!TruthPrevails
  <2>1. VotesInv /\ TrustInv
    BY DEF Inv
  <2>2. \A p \in V!Correct, f \in Faulty : score[n][f] <= score[n][p]
    BY <2>1 DEF TrustInv
  <2> QED
    BY <2>1, <2>2, NoLieWins
<1> QED
  BY <1>1, InvHolds, PTL

\* "Replicas that observe the same set of operations - in any order, with any
\* duplication - converge to the same state" (crdt.py): every replica of a counter,
\* set, map or register reads at all times as the operations that it reflects
\* mean, for any nodes and any number of operations.
THEOREM ReadsCorrect == Spec => [](kind # "RGA" => ReadsAsMeant)
<1>1. Inv => (kind # "RGA" => ReadsAsMeant)
  BY ReplicatorImplies DEF Inv
<1> QED
  BY <1>1, InvHolds, PTL
=============================================================================
