----------------------------- MODULE MCKVStore -----------------------------
(***************************************************************************)
(* Either node 1 alone uses the local operations, time and again, or two   *)
(* of three replicas use the quorum operations, with w + r > 3.  The clock *)
(* of node 2 is ahead.                                                     *)
(***************************************************************************)
EXTENDS KVStore
CONSTANTS a, b
MCUserValues == {a, b}
MCKeys == {Val, Exp} \cup {Idx(v) : v \in UserValues}
MCValues == UserValues \cup 0..10
MCSkew == [n \in Nodes |-> IF n = 2 THEN 1 ELSE 0]
MCStarts ==
    {[locals |-> {1}, quorums |-> {}, values |-> UserValues, ttls |-> TTLs \cup {None},
      skew |-> MCSkew, w |-> 2, r |-> 2, maxNow |-> 4, maxRequests |-> 0],
     [locals |-> {}, quorums |-> {1, 2}, values |-> {a}, ttls |-> {None},
      skew |-> MCSkew, w |-> 2, r |-> 2, maxNow |-> 2, maxRequests |-> 3]}
=============================================================================
