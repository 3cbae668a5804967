---------------------------- MODULE MCHyParView ----------------------------
(***************************************************************************)
(* Instances of HyParView that 4 joins: 1, 2 and 3 linked with each other; *)
(* 1 and 3, which 4 joins twice; and 1 and 3 with active views of one peer *)
(* over TCP.                                                               *)
(***************************************************************************)
EXTENDS HyParView

CliqueStart(suspends, sizes, members, mortal, maxJoins) ==
    [suspends |-> suspends, activeSize |-> sizes[1], passiveSize |-> sizes[2],
     up |-> members \cup Newcomers,
     active |-> [n \in Nodes |-> IF n \in members THEN members \ {n} ELSE {}],
     mortal |-> mortal, maxJoins |-> maxJoins]

MCStarts == {CliqueStart(FALSE, <<2, 1>>, {1, 2, 3}, {}, 1),
             CliqueStart(FALSE, <<2, 2>>, {1, 3}, {3}, 2),
             CliqueStart(TRUE, <<1, 2>>, {1, 3}, {3}, 1)}
=============================================================================
