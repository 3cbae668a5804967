-------------------------------- MODULE Tasks --------------------------------
(***************************************************************************)
(* Decentralised task coordination (suprime/tasks.py) over the replicated  *)
(* store: tasks and claims are entries of Store, a node's tick evaluates   *)
(* its task board and then gossips (node.tick), and a handler runs         *)
(* asynchronously, so that messages arrive and other nodes act meanwhile.  *)
(*                                                                         *)
(* Sync describes a swarm whose rounds are in step: in every round each    *)
(* node ticks once, gossips to every peer and is heard before the next     *)
(* round; only a node that awaits a handler may take any number of rounds  *)
(* for its tick.  Without Sync ticks and messages interleave freely.       *)
(***************************************************************************)
EXTENDS Integers, FiniteSets

CONSTANTS
    Nodes, None,
    Skew,       \* how far each node's wall clock is ahead
    Links,      \* the links that are not partitioned forever
    TaskIds,
    Workers,    \* the nodes with a handler for the tasks' kind
    Load,       \* the load model's delay of a node's claims
    Grace,      \* claim_grace_rounds
    Sync,
    Mortal,     \* the nodes that may crash, for good
    MaxNow, MaxTs   \* bounds, as in Store

ASSUME WorkersAssumption == Workers \subseteq Nodes /\ Mortal \subseteq Nodes
ASSUME LoadAssumption == Load \in [Nodes -> Nat]
ASSUME GraceAssumption == Grace \in Nat /\ Sync \in BOOLEAN
ASSUME SkewAssumption == Skew \in [Nodes -> Nat]

\* TASK_PREFIX and CLAIM_PREFIX keys.
TaskKey(t) == <<t>>
ClaimKey(t, n) == <<t, n>>
BoardKeys == {TaskKey(t) : t \in TaskIds} \cup {ClaimKey(t, n) : t \in TaskIds, n \in Nodes}

\* A task's state, or a claim with its claim_ts.
TaskValue(state) == [state |-> state, ts |-> 0]
ClaimValue(ts) == [state |-> "claim", ts |-> ts]
BoardValues == [state : {"pending", "done", "failed", "claim"}, ts : Nat]

VARIABLES
    data, highest, now, net,    \* the store and the network
    up,         \* the nodes that have not crashed
    ticking,    \* the nodes inside tick()
    todo,       \* todo[n]: the tasks evaluate has yet to visit, as it read them
    running,    \* running[n]: the task whose handler n awaits, or None
    claimAge,   \* _claim_age, capped at Grace
    claimSig,   \* _claim_sig
    executed,   \* _executed
    ticked      \* the nodes that have ticked this round (only when Sync)

store == <<data, highest, now, net>>
board == <<todo, running, claimAge, claimSig, executed>>
vars == <<store, board, up, ticking, ticked>>

S == INSTANCE Store WITH Keys <- BoardKeys, Values <- BoardValues,
                         MinAge <- MaxNow + MaxTs, Window <- MaxNow + MaxTs,
                         MaxNet <- Cardinality(Nodes) * Cardinality(Nodes)

ASSUME NoneAssumption == None \notin S!Entry /\ None \notin {"pending", "done", "failed"}

Init ==
    /\ S!Init
    /\ up = Nodes /\ ticking = {} /\ ticked = {}
    /\ todo = [n \in Nodes |-> {}]
    /\ running = [n \in Nodes |-> None]
    /\ claimAge = [n \in Nodes |-> [t \in TaskIds |-> 0]]
    /\ claimSig = [n \in Nodes |-> [t \in TaskIds |-> {}]]
    /\ executed = [n \in Nodes |-> {}]

-----------------------------------------------------------------------------
\* The live claims for t in a store: who claimed, and when.
Claims(d, t) ==
    {<<n, d[ClaimKey(t, n)].value.ts>> : n \in {p \in Nodes : S!Live(d[ClaimKey(t, p)])}}

\* _winner: the earliest claim, ties broken by node id.
Winner(d, t) ==
    CHOOSE n \in Nodes : \E c \in Claims(d, t) :
        /\ c[1] = n
        /\ \A b \in Claims(d, t) : c[2] < b[2] \/ (c[2] = b[2] /\ c[1] <= b[1])

State(n, t) == IF S!Live(data[n][TaskKey(t)]) THEN data[n][TaskKey(t)].value.state ELSE None

\* submit, with a fresh id.
Submit(n, t) ==
    /\ n \in up
    /\ \A p \in Nodes : data[p][TaskKey(t)] = None
    /\ \A m \in net : m.digest[TaskKey(t)] = None
    /\ S!Set(n, TaskKey(t), TaskValue("pending"))
    /\ UNCHANGED <<board, up, ticking, ticked>>

\* tick reaches evaluate, which first reads all tasks.
BeginTick(n) ==
    /\ n \in up \ ticking
    /\ Sync => n \notin ticked
    /\ ticking' = ticking \cup {n}
    /\ todo' = [todo EXCEPT ![n] = {<<t, State(n, t)>> : t \in {s \in TaskIds : State(n, s) # None}}]
    /\ UNCHANGED <<store, running, claimAge, claimSig, executed, up, ticked>>

\* evaluate goes on to the task it read as tc.
Visiting(n, tc) ==
    /\ n \in up /\ running[n] = None
    /\ tc \in todo[n]
    /\ todo' = [todo EXCEPT ![n] = @ \ {tc}]
    /\ UNCHANGED <<up, ticking, ticked>>

VisitSettled(n, tc) ==
    /\ Visiting(n, tc)
    /\ tc[2] # "pending"
    /\ claimAge' = [claimAge EXCEPT ![n][tc[1]] = 0]
    /\ claimSig' = [claimSig EXCEPT ![n][tc[1]] = {}]
    /\ UNCHANGED <<store, running, executed>>

\* No handler for the task's kind.
VisitForeign(n, tc) ==
    /\ Visiting(n, tc)
    /\ tc[2] = "pending" /\ n \notin Workers
    /\ UNCHANGED <<store, running, claimAge, claimSig, executed>>

MaybeClaim_EveryRound(n, t) ==
    S!Set(n, ClaimKey(t, n), ClaimValue(S!Clock(n) + Load[n]))

\* _maybe_claim.
MaybeClaim(n, t) ==
    IF S!Live(data[n][ClaimKey(t, n)])
    THEN UNCHANGED store
    ELSE S!Set(n, ClaimKey(t, n), ClaimValue(S!Clock(n) + Load[n]))

Settled_OneRoundEarly(n, t, age, sig) == age + 1 >= Grace /\ sig = claimSig[n][t]

\* The claims have aged enough and did not change since the last round.
Settled(n, t, age, sig) == age >= Grace /\ sig = claimSig[n][t]

VisitPending(n, tc) ==
    LET t == tc[1]
        age == IF claimAge[n][t] < Grace THEN claimAge[n][t] + 1 ELSE Grace
        sig == Claims(data'[n], t)
    IN  /\ Visiting(n, tc)
        /\ tc[2] = "pending" /\ n \in Workers
        /\ MaybeClaim(n, t)
        /\ claimAge' = [claimAge EXCEPT ![n][t] = age]
        /\ claimSig' = [claimSig EXCEPT ![n][t] = sig]
        /\ IF Settled(n, t, age, sig) /\ t \notin executed[n] /\ Winner(data'[n], t) = n
           THEN /\ executed' = [executed EXCEPT ![n] = @ \cup {t}]
                /\ running' = [running EXCEPT ![n] = t]
           ELSE UNCHANGED <<executed, running>>

Finish_UnknownState(n, outcome) ==
    /\ n \in up /\ running[n] # None
    /\ S!Set(n, TaskKey(running[n]), TaskValue("running"))
    /\ running' = [running EXCEPT ![n] = None]
    /\ UNCHANGED <<todo, claimAge, claimSig, executed, up, ticking, ticked>>

Finish_NoWriteBack(n, outcome) ==
    /\ n \in up /\ running[n] # None
    /\ running' = [running EXCEPT ![n] = None]
    /\ UNCHANGED <<store, todo, claimAge, claimSig, executed, up, ticking, ticked>>

\* The handler returns or raises.
Finish(n, outcome) ==
    /\ n \in up /\ running[n] # None
    /\ S!Set(n, TaskKey(running[n]), TaskValue(outcome))
    /\ running' = [running EXCEPT ![n] = None]
    /\ UNCHANGED <<todo, claimAge, claimSig, executed, up, ticking, ticked>>

\* The tick ends with gossip_once.  Bound: one digest in flight per link.
EndTick(n, targets) ==
    /\ n \in up /\ n \in ticking
    /\ todo[n] = {} /\ running[n] = None
    /\ ticking' = ticking \ {n}
    /\ IF Sync THEN targets = Nodes \ {n} /\ ticked' = ticked \cup {n}
               ELSE UNCHANGED ticked
    /\ \A m \in net : m.src = n => m.dst \notin targets
    /\ IF targets = {} THEN UNCHANGED store ELSE S!Gossip(n, targets)
    /\ UNCHANGED <<board, up>>

\* A node handles messages while it awaits: between ticks, or when a handler
\* runs.
Listening(n) == n \in up /\ (n \in ticking => running[n] # None)

Receive(m) ==
    /\ Listening(m.dst)
    /\ S!Receive(m)
    /\ UNCHANGED <<board, up, ticking, ticked>>

\* A message is lost on its way, or its receiver is down.  That it is lost
\* only when it could be received restricts nothing, and keeps a loss from
\* depending on what the receiver does.
Lose(m) ==
    /\ m.dst \in up => ~Sync /\ Listening(m.dst)
    /\ S!Lose(m)
    /\ UNCHANGED <<board, up, ticking, ticked>>

Busy == {n \in up : running[n] # None}

\* Time passes; in step, only when the round is over.
NextRound ==
    /\ Sync => up \subseteq ticked \cup Busy /\ net = {} /\ ticking \subseteq Busy
    /\ ticked' = {}
    /\ S!Tick \/ (Sync /\ now = MaxNow /\ UNCHANGED store)
    /\ UNCHANGED <<board, up, ticking>>

Crash(n) ==
    /\ n \in up \cap Mortal
    /\ up' = up \ {n}
    /\ ticking' = ticking \ {n}
    /\ ticked' = ticked \ {n}
    /\ UNCHANGED <<store, board>>

Next ==
    \/ \E n \in Nodes, t \in TaskIds : Submit(n, t)
    \/ \E n \in Nodes : BeginTick(n)
    \/ \E n \in Nodes : \E tc \in todo[n] :
          VisitSettled(n, tc) \/ VisitForeign(n, tc) \/ VisitPending(n, tc)
    \/ \E n \in Nodes, outcome \in {"done", "failed"} : Finish(n, outcome)
    \/ \E n \in Nodes : \E targets \in SUBSET (Nodes \ {n}) : EndTick(n, targets)
    \/ \E m \in net : Receive(m)
    \/ \E m \in net : Lose(m)
    \/ NextRound
    \/ \E n \in Nodes : Crash(n)

Spec == Init /\ [][Next]_vars

\* The loop of every node goes on, handlers end, nodes draw every peer again and
\* again, and Links deliver again and again.
Fairness ==
    /\ \A n \in Nodes :
          /\ WF_vars(BeginTick(n))
          /\ WF_vars(\E tc \in todo[n] :
                        VisitSettled(n, tc) \/ VisitForeign(n, tc) \/ VisitPending(n, tc))
          /\ WF_vars(\E outcome \in {"done", "failed"} : Finish(n, outcome))
          /\ WF_vars(\E targets \in SUBSET (Nodes \ {n}) : EndTick(n, targets))
    /\ \A l \in Nodes \X Nodes :
          WF_vars(\E m \in net : m.src = l[1] /\ m.dst = l[2] /\ (Receive(m) \/ Lose(m)))
    /\ \A l \in Links :
          /\ SF_vars(\E targets \in SUBSET (Nodes \ {l[1]}) :
                        l[2] \in targets /\ EndTick(l[1], targets))
          /\ SF_vars(\E m \in net : m.src = l[1] /\ m.dst = l[2] /\ Receive(m))

FairSpec == Spec /\ Fairness

-----------------------------------------------------------------------------
(* Properties *)

\* Every variable has its type: the tasks evaluate reads are never claims, a
\* claim's age is capped, and a crashed node neither ticks nor has ticked.
TypeOK ==
    /\ S!TypeOK
    /\ up \subseteq Nodes /\ ticking \subseteq up /\ ticked \subseteq up
    /\ todo \in [Nodes -> SUBSET (TaskIds \X {"pending", "done", "failed"})]
    /\ running \in [Nodes -> TaskIds \cup {None}]
    /\ claimAge \in [Nodes -> [TaskIds -> 0..Grace]]
    /\ executed \in [Nodes -> SUBSET TaskIds]

\* "Together these avoid duplicate execution even when the winner is not the
\* first node to claim" (the comment in evaluate): in a swarm whose rounds are
\* in step and that has one task at a time, no task is executed by two nodes,
\* whatever the order of ticks and deliveries within a round and however load
\* delays the claims.
AtMostOnce ==
    \A t \in TaskIds, n, p \in Nodes : t \in executed[n] /\ t \in executed[p] => n = p

\* "Claims never conflict because each node writes a distinct key, so they all
\* survive replication" (the docstring of tasks.py): there is one claim of a
\* node for a task, whose copies are equal everywhere, and the node itself
\* never loses it.
ClaimsSurvive ==
    \A t \in TaskIds, n, p \in Nodes :
        S!Live(data[p][ClaimKey(t, n)]) => data[n][ClaimKey(t, n)] = data[p][ClaimKey(t, n)]

\* A submitted task is settled in the end: every node sees it done or failed.
TaskCompletes ==
    \A t \in TaskIds :
        (\E n \in Nodes : State(n, t) # None)
        ~> (\A n \in Nodes : State(n, t) \in {"done", "failed"})
=============================================================================
