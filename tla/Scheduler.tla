------------------------------ MODULE Scheduler ------------------------------
(***************************************************************************)
(* scheduler.Schedule: bots are placed on worker nodes round robin, the    *)
(* least loaded node first, within each node's capacity, and given         *)
(* scenarios by the largest-remainder method.                              *)
(*                                                                         *)
(* A node is a position in the list the caller passes.  The weights of the *)
(* scenarios are natural numbers: the code divides floats.  Their rounding *)
(* only decides between remainders that are equal here and may be served   *)
(* in either order anyway (sort.Slice is not stable), or lets a share fall *)
(* just short of a whole number: its remainder is then the largest, and it *)
(* is made up for.                                                         *)
(***************************************************************************)
EXTENDS Naturals, Sequences, FiniteSets, FiniteSetsExt, SequencesExt

CONSTANTS
    MaxNodes, MaxLoad,  \* bounds on the requests: nodes, bots and capacity of a node,
    FleetSizes,         \* the fleet sizes asked for,
    Distributions,      \* and the weights of the five scenarios
    DefaultCapacity     \* of a node that states none (500)

ASSUME SchedulerAssumption ==
    /\ MaxNodes \in Nat /\ MaxLoad \in Nat
    /\ FleetSizes \subseteq Nat
    /\ Distributions \subseteq [1..5 -> Nat]
    /\ DefaultCapacity \in Nat \ {0}

VARIABLES
    nodes,      \* the arguments of the call
    fleetSize,
    dist,
    pc,
    order,      \* the eligible nodes, as sorted
    nodeCaps,   \* the places left on each of them
    nodeIdx,    \* the next one to try
    attempts,   \* the full nodes skipped for this bot
    placed,     \* nodeAssignments so far, as positions in order
    counts,     \* the bots each scenario gets
    turn,       \* the turns taken to give them out, five to a round
    scenarios,  \* the scenario of each bot
    answer      \* the error returned, "ok", or "none" while the call runs

request == <<nodes, fleetSize, dist>>
scenarioVars == <<counts, turn, scenarios>>
schedulerVars == <<request, pc, order, nodeCaps, nodeIdx, attempts, placed, scenarioVars, answer>>

Capacity(n) == IF nodes[n].maxCapacity = 0 THEN DefaultCapacity ELSE nodes[n].maxCapacity

\* What a node has left when the call is made.
Free(n) == Capacity(n) - nodes[n].currentBots

Eligible == {n \in DOMAIN nodes : nodes[n].currentBots < Capacity(n)}

\* The places left, one by one.
Places == UNION {{n} \X (1..Free(n)) : n \in Eligible}
TotalFree == Cardinality(Places)

LeastLoadedFirst(a, b) == nodes[a].currentBots <= nodes[b].currentBots

-----------------------------------------------------------------------------
(* Placement *)

Answer(a) ==
    /\ answer' = a
    /\ pc' = "done"
    /\ UNCHANGED <<order, nodeCaps, nodeIdx, attempts, placed, scenarioVars>>

RefuseNoNodes == pc = "start" /\ Eligible = {} /\ Answer("ErrNoAvailableNodes")

\* Slip: a fleet that just fits is refused.
RefuseTooManyOrEqual ==
    /\ pc = "start" /\ Eligible # {}
    /\ TotalFree <= fleetSize
    /\ Answer("ErrInsufficientCapacity")

RefuseTooMany ==
    /\ pc = "start" /\ Eligible # {}
    /\ TotalFree < fleetSize
    /\ Answer("ErrInsufficientCapacity")

\* The eligible nodes in some ascending order: equal loads come in any order.
SortNodes ==
    /\ pc = "start" /\ Eligible # {}
    /\ TotalFree >= fleetSize
    /\ \E s \in {s \in SetToSeqs(Eligible) : IsSorted(s, LeastLoadedFirst)} :
          /\ order' = s
          /\ nodeCaps' = [i \in DOMAIN s |-> Free(s[i])]
    /\ pc' = "place"
    /\ UNCHANGED <<nodeIdx, attempts, placed, scenarioVars, answer>>

\* nodeIdx % len(eligible), counted from 1.
Candidate == (nodeIdx % Len(order)) + 1

\* A full node is passed over, but not for ever.
SkipFullNode ==
    /\ pc = "place" /\ Len(placed) < fleetSize
    /\ nodeCaps[Candidate] = 0
    /\ nodeIdx' = nodeIdx + 1
    /\ attempts' = attempts + 1
    /\ IF attempts' > Len(order)
         THEN pc' = "done" /\ answer' = "ErrInsufficientCapacity"
         ELSE UNCHANGED <<pc, answer>>
    /\ UNCHANGED <<order, nodeCaps, placed, scenarioVars>>

\* Slip: the next bot starts at the same node.
PlaceBotSticky ==
    /\ pc = "place" /\ Len(placed) < fleetSize
    /\ nodeCaps[Candidate] # 0
    /\ placed' = Append(placed, Candidate)
    /\ nodeCaps' = [nodeCaps EXCEPT ![Candidate] = @ - 1]
    /\ attempts' = 0
    /\ UNCHANGED <<pc, order, nodeIdx, scenarioVars, answer>>

PlaceBot ==
    /\ pc = "place" /\ Len(placed) < fleetSize
    /\ nodeCaps[Candidate] # 0
    /\ placed' = Append(placed, Candidate)
    /\ nodeCaps' = [nodeCaps EXCEPT ![Candidate] = @ - 1]
    /\ nodeIdx' = nodeIdx + 1
    /\ attempts' = 0
    /\ UNCHANGED <<pc, order, scenarioVars, answer>>

-----------------------------------------------------------------------------
(* Scenarios *)

Scenarios == 1..5

\* All weights zero means all equal.
Weight == IF \A s \in Scenarios : dist[s] = 0 THEN [s \in Scenarios |-> 1] ELSE dist

SumOf(f) == f[1] + f[2] + f[3] + f[4] + f[5]

TotalWeight == SumOf(Weight)

\* A scenario's share of the fleet, and what rounding it down leaves (in
\* parts of TotalWeight).
Share(s) == (Weight[s] * fleetSize) \div TotalWeight
Remainder(s) == (Weight[s] * fleetSize) % TotalWeight

\* The bots the shares leave over.
Remaining == fleetSize - SumOf([s \in Scenarios |-> Share(s)])

LargestRemainderFirst(s, t) == Remainder(s) >= Remainder(t)

\* Slip: sorted in ascending order.
ServedSmallestFirst ==
    {served \in kSubset(Remaining, Scenarios) :
        \A s \in served, t \in Scenarios \ served : LargestRemainderFirst(t, s)}

\* The scenarios served from the remaining slots: the first ones by descending
\* remainder, for every outcome of the sort.
Served ==
    {served \in kSubset(Remaining, Scenarios) :
        \A s \in served, t \in Scenarios \ served : LargestRemainderFirst(s, t)}

Count(served) == [s \in Scenarios |-> IF s \in served THEN Share(s) + 1 ELSE Share(s)]

CountScenarios ==
    /\ pc = "place" /\ Len(placed) = fleetSize
    /\ \E served \in Served : counts' = Count(served)
    /\ pc' = "interleave"
    /\ UNCHANGED <<order, nodeCaps, nodeIdx, attempts, placed, turn, scenarios, answer>>

\* The scenario whose turn it is, in which round.
Drawn == (turn % 5) + 1
Round == turn \div 5

\* A round in which no scenario would advance is the end of the loop.
NoneAdvances == turn % 5 = 0 /\ \A s \in Scenarios : counts[s] <= Round

\* The next bot gets the scenario, if that has bots left.
TakeTurn ==
    /\ pc = "interleave" /\ ~NoneAdvances
    /\ scenarios' = IF Round < counts[Drawn] THEN Append(scenarios, Drawn) ELSE scenarios
    /\ turn' = turn + 1
    /\ UNCHANGED <<pc, order, nodeCaps, nodeIdx, attempts, placed, counts, answer>>

ReturnAssignments ==
    /\ pc = "interleave" /\ NoneAdvances
    /\ answer' = "ok"
    /\ pc' = "done"
    /\ UNCHANGED <<order, nodeCaps, nodeIdx, attempts, placed, scenarioVars>>

-----------------------------------------------------------------------------

\* currentBots may exceed the capacity: nothing keeps a caller from saying so.
SchedulerInit ==
    /\ nodes \in UNION {[1..n -> [currentBots : 0..MaxLoad, maxCapacity : 0..MaxLoad]] :
                           n \in 0..MaxNodes}
    /\ fleetSize \in FleetSizes
    /\ dist \in Distributions
    /\ pc = "start"
    /\ order = <<>> /\ nodeCaps = <<>>
    /\ nodeIdx = 0 /\ attempts = 0
    /\ placed = <<>>
    /\ counts = [s \in Scenarios |-> 0] /\ turn = 0 /\ scenarios = <<>>
    /\ answer = "none"

Step ==
    \/ RefuseNoNodes \/ RefuseTooMany \/ SortNodes
    \/ SkipFullNode \/ PlaceBot
    \/ CountScenarios \/ TakeTurn \/ ReturnAssignments

SchedulerNext == Step /\ UNCHANGED request

SchedulerSpec == SchedulerInit /\ [][SchedulerNext]_schedulerVars

-----------------------------------------------------------------------------
(* Properties *)

\* Bots placed on a node among those placed so far, by position in order.
Placed(i, sofar) == Cardinality({b \in DOMAIN sofar : sofar[b] = i})

\* Types, and the bookkeeping of the loop: the places left are those the node
\* had less the bots it was given.
SchedulerTypeOK ==
    /\ pc \in {"start", "place", "interleave", "done"}
    /\ answer \in {"none", "ok", "ErrNoAvailableNodes", "ErrInsufficientCapacity"}
    /\ order \in Seq(DOMAIN nodes)
    /\ placed \in Seq(DOMAIN order) /\ Len(placed) <= fleetSize
    /\ DOMAIN nodeCaps = DOMAIN order
    /\ nodeIdx \in Nat /\ attempts \in Nat
    /\ \A i \in DOMAIN order : /\ nodeCaps[i] \in Nat
                              /\ nodeCaps[i] + Placed(i, placed) = Free(order[i])

\* A fleet is refused only when it does not fit: the loop that looks for a node
\* with places left never gives up on a fleet the check let through
\* (scheduler.go:121, "Should not happen").
RefusedOnlyIfFull ==
    /\ answer \in {"ErrNoAvailableNodes", "ErrInsufficientCapacity"} =>
          \/ \A n \in DOMAIN nodes : nodes[n].currentBots >= Capacity(n)
          \/ TotalFree < fleetSize
    /\ answer = "ok" => Len(placed) = fleetSize

\* After every bot the fleet is spread as evenly as the nodes allow: no node has
\* been given two bots more than another, unless that one is full; and when one
\* is ahead it is not the more loaded one.
LoadIsLevelled ==
    \A i, j \in DOMAIN order :
        Placed(i, placed) > Placed(j, placed) =>
            \/ Placed(j, placed) = Free(order[j])
            \/ /\ Placed(i, placed) = Placed(j, placed) + 1
               /\ LeastLoadedFirst(order[i], order[j])

\* The bookkeeping of the loop is right and the load is spread, after every bot.
PlacementConsistent == SchedulerTypeOK /\ LoadIsLevelled

\* The bots among the first k that have scenario s.
Bots(s, k) == Cardinality({b \in 1..k : scenarios[b] = s})

\* Every bot has a scenario; each scenario's bots are its exact share rounded
\* down or up, rounded up for no smaller a remainder than one rounded down; and
\* in every prefix of the fleet the scenarios are mixed: none is two ahead of
\* another that still has bots to come.
SharesAreExact ==
    answer = "ok" =>
        /\ scenarios \in Seq(Scenarios) /\ Len(scenarios) = fleetSize
        /\ \A s, t \in Scenarios :
              LET bots(u) == Bots(u, fleetSize) IN
              /\ bots(s) * TotalWeight > Weight[s] * fleetSize - TotalWeight
              /\ bots(s) * TotalWeight < Weight[s] * fleetSize + TotalWeight
              /\ bots(s) > Share(s) /\ bots(t) = Share(t) => LargestRemainderFirst(s, t)
              /\ \A k \in 1..fleetSize :
                    Bots(s, k) > Bots(t, k) + 1 => Bots(t, k) = bots(t)
=============================================================================
