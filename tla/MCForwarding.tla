----------------------------- MODULE MCForwarding -----------------------------
(***************************************************************************)
(* A diamond of routers for TLC: 1 is linked to 2 and 3, and these to each *)
(* other and to 4.                                                         *)
(***************************************************************************)
EXTENDS PolicyProperties, ForwardingPaths

CONSTANTS Wide, Narrow    \* two prefixes; Wide contains Narrow

McRouters == 1 .. 4
McPrefixes == {Wide, Narrow}
McWithin == Wide :> {Wide, Narrow} @@ Narrow :> {Narrow}

McNeighbors == <<{2, 3}, {1, 3, 4}, {1, 2, 4}, {2, 3}>>
McIgp == << 2 :> <<2>> @@ 3 :> <<3>> @@ 4 :> <<2, 3>>,
            1 :> <<1>> @@ 3 :> <<3>> @@ 4 :> <<4>>,
            1 :> <<1>> @@ 2 :> <<2>> @@ 4 :> <<4>>,
            1 :> <<2, 3>> @@ 2 :> <<2>> @@ 3 :> <<3>> >>

(* 4 originates a route for p, and the others of S have it. *)
Net(S, p) ==
  [r \in McRouters |->
     [sr |-> << >>, do_load_balancing |-> r = 1,
      rib |-> CASE r = 4 -> p :> Route(4, TRUE)
                [] r \in S -> p :> Route(4, FALSE)
                [] OTHER -> << >>]]

Static(r, p, route) == [type |-> "static", router |-> r, prefix |-> p, route |-> route]
Bgp(r, p, route) == [type |-> "bgp", router |-> r, prefix |-> p, route |-> route]
Balance(r) == [type |-> "balance", router |-> r, prefix |-> Wide]

McNetworks == {Net({1, 2, 3}, Wide), Net({2}, Wide)}

(* Loops of two and of three routers, black holes, and specific routes. *)
McChanges ==
  {Static(2, Wide, {x}) : x \in {Direct(1), Direct(3)}} \cup
  {Static(3, Wide, {x}) : x \in {Direct(2), Direct(1), Drop}} \cup
  {Static(1, Wide, {Indirect(3)}), Static(2, Wide, {}), Static(3, Wide, {}), Bgp(4, Wide, {}),
   Bgp(2, Narrow, {Route(1, FALSE)}), Static(3, Narrow, {Drop}), Balance(1)}

McOperations ==
  {<<Static(2, Wide, {Direct(1)})>>, <<Static(3, Wide, {Drop}), Static(2, Wide, {Direct(3)})>>,
   <<Bgp(4, Wide, {})>>, <<Balance(1), Static(2, Wide, {Direct(3)})>>}

McEvents ==
  {Bgp(r, Wide, {}) : r \in {1, 2, 3}} \cup
  {Bgp(1, Wide, {Route(4, FALSE)}), Bgp(2, Wide, {Route(3, FALSE)}), Bgp(3, Wide, {Route(2, FALSE)})}

McConditions ==
  {Positional(ws) : ws \in UNION {[1 .. n -> {Star, AnyRouter, 2, 4}] : n \in 1 .. 3}} \cup
  {Or(<<And(<<Node(2), Edge(1, 3)>>), Not(Or(<<Node(3), And(<<Node(1), Edge(2, 4)>>)>>))>>),
   Not(And(<<Node(1), Node(2), Not(Not(Edge(3, 4)))>>)),
   And(<<Or(<<Node(1), Node(3)>>), Not(And(<< >>)), Not(Or(<< >>))>>), Or(<< >>)}
=============================================================================
