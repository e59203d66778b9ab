-------------------------------- MODULE MCOspf --------------------------------
(***************************************************************************)
(* Instances of OSPF for TLC.                                              *)
(***************************************************************************)
EXTENDS OspfProperties

McOrder == <<1, 2, 3>>

(* A scenario: links <<a, b, area, weight>>, external links, and steps of  *)
(* operations, first those that wait for convergence, then those that      *)
(* need not.                                                               *)
Scenario(ls, xs, steps) ==
  LET of(e) == CHOOSE l \in ls : {l[1], l[2]} = {e[1], e[2]}
      ends == {<<l[1], l[2]>> : l \in ls} \cup {<<l[2], l[1]>> : l \in ls}
  IN  [links |-> [e \in ends |-> [area |-> of(e)[3], weight |-> of(e)[4]]],
       external |-> xs,
       script |-> [i \in DOMAIN steps |->
                     {[op |-> o, hasty |-> FALSE] : o \in steps[i][1]} \cup
                     {[op |-> o, hasty |-> TRUE] : o \in steps[i][2]}]]

(* Two areas: weights, areas and external links change, one at a time. *)
TwoAreas == Scenario({<<1, 2, 0, 1>>, <<2, 3, 1, 1>>}, {<<3, 9>>},
   << << {<<Weigh(1, 2, 2)>>, <<Area(2, 3, 0)>>, <<Area(1, 2, 1)>>, <<Detach(3, 9)>>,
          <<Link(1, 3)>>}, {} >>,
      << {<<Weigh(2, 3, 3)>>, <<Area(2, 3, 1)>>, <<Attach(3, 9)>>, <<Weigh(1, 2, 3)>>}, {} >> >>)

(* Two routers: changes while they exchange their databases, a link that   *)
(* fails and comes back, and sequence numbers that run out.                *)
Pair == Scenario({<<1, 3, 0, 1>>}, {},
   << << {<<Unlink(1, 3)>>}, {<<Weigh(1, 3, 2), Weigh(3, 1, 3), Weigh(3, 1, 4), Weigh(3, 1, 2)>>,
          <<Attach(3, 9)>>} >>,
      << {<<Link(1, 3)>>}, {<<Weigh(3, 1, 3)>>} >>,
      << {<<Detach(3, 9)>>, <<Weigh(3, 1, 4)>>}, {} >> >>)

(* A second adjacency while the first comes up, then a triangle. *)
Triangle == Scenario({<<1, 3, 0, 1>>}, {},
   << << {}, {<<Link(1, 2)>>} >>,
      << {<<Link(2, 3)>>, <<Unlink(1, 3)>>}, {} >> >>)

(* A summary whose sequence numbers run out. *)
LongRun == Scenario({<<1, 2, 0, 1>>, <<2, 3, 1, 1>>}, {},
   [i \in 1 .. 6 |-> <<{<<Weigh(2, 1, 1 + i)>>}, {}>>])

(* A router leaves, and is back before the others have forgotten its LSA:  *)
(* it has to supersede what it originated before.                          *)
Return == Scenario({<<1, 2, 0, 1>>, <<2, 3, 0, 1>>}, {},
   << << {<<Unlink(2, 3)>>}, {} >>, << {}, {<<Link(2, 3)>>} >> >>)

AllScenarios == {TwoAreas, Pair, Triangle, LongRun, Return}

(* A router leaves an area, and stays in another one. *)
LastLink == {Scenario({<<1, 2, 0, 1>>, <<2, 3, 1, 1>>}, {}, << << {<<Unlink(2, 3)>>}, {} >> >>)}
(* Two areas that come from global OSPF: the link of the border changes.   *)
McConversions == {Scenario({<<1, 2, 0, 1>>, <<2, 3, 1, 1>>}, {<<3, 9>>},
   << << {<<Weigh(2, 1, 2)>>, <<Area(2, 3, 0)>>, <<Detach(3, 9)>>, <<Link(1, 3)>>}, {} >> >>)}

ASSUME ConversionsFit
-----------------------------------------------------------------------------
(* Topologies for global OSPF: no link, a chain of two areas, and a        *)
(* triangle with two border routers.                                       *)
McTopologies ==
  { Scenario({}, {}, << >>),
    Scenario({<<1, 2, 0, 1>>, <<2, 3, 1, 1>>}, {<<3, 9>>}, << >>),
    Scenario({<<1, 2, 0, 1>>, <<1, 3, 1, 1>>, <<2, 3, 1, 1>>}, {}, << >>) }

(* Single changes, and batches: links added, a router removed, weights. *)
McOperations ==
  { <<Link(1, 2)>>, <<Link(2, 3)>>, <<Link(1, 3)>>, <<Link(1, 2), Link(2, 3)>>,
    <<Unlink(1, 2)>>, <<Unlink(2, 3)>>, <<Unlink(1, 3), Unlink(2, 3)>>,
    <<Weigh(1, 2, 3)>>, <<Weigh(2, 3, 3), Weigh(1, 2, 1)>>,
    <<Area(2, 3, 1)>>, <<Area(1, 3, 0)>>, <<Area(1, 3, 1)>>, <<Area(1, 2, 1)>>,
    <<Attach(3, 9)>>, <<Attach(1, 9)>>, <<Detach(3, 9)>> }
=============================================================================
