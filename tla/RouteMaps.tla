------------------------------- MODULE RouteMaps -------------------------------
(***************************************************************************)
(* Route maps (route_map.rs): what a list of clauses makes of an entry of  *)
(* a BGP table, and how a router keeps the list sorted (set_route_map and  *)
(* its like in router/bgp_process.rs).                                     *)
(*                                                                         *)
(* A clause is a record [order, state, conds, set, flow]; conds and set    *)
(* are sequences of records with a kind and what it needs.  An entry is a  *)
(* record with the attributes of a route and of its entry.                 *)
(***************************************************************************)
EXTENDS Integers, FiniteSets, Sequences, SequencesExt

None == {}

Exit == [kind |-> "exit"]
Continue == [kind |-> "continue"]
ContinueAt(order) == [kind |-> "at", order |-> order]

(* What the types of the code say of the fields that control a list. *)
WellTyped(map) ==
  /\ map.order \in Int
  /\ \/ map.flow \in {Exit, Continue}
     \/ map.flow = ContinueAt(map.flow.order) /\ map.flow.order \in Int

(* RouteMapMatch::matches, with the clauses on the length of the AS path as *)
(* half-open ranges.                                                       *)
Satisfies(e, c) ==
  CASE c.kind = "prefix" -> e.prefix \in c.prefixes
    [] c.kind = "as" -> c.as \in ToSet(e.as_path)
    [] c.kind = "length" -> Len(e.as_path) >= c.from /\ Len(e.as_path) < c.below
    [] c.kind = "next_hop" -> e.next_hop = c.router
    [] c.kind = "community" -> c.community \in e.community
    [] c.kind = "deny_community" -> c.community \notin e.community

Matched(map, e) == \A i \in DOMAIN map.conds : Satisfies(e, map.conds[i])

(* RouteMapSet::apply: a value of None resets the attribute *)
Or100(value) == IF value = None THEN 100 ELSE CHOOSE x \in value : TRUE

SetAction(e, s) ==
  CASE s.kind = "next_hop" -> [e EXCEPT !.next_hop = s.router, !.igp_cost = None]
    [] s.kind = "weight" -> [e EXCEPT !.weight = Or100(s.value)]
    [] s.kind = "local_pref" -> [e EXCEPT !.local_pref = {Or100(s.value)}]
    [] s.kind = "med" -> [e EXCEPT !.med = IF s.value = None THEN {0} ELSE s.value]
    [] s.kind = "igp_cost" -> [e EXCEPT !.igp_cost = s.value]
    [] s.kind = "add" -> [e EXCEPT !.community = @ \cup {s.community}]
    [] s.kind = "del" -> [e EXCEPT !.community = @ \ {s.community}]

(* The actions of a clause, one after the other *)
Acted(map, e) == FoldLeft(SetAction, e, map.set)

(* RouteMap::apply: where to go on, and the entry unless it is denied *)
ApplyMap(map, e) ==
  IF ~Matched(map, e) THEN [flow |-> Continue, entry |-> {e}]
  ELSE IF map.state = "deny" THEN [flow |-> Exit, entry |-> None]
  ELSE [flow |-> map.flow, entry |-> {Acted(map, e)}]

(* Faulty: the order that is waited for is not forgotten. *)
Faulty_Visit(s, map) ==
  LET result == ApplyMap(map, CHOOSE e \in s.entry : TRUE)
  IN  IF s.done \/ (s.wait_for # None /\ map.order < Or100(s.wait_for)) THEN s
      ELSE IF s.wait_for # None /\ map.order > Or100(s.wait_for) THEN [s EXCEPT !.done = TRUE]
      ELSE [entry |-> result.entry,
            done |-> result.entry = None \/ result.flow = Exit,
            wait_for |-> IF result.flow.kind = "at" THEN {result.flow.order} ELSE s.wait_for]

(* One step of RouteMapList::apply. *)
Visit(s, map) ==
  LET result == ApplyMap(map, CHOOSE e \in s.entry : TRUE)
  IN  IF s.done \/ (s.wait_for # None /\ map.order < Or100(s.wait_for)) THEN s
      ELSE IF s.wait_for # None /\ map.order > Or100(s.wait_for) THEN [s EXCEPT !.done = TRUE]
      ELSE [entry |-> result.entry,
            done |-> result.entry = None \/ result.flow = Exit,
            wait_for |-> IF result.flow.kind = "at" THEN {result.flow.order} ELSE None]

(* RouteMapList::apply: the entry, or None if it is denied *)
ApplyList(maps, e) ==
  LET after[i \in 0 .. Len(maps)] ==
        IF i = 0 THEN [entry |-> {e}, done |-> FALSE, wait_for |-> None]
        ELSE Visit(after[i - 1], maps[i])
  IN  after[Len(maps)].entry
-----------------------------------------------------------------------------
(* Where binary_search_by finds the order, or where it belongs. *)
PositionOf(maps, order) == Cardinality({i \in DOMAIN maps : maps[i].order < order}) + 1

HasOrder(maps, order) == \E i \in DOMAIN maps : maps[i].order = order

(* Faulty: a clause of the same order is not replaced. *)
Faulty_SetMap(maps, map) == InsertAt(maps, PositionOf(maps, map.order), map)

(* BgpProcess::set_route_map *)
SetMap(maps, map) ==
  LET i == PositionOf(maps, map.order)
  IN  IF HasOrder(maps, map.order) THEN [maps EXCEPT ![i] = map] ELSE InsertAt(maps, i, map)

(* BgpProcess::remove_route_map *)
RemoveMap(maps, order) ==
  IF HasOrder(maps, order) THEN RemoveAt(maps, PositionOf(maps, order)) ELSE maps
-----------------------------------------------------------------------------
(* Reference: what the documentation of RouteMapBuilder says of exit,      *)
(* continue_next and continue_at, for a reader who has come to clause s.at *)
(* with the entry s.entry.                                                 *)
Follow(s, maps) ==
  LET map == maps[s.at]
      e == CHOOSE x \in s.entry : TRUE
      targets == {i \in s.at + 1 .. Len(maps) : maps[i].order = map.flow.order}
      end == Len(maps) + 1
  IN  IF s.at = end THEN s
      ELSE IF ~Matched(map, e) THEN [at |-> s.at + 1, entry |-> s.entry]
      ELSE IF map.state = "deny" THEN [at |-> end, entry |-> None]
      ELSE [at |-> CASE map.flow = Exit -> end
                     [] map.flow = Continue -> s.at + 1
                     [] OTHER -> IF targets = {} THEN end ELSE Min(targets),
            entry |-> {Acted(map, e)}]

Described(maps, e) ==
  LET read[k \in 0 .. Len(maps)] ==
        IF k = 0 THEN [at |-> 1, entry |-> {e}] ELSE Follow(read[k - 1], maps)
  IN  read[Len(maps)].entry
=============================================================================
