------------------------------ MODULE OspfRoutes ------------------------------
(***************************************************************************)
(* Link-state advertisements (ospf/local/lsa.rs) and the routes computed   *)
(* from them (ospf/local/database.rs), which local and global OSPF share.  *)
(*                                                                         *)
(* An LSA is a record [key, seq, dead, links].  dead stands for the age    *)
(* MAX_AGE, the only age the code tells from 0.  links is a function from  *)
(* routers to weights: the links of a Router-LSA, or the one target of a   *)
(* Summary-LSA or an External-LSA.  A set of LSAs holds one per key.       *)
(***************************************************************************)
EXTENDS Integers, FiniteSets, FiniteSetsExt, Sequences, SequencesExt, TLC

CONSTANTS
  Routers,     \* the internal routers, numbered by their RouterId
  Externals,   \* the external routers
  Areas,       \* the OSPF areas, numbers
  MaxSeq       \* MAX_SEQ, u32::MAX in the code

Backbone == 0

ASSUME OspfAssumption ==
  /\ Routers \subseteq Nat \ {0}
  /\ Externals \subseteq Nat \ {0}
  /\ Routers \cap Externals = {}
  /\ Areas \subseteq Nat
  /\ IsFiniteSet(Routers) /\ IsFiniteSet(Externals) /\ IsFiniteSet(Areas)
  /\ MaxSeq \in Nat /\ MaxSeq > 1

(* LsaType, in its order *)
Router == 1
Summary == 2
External == 3

(* The target of a Router-LSA is the router itself (LsaHeader::target). *)
Key(type, router, target) ==
  [type |-> type, router |-> router, target |-> target]

RouterKey(r) == Key(Router, r, r)

(* A fresh LSA: sequence number and age are 0. *)
NewLsa(key, links) == [key |-> key, seq |-> 0, dead |-> FALSE, links |-> links]

Header(l) == [key |-> l.key, seq |-> l.seq, dead |-> l.dead]

(* LsaHeader::compare, of LSAs or headers; there is no checksum. *)
Newer(a, b) == a.seq > b.seq \/ (a.seq = b.seq /\ a.dead /\ ~b.dead)
Same(a, b) == a.seq = b.seq /\ a.dead = b.dead

Find(S, key) == {l \in S : l.key = key}
The(S) == CHOOSE l \in S : TRUE
Drop(S, key) == {l \in S : l.key # key}
Put(S, l) == Drop(S, l.key) \cup {l}
Live(S) == {l \in S : ~l.dead}

NoLinks == [n \in {} |-> 0]
Only(x, v) == [y \in {x} |-> v]
Restricted(f, S) == [x \in DOMAIN f \cap S |-> f[x]]
Extended(f, x, v) == [y \in DOMAIN f \cup {x} |-> IF y = x THEN v ELSE f[y]]

(* The links with that to n set or removed; the weight is an option. *)
WithLink(links, n, weight) ==
  IF weight = {} THEN Restricted(links, DOMAIN links \ {n})
  ELSE Extended(links, n, The(weight))
-----------------------------------------------------------------------------
(* Paths.  A node of a shortest-path tree and an entry of the routing      *)
(* table are the same kind of record.                                      *)

Path(fibs, cost, inter, areas) ==
  [fibs |-> fibs, cost |-> cost, inter_area |-> inter, areas |-> areas]

Preferred(p, q) ==
  IF p.inter_area # q.inter_area THEN ~p.inter_area ELSE p.cost < q.cost

(* OspfRibEntry::update, AddAssign: the best paths, merged. *)
Merge(paths) ==
  LET best == {p \in paths : \A q \in paths : ~Preferred(q, p)}
      one == The(best)
  IN  Path(UNION {p.fibs : p \in best}, one.cost, one.inter_area,
           UNION {p.areas : p \in best})

(* Dijkstra's algorithm from root over the live Router-LSAs; link weights  *)
(* are positive.  A round visits the nodes at the least cost beyond the    *)
(* tree, each with the next hops of all its equally good parents.  The     *)
(* links of the other direction are not looked at.                         *)
IntraAreaRoutes(root, lsas, area) ==
  LET links(n) == LET found == Live(Find(lsas, RouterKey(n)))
                  IN  IF found = {} THEN NoLinks ELSE The(found).links
      node(fibs, cost) == Path(fibs, cost, FALSE, {area})
      reached(spt) ==
        {[to |-> e[2], path |-> node(IF e[1] = root THEN {e[2]} ELSE spt[e[1]].fibs,
                                     spt[e[1]].cost + links(e[1])[e[2]])] :
           e \in {x \in (DOMAIN spt) \X (Routers \ DOMAIN spt) :
                    x[2] \in DOMAIN links(x[1])}}
      round(spt, k) ==
        LET all == reached(spt)
            next == {x \in all : \A y \in all : x.path.cost <= y.path.cost}
        IN  [m \in {x.to : x \in next} |->
               Merge({x.path : x \in {y \in next : y.to = m}})] @@ spt
  IN  FoldLeft(round, root :> node({}, 0), [k \in 1 .. Cardinality(Routers) |-> k])

(* compute_inter_area_route: the path a Summary-LSA yields, if any. *)
InterAreaRoute(r, l, spt, area) ==
  LET t == l.key.target
      border == l.key.router
  IN  IF \/ l.key.type # Summary \/ l.dead \/ border = r
         \/ border \notin DOMAIN spt
         \/ t \in DOMAIN spt /\ ~spt[t].inter_area
      THEN {}
      ELSE {Path(spt[border].fibs, spt[border].cost + l.links[t], TRUE, {area})}

(* AreaDataStructure::compute_inter_area_routes, for all targets or for    *)
(* some: then it builds on the inter-area paths to the other targets.      *)
InterAreaRoutes(r, lsas, spt, area, all, some) ==
  LET kept == IF all THEN spt
              ELSE Restricted(spt, {t \in DOMAIN spt :
                                      t \notin some \/ ~spt[t].inter_area})
      paths(t) == UNION {InterAreaRoute(r, l, kept, area) :
                           l \in {x \in lsas : x.key.target = t}}
      targets == {t \in Routers : (all \/ t \in some) /\ paths(t) # {}}
  IN  [t \in targets |-> Merge(paths(t))] @@ kept

(* compute_as_external_routes: the routes to external routers over the     *)
(* routing table rib.  No external router is a target within an area.      *)
ExternalRoutes(r, ext, rib) ==
  LET usable == {l \in Live(ext) : l.key.router \in DOMAIN rib}
      path(l) == LET asbr == rib[l.key.router]
                 IN  Path(IF l.key.router = r THEN {l.key.target} ELSE asbr.fibs,
                          asbr.cost + l.links[l.key.target], asbr.inter_area,
                          {})
  IN  [t \in {l.key.target : l \in usable} |->
         Merge({path(l) : l \in {x \in usable : x.key.target = t}})]

(* is_path_redistributed *)
IsRedistributed(r, area, neighbors, t, path) ==
  /\ t # r
  /\ t \notin Externals
  /\ area \notin path.areas
  /\ path.fibs \cap neighbors = {}
  /\ ~(area = Backbone /\ path.inter_area)
=============================================================================
