------------------------- MODULE OspfProperties ----------------------------
(***************************************************************************)
(* What OSPF promises: local OSPF once simulate() has returned and on the  *)
(* way, and global OSPF after every operation.                             *)
(***************************************************************************)
EXTENDS Ospf

Linked(r, a) == {n \in Routers : <<r, n>> \in DOMAIN links /\ links[r, n].area = a}
AreasOf(r) == {a \in Areas : Linked(r, a) # {}}
LsasOf(p) == p.ext \cup UNION {p.areas[a].lsas : a \in DOMAIN p.areas}

(* What a router remembers to redistribute into an area is in its database *)
(* at any time: redistribute_from_paths counts on it ("Key must exist").   *)
NoMissingSummary ==
  \A r \in Routers : \A a \in DOMAIN procs[r].areas :
    \A t \in DOMAIN procs[r].areas[a].redistributed :
      Stored(procs[r], Key(Summary, r, t), a) # {}

(* Type invariant of the parts that the handlers index without a check: a  *)
(* router's neighbors and areas are those of its links, at any time, and   *)
(* every neighbor's area has a data structure with the own Router-LSA; and *)
(* no summary is missing.                                                  *)
TypeOK ==
  /\ NoMissingSummary
  /\ implementation = "local" => \A r \in Routers :
       LET p == procs[r]
       IN  /\ DOMAIN p.areas = AreasOf(r)
           /\ \A a \in AreasOf(r) : Stored(p, RouterKey(r), a) # {}
           /\ Neighbors(p) = {n \in Routers : <<r, n>> \in DOMAIN links}
           /\ \A n \in Neighbors(p) : p.nbrs[n].area = links[r, n].area

(* When simulate() has returned, every adjacency is up in both directions  *)
(* (NeighborState::Full), and no LSA is left that somebody still has to    *)
(* acknowledge, or that is dead but not removed.                           *)
AdjacenciesFull ==
  settled => \A r \in Routers :
    /\ \A n \in Neighbors(procs[r]) :
         /\ procs[r].nbrs[n].state = "Full"
         /\ procs[r].nbrs[n].request = {} /\ procs[r].nbrs[n].retransmission = {}
    /\ procs[r].track = {}
    /\ \A l \in LsasOf(procs[r]) : ~l.dead

(* Then, too, neighbors hold the same LSAs of their area and the same      *)
(* External-LSAs: flooding and the exchange of databases lost nothing.     *)
DatabasesAgree ==
  settled => \A e \in DOMAIN links :
    LET p == procs[e[1]]  q == procs[e[2]]  a == links[e].area
    IN  p.areas[a].lsas = q.areas[a].lsas /\ p.ext = q.ext

(* And every router advertises its links as they are, whatever changes     *)
(* came in between, also when its sequence numbers have run out.           *)
OwnLsasCurrent ==
  settled => \A r \in Routers :
    /\ \A a \in AreasOf(r) :
         OwnLsa(procs[r], a).links = [n \in Linked(r, a) |-> links[r, n].weight]
    /\ {l.key.target : l \in {m \in procs[r].ext : m.key.router = r}} =
         {x \in Externals : <<r, x>> \in external}

(* What simulate() leaves in the databases: the links as they are, at      *)
(* every router the same.                                                  *)
DatabasesCurrent == DatabasesAgree /\ OwnLsasCurrent

(* When simulate() has returned, a border router's Summary-LSAs are those  *)
(* that its routing table asks for, with the costs in it.                  *)
SummariesCurrent ==
  settled => \A r \in Routers : \A a \in DOMAIN procs[r].areas :
    LET own == {l \in procs[r].areas[a].lsas : l.key.type = Summary /\ l.key.router = r}
        paths == RedistributedPaths(procs[r], a)
    IN  /\ {l.key.target : l \in own} = DOMAIN paths
        /\ \A l \in own : l.links[l.key.target] = paths[l.key.target]

(* The trees and the routing table of a router, which are computed again   *)
(* in part only, are what its database yields from scratch.                *)
TablesCurrent ==
  settled => \A r \in Routers :
    LET p == procs[r]
        fresh == [a \in DOMAIN p.areas |->
                    LET lsas == p.areas[a].lsas
                    IN  [spt |-> InterAreaRoutes(r, lsas, IntraAreaRoutes(r, lsas, a),
                                                 a, TRUE, {})]]
    IN  /\ p.rib = RoutingTable(r, fresh, p.ext)
        /\ \A a \in DOMAIN fresh : fresh[a].spt = p.areas[a].spt

(* Local OSPF computes the routes that global OSPF computes for the links: *)
(* the same next hops and costs (into_global and from_global swap the one  *)
(* for the other and take the routes to be the same).                      *)
TablesAsGlobal ==
  settled => \A ribs \in {Restarted(links, external).ribs} : \A r \in DOMAIN ribs :
    LET route(path) == [next_hops |-> path.fibs, cost |-> path.cost]
    IN  /\ DOMAIN procs[r].rib = DOMAIN ribs[r]
        /\ \A t \in DOMAIN ribs[r] : route(procs[r].rib[t]) = route(ribs[r][t])

(* A router forgets that it flushes an LSA of its own, and may use its     *)
(* sequence numbers anew, only when no neighbor that is in touch has a     *)
(* live instance left: one that could come back to life.                   *)
FlushComplete ==
  [][\A r \in Routers : \A t \in procs[r].track :
       /\ t.key.router = r
       /\ \A s \in procs'[r].track : s.key # t.key \/ s.area # t.area
       =>
         \A n \in Neighbors(procs'[r]) :
           /\ t.area \in {NoArea, procs'[r].nbrs[n].area}
           /\ procs'[r].nbrs[n].state = "Full" /\ procs[n].nbrs[r].state = "Full"
           => \A l \in Stored(procs[n], t.key, t.area) : l.dead]_vars

(* After any change simulate() returns: neither repeated messages nor LSAs *)
(* that are aged and issued anew keep it going forever.                    *)
EventuallySettled == []<>(settled \/ implementation = "global")
-----------------------------------------------------------------------------
(* A converged domain can change to global OSPF: all routers, also those   *)
(* that are no neighbors or not connected, hold the same instances of what *)
(* they hold (into_global returns InconsistentOspfState otherwise).        *)
Convertible == settled => Consistent(procs)

(* The properties of global OSPF (see OspfOracle), also if it takes over   *)
(* the state of local OSPF.                                                *)
Globally(P) == implementation = "global" => P
GlobalCurrent == Globally(/\ Global!IntraAreaCurrent /\ Global!RibsCurrent
                          /\ Global!TablesCurrent /\ Global!SummariesBooked)
SummariesComplete == Globally(Global!SummariesComplete)
-----------------------------------------------------------------------------
(***************************************************************************)
(* What the state of local OSPF looks like at any time: the inductive      *)
(* invariant from which AdjacenciesFull follows (module OspfProofs).       *)
(*                                                                         *)
(* Its core: a dead LSA is tracked until it is acknowledged, whatever is   *)
(* tracked somebody still has to acknowledge, and a neighbor in state Init *)
(* has been sent a description of the database that is still on its way.   *)
(***************************************************************************)

(* Sequences, whatever their elements are                                  *)
IsSeq(s) == Len(s) \in Nat /\ s = [i \in 1 .. Len(s) |-> s[i]]
Elems(s) == {s[i] : i \in 1 .. Len(s)}

(* An LSA; MAX_AGE is told from other ages.                                *)
IsLsa(l) ==
  /\ l = [key |-> l.key, seq |-> l.seq, dead |-> l.dead, links |-> l.links]
  /\ l.dead \in BOOLEAN

IsLsas(S) == IsFiniteSet(S) /\ \A l \in S : IsLsa(l)

(* An area's data structure of router id has its own Router-LSA.           *)
IsArea(ds, id) ==
  /\ ds = [lsas |-> ds.lsas, spt |-> ds.spt, recompute_intra |-> ds.recompute_intra,
           recompute_inter |-> ds.recompute_inter, redistributed |-> ds.redistributed]
  /\ IsLsas(ds.lsas)
  /\ \A l \in ds.lsas : l.key.type # External
  /\ \E l \in ds.lsas : l.key = RouterKey(id)
  /\ IsFiniteSet(DOMAIN ds.redistributed)

IsBase(areas, ext, id) ==
  /\ DOMAIN areas \subseteq Areas
  /\ areas = [a \in DOMAIN areas |-> areas[a]]
  /\ \A a \in DOMAIN areas : IsArea(areas[a], id)
  /\ IsLsas(ext)
  /\ \A l \in ext : l.key.type = External

(* A neighbor.  The leader of the exchange leaves Init at once, and the    *)
(* other end is never in Exchange.                                         *)
IsNbr(nb, id, n) ==
  /\ nb = [area |-> nb.area, leader |-> nb.leader, state |-> nb.state,
           retransmission |-> nb.retransmission, summary |-> nb.summary,
           request |-> nb.request]
  /\ nb.leader = (id < n)
  /\ nb.state \in {"Init", "Exchange", "Loading", "Full"}
  /\ nb.state = "Init" => ~nb.leader
  /\ nb.state = "Exchange" => nb.leader
  /\ nb.state = "Full" => nb.request = {}
  /\ IsLsas(nb.retransmission)
  /\ IsLsas(nb.summary)

IsNbrs(nbrs, areas, id) ==
  /\ DOMAIN nbrs \subseteq Routers
  /\ nbrs = [n \in DOMAIN nbrs |-> nbrs[n]]
  /\ \A n \in DOMAIN nbrs : IsNbr(nbrs[n], id, n) /\ nbrs[n].area \in DOMAIN areas

(* An LSA that is flushed, and the live instance that takes its place then, *)
(* if any.  The own Router-LSA is never removed.                           *)
IsEdit(e, id) ==
  /\ IsLsas(e.after)
  /\ \A l \in e.after : l.key = e.key
  /\ e.key = RouterKey(id) => e.after # {}
  /\ e.key.type # External => e.area \in Areas

IsTrack(t, id) ==
  /\ t = [area |-> t.area, key |-> t.key, after |-> t.after]
  /\ IsEdit(t, id)
  /\ \A l \in t.after : l.dead = FALSE

IsKept(track, id) ==
  /\ IsFiniteSet(track)
  /\ \A t \in track : IsTrack(t, id) /\ (t.key.type = External => t.area = NoArea)

IsShape(p, id) ==
  p = [id |-> id, areas |-> p.areas, ext |-> p.ext, ext_changed |-> p.ext_changed,
       rib |-> p.rib, links |-> p.links, nbrs |-> p.nbrs, track |-> p.track]

IsProc(p, id) ==
  /\ IsShape(p, id)
  /\ id \in Routers
  /\ IsBase(p.areas, p.ext, id)
  /\ IsNbrs(p.nbrs, p.areas, id)
  /\ IsKept(p.track, id)
  /\ IsFiniteSet(DOMAIN p.rib)

(* Every dead LSA in the database is tracked, in T.                        *)
Awaited(areas, ext, T) ==
  /\ \A l \in ext : l.dead = TRUE => \E t \in T : t.key = l.key
  /\ \A a \in DOMAIN areas : \A l \in areas[a].lsas :
       l.dead = TRUE => \E t \in T : t.key = l.key /\ t.area = a

(* What is tracked, somebody has not acknowledged.                         *)
Pending(p) ==
  \A t \in p.track : \E n \in DOMAIN p.nbrs :
    t.area \in {NoArea, p.nbrs[n].area} /\ WaitingForAck(p.nbrs[n], t.key)

(* Messages, as they are collected and as they are sent in the end         *)
Kinds == {"DatabaseDescription", "LinkStateRequest", "LinkStateAck", "LinkStateUpdate"}
Listed == {"LinkStateAck", "LinkStateUpdate"}

IsMsg(m) ==
  /\ m = [kind |-> m.kind, lsas |-> m.lsas]
  /\ m.kind \in Kinds
  /\ m.kind = "LinkStateUpdate" => IsLsas(m.lsas)

IsMsgs(ms) == IsSeq(ms) /\ \A m \in Elems(ms) : IsMsg(m)

Described(ms) == \E i \in 1 .. Len(ms) : ms[i].kind = "DatabaseDescription"
-----------------------------------------------------------------------------
(* The links: in both directions, in the same area                         *)
IsLinks(ls) ==
  /\ ls = [e \in DOMAIN ls |-> ls[e]]
  /\ \A e \in DOMAIN ls : ls[e] = [weight |-> ls[e].weight, area |-> ls[e].area]
  /\ \A r, n \in Routers : <<r, n>> \in DOMAIN ls =>
       r # n /\ <<n, r>> \in DOMAIN ls /\ ls[<<n, r>>].area = ls[<<r, n>>].area

(* The neighbors nbrs of router r are those of its links.                  *)
Matches(nbrs, ls, r) ==
  /\ DOMAIN nbrs \subseteq Routers
  /\ \A n \in Routers : n \in DOMAIN nbrs <=> <<r, n>> \in DOMAIN ls
  /\ \A n \in DOMAIN nbrs : nbrs[n].area = ls[<<r, n>>].area

RouterFits(p, ls, r) ==
  /\ IsProc(p, r) /\ Awaited(p.areas, p.ext, p.track) /\ Pending(p)
  /\ Matches(p.nbrs, ls, r)

IsChannels(cs) ==
  /\ cs = [a \in Routers |-> cs[a]]
  /\ \A a \in Routers : cs[a] = [b \in Routers |-> cs[a][b]]
  /\ \A a, b \in Routers : IsMsgs(cs[a][b])

(* Whoever waits for a description is sent one.                            *)
InitDescribed(ps, cs) ==
  \A a, b \in Routers :
    b < a /\ b \in DOMAIN ps[a].nbrs /\ ps[a].nbrs[b].state = "Init" => Described(cs[b][a])

InTouch(ps, cs, ls) ==
  /\ ps = [r \in Routers |-> ps[r]] /\ IsChannels(cs)
  /\ \A r \in Routers : RouterFits(ps[r], ls, r)
  /\ InitDescribed(ps, cs)

NobodyWaits(ps) ==
  \A r \in Routers : \A n \in DOMAIN ps[r].nbrs : ~IsWaitingForTimeout(ps[r].nbrs[n])

OspfInv ==
  /\ implementation \in {"local", "global"}
  /\ implementation = "global" => settled = FALSE
  /\ implementation = "local" =>
       /\ IsLinks(links)
       /\ script \in Seq(SUBSET [op : Seq(Changes), hasty : BOOLEAN])
       /\ InTouch(procs, chan, links)
       /\ settled = TRUE => Quiet /\ NobodyWaits(procs)

(* What from_global makes of the domains in Conversions: processes of that *)
(* form, all of whose adjacencies are up.                                  *)
ConversionsFit ==
  \A t \in Conversions :
    \E ps \in {[r \in Routers |-> FromGlobal(Restarted(t.links, t.external), r)]} :
      InTouch(ps, NoChannels, t.links) /\ NobodyWaits(ps)
================================================================================
