---------------------------- MODULE OspfConversion ----------------------------
(***************************************************************************)
(* Changing the implementation of OSPF of a converged domain (OspfImpl for *)
(* LocalOspf in ospf/local/mod.rs; Network::into_global_ospf and           *)
(* into_local_ospf): the state of the one is rewritten as the state of the *)
(* other, and nothing is computed again.                                   *)
(***************************************************************************)
EXTENDS OspfProcess, GlobalOspf

(* AreaDataStructure::from_raw *)
FromRaw(r, a, lsas, spt, redistributed) ==
  [NewArea(r, a) EXCEPT
     !.lsas = IF lsas = {} THEN @ ELSE lsas,
     !.spt = IF spt = << >> THEN @ ELSE spt,
     !.redistributed = redistributed]

(* from_global: the process of router r.  All adjacencies are up. *)
FromGlobal(c, r) ==
  LET areas == c.member[r]
      neighbors(a) == UNION {DOMAIN l.links : l \in Find(c.lsas[a], RouterKey(r))}
      area(n) == CHOOSE a \in areas : n \in neighbors(a)
      spt(a) == IF a \in DOMAIN c.spts[r] THEN c.spts[r][a] ELSE << >>
      weight(n) == IF n \in Externals THEN 0
                   ELSE The(Find(c.lsas[area(n)], RouterKey(r))).links[n]
  IN  RemoveUnreachable(
        [NewProcess(r) EXCEPT
           !.links = [n \in c.tables[r].neighbors |-> weight(n)],
           !.nbrs = [n \in UNION {neighbors(a) : a \in areas} |->
                       [NewNeighbor(r, n, area(n)) EXCEPT !.state = "Full"]],
           !.areas = [a \in areas |->
                        FromRaw(r, a, c.lsas[a], spt(a), c.redistributed[r, a])],
           !.ext = c.ext,
           !.rib = IF r \in DOMAIN c.ribs THEN c.ribs[r] ELSE << >>])

(* into_global refuses a domain whose routers hold different instances of  *)
(* an LSA, or one that is being flushed.                                   *)
Consistent(ps) ==
  \A r, s \in Routers :
    LET agree(S, T) == \A l \in S : ~l.dead /\ \A m \in Find(T, l.key) : Same(l, m)
    IN  /\ agree(ps[r].ext, ps[s].ext)
        /\ \A a \in DOMAIN ps[r].areas \cap DOMAIN ps[s].areas :
             agree(ps[r].areas[a].lsas, ps[s].areas[a].lsas)

(* into_global: the coordinator of the processes ps.  Sequence numbers     *)
(* have no meaning in it.                                                  *)
IntoGlobal(ps) ==
  LET united(S) == {[l EXCEPT !.seq = 0] : l \in S}
      in(r) == DOMAIN ps[r].areas
      rib(r) == ps[r].rib @@ (r :> Path({}, 0, FALSE, {}))
      route(path) == [next_hops |-> path.fibs, cost |-> path.cost]
  IN  [member |-> [r \in Routers |-> in(r)],
       lsas |-> [a \in Areas |->
                   united(UNION {ps[r].areas[a].lsas : r \in {q \in Routers : a \in in(q)}})],
       ext |-> united(UNION {ps[r].ext : r \in Routers}),
       spts |-> [r \in Routers |-> [a \in in(r) |-> ps[r].areas[a].spt]],
       ribs |-> [r \in Routers |-> rib(r)],
       redistributed |-> [x \in Routers \X Areas |->
                            IF x[2] \in in(x[1]) THEN ps[x[1]].areas[x[2]].redistributed
                            ELSE NoLinks],
       tables |-> [r \in Routers |->
                     [routes |-> [t \in DOMAIN ps[r].rib |-> route(ps[r].rib[t])],
                      neighbors |-> DOMAIN ps[r].links]]]
=============================================================================
