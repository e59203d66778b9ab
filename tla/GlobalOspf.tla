------------------------------ MODULE GlobalOspf ------------------------------
(***************************************************************************)
(* The OSPF oracle (ospf/global.rs): one database for the whole domain,    *)
(* from which the tables of all routers are updated at once, and of which  *)
(* only the parts that a change may have affected are computed again.      *)
(*                                                                         *)
(* Coordinators are records, on which the operators work: member, the      *)
(* areas of every router; lsas, the LSAs of every area; ext, the           *)
(* External-LSAs; spts, the trees of every router per area; ribs;          *)
(* redistributed, the costs a router redistributes into an area; tables,   *)
(* the forwarding tables of the routers (GlobalOspfProcess).               *)
(***************************************************************************)
EXTENDS OspfDomain

CONSTANT Order     \* the routers, in the order a hash map yields their LSAs

(* GlobalOspfCoordinator::new, with the processes of all routers *)
NewCoordinator ==
  [member |-> [r \in Routers |-> {}],
   lsas |-> [a \in Areas |-> {}],
   ext |-> {},
   spts |-> [r \in Routers |-> << >>],
   ribs |-> << >>,
   redistributed |-> [x \in Routers \X Areas |-> NoLinks],
   tables |-> [r \in Routers |-> [routes |-> << >>, neighbors |-> {}]]]

(* create_router *)
CreateRouter(g, r) ==
  IF r \in DOMAIN g.ribs THEN g
  ELSE [g EXCEPT !.ribs = r :> (r :> Path({}, 0, FALSE, {})) @@ @]

(* What is to be computed again: areas and external targets. *)
Actions(g, areas, targets) == [g |-> g, areas |-> areas, ext |-> targets]

(* set_internal_link; the weight is an option. *)
SetInternalLink(g, area, src, dst, weight) ==
  LET old == Find(g.lsas[area], RouterKey(src))
      before == IF old = {} THEN NoLinks ELSE The(old).links
      after == WithLink(before, dst, weight)
      created == IF weight = {} THEN g ELSE CreateRouter(CreateRouter(g, src), dst)
      gone == after = NoLinks
  IN  Actions([created EXCEPT
                 !.lsas[area] = IF gone THEN Drop(@, RouterKey(src))
                                ELSE Put(@, NewLsa(RouterKey(src), after)),
                 !.member[src] = IF gone THEN @ \ {area} ELSE @ \cup {area}],
              IF before = after THEN {} ELSE {area}, {})

(* set_external_link *)
SetExternalLinkGlobally(g, int, x, weight) ==
  LET key == Key(External, int, x)
      old == Find(g.ext, key)
      new == {NewLsa(key, x :> w) : w \in weight}
      created == IF weight = {} THEN g ELSE CreateRouter(g, int)
  IN  Actions([created EXCEPT !.ext = Drop(@, key) \cup new], {},
              IF old = new THEN {} ELSE {x})

(* prepare_actions: a change is a sequence of settings of single links. *)
PrepareActions(g, settings) ==
  LET also(o, next) == Actions(next.g, o.areas \cup next.areas, o.ext \cup next.ext)
      set(o, s) == also(o, IF s.type = "internal"
                           THEN SetInternalLink(o.g, s.area, s.src, s.dst, s.weight)
                           ELSE SetExternalLinkGlobally(o.g, s.src, s.dst, s.weight))
  IN  FoldLeft(set, Actions(g, {}, {}), settings)
-----------------------------------------------------------------------------
(* Steps of an update.  They return the coordinator and what has changed:  *)
(* the routers whose tables have, or the targets whose Summary-LSAs have.  *)
Step(g, changed) == [g |-> g, changed |-> changed]
Also(o, next) == Step(next.g, o.changed \cup next.changed)

(* Step 1, update_intra_area_routes *)
UpdateIntraAreaRoutes(g, areas) ==
  LET left(r) == (DOMAIN g.spts[r] \cap areas) \ g.member[r]
      new(r) == g.member[r] \cap areas
      spts(r) == [a \in new(r) |-> IntraAreaRoutes(r, g.lsas[a], a)] @@
                 Restricted(g.spts[r], DOMAIN g.spts[r] \ left(r))
  IN  Step([g EXCEPT !.spts = [r \in Routers |-> spts(r)]],
           {r \in Routers : left(r) \cup new(r) # {}})

IsBorder(g, r, into) ==
  Backbone \in g.member[r] /\ Cardinality(g.member[r]) > 1 /\ into \in g.member[r]

(* Router r now redistributes the paths into the area. *)
SetRedistributed(g, r, into, paths) ==
  LET old == g.redistributed[r, into]
      changed == {t \in DOMAIN old \cup DOMAIN paths :
                    ~(t \in DOMAIN old /\ t \in DOMAIN paths /\ old[t] = paths[t])}
      kept == {l \in g.lsas[into] : \A t \in changed : l.key # Key(Summary, r, t)}
      new == {NewLsa(Key(Summary, r, t), t :> paths[t]) : t \in changed \cap DOMAIN paths}
  IN  Step([g EXCEPT !.redistributed[<<r, into>>] = paths, !.lsas[into] = kept \cup new],
           changed)

(* update_summary_lsas_of_router: the paths replace all that were          *)
(* redistributed, from whatever area and to whatever target.               *)
UpdateSummaryLsasOfRouter(g, r, from, into, all, targets) ==
  LET spt == g.spts[r]
      own == Find(g.lsas[into], RouterKey(r))
      neighbors == UNION {DOMAIN l.links : l \in own}
      redistributed(t) ==
        /\ all \/ t \in targets
        /\ ~(t \in DOMAIN spt[into] /\ ~spt[into][t].inter_area)
        /\ spt[from][t].fibs \cap neighbors = {}
        /\ spt[from][t].inter_area => from = Backbone
      paths == [t \in {u \in DOMAIN spt[from] : redistributed(u)} |-> spt[from][t].cost]
  IN  IF {from, into} \subseteq DOMAIN spt THEN SetRedistributed(g, r, into, paths)
      ELSE Step(g, {})

(* remove_old_summary_lsas *)
RemoveOldSummaryLsas(g, r, into) ==
  IF IsBorder(g, r, into) THEN Step(g, {}) ELSE SetRedistributed(g, r, into, NoLinks)

(* Steps 2 and 4, update_summary_lsas of the LSAs of area into *)
UpdateSummaryLsasInto(g, into, areas, targets) ==
  LET sources(o, r) ==
        IF IsBorder(o.g, r, into)
        THEN SetToSortSeq({a \in o.g.member[r] \ {into} : targets # {} \/ a \in areas}, <)
        ELSE << >>
      of(o, r, from) ==
        Also(o, UpdateSummaryLsasOfRouter(o.g, r, from, into, from \in areas, targets))
      routed(o, r) == FoldLeft(LAMBDA acc, from : of(acc, r, from), o, sources(o, r))
      router(o, r) == routed(Also(o, RemoveOldSummaryLsas(o.g, r, into)), r)
  IN  FoldLeft(router, Step(g, {}), Order)

(* The tree spt of router r, with its paths from Summary-LSAs updated, and *)
(* whether there was anything to update.  A path may build on one that was *)
(* found before.                                                           *)
InterAreaSpt(g, r, area, spt, all, targets) ==
  LET kept == IF all THEN spt
              ELSE Restricted(spt, {t \in DOMAIN spt :
                                      t \notin targets \/ ~spt[t].inter_area})
      due(q) == SetToSortSeq({l \in g.lsas[area] :
                  l.key.router = q /\ (all \/ l.key.target \in targets)},
                  LAMBDA l, m : l.key.target < m.key.target)
      add(o, l) ==
        LET t == l.key.target
            new == InterAreaRoute(r, l, o.spt, area)
            old == {o.spt[u] : u \in DOMAIN o.spt \cap {t}}
        IN  IF new = {} THEN o
            ELSE [spt |-> t :> Merge(new \cup old) @@ o.spt, modified |-> TRUE]
  IN  FoldLeft(add, [spt |-> kept, modified |-> kept # spt],
               FlattenSeq([i \in DOMAIN Order |-> due(Order[i])]))

(* Steps 3 and 5, update_inter_area_routes of area *)
UpdateInterAreaRoutes(g, area, all, targets) ==
  LET members == {r \in Routers : area \in g.member[r]}
      spt(r) == IF area \in DOMAIN g.spts[r] THEN g.spts[r][area] ELSE << >>
      result == [r \in members |->
                   InterAreaSpt(g, r, area, spt(r), r \in all, targets)]
  IN  Step([g EXCEPT !.spts = [r \in Routers |->
              IF r \in members THEN (area :> result[r].spt) @@ @[r] ELSE @[r]]],
           {r \in members : result[r].modified})
-----------------------------------------------------------------------------
(* Step 6, recompute_rib *)
Rib(g, r) ==
  LET paths(t) == (IF t = r THEN {Path({}, 0, FALSE, {})} ELSE {}) \cup
                  {g.spts[r][a][t] : a \in {b \in DOMAIN g.spts[r] \cap g.member[r] :
                                              t \in DOMAIN g.spts[r][b]}}
  IN  [t \in {u \in Routers : paths(u) # {}} |-> Merge(paths(t))]

(* Faulty: the targets that are gone are not removed. *)
Faulty_WithExternalPaths(g, r, rib, all, targets) ==
  LET fresh == ExternalRoutes(r, g.ext, rib)
  IN  fresh @@ rib

(* Step 7, update_as_external_paths: of all targets or some. *)
WithExternalPaths(g, r, rib, all, targets) ==
  LET internal == Restricted(rib, Routers)
      due == {l \in g.ext : all \/ l.key.target \in targets}
      kept == IF all THEN rib ELSE Restricted(rib, DOMAIN rib \ targets)
  IN  ExternalRoutes(r, due, internal) @@ kept

(* Step 8, update_table: what router r forwards by. *)
TableOf(g, r, links, external) ==
  [routes |-> [t \in DOMAIN g.ribs[r] |->
                 [next_hops |-> g.ribs[r][t].fibs, cost |-> g.ribs[r][t].cost]],
   neighbors |-> {n \in Routers : <<r, n>> \in DOMAIN links} \cup
                 {x \in Externals : <<r, x>> \in external}]

(* Steps 6 to 8, for the routers whose trees were modified, o.changed *)
UpdateTables(o, ext, links, external) ==
  LET g == o.g  modified == o.changed
      rib(r) == IF r \in modified THEN Rib(g, r) ELSE g.ribs[r]
      done == [g EXCEPT !.ribs = [r \in DOMAIN g.ribs \cup modified |->
                 WithExternalPaths(g, r, rib(r), r \in modified, ext)]]
      reached(r) == {l.key.target : l \in {m \in g.ext : m.key.router \in DOMAIN rib(r)}}
      renewed == modified \cup
                 {r \in DOMAIN g.ribs : ext \cap (DOMAIN g.ribs[r] \cup reached(r)) # {}}
  IN  [done EXCEPT !.tables = [r \in Routers |->
         IF r \in renewed THEN TableOf(done, r, links, external) ELSE @[r]]]

OtherAreas == SetToSortSeq(Areas \ {Backbone}, <)

(* Step 4: the Summary-LSAs of the other areas, for the targets up whose   *)
(* Summary-LSAs in the backbone changed; to every area its own targets.    *)
SummariseOthers(g, areas, up) ==
  LET noted(acc, a, next) == [g |-> next.g, targets |-> acc.targets @@ (a :> next.changed)]
  IN  FoldLeft(LAMBDA acc, a : noted(acc, a,
                 UpdateSummaryLsasInto(acc.g, a, areas \cap {Backbone}, up)),
               [g |-> g, targets |-> << >>], OtherAreas)

(* Step 5, of the routers changed so far *)
RouteOthers(down, changed) ==
  FoldLeft(LAMBDA o, a : Also(o, UpdateInterAreaRoutes(o.g, a, o.changed, down.targets[a])),
           Step(down.g, changed), OtherAreas)

(* Steps 4 and 5; o is after step 3, and areas are to be computed again. *)
Downwards(o, areas, up) == RouteOthers(SummariseOthers(o.g, areas, up), o.changed)

(* Steps 3 to 5: from the backbone, with its Summary-LSAs of step 2 *)
FromBackbone(summaries, areas, changed) ==
  Downwards(Also(Step(summaries.g, changed),
                 UpdateInterAreaRoutes(summaries.g, Backbone, changed, summaries.changed)),
            areas, summaries.changed)

(* Steps 2 to 5, after the trees have been updated *)
InterArea(o, areas) ==
  FromBackbone(UpdateSummaryLsasInto(o.g, Backbone, areas, {}), areas, o.changed)

(* perform_actions *)
PerformActionsGlobally(o, links, external) ==
  UpdateTables(InterArea(UpdateIntraAreaRoutes(o.g, o.areas), o.areas),
               o.ext, links, external)

(* OspfCoordinator::update of global OSPF, with the links as they are now. *)
Update(coordinator, settings, ls, xs) ==
  PerformActionsGlobally(PrepareActions(coordinator, settings), ls, xs)

(* The oracle as it is after OspfDomain::reset. *)
Restarted(ls, xs) ==
  Update(NewCoordinator, BatchSettings(<< >>, ResetBatch(ls, xs)), ls, xs)
=============================================================================
