------------------------------ MODULE OspfProcess ------------------------------
(***************************************************************************)
(* The OSPF process of a router running local OSPF                         *)
(* (ospf/local/process.rs): changes of its neighborhood, events from its   *)
(* neighbors, flooding, and the MaxAge LSAs it waits for.                  *)
(***************************************************************************)
EXTENDS OspfNeighbor

NoArea == -1    \* the area of External-LSAs in track_max_age

(* LocalOspfProcess::new *)
NewProcess(r) ==
  [id |-> r,
   areas |-> << >>,
   ext |-> {},
   ext_changed |-> FALSE,
   rib |-> Only(r, Path({}, 0, FALSE, {})),
   links |-> NoLinks,              \* neighbor_links
   nbrs |-> << >>,                 \* neighbors
   track |-> {}]                   \* track_max_age: [area, key, after]

Neighbors(p) == DOMAIN p.nbrs

Tracked(t) == [t EXCEPT !.area = IF t.key.type = External THEN NoArea ELSE @]
SameLsa(s, t) == s.key = t.key /\ s.area = t.area

(* Faulty: an earlier entry of the same LSA stays. *)
Faulty_PutTracks(tracks, new) ==
  LET entries == {Tracked(t) : t \in new}
  IN  tracks \cup {t \in entries : \A x \in tracks : ~SameLsa(x, t)}

(* New entries replace earlier ones of the same LSA. *)
PutTracks(tracks, new) ==
  LET entries == {Tracked(t) : t \in new}
  IN  {x \in tracks : \A t \in entries : ~SameLsa(x, t)} \cup entries

(* Of a sequence of entries the last one of every LSA counts. *)
LastTracks(ts) ==
  {ts[i] : i \in {j \in DOMAIN ts : \A k \in DOMAIN ts :
                    k > j => ~SameLsa(Tracked(ts[k]), Tracked(ts[j]))}}

(* ProcessActions, AddAssign *)
Then(o, next) ==
  [p |-> next.p, events |-> [n \in Routers |-> o.events[n] \o next.events[n]],
   flood |-> o.flood \o next.flood, track |-> o.track \o next.track]

(* The outcome of an update of an own LSA in area a (see OspfDatabase). *)
Published(u, a) ==
  [Outcome(u.p) EXCEPT
     !.flood = [i \in 1 .. Cardinality(u.flood) |->
                  [lsa |-> The(u.flood), area |-> a, except |-> 0]],
     !.track = [i \in 1 .. Cardinality(u.after) |->
                  [area |-> a, key |-> The(u.flood).key, after |-> The(u.after)]]]
-----------------------------------------------------------------------------
(* update_weight; the weight is an option. *)
UpdateWeight(p, n, a, weight) ==
  LET kept(o) == IF o.flood = << >> THEN o
                 ELSE [o EXCEPT !.p.links = WithLink(@, n, weight)]
  IN  kept(Published(UpdateLocalLsa(p, n, a, weight), a))

(* The link to n in the Router-LSA of area a is set, after o. *)
ThenLink(o, n, a, weight) ==
  Then(o, Published(UpdateLocalLsa(o.p, n, a, weight), a))

(* A new neighbor, and the start of the exchange with it. *)
Adjoin(o, n, a) ==
  Then(o, Start([o.p EXCEPT !.nbrs = Extended(@, n, NewNeighbor(o.p.id, n, a))], n))

(* The data structure of an area goes with its last neighbor. *)
LeaveArea(p, a) ==
  IF \E n \in Neighbors(p) : p.nbrs[n].area = a THEN p
  ELSE [WithoutArea(p, a) EXCEPT !.track = {t \in @ : t.area # a}]

AddNeighbor(p, n, a, weight) ==
  Adjoin(UpdateWeight(WithArea(p, a), n, a, {weight}), n, a)

DelNeighbor(p, n) ==
  LET a == p.nbrs[n].area
      gone == [p EXCEPT !.nbrs = Restricted(@, Neighbors(p) \ {n})]
      o == UpdateWeight(gone, n, a, {})
  IN  [o EXCEPT !.p = LeaveArea(@, a)]

(* Faulty: the link stays in the Router-LSA of the old area. *)
Faulty_ChangeArea(p, n, a) ==
  LET old == p.nbrs[n].area
      gone == [p EXCEPT !.nbrs = Restricted(@, Neighbors(p) \ {n})]
      o == Adjoin(ThenLink(Outcome(WithArea(gone, a)), n, a, {p.links[n]}), n, a)
  IN  IF old = a THEN Outcome(WithArea(p, a))
      ELSE [o EXCEPT !.p = LeaveArea(@, old)]

(* LocalNeighborhoodChange::Area, with update_area *)
ChangeArea(p, n, a) ==
  LET old == p.nbrs[n].area
      gone == [WithArea(p, a) EXCEPT !.nbrs = Restricted(@, Neighbors(p) \ {n})]
      left == ThenLink(Outcome(gone), n, old, {})
      o == Adjoin(ThenLink(left, n, a, {p.links[n]}), n, a)
  IN  IF old = a THEN Outcome(WithArea(p, a))
      ELSE [o EXCEPT !.p = LeaveArea(@, old)]

SetExternalLink(p, x, weight) ==
  Published(UpdateExternalLsa([p EXCEPT !.links = WithLink(@, x, weight)], x, weight),
            NoArea)

(* prepare_neighborhood_change, of one change or the changes of a batch. *)
Prepare(p, change) ==
  CASE change.type = "AddNeighbor" -> AddNeighbor(p, change.neighbor, change.area, change.weight)
    [] change.type = "DelNeighbor" -> DelNeighbor(p, change.neighbor)
    [] change.type = "Area" -> ChangeArea(p, change.neighbor, change.area)
    [] change.type = "Weight" -> UpdateWeight(p, change.neighbor,
                                   p.nbrs[change.neighbor].area, {change.weight})
    [] change.type = "SetExternalLink" -> SetExternalLink(p, change.ext, change.weight)
    [] OTHER -> Outcome(p)
-----------------------------------------------------------------------------
(* The neighbors after the LSAs are flooded to them, and what they are sent. *)
Flooded(o, results) ==
  LET sent(n) == IF n \in DOMAIN results /\ results[n].send # << >>
                 THEN <<Message("LinkStateUpdate", results[n].send)>> ELSE << >>
  IN  [o EXCEPT !.p.nbrs = [n \in DOMAIN results |-> results[n].nb],
                !.events = [n \in Routers |-> @[n] \o sent(n)]]

(* flood: to all neighbors that are to receive the LSAs. *)
FloodAll(o) ==
  Flooded(o, [n \in Neighbors(o.p) |-> Flood(o.p.nbrs[n], n, o.flood)])

(* All neighbors that were to receive a tracked LSA have acknowledged it. *)
Acknowledged(p, t) ==
  \A n \in Neighbors(p) :
    t.area \in {NoArea, p.nbrs[n].area} => ~WaitingForAck(p.nbrs[n], t.key)

(* track_max_age: what was acknowledged by all neighbors is replaced by    *)
(* its next instance, or removed; only these instances are left to flood.  *)
TrackMaxAge(o) ==
  LET done == {t \in o.p.track : Acknowledged(o.p, t)}
      left == [o.p EXCEPT !.track = @ \ done]
      renewed == {t \in done : t.after # {}}
  IN  [o EXCEPT
         !.p = Edit(left, done),
         !.flood = SetToSeq({[lsa |-> The(t.after), area |-> t.area, except |-> 0] :
                               t \in renewed})]

(* batch_events: what a router is sent in the end.  The updates ms are     *)
(* merged, and so are the acknowledgments; the last instance of an LSA     *)
(* prevails.                                                               *)
Merged(ms, kind) ==
  LET places == UNION {{i} \X DOMAIN ms[i].lsas : i \in {j \in DOMAIN ms : ms[j].kind = kind}}
      lsa(x) == ms[x[1]].lsas[x[2]]
      later(x, y) == x[1] > y[1] \/ (x[1] = y[1] /\ x[2] > y[2])
  IN  {lsa(x) : x \in {y \in places :
                         \A z \in places : later(z, y) => lsa(z).key # lsa(y).key}}

Batch(ms) ==
  LET add(sent, m) == IF m.kind \in {"LinkStateAck", "LinkStateUpdate"} THEN sent
                      ELSE Append(sent, m)
      others[k \in 0 .. Len(ms)] == IF k = 0 THEN << >> ELSE add(others[k - 1], ms[k])
      batch(kind) == IF \E i \in DOMAIN ms : ms[i].kind = kind
                     THEN <<Message(kind, Merged(ms, kind))>> ELSE << >>
  IN  others[Len(ms)] \o batch("LinkStateAck") \o batch("LinkStateUpdate")

(* The routing table and the Summary-LSAs, if they are to be computed again. *)
Rerouted(p) ==
  IF Outdated(p) THEN UpdateSummaryLsas(UpdateRoutingTable(p))
  ELSE [p |-> p, flood |-> {}, track |-> {}]

(* The actions of o, after p was routed as u. *)
Redistributed(o, u) ==
  [o EXCEPT !.p = [u.p EXCEPT !.track = PutTracks(@, u.track)],
            !.flood = @ \o SetToSeq({[lsa |-> f.lsa, area |-> f.area, except |-> 0] :
                                       f \in u.flood})]

(* The new state, and the messages to every router *)
Sent(o) == [p |-> o.p, sent |-> [n \in Routers |-> Batch(o.events[n])]]

(* perform_actions *)
PerformActions(o) ==
  LET tracked == [o.p EXCEPT !.track = PutTracks(@, LastTracks(o.track))]
  IN  Sent(FloodAll(TrackMaxAge(FloodAll(Redistributed(o, Rerouted(tracked))))))

(* handle_neighborhood_change *)
HandleChange(p, changes) ==
  LET next(o, c) == Then(o, Prepare(o.p, c))
      after[k \in 0 .. Len(changes)] ==
        IF k = 0 THEN Outcome(p) ELSE next(after[k - 1], changes[k])
  IN  PerformActions(after[Len(changes)])

(* handle_event; an event of a router that is no neighbor is ignored. *)
HandleEvent(p, n, m) ==
  PerformActions(
    IF n \notin Neighbors(p) THEN Outcome(p)
    ELSE CASE m.kind = "DatabaseDescription" -> RecvDescription(p, n, m.lsas)
           [] m.kind = "LinkStateRequest" -> RecvRequest(p, n, m.lsas)
           [] m.kind = "LinkStateAck" ->
                Outcome([p EXCEPT !.nbrs[n] = RecvAck(@, m.lsas)])
           [] m.kind = "LinkStateUpdate" ->
                RecvUpdate(p, n, m.lsas, \E k \in Neighbors(p) : IsPartialSync(p.nbrs[k])))

(* trigger_timeout, for the neighbor it picks *)
TriggerTimeout(p, n) == PerformActions(Timeout(p, n))
=============================================================================
