----------------------------- MODULE OspfNeighbor -----------------------------
(***************************************************************************)
(* The neighbor state machine of local OSPF (ospf/local/neighbor.rs): the  *)
(* exchange of databases with one neighbor, and reliable flooding to it.   *)
(*                                                                         *)
(* A handler takes the state p of the router and the neighbor n, and       *)
(* returns an outcome [p, events, flood, track]: the new state, the        *)
(* messages to send to every router, the LSAs to flood to the other        *)
(* neighbors, and the MaxAge LSAs to track, in the order in which the code *)
(* collects them.  The area of a message is left out: the code             *)
(* takes the area of the neighbor instead (process.rs, handle_event).      *)
(***************************************************************************)
EXTENDS OspfDatabase

(* Neighbor::new; new_in_full_state differs in the state only. *)
NewNeighbor(r, n, a) ==
  [area |-> a,
   leader |-> r < n,
   state |-> "Init",
   retransmission |-> {},   \* LSAs the neighbor has not acknowledged
   summary |-> {},          \* the database at the start of the exchange
   request |-> {}]          \* headers of LSAs the neighbor has, and we lack

IsWaitingForTimeout(nb) ==
  \/ nb.state = "Exchange" /\ nb.leader
  \/ nb.state = "Loading"
  \/ nb.state = "Full" /\ nb.retransmission # {}

WaitingForAck(nb, key) == Find(nb.retransmission, key) # {}

IsPartialSync(nb) == nb.state \in {"Exchange", "Loading"}

(* OspfEvent, before batch_events: updates carry their LSAs in order. *)
Message(kind, lsas) == [kind |-> kind, lsas |-> lsas]
Desc(lsas) == Message("DatabaseDescription", {Header(l) : l \in lsas})
Req(headers) == Message("LinkStateRequest", headers)
Upd(lsas) == Message("LinkStateUpdate", SetToSeq(lsas))

Outcome(p) ==
  [p |-> p, events |-> [n \in Routers |-> << >>], flood |-> << >>, track |-> << >>]

(* Neighbor n is now nb, and is sent the messages ms. *)
Answer(p, n, nb, ms) ==
  [Outcome([p EXCEPT !.nbrs[n] = nb]) EXCEPT !.events[n] = ms]
-----------------------------------------------------------------------------
(* NeighborEvent::Start *)
Start(p, n) ==
  LET nb == p.nbrs[n]
      summary == SummaryList(p, nb.area)
  IN  IF nb.state = "Init" /\ nb.leader
      THEN Answer(p, n, [nb EXCEPT !.summary = summary, !.state = "Exchange"],
                  <<Desc(summary)>>)
      ELSE Outcome(p)

(* compute_request_list *)
RequestList(summary, headers) ==
  {h \in Live(headers) : \A l \in Find(summary, h.key) : Newer(h, l)}

(* transition_exchange: to Full, or to Loading if LSAs are missing. *)
TransitionExchange(nb, headers) ==
  LET request == RequestList(nb.summary, headers)
  IN  IF request = {}
      THEN [nb |-> [nb EXCEPT !.request = {}, !.state = "Full"],
            msg |-> Upd(nb.retransmission)]
      ELSE [nb |-> [nb EXCEPT !.request = request, !.state = "Loading"],
            msg |-> Req(request)]

(* RecvDatabaseDescription: the leader asks until the follower answers,    *)
(* the follower answers whenever it is asked.                              *)
RecvDescription(p, n, headers) ==
  LET nb == p.nbrs[n]
      summary == SummaryList(p, nb.area)
      described == [nb EXCEPT !.summary = summary]
      leading == TransitionExchange(nb, headers)
      following == TransitionExchange(described, headers)
  IN  IF nb.leader
      THEN IF nb.state = "Exchange" THEN Answer(p, n, leading.nb, <<leading.msg>>)
           ELSE Outcome(p)
      ELSE IF nb.state = "Init"
      THEN Answer(p, n, following.nb, <<Desc(summary), following.msg>>)
      ELSE Answer(p, n, nb, <<Desc(IF nb.state = "Full" THEN summary ELSE nb.summary)>>)

(* RecvLinkStateRequest: the answer is from the summary list, which may be *)
(* older than the database.                                                *)
RecvRequest(p, n, headers) ==
  LET nb == p.nbrs[n]
      found == {l \in nb.summary : \E h \in headers : h.key = l.key}
  IN  IF nb.state = "Init" \/ found = {} THEN Outcome(p)
      ELSE Answer(p, n, nb, <<Upd(found)>>)

(* NeighborEvent::Timeout: repeat what has not been answered. *)
Timeout(p, n) ==
  LET nb == p.nbrs[n]
  IN  CASE nb.state = "Exchange" /\ nb.leader -> Answer(p, n, nb, <<Desc(nb.summary)>>)
        [] nb.state = "Loading" -> Answer(p, n, nb, <<Req(nb.request)>>)
        [] nb.state = "Full" /\ nb.retransmission # {} ->
             Answer(p, n, nb, <<Upd(nb.retransmission)>>)
        [] OTHER -> Outcome(p)
-----------------------------------------------------------------------------
(* Faulty: an acknowledgment of an older instance counts, too. *)
Faulty_RecvAck(nb, lsas) ==
  [nb EXCEPT !.retransmission = {l \in @ : Find(lsas, l.key) = {}}]

(* recv_ack, for all LSAs of an acknowledgment. *)
RecvAck(nb, lsas) ==
  [nb EXCEPT !.retransmission =
     {l \in @ : \A ack \in Find(lsas, l.key) : ~Same(l, ack)}]

(* Handling an update accumulates, besides the outcome, the LSAs to        *)
(* acknowledge and those to send back, as sequences.                       *)
FloodFrom(o, n, l) ==
  [o EXCEPT !.flood = Append(@, [lsa |-> l, area |-> o.p.nbrs[n].area, except |-> n])]
SendBack(o, ls) == [o EXCEPT !.upds = @ \o ls]
Acknowledge(o, l) == [o EXCEPT !.acks = Append(@, l)]
Track(o, n, key, after) ==
  [o EXCEPT !.track = Append(@, [area |-> o.p.nbrs[n].area, key |-> key, after |-> after])]
Forget(o, n, key) ==
  [o EXCEPT !.p.nbrs[n].retransmission = Drop(@, key)]

(* Step (5f): an instance of an own LSA that is newer than ours, left from *)
(* before.  Supersede it, or flush it if we do not originate it any more.  *)
SelfOriginated(o, n, l, old) ==
  LET a == o.p.nbrs[n].area
      own == The(old)
      aged == Aged(own)
      next == [own EXCEPT !.seq = l.seq + 1]
      flushed == [l EXCEPT !.dead = TRUE]
      publish(q, m) == SendBack(FloodFrom([o EXCEPT !.p = q], n, m), <<m>>)
  IN  IF old = {}
      THEN Track(publish(Insert(o.p, flushed, a), flushed), n, l.key, {})
      ELSE IF l.seq \in {MaxSeq, MaxSeq - 1}
      THEN Track(publish(Insert(o.p, aged, a), aged), n, l.key,
                 {[own EXCEPT !.seq = 0, !.dead = FALSE]})
      ELSE publish(SetSeq(o.p, next, a), next)

(* Faulty: a MaxAge LSA is installed, and not waited for. *)
Faulty_Install(o, n, l, requested) ==
  LET a == o.p.nbrs[n].area
      flooded == Forget(FloodFrom(o, n, l), n, l.key)
      stored == [flooded EXCEPT !.p = Insert(@, l, a)]
  IN  IF requested THEN stored ELSE Acknowledge(stored, l)

(* Step (5b) to (5e): install the LSA and flood it on. *)
Install(o, n, l, requested) ==
  LET a == o.p.nbrs[n].area
      flooded == Forget(FloodFrom(o, n, l), n, l.key)
      tracked == IF l.dead THEN Track(flooded, n, l.key, {}) ELSE flooded
      stored == [tracked EXCEPT !.p = Insert(@, l, a)]
  IN  IF requested THEN stored ELSE Acknowledge(stored, l)

(* In state Loading: the LSA was requested, and it may be the last one.    *)
Requested(nb, l) ==
  nb.state = "Loading" /\ \E h \in Find(nb.request, l.key) : ~Newer(h, l)

Loaded(o, n, l) ==
  LET nb == o.p.nbrs[n]
      request == IF Requested(nb, l) THEN Drop(nb.request, l.key) ELSE nb.request
      full == [nb EXCEPT !.request = request, !.state = "Full"]
  IN  IF nb.state # "Loading" THEN o
      ELSE IF request # {} THEN [o EXCEPT !.p.nbrs[n].request = request]
      ELSE SendBack([o EXCEPT !.p.nbrs[n] = full], SetToSeq(nb.retransmission))

(* The rest of recv_lsa, by how the LSA compares with that stored, old.    *)
Compared(o, n, l, old, requested) ==
  IF \A m \in old : Newer(l, m)
  THEN IF l.key.router = o.p.id THEN SelfOriginated(o, n, l, old)
       ELSE Install(o, n, l, requested)
  ELSE IF o.p.nbrs[n].state # "Full" THEN o
  ELSE IF Same(l, The(old)) THEN Acknowledge(Forget(o, n, l.key), l)
  ELSE IF The(old).dead /\ The(old).seq = MaxSeq THEN o
  ELSE SendBack(o, <<The(old)>>)

(* Faulty: a MaxAge LSA that is not stored is stored, whoever may have it. *)
Faulty_RecvLsa(o, n, l, partial) ==
  LET nb == o.p.nbrs[n]
  IN  Compared(Loaded(o, n, l), n, l, Stored(o.p, l.key, nb.area), Requested(nb, l))

(* recv_lsa: one LSA of an update, after section 13 of RFC 2328. *)
RecvLsa(o, n, l, partial) ==
  LET nb == o.p.nbrs[n]
      old == Stored(o.p, l.key, nb.area)
  IN  IF l.dead /\ old = {} /\ ~partial THEN Acknowledge(o, l)
      ELSE Compared(Loaded(o, n, l), n, l, old, Requested(nb, l))

(* The order of LsaKey, in which batch_events lists the LSAs of an update. *)
KeyLess(l, m) ==
  LET a == l.key  b == m.key
  IN  \/ a.type < b.type
      \/ a.type = b.type /\ a.router < b.router
      \/ a.type = b.type /\ a.router = b.router /\ a.target < b.target

(* The acknowledgments and the updates that were collected are sent to n. *)
Reply(o, n) ==
  LET send(kind, ls) == IF ls = << >> THEN << >> ELSE <<Message(kind, ls)>>
  IN  [Outcome(o.p) EXCEPT
         !.flood = o.flood, !.track = o.track,
         !.events[n] = send("LinkStateAck", o.acks) \o send("LinkStateUpdate", o.upds)]

(* The LSA that comes k-th, if LSAs are one per key *)
Ranked(lsas, k) == {l \in lsas : Cardinality({m \in lsas : KeyLess(m, l)}) = k - 1}

(* handle_update, of an update that is no acknowledgment. *)
RecvUpdate(p, n, lsas, partial) ==
  LET start == [p |-> p, flood |-> << >>, track |-> << >>, acks |-> << >>, upds |-> << >>]
      next(o, ls) == IF ls = {} THEN o ELSE RecvLsa(o, n, The(ls), partial)
      after[k \in 0 .. Cardinality(lsas)] ==
        IF k = 0 THEN start ELSE next(after[k - 1], Ranked(lsas, k))
  IN  Reply(after[Cardinality(lsas)], n)
-----------------------------------------------------------------------------
(* flood_lsa: the neighbor after an LSA is flooded to it. *)
FloodLsa(nb, l) ==
  LET requested == Find(nb.request, l.key)
      rid == [nb EXCEPT !.request = Drop(@, l.key)]
      queued == IF \E m \in Find(nb.retransmission, l.key) : Newer(m, l) THEN nb
                ELSE [nb EXCEPT !.retransmission = Put(@, l)]
  IN  IF nb.state = "Init" THEN nb
      ELSE IF nb.state \in {"Exchange", "Full"} THEN queued
      ELSE IF \E h \in requested : Newer(h, l) THEN nb
      ELSE IF \E h \in requested : Same(h, l) THEN rid
      ELSE [queued EXCEPT !.request = rid.request]

(* Faulty: what a neighbor has flooded is not flooded on. *)
Faulty_FloodTo(f, n, a) ==
  f.lsa.key.type = External \/ (f.area = a /\ f.except = 0)

(* FloodFrom::flood_to; External-LSAs are flooded to every neighbor. *)
FloodTo(f, n, a) ==
  f.lsa.key.type = External \/ (f.area = a /\ f.except # n)

(* An LSA is put on the retransmission list of a neighbor that is to       *)
(* receive it; if the neighbor is in state Full, it is sent right away.    *)
FloodOne(acc, n, f) ==
  LET queued(nb) ==
        [nb |-> nb,
         send |-> IF nb.state = "Full" /\ f.lsa \in nb.retransmission
                  THEN Append(acc.send, f.lsa) ELSE acc.send]
  IN  IF FloodTo(f, n, acc.nb.area) THEN queued(FloodLsa(acc.nb, f.lsa)) ELSE acc

(* NeighborEvent::Flood, of the LSAs to be flooded *)
Flood(nb, n, flood) ==
  LET after[k \in 0 .. Len(flood)] ==
        IF k = 0 THEN [nb |-> nb, send |-> << >>] ELSE FloodOne(after[k - 1], n, flood[k])
  IN  after[Len(flood)]
=============================================================================
