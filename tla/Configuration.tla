---------------------------- MODULE Configuration ----------------------------
(***************************************************************************)
(* The configuration of a network (config.rs): a set of expressions, the   *)
(* modifiers that change it, patches, and how they are applied to a        *)
(* network and read back from it.                                          *)
(*                                                                         *)
(* An expression is a record [kind, at, value]: a "weight" or an "area" of *)
(* a link, a BGP "session", a clause of a route "map", a "static" route,   *)
(* a "balance" option or an "advertise"d route.  A Config maps keys to     *)
(* expressions.  Of a network, only what is configured is modelled, and    *)
(* whether its changes are simulated at once (skip_queue).                 *)
(***************************************************************************)
EXTENDS RouteMaps, Relation

CONSTANTS
  Routers,        \* the routers, numbers
  Links,          \* the links, sets of two routers
  Clauses,        \* Clauses[v]: the clause of a route map that the value v stands for
  DefaultWeight,  \* DEFAULT_LINK_WEIGHT
  Infinite,       \* the weight of a link that is not used
  Backbone,       \* the backbone area
  Areas,          \* all areas
  Modifiers,      \* what the user applies
  Goals           \* the configurations that the user sets

Peer == 0      \* a session that is Some(false), one that is Some(true), and none
Client == 1
Absent == 2

Incoming == 0  \* RouteMapDirection
Outgoing == 1

Expr(kind, at, value) == [kind |-> kind, at |-> at, value |-> value]

(* What the types of the code say of the values of expressions and of the  *)
(* edits of a batch.                                                       *)
ValidExpr(e) ==
  /\ e = Expr(e.kind, e.at, e.value)
  /\ e.kind = "weight" => e.value \in Nat
  /\ e.kind = "area" => e.value \in Areas
  /\ e.kind = "session" => e.value \in {Peer, Client} /\ e.at \in Routers \X Routers
  /\ e.kind = "map" => e.value \in DOMAIN Clauses

ValidEdit(u) == u.old \cup u.new \subseteq DOMAIN Clauses

ValidModifier(m) ==
  /\ m.type \in {"insert", "remove", "update", "batch"}
  /\ m.type \in {"insert", "remove"} => ValidExpr(m.expr)
  /\ m.type = "update" => ValidExpr(m.from) /\ ValidExpr(m.to)
  /\ m.type = "batch" => m.updates \in Seq({m.updates[i] : i \in DOMAIN m.updates})
                        /\ \A i \in DOMAIN m.updates : ValidEdit(m.updates[i])

ASSUME ConfigurationAssumption ==
  /\ Routers \subseteq Nat
  /\ \A l \in Links : \E a, b \in Routers : a # b /\ l = {a, b}
  /\ Backbone \in Areas
  /\ DefaultWeight \in Nat /\ Infinite \in Nat
  /\ \A v \in DOMAIN Clauses : WellTyped(Clauses[v])
  /\ \A m \in Modifiers : ValidModifier(m)
  /\ \A c \in Goals : \A k \in DOMAIN c : ValidExpr(c[k])

VARIABLES
  net,         \* the configured parts of the network
  skip_queue,  \* Network::skip_queue
  phase,       \* "idle"; in apply_patch: "patching"; its result: "reached", "failed"
  patch,       \* the modifiers that are still to be applied
  goal,        \* set_config's argument, until the next change
  seen         \* the keys of the running configuration that it read

vars == <<net, skip_queue, phase, patch, goal, seen>>

Ordered(at) == IF at[1] < at[2] THEN at ELSE <<at[2], at[1]>>

(* ConfigExpr::key *)
Key(e) ==
  [kind |-> e.kind,
   at |-> CASE e.kind \in {"area", "session"} -> Ordered(e.at)
            [] e.kind = "map" -> Append(e.at, Clauses[e.value].order)
            [] OTHER -> e.at]

(* PartialEq of ConfigExpr: only the ends of a session between peers may be *)
(* swapped.                                                                *)
Same(e, f) ==
  \/ e = f
  \/ /\ e.kind = "session" /\ f.kind = "session"
     /\ e.value = Peer /\ f.value = Peer /\ Ordered(e.at) = Ordered(f.at)

(* The configuration of a set of expressions with different keys. *)
ConfigOf(exprs) ==
  [k \in {Key(e) : e \in exprs} |-> CHOOSE e \in exprs : Key(e) = k]

(* Maps, with and without a key *)
With(f, k, e) == [x \in DOMAIN f \cup {k} |-> IF x = k THEN e ELSE f[x]]
Without(f, k) == [x \in DOMAIN f \ {k} |-> f[x]]
-----------------------------------------------------------------------------
(* ConfigModifier *)
InsertExpr(e) == [type |-> "insert", expr |-> e]
RemoveExpr(e) == [type |-> "remove", expr |-> e]
UpdateExpr(from, to) == [type |-> "update", from |-> from, to |-> to]
BatchEdit(router, updates) == [type |-> "batch", router |-> router, updates |-> updates]

(* RouteMapEdit; old and new are sets of at most one value.                *)
Edit(neighbor, direction, old, new) ==
  [neighbor |-> neighbor, direction |-> direction, old |-> old, new |-> new]

(* RouteMapEdit::into_modifier *)
IntoModifier(u, router) ==
  LET clause(value) == Expr("map", <<router, u.neighbor, u.direction>>, CHOOSE v \in value : TRUE)
  IN  CASE u.old = None -> InsertExpr(clause(u.new))
        [] u.new = None -> RemoveExpr(clause(u.old))
        [] OTHER -> UpdateExpr(clause(u.old), clause(u.new))

(* ConfigModifier::reverse *)
Reversed(m) ==
  CASE m.type = "insert" -> RemoveExpr(m.expr)
    [] m.type = "remove" -> InsertExpr(m.expr)
    [] m.type = "update" -> UpdateExpr(m.to, m.from)
    [] m.type = "batch" ->
         BatchEdit(m.router, [i \in DOMAIN m.updates |->
           Edit(m.updates[i].neighbor, m.updates[i].direction, m.updates[i].new, m.updates[i].old)])

(* Config::apply_modifier of a single expression, which must be there as   *)
(* the modifier says.                                                      *)
ModifyOne(c, m) ==
  LET holds(e) == Key(e) \in DOMAIN c /\ Same(c[Key(e)], e)
      ok == CASE m.type = "insert" -> Key(m.expr) \notin DOMAIN c
              [] m.type = "remove" -> holds(m.expr)
              [] m.type = "update" -> Key(m.from) = Key(m.to) /\ holds(m.from)
  IN  [ok |-> ok,
       config |-> CASE ~ok -> c
                    [] m.type = "insert" -> With(c, Key(m.expr), m.expr)
                    [] m.type = "remove" -> Without(c, Key(m.expr))
                    [] m.type = "update" -> [c EXCEPT ![Key(m.to)] = m.to]]

(* Config::apply_modifier: a batch stops at the first edit that fails *)
ModifyConfig(c, m) ==
  LET after[i \in 0 .. Len(m.updates)] ==
        IF i = 0 THEN [ok |-> TRUE, config |-> c]
        ELSE LET r == after[i - 1]
             IN  IF r.ok THEN ModifyOne(r.config, IntoModifier(m.updates[i], m.router)) ELSE r
  IN  IF m.type = "batch" THEN after[Len(m.updates)] ELSE ModifyOne(c, m)

(* Faulty: an expression that is in both is not compared. *)
Faulty_GetDiff(c, d) ==
  {RemoveExpr(c[k]) : k \in DOMAIN c \ DOMAIN d} \cup {InsertExpr(d[k]) : k \in DOMAIN d \ DOMAIN c}

(* Faulty: what has changed is inserted, not updated. *)
Faulty_NoUpdate(c, d) ==
  {RemoveExpr(c[k]) : k \in DOMAIN c \ DOMAIN d} \cup
  {InsertExpr(d[k]) : k \in {x \in DOMAIN d : x \notin DOMAIN c \/ ~Same(c[x], d[x])}}

(* Config::get_diff: the patch from c to d, in any order *)
GetDiff(c, d) ==
  {RemoveExpr(c[k]) : k \in DOMAIN c \ DOMAIN d} \cup
  {InsertExpr(d[k]) : k \in DOMAIN d \ DOMAIN c} \cup
  {UpdateExpr(c[k], d[k]) : k \in {x \in DOMAIN c \cap DOMAIN d : ~Same(c[x], d[x])}}
-----------------------------------------------------------------------------
(* The network: the weight of each end of a link, the area of each link,   *)
(* the sessions that are configured, those that the routers have, the      *)
(* route maps, and what remains, a table from keys to expressions.         *)
Ends == {p \in Routers \X Routers : p[1] # p[2]}
LinkEnds == {p \in Ends : {p[1], p[2]} \in Links}
Slots == {<<p[1], p[2], d>> : p \in Ends, d \in {Incoming, Outgoing}}

Fresh ==
  [weight |-> [p \in LinkEnds |-> DefaultWeight],
   area |-> [l \in Links |-> Backbone],
   sessions |-> [p \in Ends |-> Absent],
   active |-> {},
   maps |-> [s \in Slots |-> << >>],
   table |-> << >>]

(* The pairs of routers of which the first reaches the second: inside an   *)
(* area, or up to the backbone, through it, and down.  What OSPF makes of  *)
(* the topology; the modules on OSPF say how.                              *)
Reachable(n) ==
  LET inside == [a \in Areas |->
        ReflexiveTransitiveClosure(
          [p \in Routers \X Routers |->
             p \in LinkEnds /\ n.area[{p[1], p[2]}] = a /\ n.weight[p] < Infinite],
          Routers)]
      near == {p \in Ends : \E a \in Areas : inside[a][p]}
      backbone == UNION {l \in Links : n.area[l] = Backbone}
  IN  near \cup {p \in Ends : \E up, down \in backbone :
                   /\ p[1] = up \/ <<p[1], up>> \in near
                   /\ inside[Backbone][up, down]
                   /\ down = p[2] \/ <<down, p[2]>> \in near}

(* Network::refresh_bgp_sessions: of the sessions that are configured, the *)
(* routers have those whose ends reach each other.                         *)
Refresh(n) ==
  LET reachable == Reachable(n)
  IN  [n EXCEPT !.active = {p \in Ends :
         n.sessions[p] # Absent /\ p \in reachable /\ <<p[2], p[1]>> \in reachable}]

(* Network::_set_bgp_session *)
SetSession(sessions, at, type) ==
  [sessions EXCEPT ![at] = type,
                   ![<<at[2], at[1]>>] = IF type = Absent THEN Absent ELSE Peer]

(* One edit of BgpProcess::batch_update_route_maps: the old clause only    *)
(* says which order to remove.                                             *)
ApplyEdit(maps, u) ==
  IF u.new # None THEN SetMap(maps, Clauses[CHOOSE v \in u.new : TRUE])
  ELSE RemoveMap(maps, Clauses[CHOOSE v \in u.old : TRUE].order)

(* BgpProcess::batch_update_route_maps, one edit after the other           *)
BatchUpdate(maps, m) ==
  LET after[i \in 0 .. Len(m.updates)] ==
        IF i = 0 THEN maps
        ELSE LET u == m.updates[i]
             IN  [after[i - 1] EXCEPT ![<<m.router, u.neighbor, u.direction>>] = ApplyEdit(@, u)]
  IN  after[Len(m.updates)]

(* Network::apply_modifier_unchecked *)
SetExpr(n, e) ==
  CASE e.kind = "weight" -> Refresh([n EXCEPT !.weight[e.at] = e.value])
    [] e.kind = "area" -> Refresh([n EXCEPT !.area[{e.at[1], e.at[2]}] = e.value])
    [] e.kind = "session" -> Refresh([n EXCEPT !.sessions = SetSession(@, e.at, e.value)])
    [] e.kind = "map" -> [n EXCEPT !.maps[e.at] = SetMap(@, Clauses[e.value])]
    [] OTHER -> [n EXCEPT !.table = With(@, Key(e), e)]

UnsetExpr(n, e) ==
  CASE e.kind = "weight" -> Refresh([n EXCEPT !.weight[e.at] = Infinite])
    [] e.kind = "area" -> Refresh([n EXCEPT !.area[{e.at[1], e.at[2]}] = Backbone])
    [] e.kind = "session" -> Refresh([n EXCEPT !.sessions = SetSession(@, e.at, Absent)])
    [] e.kind = "map" -> [n EXCEPT !.maps[e.at] = RemoveMap(@, Clauses[e.value].order)]
    [] OTHER -> [n EXCEPT !.table = Without(@, Key(e))]

(* Faulty: an update sets the old value. *)
Faulty_Unchecked(n, m) ==
  CASE m.type = "insert" -> SetExpr(n, m.expr)
    [] m.type = "update" -> SetExpr(n, m.from)
    [] m.type = "remove" -> UnsetExpr(n, m.expr)
    [] m.type = "batch" -> n

Unchecked(n, m) ==
  CASE m.type = "insert" -> SetExpr(n, m.expr)
    [] m.type = "update" -> SetExpr(n, m.to)
    [] m.type = "remove" -> UnsetExpr(n, m.expr)
    [] m.type = "batch" -> [n EXCEPT !.maps = BatchUpdate(@, m)]

(* Network::can_apply_modifier: what an expression needs to be inserted,   *)
(* and to be removed or updated.  The old value is not compared.           *)
Insertable(n, e) ==
  CASE e.kind = "weight" -> e.at \in LinkEnds
    [] e.kind = "area" -> e.at \in LinkEnds /\ n.area[{e.at[1], e.at[2]}] = Backbone
    [] e.kind = "session" -> e.at \notin n.active
    [] e.kind = "map" -> ~HasOrder(n.maps[e.at], Clauses[e.value].order)
    [] OTHER -> Key(e) \notin DOMAIN n.table

Removable(n, e) ==
  CASE e.kind = "weight" -> e.at \in LinkEnds
    [] e.kind = "area" -> e.at \in LinkEnds /\ n.area[{e.at[1], e.at[2]}] # Backbone
    [] e.kind = "session" -> e.at \in n.active
    [] e.kind = "map" -> HasOrder(n.maps[e.at], Clauses[e.value].order)
    [] OTHER -> Key(e) \in DOMAIN n.table

CanApply(n, m) ==
  CASE m.type = "insert" -> Insertable(n, m.expr)
    [] m.type = "remove" -> Removable(n, m.expr)
    [] m.type = "update" -> Removable(n, m.from)
    [] m.type = "batch" ->
         \A i \in DOMAIN m.updates :
           LET u == m.updates[i]
               slot == <<m.router, u.neighbor, u.direction>>
               clause(value) == Expr("map", slot, CHOOSE v \in value : TRUE)
           IN  IF u.old = None THEN Insertable(n, clause(u.new)) ELSE Removable(n, clause(u.old))

(* Network::get_config: the running configuration.  Which end of a link or *)
(* of a session between peers comes first is up to the order of a hash     *)
(* map: with `up', the smaller one does.                                   *)
Oriented(p, up) == IF up THEN Ordered(p) ELSE <<Ordered(p)[2], Ordered(p)[1]>>

SessionExprs(n, up) ==
  LET clients == {p \in Ends : n.sessions[p] = Client}
      peers == {p \in Ends : n.sessions[p] = Peer /\ <<p[2], p[1]>> \notin clients}
  IN  {Expr("session", p, Client) : p \in clients} \cup
      {Expr("session", Oriented(p, up), Peer) : p \in peers}

MapExprs(n) ==
  UNION {{Expr("map", s, CHOOSE v \in DOMAIN Clauses : Clauses[v] = n.maps[s][i]) :
            i \in DOMAIN n.maps[s]} :
         s \in {t \in Slots : <<t[1], t[2]>> \in n.active}}

GetConfig(n, up) ==
  ConfigOf(
    {Expr("weight", p, n.weight[p]) : p \in {q \in LinkEnds : n.weight[q] # DefaultWeight}} \cup
    {Expr("area", Oriented(p, up), n.area[{p[1], p[2]}]) :
       p \in {q \in LinkEnds : n.area[{q[1], q[2]}] # Backbone}} \cup
    SessionExprs(n, up) \cup MapExprs(n) \cup {n.table[k] : k \in DOMAIN n.table})

(* When get_config does not fail: it adds the load balancing of every      *)
(* router once for every router.                                           *)
SessionsReadable(n) ==
  \A p \in Ends : ~(n.sessions[p] = Client /\ n.sessions[<<p[2], p[1]>>] = Client)

Balancing(n) == \E k \in DOMAIN n.table : k.kind = "balance"

Readable(n) == SessionsReadable(n) /\ (Balancing(n) => Cardinality(Routers) = 1)
-----------------------------------------------------------------------------
(* An expression about what the network has                                *)
Located(e) ==
  /\ e.kind \in {"weight", "area"} => e.at \in LinkEnds
  /\ e.kind = "session" => e.at \in Ends
  /\ e.kind = "map" => e.at \in Slots

(* ... that get_config would say, as it is not what holds anyway           *)
Telling(e) ==
  /\ e.kind = "weight" => e.value # DefaultWeight
  /\ e.kind = "area" => e.value # Backbone

(* Clauses that are equal are one value.  A goal holds expressions that    *)
(* get_config can say: a Config may also have others, which are applied,   *)
(* but the running configuration never shows them.                         *)
ASSUME GoalsAssumption ==
  /\ \A v, w \in DOMAIN Clauses : Clauses[v] = Clauses[w] => v = w
  /\ \A c \in Goals : \A k \in DOMAIN c : Key(c[k]) = k /\ Located(c[k]) /\ Telling(c[k])

Init ==
  /\ net = Fresh
  /\ skip_queue = FALSE
  /\ phase = "idle" /\ patch = {} /\ goal = << >> /\ seen = {}

(* Network::apply_modifier, by the user; one that cannot be applied is     *)
(* refused and changes nothing.                                            *)
Modify(m) ==
  /\ phase # "patching" /\ CanApply(net, m)
  /\ net' = Unchecked(net, m)
  /\ phase' = "idle" /\ goal' = << >> /\ seen' = {}
  /\ UNCHANGED <<skip_queue, patch>>

(* Network::set_config, up to the loop of apply_patch. *)
SetConfig(c, up) ==
  /\ phase # "patching" /\ Readable(net)
  /\ patch' = GetDiff(GetConfig(net, up), c)
  /\ goal' = c /\ seen' = DOMAIN GetConfig(net, up)
  /\ skip_queue' = TRUE
  /\ phase' = "patching"
  /\ UNCHANGED net

(* get_diff lists what is removed first and what is updated last; within   *)
(* these, the order is the one of a hash set.                              *)
Turn(m) ==
  CASE m.type = "remove" -> TRUE
    [] m.type = "insert" -> \A k \in patch : k.type # "remove"
    [] m.type = "update" -> \A k \in patch : k.type = "update"

(* The loop of Network::apply_patch: a modifier that is refused ends it,   *)
(* with the queue still held back.                                         *)
PatchStep(m) ==
  /\ phase = "patching" /\ m \in patch /\ Turn(m)
  /\ IF CanApply(net, m)
     THEN /\ net' = Unchecked(net, m)
          /\ patch' = patch \ {m} /\ UNCHANGED <<phase, goal, seen>>
     ELSE /\ phase' = "failed" /\ patch' = {} /\ goal' = << >> /\ seen' = {}
          /\ UNCHANGED net
  /\ UNCHANGED skip_queue

(* The end of Network::apply_patch, whatever the mode was before. *)
PatchDone ==
  /\ phase = "patching" /\ patch = {}
  /\ phase' = "reached"
  /\ skip_queue' = FALSE
  /\ UNCHANGED <<net, patch, goal, seen>>

(* InteractiveNetwork::manual_simulation *)
ManualSimulation ==
  /\ phase # "patching"
  /\ skip_queue' = TRUE
  /\ UNCHANGED <<net, phase, patch, goal, seen>>

(* InteractiveNetwork::auto_simulation *)
AutoSimulation ==
  /\ phase # "patching"
  /\ skip_queue' = FALSE
  /\ UNCHANGED <<net, phase, patch, goal, seen>>

Next ==
  \/ \E m \in Modifiers : Modify(m)
  \/ \E c \in Goals, up \in BOOLEAN : SetConfig(c, up)
  \/ \E m \in patch : PatchStep(m)
  \/ PatchDone
  \/ ManualSimulation
  \/ AutoSimulation

Spec == Init /\ [][Next]_vars
=============================================================================
