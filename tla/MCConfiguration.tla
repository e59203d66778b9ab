--------------------------- MODULE MCConfiguration ---------------------------
(***************************************************************************)
(* A line of routers 1, 2 and 3.  The user changes the weight from 1 to 2, *)
(* the area of the other link, the session between 1 and 3, the route maps *)
(* that 1 applies to what it learns from 3, a static route and the load    *)
(* balancing of 2.  Sessions need both links, and a weight that is removed *)
(* takes the link and the session with it.                                 *)
(***************************************************************************)
EXTENDS ConfigurationProperties

MCRouters == {1, 2, 3}
MCLinks == {{1, 2}, {2, 3}}

Clause(order, state, conds, set, flow) ==
  [order |-> order, state |-> state, conds |-> conds, set |-> set, flow |-> flow]

Tagged == [kind |-> "community", community |-> 7]

(* Two clauses have the order 20.  The first one skips it to reach 30, and *)
(* ends there when 30 is missing.                                          *)
MCClauses ==
  <<Clause(10, "allow", <<Tagged>>, <<[kind |-> "local_pref", value |-> {50}]>>, ContinueAt(30)),
    Clause(20, "deny", <<[kind |-> "prefix", prefixes |-> {101}]>>, << >>, Exit),
    Clause(30, "allow", << >>, <<[kind |-> "med", value |-> None],
                                 [kind |-> "del", community |-> 7]>>, Continue),
    Clause(20, "allow", <<[kind |-> "length", from |-> 0, below |-> 2]>>,
           <<[kind |-> "add", community |-> 7], [kind |-> "next_hop", router |-> 2]>>, Exit),
    Clause(40, "allow", << >>, <<[kind |-> "weight", value |-> {200}]>>, Exit)>>

MCEntries ==
  {[prefix |-> p, as_path |-> a, next_hop |-> 3, community |-> c, local_pref |-> None,
    med |-> None, weight |-> 100, igp_cost |-> None] :
     p \in {101, 102}, a \in {<<65>>, <<65, 66>>}, c \in {{}, {7}}}

Weight(w) == Expr("weight", <<1, 2>>, w)
Area == Expr("area", <<3, 2>>, 1)
Session(x, y, type) == Expr("session", <<x, y>>, type)
Map(v) == Expr("map", <<1, 3, Incoming>>, v)
Static(router) == Expr("static", <<2, 101>>, router)
Balance == Expr("balance", <<2>>, 0)

MapEdit(old, new) == Edit(3, Incoming, old, new)

MCModifiers ==
  {InsertExpr(Weight(5)), RemoveExpr(Weight(5)), UpdateExpr(Weight(Infinite), Weight(5)),
   InsertExpr(Area), RemoveExpr(Area),
   InsertExpr(Session(1, 3, Client)), RemoveExpr(Session(1, 3, Client)),
   InsertExpr(Session(3, 1, Peer)),
   UpdateExpr(Session(1, 3, Client), Session(3, 1, Client)),
   UpdateExpr(Session(1, 3, Peer), Session(1, 3, Client)),
   InsertExpr(Map(3)), InsertExpr(Map(1)), RemoveExpr(Map(1)),
   UpdateExpr(Map(2), Map(4)),
   BatchEdit(1, <<MapEdit(None, {2}), MapEdit({3}, None)>>),
   InsertExpr(Balance), RemoveExpr(Balance)}

MCGoals ==
  {ConfigOf({}),
   ConfigOf({Weight(5), Session(1, 3, Peer), Map(1), Map(4), Map(3), Map(5), Static(1)}),
   ConfigOf({Area, Session(3, 1, Client), Map(2), Static(3)})}
=============================================================================
