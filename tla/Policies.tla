------------------------------- MODULE Policies -------------------------------
(***************************************************************************)
(* Conditions on forwarding paths (PathCondition in policies.rs).  A       *)
(* condition is a record with a kind: a "Node" or an "Edge" on the path,   *)
(* a "Positional" sequence of waypoints, or "And", "Or" and "Not" of       *)
(* others.  A waypoint is a router, or AnyRouter or Star.                        *)
(***************************************************************************)
EXTENDS Integers, FiniteSets, Sequences, SequencesExt

AnyRouter == -1
Star == -2

Node(r) == [kind |-> "Node", node |-> r]
Edge(a, b) == [kind |-> "Edge", from |-> a, to |-> b]
Positional(ws) == [kind |-> "Positional", waypoints |-> ws]
And(cs) == [kind |-> "And", of |-> cs]
Or(cs) == [kind |-> "Or", of |-> cs]
Not(c) == [kind |-> "Not", of |-> c]

(* Faulty: the waypoint after a star may not be the next router. *)
Faulty_Positionally(ws, path) ==
  LET step(s, w) ==
        LET rest == SubSeq(path, s.at, Len(path))
            seek == SelectInSeq(Tail(rest \o <<AnyRouter>>), LAMBDA x : x = w)
        IN  CASE w = Star -> [s EXCEPT !.star = TRUE]
              [] rest = << >> -> [s EXCEPT !.ok = FALSE]
              [] w = AnyRouter -> [s EXCEPT !.at = @ + 1]
              [] s.star -> [ok |-> s.ok /\ seek # 0, at |-> s.at + seek + 1, star |-> FALSE]
              [] OTHER -> [s EXCEPT !.ok = @ /\ Head(rest) = w, !.at = @ + 1]
      last == FoldLeft(step, [ok |-> TRUE, at |-> 1, star |-> FALSE], ws)
  IN  last.ok /\ (last.star \/ last.at > Len(path))

(* PathCondition::check of Positional.  One pass over the waypoints: after *)
(* a star, a router is sought, and the first match is taken for good.      *)
Positionally(ws, path) ==
  LET step(s, w) ==
        LET rest == SubSeq(path, s.at, Len(path))
            seek == SelectInSeq(rest, LAMBDA x : x = w)
        IN  CASE w = Star -> [s EXCEPT !.star = TRUE]
              [] rest = << >> -> [s EXCEPT !.ok = FALSE]
              [] w = AnyRouter -> [s EXCEPT !.at = @ + 1]
              [] s.star -> [ok |-> s.ok /\ seek # 0, at |-> s.at + seek, star |-> FALSE]
              [] OTHER -> [s EXCEPT !.ok = @ /\ Head(rest) = w, !.at = @ + 1]
      last == FoldLeft(step, [ok |-> TRUE, at |-> 1, star |-> FALSE], ws)
  IN  last.ok /\ (last.star \/ last.at > Len(path))

(* PathCondition::check *)
RECURSIVE Check(_, _)
Check(c, path) ==
  CASE c.kind = "And" -> \A i \in DOMAIN c.of : Check(c.of[i], path)
    [] c.kind = "Or" -> \E i \in DOMAIN c.of : Check(c.of[i], path)
    [] c.kind = "Not" -> ~Check(c.of, path)
    [] c.kind = "Node" -> c.node \in ToSet(path)
    [] c.kind = "Edge" -> \E i \in 1 .. Len(path) - 1 : path[i] = c.from /\ path[i + 1] = c.to
    [] OTHER -> Positionally(c.waypoints, path)

(* into_cnf_recursive: clauses <<ts, fs>> of atoms that are to hold, or    *)
(* not to hold.                                                            *)
Negations(cs) == [i \in DOMAIN cs |-> Not(cs[i])]

Join(x, e) == FlattenSeq([i \in DOMAIN x |-> [j \in DOMAIN e |->
                <<x[i][1] \o e[j][1], x[i][2] \o e[j][2]>>]])

RECURSIVE IntoCnf(_)
IntoCnf(c) ==
  LET inner == c.of
  IN  CASE c.kind = "And" -> FlattenSeq([i \in DOMAIN c.of |-> IntoCnf(c.of[i])])
        [] c.kind = "Or" ->
             IF c.of = << >> THEN << << << >>, << >> >> >>
             ELSE FoldLeft(LAMBDA x, e : Join(x, IntoCnf(e)), IntoCnf(Head(c.of)), Tail(c.of))
        [] c.kind = "Not" ->
             CASE inner.kind = "And" -> IntoCnf(Or(Negations(inner.of)))
               [] inner.kind = "Or" -> IntoCnf(And(Negations(inner.of)))
               [] inner.kind = "Not" -> IntoCnf(inner.of)
               [] OTHER -> << << << >>, <<inner>> >> >>
        [] OTHER -> << << <<c>>, << >> >> >>

(* PathConditionCNF::check *)
CheckCnf(clauses, path) ==
  \A i \in DOMAIN clauses :
    \/ \E j \in DOMAIN clauses[i][1] : Check(clauses[i][1][j], path)
    \/ \E j \in DOMAIN clauses[i][2] : ~Check(clauses[i][2][j], path)
-----------------------------------------------------------------------------
(* Reference: a star stands for any number of routers, AnyRouter for one.  *)
RECURSIVE Matches(_, _)
Matches(ws, path) ==
  CASE ws = << >> -> path = << >>
    [] ws # << >> /\ Head(ws) = Star ->
         \E k \in 1 .. Len(path) + 1 : Matches(Tail(ws), SubSeq(path, k, Len(path)))
    [] OTHER -> /\ path # << >> /\ Head(ws) \in {AnyRouter, Head(path)}
                /\ Matches(Tail(ws), Tail(path))
=============================================================================
