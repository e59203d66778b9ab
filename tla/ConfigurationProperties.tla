----------------------- MODULE ConfigurationProperties -----------------------
(***************************************************************************)
(* What configurations promise: that a network does with a modifier what   *)
(* Config::apply_modifier says, that set_config reaches what it is given,  *)
(* and that route maps mean what their documentation says.                 *)
(***************************************************************************)
EXTENDS Configuration

CONSTANT Entries   \* entries of BGP tables, to apply route maps to

(* Something is configured that get_config or can_apply_modifier does not  *)
(* see: a session whose ends do not reach each other, or a route map for a *)
(* neighbor without a session.                                             *)
Hidden(n) ==
  \/ \E p \in Ends : n.sessions[p] # Absent /\ p \notin n.active
  \/ \E s \in Slots : n.maps[s] # << >> /\ <<s[1], s[2]>> \notin n.active

(* A link without a weight expression has the default weight in a Config,  *)
(* and an infinite one in a network where the expression was removed.      *)
Unused(e) == e.kind = "weight" /\ e.value = Infinite

(* Two configurations say the same, whichever end of a link comes first.   *)
Alike(e, f) ==
  \/ Same(e, f)
  \/ e.kind = "area" /\ f.kind = "area" /\ e.value = f.value /\ Ordered(e.at) = Ordered(f.at)

Agree(running, wanted) ==
  /\ DOMAIN wanted \subseteq DOMAIN running
  /\ \A k \in DOMAIN running :
       IF k \in DOMAIN wanted THEN Alike(running[k], wanted[k]) ELSE Unused(running[k])

(* The clauses of each route map are in strictly increasing order:         *)
(* binary_search_by, and RouteMapList::apply when it waits for an order,   *)
(* rely on it.                                                             *)
MapsSorted ==
  \A s \in Slots : \A i, j \in DOMAIN net.maps[s] :
    i < j => net.maps[s][i].order < net.maps[s][j].order

(* However often a session is set from either end, at most one end has the *)
(* other as a client, and get_config can read it: InconsistentBgpSession   *)
(* is never returned.                                                      *)
SessionsConsistent == SessionsReadable(net)

(* The network has the shape the code gives it, and what its readers rely  *)
(* on holds after any sequence of edits.                                   *)
WellFormed ==
  /\ net.weight \in [LinkEnds -> Nat] /\ net.area \in [Links -> Areas]
  /\ net.sessions \in [Ends -> {Peer, Client, Absent}]
  /\ phase \in {"idle", "patching", "reached", "failed"} /\ skip_queue \in BOOLEAN
  /\ MapsSorted /\ SessionsConsistent

(* Whatever sequence of edits built them, the route maps of a router do to *)
(* every entry what the documentation of RouteMapBuilder says of exit,     *)
(* continue_next and continue_at.                                          *)
MapsAsDocumented ==
  \A s \in Slots : \A e \in Entries : ApplyList(net.maps[s], e) = Described(net.maps[s], e)

(* A modifier that Config::apply_modifier accepts for the running          *)
(* configuration is accepted by the network, and leads to the same         *)
(* configuration, as long as nothing is hidden before and after it.        *)
ModifierAgrees ==
  phase # "patching" /\ Readable(net) /\ ~Hidden(net) =>
    \A up \in BOOLEAN :
      LET running == GetConfig(net, up)
      IN  \A m \in {k \in Modifiers : ModifyConfig(running, k).ok} :
            /\ CanApply(net, m)
            /\ LET after == Unchecked(net, m)
               IN  Readable(after) /\ ~Hidden(after) =>
                     Agree(GetConfig(after, up), ModifyConfig(running, m).config)

(* A modifier that the running configuration accepts and its reverse lead  *)
(* back to the same network, unless it inserts a link weight.              *)
ReverseRestores ==
  phase # "patching" /\ Readable(net) /\ ~Hidden(net) =>
    LET running == GetConfig(net, TRUE)
        accepted == {m \in Modifiers : ModifyConfig(running, m).ok}
    IN  \A m \in {k \in accepted : ~(k.type = "insert" /\ k.expr.kind = "weight")} :
          Unchecked(Unchecked(net, m), Reversed(m)) = net

(* So a Config may stand for the network it was applied to, and a change   *)
(* may be undone by its reverse.                                           *)
ModifiersReliable == ModifierAgrees /\ ReverseRestores

(* When set_config succeeds, in whatever order the patch was applied, the  *)
(* running configuration is the one it was given, but for the clauses of a *)
(* route map that had outlived its session: they were not seen, are not    *)
(* removed, and come back with the session.                                *)
ConfigReached ==
  phase = "reached" /\ Readable(net) /\ ~Hidden(net) =>
    \A up \in BOOLEAN :
      LET running == GetConfig(net, up)
          outlived == {k \in DOMAIN running \ seen : k.kind = "map"} \ DOMAIN goal
      IN  Agree([k \in DOMAIN running \ outlived |-> running[k]], goal)

(* set_config fails only because of what was hidden from it: a session     *)
(* that the patch itself broke, or a route map that had outlived its       *)
(* session, so that the patch inserts what is there.                       *)
FailsOnlyWhenHidden ==
  [][phase' = "failed" =>
       \/ phase = "failed"
       \/ Hidden(net)
       \/ \E m \in patch : m.type = "insert" /\ m.expr.kind = "map" /\ ~CanApply(net, m)]_vars
=============================================================================
