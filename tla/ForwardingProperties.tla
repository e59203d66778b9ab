------------------------- MODULE ForwardingProperties -------------------------
(***************************************************************************)
(* What the forwarding state promises.                                     *)
(***************************************************************************)
EXTENDS Forwarding

Hops(r, p) == ToSet(NextHops(fs, r, p))
Ends(r, p) == NextHops(fs, r, p) = <<Dst>>

(* The routers from which every way leads to the destination. *)
Delivering(p) ==
  FoldLeft(LAMBDA S, i : {r \in Routers : Ends(r, p) \/ (Hops(r, p) # {} /\ Hops(r, p) \subseteq S)},
           {}, [i \in 1 .. Cardinality(Routers) |-> i])

SimpleWays == {w \in UNION {[1 .. n -> Routers] : n \in 1 .. Cardinality(Routers)} : IsInjective(w)}

WaysTo(r, p) ==
  {w \in SimpleWays : /\ w[1] = r /\ Ends(Last(w), p)
                      /\ \A i \in 1 .. Len(w) - 1 : w[i + 1] \in Hops(w[i], p)}

(* The way that always takes the first next hop that may not deliver,      *)
(* until it is dropped or comes back to where it was.                      *)
BadHop(r, p) ==
  LET bad == SelectSeq(NextHops(fs, r, p), LAMBDA n : n \notin Delivering(p))
  IN  IF bad = << >> THEN Dst ELSE Head(bad)

BadWay(r, p) ==
  CHOOSE w \in SimpleWays :
    /\ w[1] = r
    /\ \A i \in 1 .. Len(w) - 1 : w[i + 1] = BadHop(w[i], p)
    /\ BadHop(Last(w), p) \in ToSet(w) \cup {Dst}

(* What get_paths has to return: all ways, or the bad one, cut where the   *)
(* loop starts.                                                            *)
Truth(r, p, result) ==
  IF r \in Delivering(p)
  THEN /\ result.kind = "Path"
       /\ ToSet(result.paths) = WaysTo(r, p) /\ IsInjective(result.paths)
  ELSE LET w == BadWay(r, p)
           start == SelectInSeq(w, LAMBDA x : x = BadHop(Last(w), p))
       IN  result = IF start = 0 THEN Hole(w)
                    ELSE Loop(SubSeq(w, 1, start - 1), SubSeq(w, start, Len(w)))

(* Every cached result, and so whatever get_paths returns, is true of the  *)
(* forwarding state as it is now, after any updates of any routers: update *)
(* invalidates what it makes wrong.                                        *)
CacheFresh == \A x \in DOMAIN fs.cache : Truth(x[1], x[2], fs.cache[x])

(* The reversed state, which the invalidation walks, is the reverse of the *)
(* state whatever updates came.                                            *)
ReversedExact ==
  \A n \in Routers \cup {Dst}, p \in AllPrefixes :
    Feeders(fs, n, p) = {r \in Routers : p \in DOMAIN fs.state[r] /\ n \in ToSet(fs.state[r][p])}

(* A forwarding state that is updated with every change of the network is  *)
(* the one that from_net yields; a recording is, at any position and after *)
(* any steps back and forth, what the network was then; and the reversed   *)
(* state is its reverse.                                                   *)
StateFaithful ==
  /\ ReversedExact
  /\ phase = "live" => Entries(fs) = Entries(FromNet(net))
  /\ phase \in {"replay", "released"} => Entries(fs) = history[pointer + 1]

(* Looking up any prefix in the table that get_fib makes of the prefixes   *)
(* the router knows is deciding by the most specific of its static and BGP *)
(* routes, the static one first (get_fib has a TODO on prefix matching).   *)
ForwardsByLongestMatch ==
  \A r \in Routers, p \in AllPrefixes :
    LET x == net[r]
        covers == {q \in DOMAIN x.sr \cup DOMAIN x.rib : p \in Within[q]}
        best == {q \in covers : \A c \in covers : q \in Within[c]}
        target(q) == IF q \in DOMAIN x.sr THEN x.sr[q] ELSE Indirect(x.rib[q].next_hop)
        hops == UNION {ToSet(NextHopsTo(r, target(q))) : q \in best}
        found == ToSet(NextHops(FromNet(net), r, p)) \ {Dst}
    IN  IF x.do_load_balancing THEN found = hops
        ELSE found \subseteq hops /\ (found = {} <=> hops = {})
=============================================================================
