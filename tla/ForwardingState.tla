---------------------------- MODULE ForwardingState ----------------------------
(***************************************************************************)
(* The forwarding state of a network (forwarding_state.rs): which router   *)
(* forwards a prefix to whom, the same reversed, and a cache of the paths  *)
(* that have been asked for.                                               *)
(*                                                                         *)
(* A forwarding state is a record [state, reversed, cache]: state[r] maps  *)
(* prefixes to sequences of next hops, reversed[n] maps prefixes to sets   *)
(* of routers, and cache maps pairs of a router and a prefix to results.   *)
(***************************************************************************)
EXTENDS Integers, FiniteSets, FiniteSetsExt, Sequences, SequencesExt, TLC

CONSTANTS
  Routers,     \* the routers, numbers
  AllPrefixes, \* the prefixes
  Within,      \* Within[p]: the prefixes contained in p, and p (Prefix::contains)
  Explored(_, _, _) \* Explored(fs, r, p): the cache after the paths from r were asked for,
                    \* what ForwardingPaths defines

ASSUME ForwardingAssumption ==
  /\ IsFiniteSet(Routers) /\ Routers \subseteq Nat \ {0}
  /\ IsFiniteSet(AllPrefixes)
  /\ Within \in [AllPrefixes -> SUBSET AllPrefixes]
  /\ \A p \in AllPrefixes : p \in Within[p]
  /\ \A p, q \in AllPrefixes : p \in Within[q] /\ q \in Within[p] => p = q

(* TO_DST: the next hop of a router that has reached the destination *)
Dst == 0

(* PrefixMap::get_lpm: the longest prefix in the map that contains p, a    *)
(* set of at most one.                                                     *)
Longest(map, p) ==
  LET covering == {q \in DOMAIN map : p \in Within[q]}
  IN  {q \in covering : \A c \in covering : q \in Within[c]}

At(map, keys, default) == IF keys = {} THEN default ELSE map[CHOOSE q \in keys : TRUE]

NextHops(fs, r, p) == At(fs.state[r], Longest(fs.state[r], p), << >>)

(* What get_paths returns: the paths, or why there are none.               *)
Found(paths) == [kind |-> "Path", paths |-> paths]
Hole(path) == [kind |-> "Hole", path |-> path]
Loop(to, cycle) == [kind |-> "Loop", to |-> to, cycle |-> cycle]

(* get_paths: the state with the cache it leaves behind *)
GetPaths(fs, r, p) == [fs EXCEPT !.cache = Explored(fs, r, p)]
-----------------------------------------------------------------------------
Feeders(fs, r, p) == IF p \in DOMAIN fs.reversed[r] THEN fs.reversed[r][p] ELSE {}

(* Faulty: only the cached result of the router itself is dropped. *)
Faulty_Invalidate(fs, r, p) == {n \in Routers \ {r} : <<n, p>> \in DOMAIN fs.cache}

(* recursive_invalidate_cache: the routers whose results for p stay cached *)
(* when that of r is dropped, and then those of whoever forwards to it.    *)
Invalidate(fs, r, p) ==
  LET drop[kept \in SUBSET Routers, n \in Routers] ==
        IF n \notin kept THEN kept
        ELSE FoldSet(LAMBDA m, rest : drop[rest, m], kept \ {n}, Feeders(fs, n, p))
  IN  drop[{n \in Routers : <<n, p>> \in DOMAIN fs.cache}, r]

(* PrefixMap::insert and remove *)
Put(map, p, x) == [q \in DOMAIN map \cup {p} |-> IF q = p THEN x ELSE map[q]]
Without(map, p) == [q \in DOMAIN map \ {p} |-> map[q]]

SetState(fs, r, p, nhs) ==
  [fs EXCEPT !.state[r] = IF nhs = << >> THEN Without(@, p) ELSE Put(@, p, nhs)]

(* The reversed state when r changes its next hops from old to new. *)
SetReversed(fs, r, p, old, new) ==
  [fs EXCEPT !.reversed = [n \in DOMAIN @ |->
     IF n \in old \cup new
     THEN Put(@[n], p, (Feeders(fs, n, p) \ {r}) \cup (IF n \in new THEN {r} ELSE {}))
     ELSE @[n]]]

Entry(fs, r, p) == IF p \in DOMAIN fs.state[r] THEN fs.state[r][p] ELSE << >>

(* update: router r forwards p to nhs, or drops it.  The cached results    *)
(* for all prefixes contained in p are invalidated (PrefixMap::children).  *)
Update(fs, r, p, nhs) ==
  LET old == Entry(fs, r, p)
      table == SetState(fs, r, p, nhs)
      changed == SetReversed(table, r, p, ToSet(old), ToSet(nhs))
  IN  IF old = nhs THEN table
      ELSE [changed EXCEPT !.cache =
              [x \in {y \in DOMAIN @ : y[2] \in Within[p] => y[1] \in Invalidate(changed, r, y[2])}
                 |-> @[x]]]

(* diff: for every router whose entry for p differs, what it was and is *)
Diff(fs, gs, p) ==
  {[router |-> r, prefix |-> p, old |-> Entry(fs, r, p), new |-> Entry(gs, r, p)] :
     r \in {q \in Routers : Entry(fs, q, p) # Entry(gs, q, p)}}

(* PartialEq: entries without next hops do not count. *)
Entries(fs) ==
  [r \in Routers |-> [p \in {q \in DOMAIN fs.state[r] : fs.state[r][q] # << >>} |->
                        fs.state[r][p]]]
=============================================================================
