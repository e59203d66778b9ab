---------------------------- MODULE ForwardingPaths ----------------------------
(***************************************************************************)
(* How get_paths explores a forwarding state, and fills its cache.         *)
(***************************************************************************)
EXTENDS ForwardingState

Rotated(s) == <<Last(s)>> \o Front(s)

(* What a router makes of the result of its next hop. *)
Through(r, result) ==
  CASE result.kind = "Path" ->
         Found([i \in DOMAIN result.paths |-> <<r>> \o result.paths[i]])
    [] result.kind = "Hole" -> Hole(<<r>> \o result.path)
    [] OTHER -> IF r \in ToSet(result.cycle) THEN Loop(result.to, Rotated(result.cycle))
                ELSE Loop(<<r>> \o result.to, result.cycle)

(* get_paths_recursive: the cache and the result, after the way to r.      *)
(* The first next hop that has no paths decides.                           *)
RECURSIVE Explore(_, _, _, _, _)
Explore(fs, cache, p, r, way) ==
  LET nhs == NextHops(fs, r, p)
      visit(o, n) ==
        IF o.result.kind # "Path" THEN o
        ELSE IF n \in ToSet(way)
        THEN [o EXCEPT !.result =
                Loop(<< >>, Rotated(SubSeq(way, SelectInSeq(way, LAMBDA x : x = n), Len(way))))]
        ELSE LET next == Explore(fs, o.cache, p, n, Append(way, n))
                 mine == Through(r, next.result)
             IN  [cache |-> next.cache,
                  result |-> IF mine.kind = "Path" THEN Found(o.result.paths \o mine.paths)
                             ELSE mine]
      visited == FoldLeft(visit, [cache |-> cache, result |-> Found(<< >>)], nhs)
      done == CASE nhs = << >> -> [cache |-> cache, result |-> Hole(<<r>>)]
                [] nhs = <<Dst>> -> [cache |-> cache, result |-> Found(<< <<r>> >>)]
                [] OTHER -> visited
  IN  IF <<r, p>> \in DOMAIN cache THEN [cache |-> cache, result |-> cache[r, p]]
      ELSE [done EXCEPT !.cache = (<<r, p>> :> done.result) @@ @]

(* What ForwardingState takes as Explored: the cache after get_paths *)
ExploredCache(fs, r, p) == Explore(fs, fs.cache, p, r, <<r>>).cache
=============================================================================
