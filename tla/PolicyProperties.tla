--------------------------- MODULE PolicyProperties ---------------------------
(***************************************************************************)
(* What path conditions promise, on the paths that were found.             *)
(***************************************************************************)
EXTENDS ForwardingProperties, Policies

CONSTANT Conditions    \* path conditions

PathsFound == UNION {ToSet(fs.cache[x].paths) : x \in {y \in DOMAIN fs.cache : fs.cache[y].kind = "Path"}}

(* The one pass over a path that matches positional waypoints, without     *)
(* going back, accepts the paths that the waypoints describe.              *)
PositionalExact ==
  \A c \in Conditions, w \in PathsFound :
    c.kind = "Positional" => (Positionally(c.waypoints, w) <=> Matches(c.waypoints, w))

(* The conjunctive normal form of a condition holds of the same paths. *)
CnfEquivalent ==
  \A c \in Conditions, w \in PathsFound : CheckCnf(IntoCnf(c), w) <=> Check(c, w)

(* A condition is checked as it is meant, and as its normal form.          *)
PoliciesAgree == PositionalExact /\ CnfEquivalent
=============================================================================
