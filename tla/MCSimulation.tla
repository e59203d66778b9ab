---------------------------- MODULE MCSimulation ----------------------------
(***************************************************************************)
(* Simulation for TLC: a line of routers r1 - r2 - r3 in one AS.  Or a     *)
(* network that is exported, and does not change meanwhile: Addressor, for *)
(* a square of routers of which 4 is in an AS with a smaller number.       *)
(***************************************************************************)
EXTENDS Simulation, Addressor, TLC

CONSTANTS r1, r2, r3

VARIABLE exported

McRouters == {r1, r2, r3}
McAs == [r \in McRouters |-> 1]
McLinks == {{r1, r2}, {r2, r3}}
McSessions == {{r1, r2}, {r1, r3}}
McLimits == {1, Unlimited}
McAsns == {1, 2}

Shape(as, router, iface) == [as |-> as, router |-> router, iface |-> iface]

(* With the first two, the networks of routers or of internal links run    *)
(* out.                                                                    *)
McAsOf == <<20, 20, 20, 10>>
McSquare == {{1, 2}, {2, 3}, {3, 4}, {1, 4}}
McShapes == {Shape(24, 26, 27), Shape(24, 30, 26), Shape(26, 32, 31), Shape(4, 24, 32)}

McInit ==
  /\ exported \in BOOLEAN
  /\ Init
  /\ AddressorInit
  /\ IF exported THEN skip_queue /\ stop_after = Unlimited ELSE shape.as = 8

McNext ==
  /\ UNCHANGED exported
  /\ \/ exported /\ AddressorNext /\ UNCHANGED vars
     \/ ~exported /\ Next /\ UNCHANGED address_vars

McSpec == McInit /\ [][McNext]_<<vars, exported, address_vars>>
=============================================================================
