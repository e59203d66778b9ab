---------------------------- MODULE MCBgpNetwork ----------------------------
(***************************************************************************)
(* Instances of BgpNetwork for TLC.                                        *)
(***************************************************************************)
EXTENDS BgpProperties, TLC

Ad(r, path) == [router |-> r, as_path |-> path, med |-> 0]
Med(med, ad) == [ad EXCEPT !.med = med]
Ses(a, b, ty) == [source |-> a, target |-> b, ty |-> ty]
Map(r, n, in, m) == [router |-> r, neighbor |-> n, incoming |-> in, map |-> m]

Deny == [AllowAll EXCEPT !.permit = FALSE]
Prefer == [AllowAll EXCEPT !.local_pref = 200]
Via(r) == [AllowAll EXCEPT !.next_hop = r]
Near == [AllowAll EXCEPT !.igp_cost = 0]

(* The sessions of a list of [source, target, ty]. *)
SessionsOf(S) ==
  [a \in Routers |-> [b \in Routers |->
     IF \E s \in S : s.source = a /\ s.target = b
     THEN (CHOOSE s \in S : s.source = a /\ s.target = b).ty
     ELSE IF \E s \in S : s.source = b /\ s.target = a THEN "peer"
     ELSE None]]

(* The topology with a cost for every connected pair. *)
TopologyOf(cost) ==
  [cost |-> [a \in Routers |-> [b \in Routers |->
               IF a = b THEN 0
               ELSE IF <<a, b>> \in DOMAIN cost THEN cost[<<a, b>>]
               ELSE IF <<b, a>> \in DOMAIN cost THEN cost[<<b, a>>]
               ELSE None]],
   reach |-> [a \in Routers |-> {b \in Routers :
               a # b /\ (<<a, b>> \in DOMAIN cost \/ <<b, a>> \in DOMAIN cost)}]]
-----------------------------------------------------------------------------
(* One AS (1, 2, 3) with the route reflector 1, its clients 2 and 3 at the *)
(* border, and two external routers 4 and 5 of another AS.                  *)
RrRouters == 1 .. 5
RrAs == [r \in 1 .. 5 |-> IF r <= 3 THEN 10 ELSE 14]
RrSessions == SessionsOf({Ses(1, 2, "client"), Ses(1, 3, "client"),
                          Ses(2, 4, "peer"), Ses(3, 5, "peer")})
RrNear2 == TopologyOf(<<1, 2>> :> 1 @@ <<1, 3>> :> 2 @@ <<2, 3>> :> 3
                      @@ <<2, 4>> :> 0 @@ <<3, 5>> :> 0)
RrNear3 == TopologyOf(<<1, 2>> :> 3 @@ <<1, 3>> :> 2 @@ <<2, 3>> :> 5
                      @@ <<2, 4>> :> 0 @@ <<3, 5>> :> 0)
RrCut2 == TopologyOf(<<1, 3>> :> 2 @@ <<2, 4>> :> 0 @@ <<3, 5>> :> 0)
RrTopologies == {RrNear2, RrNear3, RrCut2}
RrAds == {Med(1, Ad(4, << >>)), Ad(5, << >>), Ad(5, <<90>>), Med(1, Ad(3, <<95>>))}
RrMaps == {Map(2, 4, TRUE, Prefer), Map(1, 3, FALSE, Deny),
           Map(2, 1, FALSE, Via(3)), Map(1, 2, TRUE, Near)}
FlapAds == {Ad(4, << >>)}
RrFlap == {Ses(2, 4, None), Ses(2, 4, "peer"), Ses(1, 2, None), Ses(1, 2, "client")}
-----------------------------------------------------------------------------
(* Three reflectors, each a client of the previous one: routes are offered *)
(* around the cycle in both directions.  Router 4 is one more client of 1; *)
(* 2 and 4 may originate routes.                                           *)
CycleRouters == 1 .. 4
CycleAs == [r \in 1 .. 4 |-> 10]
CycleSessions == SessionsOf({Ses(1, 2, "client"), Ses(2, 3, "client"),
                             Ses(3, 1, "client"), Ses(1, 4, "client")})
CycleEven == TopologyOf(<<1, 2>> :> 1 @@ <<1, 3>> :> 1 @@ <<2, 3>> :> 1
                        @@ <<1, 4>> :> 1 @@ <<2, 4>> :> 2 @@ <<3, 4>> :> 2)
CycleSkew == TopologyOf(<<1, 2>> :> 5 @@ <<1, 3>> :> 1 @@ <<2, 3>> :> 4
                        @@ <<1, 4>> :> 1 @@ <<2, 4>> :> 6 @@ <<3, 4>> :> 2)
CycleTopologies == {CycleEven, CycleSkew}
CycleAds == {Ad(4, <<90>>), Ad(2, <<90, 91>>), Ad(2, <<90>>)}
CycleFlap == {Ses(1, 4, None), Ses(3, 4, "client")}
CycleMaps == {Map(3, 1, TRUE, Deny), Map(3, 1, TRUE, AllowAll)}
=============================================================================
