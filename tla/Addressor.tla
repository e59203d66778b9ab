------------------------------ MODULE Addressor ------------------------------
(***************************************************************************)
(* DefaultAddressor (export/default.rs): the addresses of a network that is*)
(* exported to real routers.  They are assigned when they are asked for    *)
(* first.  Every AS has a network, its first half for the routers, the     *)
(* third quarter for links inside the AS and the last one for links to     *)
(* others; a link between two ASes belongs to the one with the smaller     *)
(* number.  What is asked for first gets the next subnet of its range.     *)
(*                                                                         *)
(* An address is a number, a network is [base, len] with the length of its *)
(* prefix.                                                                 *)
(***************************************************************************)
EXTENDS Integers, FiniteSets, FiniteSetsExt

CONSTANTS
  AsOf,        \* the AS of every router; routers are numbers
  Links,       \* sets of two routers
  Shapes       \* the prefix lengths a user may choose: [as, router, iface]

(* A network is a finite map, and prefix lengths are numbers.              *)
ASSUME ExportAssumption ==
  /\ DOMAIN AsOf \subseteq Nat /\ IsFiniteSet(DOMAIN AsOf)
  /\ AsOf \in [DOMAIN AsOf -> Nat]
  /\ \A l \in Links : \E a, b \in DOMAIN AsOf : a # b /\ l = {a, b}
  /\ Shapes \subseteq [as : Nat, router : Nat, iface : Nat]

VARIABLES
  shape,              \* as_prefix_len, router_prefix_len, iface_prefix_len
  interface_indices,  \* by <<router, neighbor>>
  router_addrs,       \* by router: [net, addr]
  link_addrs,         \* by link: its network
  interfaces          \* by <<router, neighbor>>: [idx, addr]

address_vars == <<shape, interface_indices, router_addrs, link_addrs, interfaces>>

Exported == DOMAIN AsOf
Ases == {AsOf[r] : r \in Exported}

(* link_asn, and whether the routers are in the same AS *)
LinkAs(l) == Min({AsOf[r] : r \in l})
Internal(l) == \A a, b \in l : AsOf[a] = AsOf[b]

(* Powers of two, and the number of addresses of a network *)
Power[n \in 0 .. 32] == IF n = 0 THEN 1 ELSE 2 * Power[n - 1]
Size(len) == Power[32 - len]

Subnet(net, len, k) == [base |-> net.base + k * Size(len), len |-> len]
Contains(net, sub) ==
  net.base <= sub.base /\ sub.base + Size(sub.len) <= net.base + Size(net.len)

(* hosts(): all addresses but the first and the last one, or all if there  *)
(* are no others.                                                          *)
Host(net, i) == net.base + (IF net.len >= 31 THEN i - 1 ELSE i)
HasHost(net, i) == i <= (IF net.len >= 31 THEN Size(net.len) ELSE Size(net.len) - 2)

(* The networks of the ASes, in the order of their numbers, from 1.0.0.0 *)
AsNetwork(asn) ==
  Subnet([base |-> Power[24], len |-> 8], shape.as, Cardinality({a \in Ases : a < asn}))

RouterRange(asn) == Subnet(AsNetwork(asn), shape.as + 1, 0)
LinkRange(asn, internal) == Subnet(AsNetwork(asn), shape.as + 2, IF internal THEN 2 ELSE 3)

(* The next subnet of a range of which some are taken, if there is one *)
NextSubnet(range, len, taken) ==
  {Subnet(range, len, k) : k \in {Cardinality(taken)} \cap (0 .. Power[len - range.len] - 1)}

(* new succeeds if the prefix lengths fit, and the ASes. *)
Accepted(s) ==
  /\ s.router \in s.as + 1 .. 32
  /\ s.iface \in s.as + 2 .. 32
  /\ Cardinality(Ases) <= 255 * Power[s.as - 8]

(* A map with an entry, which replaces the one of the same key *)
Put(map, key, value) ==
  [k \in DOMAIN map \cup {key} |-> IF k = key THEN value ELSE map[k]]

AddressorInit ==
  /\ shape \in {s \in {[t EXCEPT !.as = IF @ < 8 THEN 8 ELSE @] : t \in Shapes} : Accepted(s)}
  /\ interface_indices = << >>
  /\ router_addrs = << >>
  /\ link_addrs = << >>
  /\ interfaces = << >>
-----------------------------------------------------------------------------
(* router: what was assigned is given again, the rest is in order. *)
Router(r) ==
  /\ r \notin DOMAIN router_addrs
  /\ \E net \in NextSubnet(RouterRange(AsOf[r]), shape.router,
                           {x \in DOMAIN router_addrs : AsOf[x] = AsOf[r]}) :
       router_addrs' = Put(router_addrs, r, [net |-> net, addr |-> Host(net, 1)])
  /\ UNCHANGED <<shape, interface_indices, link_addrs, interfaces>>

(* Faulty: a new index is the highest one so far. *)
Faulty_WithIndex(indices, r, n) ==
  LET mine == {indices[k] : k \in {x \in DOMAIN indices : x[1] = r}}
  IN  IF <<r, n>> \in DOMAIN indices THEN indices
      ELSE Put(indices, <<r, n>>, IF mine = {} THEN 0 ELSE Max(mine))

(* The index of the interface of r to n, which is new if there is none *)
WithIndex(indices, r, n) ==
  IF <<r, n>> \in DOMAIN indices THEN indices
  ELSE Put(indices, <<r, n>>, Cardinality({x \in DOMAIN indices : x[1] = r}))

(* iface: both ends of a link get their address with the first of them.  If*)
(* no subnet is left, only the indices are there afterwards; if the network*)
(* has a single address, the neighbor remains without.                     *)
Iface(r, n) ==
  LET indices == WithIndex(WithIndex(interface_indices, r, n), n, r)
      peers   == {l \in DOMAIN link_addrs :
                    LinkAs(l) = LinkAs({r, n}) /\ (Internal(l) <=> Internal({r, n}))}
      free    == NextSubnet(LinkRange(LinkAs({r, n}), Internal({r, n})), shape.iface, peers)
  IN  /\ {r, n} \notin DOMAIN link_addrs
      /\ interface_indices' = indices
      /\ IF free = {} THEN UNCHANGED <<link_addrs, interfaces>>
         ELSE \E net \in free :
                LET here == Put(interfaces, <<r, n>>, [idx |-> indices[<<r, n>>], addr |-> Host(net, 1)])
                IN  /\ link_addrs' = Put(link_addrs, {r, n}, net)
                    /\ interfaces' = IF ~HasHost(net, 2) THEN here
                                     ELSE Put(here, <<n, r>>,
                                              [idx |-> indices[<<n, r>>], addr |-> Host(net, 2)])
      /\ UNCHANGED <<shape, router_addrs>>

AddressorNext ==
  \/ \E r \in Exported : Router(r)
  \/ \E r, n \in Exported : {r, n} \in Links /\ r # n /\ Iface(r, n)

AddressorSpec == AddressorInit /\ [][AddressorNext]_address_vars
-----------------------------------------------------------------------------
(* DefaultAsAddressor::find_address: one of the routers that it may return *)
FoundIn(asn, net) ==
  LET routers == {r \in DOMAIN router_addrs : AsOf[r] = asn /\ Contains(router_addrs[r].net, net)}
      ends    == {p \in DOMAIN interfaces :
                    LinkAs({p[1], p[2]}) = asn /\ interfaces[p].addr = net.base}
  IN  IF routers # {} THEN routers
      ELSE IF ends # {} THEN {p[1] : p \in ends}
      ELSE {Min(l) : l \in {x \in DOMAIN link_addrs : LinkAs(x) = asn /\ Contains(link_addrs[x], net)}}

(* find_address: the first AS that knows the address answers. *)
FindAddress(net) ==
  LET known == {asn \in Ases : FoundIn(asn, net) # {}}
  IN  IF known = {} THEN {} ELSE FoundIn(Min(known), net)

(* The links of r that find_next_hop and find_neighbor look at *)
LinksSeen(r) == {l \in DOMAIN link_addrs : r \in l /\ LinkAs(l) = AsOf[r]}
InterfacesSeen(r) == {p \in DOMAIN interfaces : p[1] = r /\ {p[1], p[2]} \in LinksSeen(r)}

(* find_next_hop: the owner of the address, or the other end of the link *)
FindNextHop(r, net) ==
  LET owners == {x \in DOMAIN router_addrs : AsOf[x] = AsOf[r] /\ Contains(router_addrs[x].net, net)}
  IN  IF owners # {} THEN {x \in owners : <<r, x>> \in InterfacesSeen(r)}
      ELSE {p[2] : p \in {q \in InterfacesSeen(r) : Contains(link_addrs[{q[1], q[2]}], net)}}

FindNeighbor(r, idx) == {p[2] : p \in {q \in InterfacesSeen(r) : interfaces[q].idx = idx}}
-----------------------------------------------------------------------------
Alone(address) == [base |-> address, len |-> 32]

Disjoint(x, y) == x.base + Size(x.len) <= y.base \/ y.base + Size(y.len) <= x.base

(* No address is given to two routers, whatever is asked for in whatever   *)
(* order and also when a range runs out: all networks are disjoint, and    *)
(* the ends of a link get different addresses of its network.              *)
AddressesDisjoint ==
  /\ \A a, b \in DOMAIN router_addrs : a # b => Disjoint(router_addrs[a].net, router_addrs[b].net)
  /\ \A k, l \in DOMAIN link_addrs : k # l => Disjoint(link_addrs[k], link_addrs[l])
  /\ \A a \in DOMAIN router_addrs, l \in DOMAIN link_addrs :
       Disjoint(router_addrs[a].net, link_addrs[l])
  /\ shape.iface < 32 => \A l \in DOMAIN link_addrs : \A r \in l : \A n \in l \ {r} :
       /\ Contains(link_addrs[l], Alone(interfaces[<<r, n>>].addr))
       /\ interfaces[<<r, n>>].addr # interfaces[<<n, r>>].addr

(* The lookups undo the assignment: an address leads to its router, and at *)
(* a router the address or the index of an interface leads to the neighbor,*)
(* as far as its own AS is the one the link belongs to.                    *)
LookupsInverse ==
  /\ \A r \in DOMAIN router_addrs : FindAddress(Alone(router_addrs[r].addr)) = {r}
  /\ \A p \in DOMAIN interfaces :
       /\ FindAddress(Alone(interfaces[p].addr)) = {p[1]}
       /\ p \in InterfacesSeen(p[1]) =>
            /\ FindNeighbor(p[1], interfaces[p].idx) = {p[2]}
            /\ FindNextHop(p[1], Alone(interfaces[p].addr)) = {p[2]}

(* In an exported network every address is the address of one router, and  *)
(* is found again.                                                         *)
AddressesUnambiguous == AddressesDisjoint /\ LookupsInverse
=============================================================================
