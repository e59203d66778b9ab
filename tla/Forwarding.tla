------------------------------ MODULE Forwarding ------------------------------
(***************************************************************************)
(* How routers forward (get_next_hop and get_fib in router/mod.rs, static  *)
(* routes in router/sr_process.rs), the forwarding state taken from a      *)
(* network and kept up to date by its user, and the recording of how it    *)
(* converges (record.rs).                                                  *)
(*                                                                         *)
(* Of BGP, a router has the selected route per prefix, which events and    *)
(* operations change; OSPF is a fixed table.  How both come about is the   *)
(* matter of the modules BgpNetwork and Ospf.                              *)
(***************************************************************************)
EXTENDS ForwardingState

CONSTANTS
  Igp,         \* Igp[r][t]: the next hops of r to router t
  Neighbors,   \* Neighbors[r]: the routers linked to r
  Networks,    \* the networks to start with
  Changes,     \* what the user changes and follows
  Operations,  \* what is recorded: sequences of changes
  Events,      \* what BGP events do: changes of the selected route
  Queries,     \* the prefixes that paths are asked for
  Single,      \* the prefix of a recorded network, which has no other
  MaxTrace     \* bound: the length of a recording

VARIABLES
  net,       \* net[r]: the tables of router r
  fs,        \* the forwarding state
  trace,     \* ConvergenceRecording::trace: sets of deltas
  pointer,   \* ConvergenceRecording::pointer
  phase,     \* "live": fs follows the network; "recording"; "replay";
             \* "released": the recording gave its initial state back
  history    \* ghost: the entries of all routers, at every step of trace

vars == <<net, fs, trace, pointer, phase, history>>

(* StaticRoute, and a selected BGP route; own: the router originates it *)
Direct(r) == [kind |-> "Direct", to |-> r]
Indirect(r) == [kind |-> "Indirect", to |-> r]
Drop == [kind |-> "Drop", to |-> Dst]
Route(next_hop, own) == [next_hop |-> next_hop, own |-> own]

StaticRoutes == [kind : {"Direct", "Indirect"}, to : Routers] \cup {Drop}
BgpRoutes == [next_hop : Routers, own : BOOLEAN]

PrefixMaps(T) == UNION {[K -> T] : K \in SUBSET AllPrefixes}

(* What a router has: static routes, selected BGP routes, and an option *)
RouterTables ==
  [sr : PrefixMaps(StaticRoutes), rib : PrefixMaps(BgpRoutes), do_load_balancing : BOOLEAN]

(* A change of one router: its static route or BGP route for a prefix, or  *)
(* whether it balances the load.                                           *)
Edits ==
  [type : {"static"}, router : Routers, prefix : AllPrefixes, route : SUBSET StaticRoutes] \cup
  [type : {"bgp"}, router : Routers, prefix : AllPrefixes, route : SUBSET BgpRoutes] \cup
  [type : {"balance"}, router : Routers, prefix : AllPrefixes]

ASSUME NetworkAssumption ==
  /\ \A r \in Routers : Neighbors[r] \subseteq Routers
  /\ \A r \in Routers : \A t \in DOMAIN Igp[r] : Igp[r][t] \in Seq(Routers)
  /\ Networks \subseteq [Routers -> RouterTables]
  /\ Changes \subseteq Edits /\ Events \subseteq Edits /\ Operations \subseteq Seq(Edits)

(* Recordings are of networks with one prefix (Network<SinglePrefix>).     *)
ASSUME SinglePrefixAssumption ==
  /\ Single \in AllPrefixes
  /\ \A n \in Networks, r \in Routers : DOMAIN n[r].sr \cup DOMAIN n[r].rib \subseteq {Single}
  /\ \A op \in Operations : \A i \in DOMAIN op : op[i].prefix = Single
  /\ \A c \in Events : c.prefix = Single

(* OspfProcess::get; a router is no target of its own table *)
NextHopsTo(r, target) ==
  CASE target.kind = "Direct" -> IF target.to \in Neighbors[r] THEN <<target.to>> ELSE << >>
    [] target.kind = "Indirect" ->
         IF target.to \in DOMAIN Igp[r] THEN Igp[r][target.to] ELSE << >>
    [] OTHER -> << >>

(* Faulty: the static route is picked if it is the less specific one. *)
Faulty_Target(x, p) ==
  LET sr == Longest(x.sr, p)
      bgp == Longest(x.rib, p)
  IN  IF sr # {} /\ \A q \in bgp : q \in UNION {Within[s] : s \in sr}
      THEN At(x.sr, sr, Drop)
      ELSE IF bgp # {} THEN Indirect(At(x.rib, bgp, Drop).next_hop)
      ELSE Drop

(* get_next_hop: where the router of the tables x sends p.  A static route *)
(* wins if the prefix of the BGP route contains its prefix.                *)
Target(x, p) ==
  LET sr == Longest(x.sr, p)
      bgp == Longest(x.rib, p)
  IN  IF sr # {} /\ \A q \in bgp : sr \subseteq Within[q]
      THEN At(x.sr, sr, Drop)
      ELSE IF bgp # {} THEN Indirect(At(x.rib, bgp, Drop).next_hop)
      ELSE Drop

GetNextHop(n, r, p) ==
  LET nhs == NextHopsTo(r, Target(n[r], p))
  IN  IF n[r].do_load_balancing \/ nhs = << >> THEN nhs ELSE <<Head(nhs)>>

(* get_fib, and what from_net makes of it: a router without a next hop     *)
(* that selects its own route has reached the destination.                 *)
Terminal(n, r, p) ==
  LET bgp == Longest(n[r].rib, p)
  IN  bgp # {} /\ At(n[r].rib, bgp, Drop) = Route(r, TRUE)

Table(n, r) ==
  [p \in DOMAIN n[r].sr \cup DOMAIN n[r].rib |->
     IF GetNextHop(n, r, p) = << >> /\ Terminal(n, r, p) THEN <<Dst>>
     ELSE GetNextHop(n, r, p)]

(* from_net *)
FromNet(n) ==
  LET state == [r \in Routers |-> Table(n, r)]
      used(q) == {p \in AllPrefixes : \E r \in Routers :
                    p \in DOMAIN state[r] /\ q \in ToSet(state[r][p])}
  IN  [state |-> state,
       reversed |-> [q \in Routers \cup {Dst} |-> [p \in used(q) |->
                       {r \in Routers : p \in DOMAIN state[r] /\ q \in ToSet(state[r][p])}]],
       cache |-> << >>]
-----------------------------------------------------------------------------
(* An option of at most one route is put in place for a prefix. *)
Set(table, p, option) ==
  IF option = {} THEN Without(table, p) ELSE Put(table, p, CHOOSE x \in option : TRUE)

(* The network n after an edit of one router *)
Apply(n, c) ==
  CASE c.type = "static" -> [n EXCEPT ![c.router].sr = Set(@, c.prefix, c.route)]
    [] c.type = "bgp" -> [n EXCEPT ![c.router].rib = Set(@, c.prefix, c.route)]
    [] c.type = "balance" -> [n EXCEPT ![c.router].do_load_balancing = ~@]

Init ==
  /\ net \in Networks
  /\ fs = FromNet(net)
  /\ trace = << >> /\ pointer = 0
  /\ phase = "live"
  /\ history = << >>

(* The network after a sequence of changes. *)
ApplyAll(n, op) ==
  LET after[i \in 0 .. Len(op)] == IF i = 0 THEN n ELSE Apply(after[i - 1], op[i])
  IN  after[Len(op)]

(* The forwarding state f updated with all deltas, which concern different *)
(* entries: the next hops of each become its "new" or its "old" ones.      *)
Applied(f, deltas, side) ==
  LET ds == SetToSeq(deltas)
      after[i \in 0 .. Len(ds)] ==
        IF i = 0 THEN f ELSE Update(after[i - 1], ds[i].router, ds[i].prefix, ds[i][side])
  IN  after[Len(ds)]

(* The deltas of the last i entries of the trace before the position are   *)
(* undone, for all i.                                                      *)
Undone(f, entries, position) ==
  LET after[i \in 0 .. position] ==
        IF i = 0 THEN f ELSE Applied(after[i - 1], entries[position + 1 - i], "old")
  IN  after[position]

(* The user changes a router of the network, and updates the forwarding    *)
(* state with all entries of its new table, instead of taking a new state. *)
Follow(c) ==
  /\ phase = "live"
  /\ net' = Apply(net, c)
  /\ LET new == FromNet(net')
     IN  fs' = Applied(fs, {[router |-> c.router, prefix |-> p, new |-> Entry(new, c.router, p)] :
                              p \in AllPrefixes}, "new")
  /\ UNCHANGED <<trace, pointer, phase, history>>

(* record: the operation, and the difference it makes at once.  The queue  *)
(* holds the events it causes.  Bound: one of the networks to start with   *)
(* is recorded, and these know no other prefix than Single.                *)
Record(op) ==
  /\ phase = "live" /\ net \in Networks
  /\ net' = ApplyAll(net, op)
  /\ fs' = FromNet(net)
  /\ trace' = <<Diff(FromNet(net), FromNet(net'), Single)>>
  /\ history' = <<Entries(FromNet(net)), Entries(FromNet(net'))>>
  /\ phase' = "recording"
  /\ UNCHANGED pointer

(* record_prepared: an event, and the change of the next hops it makes *)
HandleEvent(c) ==
  /\ phase = "recording" /\ Len(trace) < MaxTrace
  /\ net' = Apply(net, c)
  /\ LET old == GetNextHop(net, c.router, c.prefix)
         new == GetNextHop(net', c.router, c.prefix)
         now == Entries(FromNet(net'))
     IN  IF old = new
         THEN /\ history' = [history EXCEPT ![Len(history)] = now]
              /\ UNCHANGED trace
         ELSE /\ trace' = Append(trace, {[router |-> c.router, prefix |-> c.prefix,
                                          old |-> old, new |-> new]})
              /\ history' = Append(history, now)
  /\ UNCHANGED <<fs, pointer, phase>>

(* The queue is empty: ConvergenceRecording::new. *)
Recorded ==
  /\ phase = "recording"
  /\ phase' = "replay"
  /\ UNCHANGED <<net, fs, trace, pointer, history>>

(* ConvergenceRecording::step *)
StepForward ==
  /\ phase = "replay" /\ pointer < Len(trace)
  /\ fs' = Applied(fs, trace[pointer + 1], "new")
  /\ pointer' = pointer + 1
  /\ UNCHANGED <<net, trace, phase, history>>

(* Faulty: the pointer is moved after the deltas are looked up. *)
Faulty_Back ==
  /\ phase = "replay" /\ pointer > 0
  /\ fs' = Applied(fs, trace[IF pointer = Len(trace) THEN pointer ELSE pointer + 1], "old")
  /\ pointer' = pointer - 1
  /\ UNCHANGED <<net, trace, phase, history>>

(* ConvergenceRecording::back *)
Back ==
  /\ phase = "replay" /\ pointer > 0
  /\ fs' = Applied(fs, trace[pointer], "old")
  /\ pointer' = pointer - 1
  /\ UNCHANGED <<net, trace, phase, history>>

(* into_initial_fw_state *)
IntoInitial ==
  /\ phase = "replay"
  /\ fs' = Undone(fs, trace, pointer)
  /\ pointer' = 0
  /\ phase' = "released"
  /\ UNCHANGED <<net, trace, history>>

(* get_paths *)
AskForPaths(r, p) ==
  /\ phase # "recording"
  /\ fs' = GetPaths(fs, r, p)
  /\ UNCHANGED <<net, trace, pointer, phase, history>>

Next ==
  \/ \E c \in Changes : Follow(c)
  \/ \E op \in Operations : Record(op)
  \/ \E c \in Events : HandleEvent(c)
  \/ Recorded \/ StepForward \/ Back \/ IntoInitial
  \/ \E r \in Routers, p \in Queries : AskForPaths(r, p)

Spec == Init /\ [][Next]_vars
=============================================================================
