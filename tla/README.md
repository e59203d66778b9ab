# bgpsim in TLA+

TLA+ modules, TLC configurations and TLAPS proofs for bgpsim, a discrete-event
simulator of BGP and OSPF (`src/bgpsim`, Rust). The simulator computes the
state a network converges to, and it is used to study what happens on the way
there; so what matters is that messages between routers are never lost,
doubled or reordered, that the tables of the routers agree with the messages,
and that the state in which it stops is the one BGP would stop in.

All paths below are relative to `src/bgpsim/src`.

## 1. The system

| Part | State | Operations | Hard behaviour |
|---|---|---|---|
| BGP routes (`bgp/`) | attributes of a route | comparison (`BgpRibEntry::cmp`), `best_route` | MED is no order on routes; defaults of optional attributes |
| BGP process (`router/bgp_process.rs`) | `sessions`, `rib_in`, `rib`, `rib_out`, `igp_cost`, route maps | `handle_event`, `set_session`, `set_route_map`, `advertise_route`, `withdraw_route`, `update_igp`, `update_tables`, all ending in a decision and a dissemination | RIB_OUT must tell what the peer was told last; route reflection without loops |
| Network (`network.rs`) | routers, configured sessions, queue, OSPF, mode, message limit | configuration changes, link changes, `refresh_bgp_sessions` | the two ends of a session are edited one after the other, while events are under way |
| Event queues (`event/`) | `BasicEventQueue`, `PerRouterQueue`, `SimpleTimingModel`, `GeoTimingModel` | push, pop, `pop_events_for`, peek, clear | order per session, counters kept beside the data |
| BGP state view (`bgp/state.rs`) | none of its own: selected and advertised routes | `propagation_path`, `ingress_session`, `reach` | asked for at any time, also between two events |
| Simulation (`interactive.rs`) | message limit, mode | `simulate_step`, `simulate`, `simulate_parallel` | termination, threads, giving up half way |
| Global OSPF (`ospf/mod.rs`, `ospf/global.rs`) | links with weights and areas, the LSAs of all areas, trees, RIBs, what is redistributed, tables | one computation per change, of the parts a change can affect | several areas, border routers, what partial recomputation forgets |
| Local OSPF (`ospf/local/`) | link-state databases, neighbor state machines, retransmission lists, LSAs being flushed | exchange of databases, flooding, acknowledgement, ageing, timeouts, redistribution | reordered messages, links that flap while messages are in flight, sequence numbers that run out |
| Conversion (`into_local_ospf`, `into_global_ospf`) | the state of the one kind of OSPF rewritten as that of the other | | sequence numbers and databases must fit whatever came before |
| Route maps (`route_map.rs`) | sorted clauses with matches and actions | `apply`, insertion and removal by order | exit, continue, continue at an order that may be missing |
| Configuration (`config.rs`) | a set of expressions; the network they describe | modifiers, batches, patches, `get_diff`, `set_config`, `get_config`, reversal | a patch applied in any order, half-way failures, what is configured but not active |
| Static routes and forwarding (`router/`, `forwarding_state.rs`) | static routes, next hops and their reverse, a cache of paths | `get_fib`, `get_paths`, `update`, `diff` | longest-prefix match over two tables, loops, invalidation of the cache |
| Convergence recording (`record.rs`) | a trace of changes, a position in it | `record`, `step`, `back` | each step must undo the other |
| Policies (`policies.rs`) | path conditions | evaluation, normal form | wildcards, negation |
| Address assignment (`export/default.rs`) | addresses of routers and links, interface indices | `router`, `iface`, `find_address`, `find_next_hop`, `find_neighbor` | ranges that run out, links between two ASes |
| (De)serialisation, formatter, builder, topology zoo, config text, web front end | | | mostly pure functions of the network, or I/O |

How they interact. An operation of the user edits a router through
`Network`; the router returns the events it causes, which go into the queue.
In automatic mode (`skip_queue = false`) the operation ends with `simulate()`,
which pops events and hands each to its destination until the queue is empty.
In manual mode the events stay, the user steps through them and may change the
configuration in between. Changes of links or weights make OSPF, by messages of
its own or at once, recompute the IGP costs of every router; then, because a
session needs reachability, `refresh_bgp_sessions` brings every session in line
with configuration and reachability. `simulate_parallel` runs the routers in a pool of threads that
talk to the main thread over two channels.

What makes each part correct:

- *process and network*: the tables at the two ends of a session and the events
  between them tell the same (`ChannelCoherent`); a router has no unfinished
  work of its own (`LocallySettled`), and what it selects is what MED demands
  (`MedDecides`); sessions run at both ends or at none and
  leave nothing behind (`SessionsPaired`); a converged network is a stable state
  (`ConvergedIsStable`, `PropagationExplained`, `EgressConsistent`), is reached
  (`EventuallyConverged`), and reflection does not loop (`NoReflectionLoop`).
- *simulation*: an operation that succeeds leaves mode, limit and sessions as asked
  for (`OperationsComplete`), and no event addressed to nobody (`EventsAddressed`).
- *queues*: one FIFO channel for each ordered pair of routers (`EventChannels`),
  exact counters.
- *parallel simulation*: the same promise across threads, every router comes
  back, no thread waits forever, the limit holds.
- *OSPF*: when `simulate()` has returned, adjacencies are up and databases agree
  (`AdjacenciesFull`, `DatabasesCurrent`), every router advertises its links and
  summaries as they are (`DatabasesCurrent`, `SummariesCurrent`), and the tables
  are what the databases yield from scratch (`TablesCurrent`) and what global
  OSPF computes (`TablesAsGlobal`); what global OSPF keeps is what a full
  computation yields (`GlobalCurrent`: trees, RIBs, tables and summaries).
- *configuration*: a `Config` and a network agree on what a modifier does
  and that its reverse undoes it (`ModifiersReliable`), `set_config` reaches
  its goal (`ConfigReached`).
- *route maps*: they do what is documented, however they were edited
  (`MapsAsDocumented`), and stay sorted (`MapsSorted`, part of `WellFormed`).
- *forwarding*: the forwarding state follows the network, forwards and in replay
  (`StateFaithful`), and a cached path is never out of date (`CacheFresh`).

## 2. The modules

| Module | Models | Built on |
|---|---|---|
| `BgpRoutes` | routes, route-map effects, RIB entries, comparison, `best_route` | |
| `BgpProcess` | one `BgpProcess`: edits of its state, decision, dissemination, export | `BgpRoutes` |
| `BgpNetwork` | all processes, the events between them, the user, session refresh, OSPF outcomes | `BgpProcess` |
| `BgpStateView` | the graph of how a route was propagated | `BgpNetwork` |
| `BgpProperties` | the properties and invariants of the BGP side | `BgpStateView` |
| `BgpNetworkProofs` | theorems about `BgpNetwork`: types, sessions, tables in step, what routers do by themselves, converged states, and how routes were propagated | `BgpProperties`, TLAPS |
| `Simulation` | operations of a network, mode, message limit, the loop of `simulate`, errors | |
| `SimulationProofs` | theorems about `Simulation` | `Simulation`, TLAPS |
| `EventChannels` | abstract: what a simulator expects of an event queue | |
| `EventQueues` | `BasicEventQueue` and `PerRouterQueue` side by side | refines `EventChannels` |
| `TimingQueue` | `SimpleTimingModel` | |
| `QueueProofs` | theorems about `EventQueues` and `TimingQueue` | both, TLAPS |
| `ParallelSimulation` | main thread and workers of `simulate_parallel` | |
| `ParallelProofs` | theorems about `ParallelSimulation`: the routers, the events, the limit, the types | `ParallelSimulation`, TLAPS |
| `OspfRoutes` | LSAs, their order, shortest-path trees, inter-area and external routes, RIBs | |
| `OspfDomain` | links, areas and weights, and what a change of them tells OSPF | `OspfRoutes` |
| `OspfDatabase` | databases of a router, sequence numbers and their wrap-around, redistribution | `OspfRoutes` |
| `OspfNeighbor` | the neighbor state machine and reliable flooding | `OspfDatabase` |
| `OspfProcess` | the process of a router: its events, changes of neighbors, flushing | `OspfNeighbor` |
| `LocalOspf` | all processes, messages that may overtake each other, operations, timeouts | `OspfProcess`, `OspfDomain` |
| `GlobalOspf` | the incremental computation for the whole domain | `OspfDomain` |
| `OspfOracle` | a domain that runs global OSPF | `GlobalOspf` |
| `OspfConversion` | the state of one kind of OSPF rewritten as the other | `OspfProcess`, `GlobalOspf` |
| `Ospf` | a domain that runs either, and changes from one to the other | `LocalOspf`, `OspfOracle` |
| `OspfProperties` | the properties of both, and the inductive invariant of the proof: the state of local OSPF at any time | `Ospf` |
| `OspfProofs` | theorem about `Ospf`: adjacencies come up, and flushes end | `OspfProperties`, TLAPS |
| `RouteMaps` | clauses, lists of clauses, their editing; the documented meaning as a reference | |
| `Configuration` | configurations, and a network as far as it is configured | `RouteMaps` |
| `ConfigurationProperties` | its properties | `Configuration` |
| `ConfigurationProofs` | theorems about `Configuration` and `RouteMaps` | `ConfigurationProperties`, TLAPS |
| `ForwardingState` | next hops and their reverse, the cache and its invalidation, `update`, `diff` | |
| `ForwardingPaths` | the exploration of `get_paths`, with loops and black holes | `ForwardingState` |
| `Forwarding` | how routers forward, the user following changes, recording and replay | `ForwardingState` |
| `ForwardingProperties` | its properties | `Forwarding` |
| `ForwardingProofs` | theorems about `Forwarding` | `ForwardingProperties`, TLAPS |
| `Policies` | path conditions, matching and normal form | |
| `PolicyProperties` | their properties | `ForwardingProperties`, `Policies` |
| `Addressor` | addresses of an exported network, and their lookup | |
| `AddressorProofs` | theorem about `Addressor` | `Addressor`, TLAPS |
| `MCBgpNetwork`, `MCQueues`, `MCParallel`, `MCOspf`, `MCConfiguration`, `MCForwarding`, `MCSimulation` | instances for TLC | |

`EventChannels` says what a network may expect of its queue: a FIFO channel per
ordered pair of routers. `EventQueues` shows that both queues
implement it (with `pending` the events of each pair, read off the queue). So
`BgpNetwork` keeps such channels instead of a queue (`chan`), and its
`HandleEvent(a, b)` may take the head of any channel next. Every order in which
a queue can hand events out is one of those orders, and what is shown of the
network is shown for all queues that keep the order of a session, and for the
threads of `simulate_parallel` (`NothingLostOnSuccess`).

Definitions named `Faulty_...` are not part of the model. Each states what a
definition would be with a plausible mistake in it; the property that this
mistake breaks is listed under `mutants` in `PROJECT.json`.

### BgpProcess and BgpRoutes

A process is a record with the fields of the struct (`router_id`, `igp_cost`,
`sessions`, `rib_in`, `rib`, `rib_out` and the two effects of route maps per
neighbor). The model has one prefix, as all tables are indexed by prefix and
the code never relates two of them. Functions of the code that edit
the process and then call the decision become `Update(edited, force)`: the
decision process of `run_decision_process_for_prefix`, then, if the selected
route changed or the caller forces it, the dissemination of
`run_dissemination_for_prefix`. `Events` are the messages this
returns. `Export` is `should_export_route` with the rewriting of
`process_rib_out_route`; `Receive` is `insert_route` and `remove_route`.

Left out of routes: community values. LOCAL_PREF and MED that are not set are
represented by the defaults the comparison substitutes for them. A list of
route-map items is represented by its effect on a route (`RouteMap`: deny, or
overwrite next hop, weight, LOCAL_PREF, MED and IGP cost, each or not), and a change of
it by the change of that effect; that the effect does not depend on the route is
an abstraction. The place of a route map in the code matters: on import it is applied
before the next hop is looked up in the IGP and before an eBGP neighbor becomes the next
hop; on export after next-hop-self, so that it can set another next hop on an iBGP
session, but before the attributes of an eBGP session are reset.

### BgpNetwork

| Action | Code |
|---|---|
| `AdvertiseRoute`, `WithdrawRoute` | `Network::advertise_route`, `withdraw_route` |
| `SetBgpRouteMap` | `Network::set_bgp_route_map`, `remove_bgp_route_map` |
| `SetBgpSession` | `Network::set_bgp_session` (None removes it), which ends in a refresh |
| `SetTopology` | a change of links or weights: OSPF's new outcome is written to the processes, then a refresh |
| `RefreshSession(a, b)` | one visit of `refresh_bgp_sessions` |
| `HandleEvent(a, b)` | `simulate_step` for an event from `a` to `b` |

`refresh` holds the pairs that `refresh_bgp_sessions` has yet to visit. The code
visits them in the order of a hash map, so the order is a choice; events are not
handled in between. A visit changes one process and its outgoing channels only.
The model puts the pairs into `refresh` that hold a session; map entries with
`None` from earlier removals are not visited again, as their forced update
changes nothing (this is `LocallySettled`).

`Manual` tells manual from automatic simulation: in automatic simulation an
operation starts only if the queue is empty. That is right as long as
`simulate()` returns `Ok`. If it gives up with `NoConvergence` the queue is left
as it is and the user goes on, which `Manual = TRUE` covers.

OSPF is external to this module: `Topologies` lists the outcomes, a cost table
and a reachability relation each. Which of them belong together is not decided
here, and reachability is assumed symmetric (`ReachSymmetric`), as
`OspfDomain::is_reachable` is for both implementations of OSPF: inside an AS it
asks both routers, between ASes it looks for a link.

`BgpStateView` reads `BgpState` off the tables of `BgpNetwork`: the graph of
`from_net`, and its walks. `PathEnds` says whether the walk of `propagation_path`
comes to an end.

### Simulation

`Simulation` has what a `Network` does around its routers. An operation is a list
`todo` of steps, one action each: `queue` is `do_queue_maybe_skip`, `simulate` and
`loop` are `simulate()` (`Step` takes an event, `TriggerTimeout` and `Return` are
for the empty queue, `GiveUp` is `NoConvergence`). `set_asn` is `Close`, `Move`, `Open`,
`Reset` and `remove_router` is `Leave`, `Drop` for each neighbor, `Remove`, `Reset`,
with `queue` in between. An error drops the rest of the list (`Fail`), so mode and
limit stay as the operation had set them; `failed` remembers that.

Routers are black boxes: what they send is open, except that BGP events go to
peers and OSPF events along links of the AS, and that an operation or an event
causes one event at most. With local OSPF (`Local`) the tables, and with them the
reachability of `refresh_bgp_sessions`, may be behind the links as long as OSPF
events are under way. `set_asn` does not refresh sessions after it moved the
router, as the next `set_bgp_session_from` does.

### Addressor

`Addressor` is `DefaultAddressor`: `Router` and `Iface` are the first calls of
`router` and `iface` for their arguments (later ones return what is there),
`FindAddress`, `FindNextHop` and `FindNeighbor` the lookups. A hash map that may
yield any of several entries is a set of answers. It depends on a network that
does not change meanwhile (`Links`, and `AsOf`, whose domain are the routers), so it
stands alone; `MCSimulation` runs it beside `Simulation`. An address is a number, and a
network the interval of its addresses.

### Queues and threads

`EventQueues` feeds both queues with the same events and drains each on its own
(`pop`, `pop_events_for`, `clear`). `TimingQueue` adds time: `InOrder` is the
rule that moves an event behind its predecessor in the session, `Ties` says
whether two sampled arrival times may be equal. The priority queue is an
external crate: it holds equal elements once, and hands out any of several
elements of equal priority. `GeoTimingModel` samples and queues differently but
orders a session by the same code, and has no module of its own. (Its
documentation gives the delay between routers without a path in the IGP as
100s; the constant is 10.0.)

`ParallelSimulation` has one action per step of the main loop (`LoopHead`,
`SkipRouter`, `Dispatch`, `GiveUp`, `ScanEnds`, `Receive`, `Drain`) and of a
worker (`StartJob`, `HandleEvent`, `FailEvent`, `FinishJob`). What a router does
with an event is left open: it generates at most one event for each other
router, or fails. The events of each pair carry numbers, and
`sent` and `handled` are history variables.

### OSPF

A process of local OSPF is a record with the fields of `LocalOspfProcess`; its
handlers return an outcome with the new process, the messages, the LSAs to
flood and those to track, which `OspfProcess` applies in the order of
`perform_actions`. LSAs have a key, a sequence number, and `dead` for the age
MAX_AGE, the only age the code sets besides 0.

| Action | Code |
|---|---|
| `LocalOspf`, an operation of the script | `OspfDomain::add_links_from`, `remove_link`, `set_weight`, `set_area`, external links, as `NeighborhoodChange`s to the processes |
| `LocalOspf`, handling a message | `LocalOspfProcess::handle_event`: any message in flight if `Reorder` |
| `LocalOspf`, timeout | `trigger_timeout` of a router that waits, when nothing is in flight |
| `LocalOspf`, settling | the end of `simulate()`: `remove_unreachable_lsas` |
| `OspfOracle` | `GlobalOspfCoordinator::update` for every change |
| `Ospf!IntoGlobalOspf`, `InitConverted` | `Network::into_global_ospf`, `into_local_ospf` |

`Ospf` composes the two implementations as `Network<P, Q, Ospf>` does by its
type parameter: a domain runs one of them. `OspfOracle` is instantiated over the
same links; `TablesAsGlobal` compares a settled domain of local OSPF with what a
fresh global computation yields for its links.

### Configuration and route maps

`Configuration` has the parts of a network that expressions describe: weights,
areas, sessions (`sessions` as `Network::bgp_sessions`, `active` as the sessions
the routers have), route maps, static routes, load balancing and advertised
routes. `Modify` is `Network::apply_modifier`, `SetConfig` reads the running
configuration and computes the patch, `PatchStep` is one turn of the loop of
`apply_patch`, `PatchDone` its end. A value of an expression is a number, which
stands for a clause in expressions of route maps. `Reachable` says what OSPF
makes of weights and areas; how is the matter of the OSPF modules. BGP and its
queue are left out, as nothing here reads them; `skip_queue` is kept.

`RouteMaps!Described` is the documentation of `RouteMapBuilder` (`exit`,
`continue_next`, `continue_at`) as a recursive function, and
`MapsAsDocumented` compares the loop of `RouteMapList::apply` with it.

### Forwarding

`Forwarding` starts from a network with static routes and selected BGP routes
and a fixed OSPF table. In phase "live" the user changes a router and follows
the change with `ForwardingState::update` of every entry of that router, or asks for
paths, which fills the cache. What the cache then holds is the parameter `Explored` of
`ForwardingState`; the runs give it the recursive exploration of `ForwardingPaths`, and what
the proofs say holds for any cache. A recording (`record`) applies an operation and events, keeps the deltas,
and is then stepped forwards and backwards, with paths asked for on the way.
`Truth` defines what `get_paths` has to return without its recursion: all simple
ways if every way delivers, otherwise the first way that does not.

## 3. The runs

| Run | Question | Expected |
|---|---|---|
| `RouteReflection` | Is every converged state stable, with sessions that come and go, costs that change, partitions, in automatic simulation? Does MED decide only between routes of one neighboring AS? Does traffic leave where the route came in, or where route maps say? | pass |
| `ReflectorCycle` | Do routes among reflectors in a cycle neither loop nor outlive their origin, do tables and events tell the same while the user acts, sessions go down and up and IGP costs change with events in flight, do routers finish their decisions, and does it end? | pass |
| `Queues` | Do both queues without time implement the channels, with exact counters? Does the timing queue keep the order of a session? | pass |
| `Parallel` | Does `simulate_parallel` lose nothing, respect the limit, put every router back and return? | pass |
| `Ospf` | Do databases and tables end up right in both modes, after any order of messages, and across conversion? Does the network settle? | pass |
| `Forwarding` | Are cache, forwarding state, replay and path conditions right after any changes? | pass |
| `Configuration` | Do configuration and network agree, modifier by modifier and patch by patch? Do route maps mean what is documented? | pass |
| `Simulation` | Do operations that consist of several leave mode, limit, sessions and queue as they should be, also when the limit is hit on the way? Are the addresses of an exported network unique, and found again? | pass |
| `ManualFlap` | "the network has converged" when the queue is empty, after a flap in manual simulation | violated |
| `OspfLastLink` | The routing table is recomputed "if there was a change", after a router lost its last link in an area | violated |
| `GlobalSummaries` | "Only recompute a target if ...", and so keep the others, after a link of one of two areas changed | violated |
| `StaleCache` | `update` "will invalidate all caching that used this edge", for a prefix with a less specific entry | violated |

What the violations show (`findings` in `PROJECT.json` quotes the code):

- `ManualFlap`. An update is in flight from `a` to `b`; the session is removed,
  then added again. The removal of a session does not touch the queue, and an
  event is only checked against the session that exists when it is handled. If
  the route was withdrawn from `a` in between, nobody ever tells `b` so, and the
  stale update installs a route that `a` does not export.
- `OspfLastLink`. Removing the last neighbor of an area removes the area's data
  structure with its recompute flag. Nothing then says that the table is to be
  computed again, so the routes through the area stay, also in the Summary-LSAs
  for other areas.
- `GlobalSummaries`. With 1–2 in the backbone and 2–3 in another area, a change of
  the weight from 2 to 3 makes router 3 lose its route to 1: the summaries of 2
  are replaced by those that the change of this one area calls for.
- `StaleCache`. The invalidation follows reverse edges of exactly the prefix that
  is updated; paths that were asked for a more specific prefix stay cached at the
  routers in front.

The passing runs have these cases excluded by their instances, not by their
actions: automatic simulation or no flap of a session while an update of it is
in flight, no router that leaves one of its areas, changes in topologies where a
border router summarises a single area, and paths for prefixes that have entries
of their own.

### Bounds

*BGP.* `MaxOps` bounds what the user does; everything the simulator does by
itself is unbounded. Two to four operations are enough to combine a route, its
withdrawal and a change of session, cost or policy in every order, and to make
two of them meet in flight; `ManualFlap` needs four. The networks have four or
five routers: a reflector with two clients at borders to other ASes has every
kind of session and a choice of two exits, by cost; a cycle of three reflectors is
the least in which a route may travel in a circle. Routes differ in the length
of their AS path, in MED, and in what the route maps set (LOCAL_PREF, next hop, IGP
cost, or a refusal): that is enough for the choice to shift between exits. In
`RouteReflection` both exits lead to the same AS, once with MED 1 and once with 0,
and a third route, of another AS, has MED 1, too: MED decides between two of the three.
A route map that sets the next hop is met at the router itself and
further upstream. Costs change in `RouteReflection` when BGP has converged, and in
`ReflectorCycle` (`Manual = TRUE`) with events in flight. No symmetry is used, as the code
breaks ties by router ID.

*Queues and threads.* `EventQueues` has two senders and a second destination with
at most four events, so that deques run empty and are created again at the front
and at the back of the map. `TimingQueue` has delays that put a later event ahead
of an earlier one or exactly a collision time behind it. `Parallel` has two
threads for three routers, and limits below, at and beyond what a job holds; two
routers send to the third at the start, so that it gets batches.

*Simulation.* A line of three routers with two sessions, one over the router in the
middle, which is enough for a session that breaks because a third router leaves;
two operations of any kind, in either mode, so that one runs into what the other
left in the queue or in the mode; at most two events in the queue. `SetAsnLimit`
stands for the 10 000 000 of `set_asn`. It is 1, as small as the limit a user may
set, so that `set_asn` hits its limit at every step. The exported network is a square of
routers, three in one AS and one in another with a smaller number, so that it has
internal and external links and two links between the same ASes. Of the
prefix lengths, one has too few networks for the routers, one too few for the links,
one links of two addresses (/31), one a single address per link (/32).

*OSPF.* Scenarios bound what the user does: the topology to start with, and sets
of operations of which one comes next, after convergence or (`hasty`) at any
time. Between them: two areas with a border router, weights, areas and external
links that change; two routers whose changes meet the exchange of databases, and
whose link fails and returns; a second adjacency that comes up during the first,
ending in a triangle; a summary changed so often that its sequence numbers run
out; a router that returns before its LSA is forgotten. `MaxSeq` stands for
`MAX_SEQ`, 2^32 - 1 in the code. It is 6: `Pair` and `LongRun` reach it, and it is
still beyond the number of instances of one LSA that can be in flight together.
With a smaller one, a delayed Update from before the wrap-around outruns the LSA
that starts anew, which takes 2^32 instances in reality. Global OSPF starts from
three topologies and has no bound on its operations: the links are finite.

*Forwarding.* A diamond of four routers has equal-cost paths, loops of two and
three routers and black holes. A recording starts from one of the starting
networks and has at most `MaxTrace` = 3 steps. In `Forwarding` paths are asked
for the prefix that all entries but two are for; for the other see `StaleCache`.

*Configuration.* A line of three routers, a session between its ends, clauses
with orders 10 to 40 of which two share an order, and three goals that differ
in everything. Nothing bounds the number of modifiers and patches. The modifiers
never set a weight or an area to its default, as a running configuration leaves
out such an expression while a `Config` keeps it.

`CHECK_DEADLOCK FALSE` stands where the system really stops: a converged
network after the last operation, a simulation that returned, a script that
ended, a recording that gave its state back.

### Fairness

`BgpNetwork` assumes that the simulator goes on until the queue is empty, as
the loop of `simulate()` does: `Fairness` is weak fairness of `Simulate`, spelled
out because the action is enabled exactly while something is pending. Nothing is
assumed of the user or of the order of events, so `EventuallyConverged` holds
for the worst order. `LocalOspf` assumes the same of its steps: while messages
are in flight or a router waits for a timeout, something is handled. A message may be
overtaken by any number of others, but there are finitely many at any time.
`ParallelSimulation` assumes weak fairness of the main thread and of the workers:
each thread runs if it can, and channels wake their receivers.

## 4. The proofs

The theorems hold for every value of the constants that satisfies the
assumptions of the modules, and, where a theorem needs more, the hypotheses in
its statement. In short:

| Theorem | States | Hypotheses |
|---|---|---|
| `TypeCorrect`, `SessionsStayPaired`, `RoutersSettle`, `ReflectionEnds`, `SelectionIsBest` | `TypeOK`, `SessionsPaired`, `LocallySettled`, `NoReflectionLoop`, `MedDecides` | |
| `TablesInStep`, `EventsAreNotRedundant` | `ChannelCoherent`, `NoRedundantEvents` | automatic simulation |
| `NetworkIsStable` | `ConvergedIsStable` | automatic simulation, `TypesFixed` |
| `RoutesAreExplained`, `EgressIsExternal` | `PropagationExplained`, `EgressSelects` | automatic simulation, finitely many routers |
| `EgressWithoutLoops` | `EgressConsistent` | automatic simulation, finitely many routers, `NoAsLoop` |
| `EventsReachRouters`, `OperationsAreComplete` | `EventsAddressed`, `OperationsComplete` | |
| `QueuesKeepOrder`, `CountIsExact` | `QueuesAreChannels`, `CountersExact` | `Addressed` |
| `SessionsAreExact` | `SessionsExact` | `NoTies` |
| `NoRouterLost`, `NothingIsLost`, `LimitKept`, `TypesCorrect` | `RoutersConserved`, `NothingLostOnSuccess`, `LimitRespected`, `TypeOK` | |
| `ConfigurationKeepsShape`, `MapsDoAsDocumented` | `WellFormed`, `MapsAsDocumented` | |
| `RefusedOnlyWhenHidden`, `GoalIsReached` | `FailsOnlyWhenHidden`, `ConfigReached` | `GoalsAssumption` |
| `ModifiersAreReliable` | `ModifiersReliable` | `ModifiersTelling` |
| `TablesMatchLongest` | `ForwardsByLongestMatch` | |
| `StatesAreFaithful` | `StateFaithful` | `OwnersQuiet` |
| `AdjacenciesAreFull` | `AdjacenciesFull` | `ConversionsFit` |
| `AddressesUnique` | `AddressesUnambiguous` | |

The hypotheses are what the code provides, or what it does not and the reader
has to know:

- *Automatic simulation* (`Manual = FALSE`). In manual simulation events of an
  earlier incarnation of a session break the properties (`ManualFlap`).
- `TypesFixed`: whatever the configuration, a session between two routers has
  one type. It depends on the AS numbers and on who is whose client; only
  `set_bgp_session` with another type for the same pair changes it, and then RIB_IN
  keeps the old type (`bgp_process.rs:284`, section 5), so that the state is
  not the one the routing protocol would reach.
- *Finitely many routers.* A network is a finite map.
- `NoAsLoop`, which the theorem assumes to hold always: a converged router does not select a route
  with its own AS in the AS path. That is what a check for AS loops would ensure and the
  code does not have (section 5). It depends on the sessions between the ASes and on the
  AS paths that are advertised; it holds for instance where ASes form a tree with
  one session on each edge and advertisements name none of them. In `RouteReflection` AS 14
  has two sessions and may get its own routes back, so `EgressConsistent` holds there beyond
  what the theorem says.
- `Addressed`: identifiers of routers are numbers, and every event is one
  between two routers: the types `RouterId` and `Event`, and `EventsReachRouters`.
- `NoTies`: no two events of a session arrive at the same time, which the code does
  not guarantee (`rand_queue.rs:96`, section 5).
- `GoalsAssumption`, an assumption of `Configuration`: the configurations given to
  `set_config` are about links, sessions and route maps that the network has room for,
  and hold expressions that `get_config` can say. It never says that a link has the default
  weight or is in the backbone, as that is what the absence of the expression stands
  for. A `Config` may say so; the patch then applies it, but `get_config` does not
  return it, and setting the same configuration again applies it again.
- `ModifiersTelling`: what the user applies is about links, sessions and neighbors that are
  there, and sets no weight to the default one and no area to the backbone, as with
  `GoalsAssumption`. Every edit of a batch has an old or a new clause (`into_modifier`
  panics otherwise, `config.rs:695`), and no two edits of a batch are about the same clause: the network
  looks at each of them before any is made, a `Config` makes one after the other
  (`config.rs:1090`, section 5). The modifiers of the instance are like that.
- `ConversionsFit`, of the domains that start as local OSPF made from global OSPF
  (`Conversions`, none in most networks): `from_global` yields processes of the form that the
  invariant asks for, with all adjacencies up. What it starts from is a global computation, a fold
  over all settings of links, which the provers cannot go through; TLC evaluates the hypothesis,
  and the invariant, for the domains of the run `Ospf`.
- `OwnersQuiet`: no recorded event concerns a router that may select a route which it
  originates itself. A recording stores next hops, and these do not tell such a router from
  one that drops the prefix (`record.rs:106`, section 5), so that stepping back would not
  give what there was. Operations may make a router originate a route, or stop it.

### BGP

- `TypeCorrect` rests on type lemmas for every operator
  (`ProcessRibInType`, `ExportType`, ...). The one point that is not routine is
  that an event never writes an entry without a session type, because
  `HandleEvent` ignores events without a session.
- `SessionsStayPaired`. `SessionsPaired` is not inductive, as it says nothing while a
  refresh is under way. `SessionInv` is: a session that is not due for a visit is
  what configuration and reachability make it, and a router keeps nothing of a
  session it does not run. Reachability being symmetric (`ReachSymmetric`), both
  ends agree once no visit is due.
- `TablesInStep`. The
  inductive `CoherenceInv` says what `ChannelCoherent` says also of sessions that are configured and
  reachable but so far run by one router or none. That is what makes a
  session come up in step: with no tables and no events at either end, or with
  the first updates already sent by the one that came first. `RunFacts` says
  what an `Update` does to channel and RIB_OUT at once, and
  `InStepPreserved` that this keeps a session in step; with these each action is
  a few cases. A flap needs
  an empty queue in automatic simulation, which `QuietInStep` uses.

- `RoutersSettle`: `SettledInv` has no decision unfinished and every peer told
  what the selected route exports to it (`Told`). `UpdateSettles` is the reason: after
  `Update` both hold, whatever the process was before, as long as an update that
  does not disseminate had nothing to tell.
- `ReflectionEnds`: `CleanInv` extends the property to RIB_IN, and
  `CleanSelection` and `CleanExport` carry it through a router: a route that
  would repeat a router in its CLUSTER_LIST is refused on receipt.
- `NetworkIsStable`: `StableInv` joins the invariants so far with `TypedInv` (an
  entry has a type its session can have). With an empty queue `CoherenceInv` makes RIB_IN what the
  peers hold in RIB_OUT, `SettledInv` makes that what they export, and with one
  type per session the entries are those of a RIB_IN filled anew
  (`TablesAreFresh`).
- `SelectionIsBest`: `DecidedByMed` is what `MedDecides` says of a set of routes and one of them, and
  holds of the one that `BestRoute` chooses (`BestIsDecidedByMed`, for any set of entries; the
  keys before MED are totally ordered, `PrecedesTotal`). A router keeps what it selects
  (`SettledInv`), if perhaps under an earlier type of the session; the type counts only as
  eBGP or not, which the AS numbers settle (`SelectedAlike`).
- `EventsAreNotRedundant`: `NewsInv` says that the events of a pair differ from each
  other in turn, that RIB_OUT is the last of them
  while the session runs, and that the first is not what the receiver holds already.
- `RoutesAreExplained`. `Back` is the router a route was learned from, `Upstream` its
  iteration, a recursive function of the tables. In a converged network a router was
  told what it selects by a router that selects it too, and on that step the pair of
  the length of the AS path (`Way`) and the number of reflections in this AS (`Depth`) gets
  lexicographically smaller backwards (`LearnedStep`): an AS path is never shortened, and inside an
  AS each reflection adds to the CLUSTER_LIST. So no set of routers keeps a route alive among
  themselves (`NoCycle`), the walk does not visit a router twice, and ends within as many
  steps as there are routers (`Ends`, by pigeonhole). This covers ASes in a cycle,
  which no instance of the runs has.
- `EgressIsExternal`: the way back from a router ends at one whose route is its own or from outside
  (`WayToOutside`). Take the first router on it that is such, or whose next hop a route map has
  set (`Settles`); `HopUpstream` carries AS, AS path and next hop from there down the way,
  with `LearnedHow` for each step: what the route maps of import and export and next-hop-self
  together make of the next hop.
- `EgressWithoutLoops`. `EgressConsistent` is `EgressSelects`, which `EgressIsExternal` has, and
  `EgressIsIngress`. For the second, follow the way of a route from the router `x` where it
  entered the AS: at every router it is either inside that AS with `x` as the next hop, or
  has the AS in its path (`CameBy`, kept by every step of the way at which no route map sets the
  next hop, `CameByStep`). The second
  is what `NoAsLoop` excludes at the router that asks. The hypothesis is needed: where a route may
  leave an AS and come back into it, `ingress_session` goes back to the first entry,
  and the next hop is the last one.

Every step also uses `TypeOK`, so the temporal parts
combine several invariants by `PTL`.

### Simulation

`EventsReachRouters` rests on `Placed` (identifiers in the queue, in sessions and
in links are those of routers, and of a router that is being removed nothing
is left) and `Phased` (what is left to do is the rest of one of the two
operations, and what the steps before it have done). `OperationsAreComplete` rests
on `Kept`: for each rest of an operation, how mode, limit and sessions relate to
what the user asked for (`ModeKept`, `SessionsKept`), and that the reachability that
sessions were refreshed with is that of the links, unless OSPF events are under way or a refresh is due (`TablesKept`).
Neither property is inductive, as both speak of the end of an operation only.
`SimulationKeeps` and `SimulationKept` have a case for each step of the loop,
`SetAsnKept` and `RemoveRouterKept` one for each step of an operation, among them those in which it fails.

### Queues and threads

- `CountIsExact`: `QueuesInv` adds the types and that the places in the deques are finitely
  many. The number of events is stated as the cardinality of these places, of which
  `Counting` says how it changes with one deque.
- `QueuesKeepOrder`: the refinement mapping takes the events of each pair out of
  the queue (`Of`, a recursive function). `OfAppend` and `OfTail` say that an event
  pushed is appended to its pair and to no other, and that an event popped was the head
  of its pair; `PerRouterBatch` has `pop_events_for` and `clear` drop the whole. `Of`
  is one event per step, which is as much induction as the prover can do: `UpTo`
  derives it from a least counterexample.
- `SessionsAreExact` (`TcpOrder` and `CountsExact`) follows from `OrderInv`: the queued events of
  a session are those sent after the last one received, each later than the one
  before it, and the entry of the session holds their number and the time of the
  last (`InSession`). `TcpOrdering` alone is not inductive: it speaks of what was
  received, while the order is decided when an event is pushed.
- `NoRouterLost`: every router is in the vector of
  the main thread, in a job under way, or in a result, and in one of them only,
  and all are back when the thread is done, with or without an error.
  `RoutersConserved` gives the number of routers and their
  union, and that a router is put back makes the vector longer only if it
  was not in there. `ConservationInv` says that the vector, the two
  channels and the jobs of the workers hold no router twice and share none
  (`Apart`), that their numbers add up (`Counted`), that together they have
  all routers (`Covered`), and that nothing is under way at the end (`Finished`).
- `NothingIsLost`: `DeliveryCore` follows the events of each pair through the places where they
  are: the rest of the batch of the job of the receiver, the queue, and what the
  job of the sender has produced. In this order they are numbered without a gap
  from the last one handled to the last one sent (`Line`). Each action moves events
  between neighboring places (`LinePut`, `LinePass`, `LineTake`, ...). It holds until a worker
  fails or the main thread gives up.
- `LimitKept`: `BudgetCore` adds up the events handled, those in the batches of jobs, and what is
  left of the limit: together they never exceed it.

### OSPF

Of the domain the proof assumes `OspfAssumption` (finitely many routers, external routers and
areas, numbered apart, and room for two sequence numbers), and that scripts are made of the changes
that `OspfDomain` knows (`IsScenario`). Whether a change is possible is part of the action, so that
a batch whose third change is refused is refused, and nothing is assumed of the order of changes,
messages and timeouts.

- `AdjacenciesAreFull`. The property speaks of the moment when `simulate()` returns, and says that
  nothing is left that was not done. Its reason is that at any time somebody still has to do
  it: `OspfInv` (in `OspfProperties`) has, besides the types of processes and messages,
  - `Awaited`: every dead LSA of a database, an own one that is flushed or another router's
    that was received, is in `track_max_age`;
  - `Pending`: of everything in `track_max_age`, some neighbor in its area (any, for an External-LSA)
    still has the LSA on its retransmission list. Hence an end of the wait for acknowledgments
    cannot be missed, whatever made the last neighbor drop out of it: an acknowledgment, a newer
    instance, or the removal of the neighbor;
  - `InitDescribed`: a neighbor in Init is of lower identifier (the leader of an exchange leaves Init
    at once, `IsNbr`), and it has sent a database description that is still on its way. Only the arrival
    of that message ends Init, so this is what keeps the exchange from getting stuck:
    Init is the one state without a timeout;
  - `Matches`: the neighbors of a router, and their areas, are those of its links, which are in both
    directions (`IsLinks`). `OspfDomain` tells both ends of a new link or of a new area, and
    `ToldInTouch` follows a whole batch: if the one end waits in the end, the
    other one has sent its description in the same batch.

  When `simulate()` returns no message is left and nobody waits for a timeout
  (`NobodyWaits`). So nobody is in Init, Exchange or Loading, or has something to retransmit; then nothing
  is tracked, and hence nothing is dead (`OspfInvFull`). `PerformedOut` shows that
  `perform_actions` re-establishes `Awaited` and `Pending` after any handler, with its two rounds of
  flooding and the routing in between, and sends every description that was collected; `PreparedOut`,
  `UpdateMoved`, `DescriptionMoved`, `RequestMoved`, `AckMoved` and `TimeoutMoved` say what the handlers
  leave to it. The operators of OSPF that repeat a step are recursive functions, and the lemmas
  `LinksFold` to `UpdateFold` give their steps.

  `TypeOK` is not part of it, and does not follow from it (section 5).

### Configuration and route maps

- `ConfigurationKeepsShape`: `Shaped` has the types of the configured parts and of the
  pending modifiers, the clauses of every list sorted by distinct orders (`Lists`), and that
  both ends have a session or neither, at most one of them as a client. An edit of a clause goes to the place that the binary search finds (`Position`), and
  with it the list stays sorted (`SetMapKeeps`, `RemoveMapKeeps`).
- `MapsDoAsDocumented`: `ListsAsDescribed` relates the single pass of the code over
  the clauses, with its `wait_for`, to the jumps of the documentation, for every sorted
  list. The pass is a recursive function of the place in the list, the jumps one of their number;
  while the documentation jumps to a clause, the pass skips those before it (`VisitSkips`),
  and after an exit, or a jump to an order that is missing, nothing happens any more (`ScanIdles`).
- `RefusedOnlyWhenHidden` and `GoalIsReached` share the inductive `Configuring`. While a patch is
  applied in any order, `Progress` says of every key what is left to do: a pending
  removal or update finds what it takes away, a pending insertion finds its place free
  unless something was hidden from `get_config`, a key without a pending modifier
  already has its value, and no two pending modifiers are about the same place.
  `Planned` derives this from the difference between the two configurations, `Advanced` carries it
  over one modifier, which changes only its own place (`Elsewhere`). In the end
  `ReadingsHold` and `ReadingsComplete` say that what is read back is what is there, and nothing else.
  `ConfigReached` alone says nothing until the patch is done.
- `ModifiersAreReliable`: a running configuration *mirrors* the network (`Mirrors`): what it says
  holds, and where it says nothing there is nothing. Any modifier that such a configuration
  accepts takes away what is there or puts something where nothing is (`Fits`), so the network accepts it too,
  and what results is a mirror again (`MirrorsStep`); two mirrors of one network agree (`MirrorsAgree`).
  Of the reverse, every place is what it was (`StepBack`), and two networks that are alike in every
  place are equal (`SameNets`): sorted lists with the same clauses are the same list
  (`SameClauses`), and the sessions that run follow from the rest (`Current`, the one thing to be added
  to the invariant: `Settled`). A batch is a walk from one network to the next, one edit at a time (`NetWalk`),
  in step with the configuration's (`ConfigWalk`, `MirrorsWalk`). As its edits are about different
  clauses, what an edit finds when its turn comes is what it finds in the beginning (`FitsAtFirst`), where
  `can_apply_modifier` looks, and what the walk back leaves in a place is what its one edit there has
  left (`WalkBack`). The reverse is applied to a network that may have hidden parts, which `StepBack` does not ask about.

### Forwarding

Of the network the proofs assume types (`NetworkAssumption`), of a recording that its network has a
single prefix (`SinglePrefixAssumption`, the type parameter of `ConvergenceRecording`), and of
prefixes that containing each other is being equal.

- `TablesMatchLongest`: a router decides by two lookups, one for its static and one for its BGP
  routes, and compares their results; `get_fib` makes one table out of these decisions, for the
  prefixes that the router knows. Looking up a prefix in that table is deciding by the most
  specific route there is (`TargetExact`, `LookupIsMatch`). It rests on types only (`NetTyped`),
  which each edit of a router keeps (`EditsKeep`).
- `StatesAreFaithful`: neither conjunct of `StateFaithful` is inductive. Nothing is said while a recording
  is under way, and that the entries are right says nothing about what the next delta does to them. `Following` adds
  that the forwarding state has the shape the code gives it and is its own reverse (`Sound`), and of a
  recording that every entry of the trace holds exactly the difference of two successive states of
  the network, with the next hops before and after (`Explains`). `Update` changes one entry and the reverse
  edges of its old and new next hops (`UpdateFacts`), so deltas about different entries can be applied in
  any order (`AppliedFacts`), forwards and backwards (`Steps`). An event changes the tables of one router
  (`FromNetLocal`), and what is recorded of it is the change of the entry
  (`EventEntries`), which is where `OwnersQuiet` is needed.

### Addresses

- `AddressesUnique`: addresses of routers, of interfaces and networks of links are disjoint, and the
  lookups give back what was assigned. Neither can be shown step by step without knowing where the next
  subnet comes from. `AddressInv` says that what was given from a range are its first
  subnets, as many as there are entries that use the range, and no two the same (`RoutersPlaced`,
  `LinksPlaced`), that the interfaces of a router are numbered without gaps (`Indexed`), and which end of
  a link has which address (`InterfacesPlaced`). The ranges of an AS are apart from each other and from
  those of other ASes (`PartsApart`, `AsNetworks`), as the networks of ASes are numbered in the order of the
  ASes (`AsOrder`). `ExportAssumption` says that a network is a finite map, and that
  a link has two ends.

### Model-checked only

- Liveness (`EventuallyConverged`, `EventuallySettled`, `Returns`), which is out of
  the reach of the prover.
- The other properties of OSPF: its trees, summaries and routing tables are folds over sets of edges and LSAs. What a fold
  yields for every set is an induction over data whose library theorems take operators as parameters,
  which the provers cannot instantiate. `TypeOK` depends on the bounds of the instance (section 5).
- `CacheFresh` and `PoliciesAgree`: exploring paths (`ForwardingPaths`) and matching them against regular
  conditions (`Policies`) are recursive operators, and what they return is an induction over data.

## 5. What is not modelled

- BGP and OSPF in one model. `BgpNetwork` takes OSPF's outcomes as a parameter,
  `Configuration` the reachability they yield; the events of both in one queue,
  and so `refresh_bgp_sessions` in the middle of an OSPF convergence and
  `simulate_parallel` with local OSPF, are left out for the size of the model.
- Errors of handlers in `simulate` (those of the workers are in
  `ParallelSimulation`), the search for a free identifier in `add_router`, and what the
  removal of a router does inside OSPF: `Simulation` has its links and its
  reachability only.
- Communities in BGP routes (they are in `RouteMaps`), route maps whose effect depends on
  the route in `BgpNetwork` (`RouteMaps` has the conditions), several prefixes in BGP,
  external sessions in `Configuration`, the policies' case distinctions over
  paths, partial clones.
- AS cycles. The code has no check for the own AS in a path, so a
  withdrawal in a cycle of ASes counts to infinity until the message limit. A
  model with unbounded paths has no end; in the instances no cycle of sessions spans several ASes.
- Small liberties of the OSPF modules. `database.rs:1139` expects an LSA to be there and would
  panic; `Redistribute` makes a new one, and `TypeOK` says that the case does not occur.
  `OspfConversion!IntoGlobal` takes the routing table for the RIB (`process.rs:796`,
  `ospf/local/mod.rs:82`). `GlobalOspf!Order` is one fixed order where `global.rs:544`
  iterates over a hash map.
- The addresses of prefixes and of ASes without a router, and the lists of interfaces and
  links, in `Addressor`.
- Formats, texts of configurations, builders, topologies, macros, the web front end: I/O and
  pure construction without state of their own.

### Known differences between code and documentation without a run

- `network.rs:202`: `set_asn` ignores the events of `OspfNetwork::remove_router` and
  `add_links_from`. They hold BGP events too: a router whose IGP costs change while
  the other one is out of OSPF selects a new route and notes in RIB_OUT that it sent
  it. Nothing sends it again if the choice is the same after the reset, as
  dissemination compares with RIB_OUT (`bgp_process.rs:647`); its peers keep the
  former route. `Simulation`, where routers are black boxes, has no tables to show it.
- `network.rs:222`: links that `set_asn` adds again have default weights and areas.
- `network.rs:170`, `network.rs:858`: an operation that fails half way leaves mode and
  message limit as it had set them (`OperationsComplete` speaks of operations that
  did not fail, so no property is about this); `remove_router` ignores the limit of the user.
- `ospf/mod.rs:988`: `is_reachable` looks up the AS of `a` twice, so only the domain of
  `a` is asked. Sessions are refreshed in both directions, and the links between
  two ASes are known to both, so it makes no difference there.
- `interactive.rs:191`: `simulate_step`, unlike `simulate`, does not refresh the BGP sessions
  after an OSPF event; a user who steps by hand has to.
- `bgp_process.rs:284`: entries of RIB_IN keep the session type they came with.
  A session that changes its type goes on being treated by the old one, until
  the peer sends its routes again.
- `bgp/state.rs:402`: `propagation_path`, and so `ingress_session`, follows the routers a
  route was learned from. Between two events reflectors may have selected former
  versions of a route from each other; then it never returns, and its path grows.
  `PropagationExplained` has it end when the network has converged, and says nothing of
  the time before.
- `rand_queue.rs:96`: only a predecessor with a strictly later time moves an
  event back. With equal times, always the case with a constant delay, the order
  of a session is up to the priority queue. (`Queues` assumes no ties.)
- `interactive.rs:441`: `simulate_parallel` pops the events of a router before it
  compares their number to the limit, and loses them when it gives up.
- `record.rs:106`: the events of a recording store the next hops of a router that
  selects its own route as empty, the forwarding state as the destination; after
  an event that deselects an own route, stepping back ends in a black hole. The
  events of the instance do not deselect own routes; operations do. `OwnersQuiet`, the
  hypothesis of `StatesAreFaithful`, excludes it.
- `forwarding_state.rs:362`: `update` without next hops removes the entry, while `from_net`
  keeps an empty one for a router that drops the prefix. The two states are equal by
  `PartialEq`, but looking up the prefix yields no next hop in one, and those of a less
  specific entry in the other. `StateFaithful` compares as the code does.
- `process.rs:637`: a router that removes its last neighbor in an area drops the area's data
  structure. If its Router-LSA had no sequence number left, the instance that was to follow
  the flush is still stored when nobody has to acknowledge the flush any more, and that creates the data
  structure anew, of an area without links. That `DOMAIN p.areas` are the areas of the links
  (`TypeOK`) therefore holds in the instance and is not a theorem.
- `database.rs:392`: an external link that is added again before its flush is
  acknowledged is not advertised again.
- `neighbor.rs:424`: the comment has a packet dropped in a state before Exchange;
  Updates are handled in Init.
- `forwarding_state.rs:461`: `diff` of states of simple prefixes panics if a router
  has a table in one of them only.
- `export/default.rs:142`: `find_address` answers the network of a link with the router
  of the smaller identifier; `export/mod.rs:268` has internal routers preferred,
  then the lower address, which is that of the router asked for first.
- `export/default.rs:410`, `export/default.rs:450`: `find_next_hop` and `find_neighbor` look at
  the AS of the router only, so they do not find the neighbor over a link that belongs
  to another AS (`LookupsInverse` excepts these), against `export/mod.rs:275`.
- `export/default.rs:349`: on a link whose network has a single address, the first call
  of `iface` fails after it kept its part, and the same call succeeds the next time.
- `config.rs:1217`: `get_config`, and so `set_config`, fails in a network of several
  routers as soon as one balances its load.
- `config.rs:873`: a patch ends with automatic simulation, whatever the mode was
  before, and with manual simulation if it fails; the modifiers do not converge
  one after the other, as the documentation has it, but together.
- `config.rs:863`: route maps for a neighbor without a running session are not
  seen by `get_config`, but by `can_apply_modifier`: removing a session and
  setting the old configuration again fails. `FailsOnlyWhenHidden` and
  `ConfigReached` say that this, and sessions that a patch breaks on its way, is
  all that goes wrong.
- `config.rs:959`: removing the weight of a link sets it to infinity, not to the
  default that its absence stands for.
- `config.rs:1090`: `can_apply_modifier` compares every edit of a batch with the network as it
  is, while `Config::apply_modifier` makes the edits one after the other. A batch that
  inserts a clause and then changes or removes it is accepted by a `Config` and refused
  by a network. `ModifiersTelling`, the hypothesis of `ModifiersAreReliable`, excludes it.
- `config.rs:141`: the documentation of `Config::apply_modifier` has the old value
  of an update not compared, and a refused modifier change nothing; it is
  compared, and a batch keeps the edits before the one that failed (`config.rs:206`;
  `ModifiersReliable` speaks of accepted modifiers).

## 6. Plan

In this order:

1. *BGP over local OSPF.* The routers of `BgpNetwork` and `LocalOspf` in the loop of
   `Simulation`, at the size of two or three routers; `set_asn` with the tables it
   leaves behind.
2. *Route maps in the network.* Effects that depend on the route, with communities.
3. *Proofs.* `ConversionsFit`, for which the steps of global OSPF have to become recursive functions; that the keys
   of OSPF databases are unique and neighbors hold the same LSAs; that reversed and forward edges
   agree; `NoAsLoop` from the sessions of the configuration; that the invalidation
   reaches every cached result that used the changed entry, for any way of exploring paths
   that caches what it returns (`CacheFresh` without the recursion).
