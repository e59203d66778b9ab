-------------------------- MODULE SimulationProofs --------------------------
(***************************************************************************)
(* EventsAddressed and OperationsComplete hold for any network, any limits *)
(* and bounds, and whatever operations the user calls.                     *)
(***************************************************************************)
EXTENDS Simulation, TLAPS

(* What is left of set_asn after its simulations, and of remove_router *)
ToClose == <<"close", "queue", "move", "queue", "open", "queue", "reset">>
ToMove == <<"move", "queue", "open", "queue", "reset">>
ToOpen == <<"open", "queue", "reset">>
ToReset == <<"reset">>
ToLeave == <<"leave", "remove", "queue", "reset">>
ToRemove == <<"remove", "queue", "reset">>
Steps ==
  {"queue", "simulate", "loop", "close", "move", "open", "leave", "remove", "reset"}
Rests == {<< >>, ToClose, ToMove, ToOpen, ToReset, ToLeave, ToRemove}

(* Only rest is left, perhaps after a simulation. *)
Simulating(rest) ==
  todo # << >> /\ Head(todo) \in {"queue", "simulate", "loop"} /\ Tail(todo) = rest
At(rest) == todo = rest \/ Simulating(rest)

LEMMA Rest ==
  /\ ToClose # << >> /\ Head(ToClose) = "close"
  /\ Tail(ToClose) = <<"queue">> \o ToMove
  /\ ToMove # << >> /\ Head(ToMove) = "move"
  /\ Tail(ToMove) = <<"queue">> \o ToOpen
  /\ ToOpen # << >> /\ Head(ToOpen) = "open"
  /\ Tail(ToOpen) = <<"queue">> \o ToReset
  /\ ToReset # << >> /\ Head(ToReset) = "reset" /\ Tail(ToReset) = << >>
  /\ ToLeave # << >> /\ Head(ToLeave) = "leave" /\ Tail(ToLeave) = ToRemove
  /\ ToRemove # << >> /\ Head(ToRemove) = "remove"
  /\ Tail(ToRemove) = <<"queue">> \o ToReset
BY DEF ToClose, ToMove, ToOpen, ToReset, ToLeave, ToRemove

LEMMA First ==
  ASSUME NEW X
  PROVE  \A s \in Seq(X), w \in X :
    /\ <<w>> \o s \in Seq(X) /\ <<w>> \o s # << >>
    /\ Head(<<w>> \o s) = w /\ Tail(<<w>> \o s) = s
<1> TAKE s \in Seq(X), w \in X
<1>1. <<w>> \in Seq(X)
  OBVIOUS
<1>2. <<w>> \o s \in Seq(X)
  BY <1>1
<1>3. <<w>> \o s # << >>
  OBVIOUS
<1>4. Head(<<w>> \o s) = w
  OBVIOUS
<1>5. Tail(<<w>> \o s) = s
  OBVIOUS
<1> QED
  BY <1>2, <1>3, <1>4, <1>5

LEMMA Put == \A s \in Seq(Steps), w \in Steps : <<w>> \o s \in Seq(Steps)
BY First

LEMMA Names ==
  /\ "queue" \in Steps /\ "simulate" \in Steps /\ "loop" \in Steps /\ "close" \in Steps
  /\ "move" \in Steps /\ "open" \in Steps /\ "leave" \in Steps /\ "remove" \in Steps
  /\ "reset" \in Steps
BY DEF Steps

LEMMA RestsAreSequences == \A rest \in Rests : rest \in Seq(Steps)
<1>1. << >> \in Seq(Steps)
  OBVIOUS
<1>2. ToReset = <<"reset">> \o << >>
  BY DEF ToReset
<1>3. ToReset \in Seq(Steps)
  BY <1>1, <1>2, Put, Names, Zenon
<1>4. ToRemove = <<"remove">> \o (<<"queue">> \o ToReset)
  BY DEF ToRemove, ToReset
<1>5. ToRemove \in Seq(Steps)
  BY <1>3, <1>4, Put, Names, Zenon
<1>6. ToLeave = <<"leave">> \o ToRemove
  BY DEF ToLeave, ToRemove
<1>7. ToLeave \in Seq(Steps)
  BY <1>5, <1>6, Put, Names, Zenon
<1>8. ToOpen = <<"open">> \o (<<"queue">> \o ToReset)
  BY DEF ToOpen, ToReset
<1>9. ToOpen \in Seq(Steps)
  BY <1>3, <1>8, Put, Names, Zenon
<1>10. ToMove = <<"move">> \o (<<"queue">> \o ToOpen)
  BY DEF ToMove, ToOpen
<1>11. ToMove \in Seq(Steps)
  BY <1>9, <1>10, Put, Names, Zenon
<1>12. ToClose = <<"close">> \o (<<"queue">> \o ToMove)
  BY DEF ToClose, ToMove
<1>13. ToClose \in Seq(Steps)
  BY <1>11, <1>12, Put, Names, Zenon
<1> QED
  BY <1>1, <1>3, <1>5, <1>7, <1>9, <1>11, <1>13, Zenon DEF Rests
(* How a phase follows another *)
LEMMA Waiting ==
  \A rest \in Rests, w \in {"queue", "simulate", "loop"} :
    <<w>> \o rest # << >> /\ Head(<<w>> \o rest) = w /\ Tail(<<w>> \o rest) = rest
<1> TAKE rest \in Rests, w \in {"queue", "simulate", "loop"}
<1>1. rest \in Seq(Steps)
  BY RestsAreSequences
<1>2. w \in Steps
  BY DEF Steps
<1> QED
  BY <1>1, <1>2, First

LEMMA RestsListed ==
  /\ << >> \in Rests /\ ToClose \in Rests /\ ToMove \in Rests /\ ToOpen \in Rests
  /\ ToReset \in Rests /\ ToLeave \in Rests /\ ToRemove \in Rests
BY DEF Rests

(* The invariant of EventsAddressed: links, tables and sessions are those  *)
(* of routers of the network as well,                                      *)
Placed ==
  /\ Present \subseteq Routers
  /\ \A p \in links : p \subseteq Present
  /\ \A p \in routed : p \subseteq Present
  /\ \A p \in running : p \subseteq Present
  /\ running \subseteq sessions
  /\ EventsAddressed

(* and a router is removed when it has none of them left, and no events:   *)
(* set_asn and remove_router simulate whatever the user's mode is, and     *)
(* remove_router does after every session that it removes.                 *)
Phased ==
  /\ \E rest \in Rests : At(rest)
  /\ ~At(<< >>) => skip_queue = FALSE
  /\ todo = ToLeave => queue = {}
  /\ At(ToRemove) => \A p \in links \cup routed \cup running : Target \notin p
  /\ todo = ToRemove /\ (\A p \in sessions : Target \notin p)
       => \A e \in queue : e.src # Target /\ e.dst # Target

LEMMA EnqueueFacts ==
  ASSUME NEW kept, NEW events, Enqueue(kept, events)
  PROVE  kept \subseteq queue' /\ queue' \subseteq kept \cup events
BY DEF Enqueue

LEMMA BgpEventFacts ==
  ASSUME NEW S, NEW peers
  PROVE  \A e \in BgpEvents(S, peers) :
           e.kind = "bgp" /\ {e.src, e.dst} \in peers
<1> TAKE e \in BgpEvents(S, peers)
<1>1. PICK p \in {x \in S \X Routers : {x[1], x[2]} \in peers} :
        e = [kind |-> "bgp", src |-> p[1], dst |-> p[2]]
  BY DEF BgpEvents
<1> QED
  BY <1>1

LEMMA OspfEventFacts ==
  ASSUME NEW e
  PROVE  /\ e \in OspfEvents =>
              e.src \in Present /\ e.dst \in Present /\ {e.src, e.dst} \in links
         /\ e \in OspfEvents' =>
              e.src \in Present' /\ e.dst \in Present' /\ {e.src, e.dst} \in links'
<1>1. ASSUME e \in OspfEvents
      PROVE  e.src \in Present /\ e.dst \in Present /\ {e.src, e.dst} \in links
  <2>1. PICK p \in {x \in Present \X Present :
                     Local /\ {x[1], x[2]} \in links /\ SameAs({x[1], x[2]})} :
          e = [kind |-> "ospf", src |-> p[1], dst |-> p[2]]
    BY <1>1 DEF OspfEvents
  <2> QED
    BY <2>1
<1>2. ASSUME e \in OspfEvents'
      PROVE  e.src \in Present' /\ e.dst \in Present' /\ {e.src, e.dst} \in links'
  <2>1. PICK p \in {x \in Present' \X Present' :
                     Local /\ {x[1], x[2]} \in links' /\ SameAs({x[1], x[2]})'} :
          e = [kind |-> "ospf", src |-> p[1], dst |-> p[2]]
    BY <1>2 DEF OspfEvents
  <2> QED
    BY <2>1
<1> QED
  BY <1>1, <1>2

LEMMA SetSessionsFacts ==
  ASSUME Placed, NEW configured, SetSessions(configured)
  PROVE  /\ Placed'
         /\ running' = Effective'
         /\ queue \subseteq queue'
         /\ \A e \in queue' \ queue : {e.src, e.dst} \in running \cup running'
<1>1. Present' = Present
  BY DEF SetSessions, Present
<1>2. running' = Effective' /\ running' \subseteq sessions'
  BY DEF SetSessions, Effective
<1>3. \A p \in running' : p \subseteq Present'
  BY <1>2 DEF Effective, Reachable
<1>4. /\ queue \subseteq queue'
      /\ queue' \subseteq queue \cup BgpEvents(Present, running \cup running')
  BY EnqueueFacts DEF SetSessions
<1>5. \A e \in queue' \ queue : {e.src, e.dst} \in running \cup running'
  BY <1>4, BgpEventFacts, Zenon
<1>6. EventsAddressed'
  BY <1>1, <1>3, <1>5 DEF EventsAddressed, Placed
<1> QED
  BY <1>1, <1>2, <1>3, <1>4, <1>5, <1>6 DEF Placed, SetSessions

(* The AS of the routers is unchanged, except in set_asn. *)
LEMMA RerouteFacts ==
  ASSUME NEW kept, NEW before, NEW refresh \in BOOLEAN, Reroute(kept, before, refresh),
         Placed, Present' = Present, kept \subseteq queue,
         \A p \in links' : p \subseteq Present, \A p \in before : p \subseteq Present,
         sessions' = sessions
  PROVE  /\ Placed'
         /\ refresh => running' = Effective'
         /\ ~refresh => running' = running
         /\ routed' \in {before, Converged'}
         /\ kept \subseteq queue'
         /\ \A e \in queue' \ kept : {e.src, e.dst} \in running \cup running' \cup links'
         /\ (\E e \in queue' : e.kind = "ospf") \/ routed' = Converged'
<1>1. /\ refresh => running' = Effective'
      /\ ~refresh => running' = running
      /\ routed' \in {before, Converged'}
      /\ (\E e \in queue' : e.kind = "ospf") \/ routed' = Converged'
  BY DEF Reroute
<1>2. \A p \in running' : p \subseteq Present' /\ p \in sessions'
  BY <1>1 DEF Effective, Reachable, Placed
<1>3. \A p \in routed' : p \subseteq Present'
  BY <1>1 DEF Converged
<1>4. /\ kept \subseteq queue'
      /\ queue' \subseteq kept \cup (BgpEvents(Present, running \cup running') \cup OspfEvents')
  BY EnqueueFacts DEF Reroute
<1>5. \A e \in queue' \ kept : {e.src, e.dst} \in running \cup running' \cup links'
  BY <1>4, BgpEventFacts, OspfEventFacts
<1>6. \A p \in running \cup running' \cup links' : p \subseteq Present'
  BY <1>2 DEF Placed
<1>7. ASSUME NEW e \in queue'
      PROVE  e.src \in Present' /\ e.dst \in Present'
  <2>1. CASE e \in kept
    BY <2>1 DEF EventsAddressed, Placed
  <2>2. CASE e \notin kept
    <3>1. {e.src, e.dst} \subseteq Present'
      BY <1>5, <1>6, <1>7, <2>2, Zenon
    <3> QED
      BY <3>1
  <2> QED
    BY <2>1, <2>2
<1>8. EventsAddressed'
  BY <1>7, Zenon DEF EventsAddressed
<1> QED
  BY <1>1, <1>2, <1>3, <1>4, <1>5, <1>8 DEF Placed

-----------------------------------------------------------------------------
(* Converged and Effective, of routers with the AS f, links L, tables R and *)
(* sessions S                                                              *)
Same(f, p) == \A a, b \in p : f[a] = f[b]
ClosedFor(f, L, S) == \A l \in L : Undivided(l, S) \/ ~Same(f, l)
ConvergedFor(f, L) ==
  {p \in Pairs : p \subseteq DOMAIN f /\
                \A S \in SUBSET DOMAIN f : ClosedFor(f, L, S) => Undivided(p, S)}
EffectiveFor(f, L, R, S) ==
  {p \in S : p \subseteq DOMAIN f /\ IF Same(f, p) THEN p \in R ELSE p \in L}

LEMMA AsParameters ==
  /\ Converged = ConvergedFor(asn, links) /\ Converged' = ConvergedFor(asn', links')
  /\ Effective = EffectiveFor(asn, links, routed, sessions)
  /\ Effective' = EffectiveFor(asn', links', routed', sessions')
<1>1. Converged = ConvergedFor(asn, links) /\ Converged' = ConvergedFor(asn', links')
  BY DEF Converged, ConvergedFor, Closed, ClosedFor, SameAs, Same, Present
<1>2. Effective = EffectiveFor(asn, links, routed, sessions)
  BY DEF Effective, EffectiveFor, Reachable, SameAs, Same, Present
<1>3. Effective' = EffectiveFor(asn', links', routed', sessions')
  BY DEF Effective, EffectiveFor, Reachable, SameAs, Same, Present
<1> QED
  BY <1>1, <1>2, <1>3

(* A router without links is connected to none. *)
LEMMA Isolated ==
  ASSUME NEW r, NEW f, NEW L, \A l \in L : r \notin l
  PROVE  \A p \in ConvergedFor(f, L) : r \notin p
<1> SUFFICES ASSUME NEW p \in ConvergedFor(f, L), r \in p
             PROVE  FALSE
  OBVIOUS
<1>1. {r} \in SUBSET DOMAIN f
  BY DEF ConvergedFor
<1>2. ClosedFor(f, L, {r})
  BY DEF ClosedFor, Undivided
<1>3. p \subseteq {r}
  BY <1>1, <1>2 DEF ConvergedFor, Undivided
<1>4. PICK x \in {x \in Routers \X Routers : x[1] # x[2]} : p = {x[1], x[2]}
  BY DEF ConvergedFor, Pairs
<1> QED
  BY <1>3, <1>4

(* So one that comes or goes makes no difference, *)
LEMMA IsolatedRouter ==
  ASSUME NEW r, NEW f, NEW g, NEW L,
         DOMAIN f \subseteq DOMAIN g, DOMAIN g \subseteq DOMAIN f \cup {r},
         \A x \in DOMAIN f : g[x] = f[x], \A l \in L : l \subseteq DOMAIN f
  PROVE  ConvergedFor(g, L) = ConvergedFor(f, L)
<1>1. \A p : p \subseteq DOMAIN f => (Same(g, p) <=> Same(f, p))
  BY DEF Same
<1>2. ASSUME NEW p \in ConvergedFor(g, L)
      PROVE  p \in ConvergedFor(f, L)
  <2>1. p \in Pairs /\ p \subseteq DOMAIN g
    BY <1>2 DEF ConvergedFor
  <2>2. p \subseteq DOMAIN f
    <3>1. CASE r \in DOMAIN f
      BY <2>1, <3>1
    <3>2. CASE r \notin DOMAIN f
      BY <1>2, <2>1, <3>2, Isolated
    <3> QED
      BY <3>1, <3>2
  <2>3. ASSUME NEW S \in SUBSET DOMAIN f, ClosedFor(f, L, S)
        PROVE  Undivided(p, S)
    <3>1. ClosedFor(g, L, S)
      BY <1>1, <2>3 DEF ClosedFor
    <3> QED
      BY <1>2, <3>1 DEF ConvergedFor
  <2> QED
    BY <2>1, <2>2, <2>3 DEF ConvergedFor
<1>3. ASSUME NEW p \in ConvergedFor(f, L)
      PROVE  p \in ConvergedFor(g, L)
  <2>1. p \in Pairs /\ p \subseteq DOMAIN f /\ p \subseteq DOMAIN g
    BY <1>3 DEF ConvergedFor
  <2>2. ASSUME NEW S \in SUBSET DOMAIN g, ClosedFor(g, L, S)
        PROVE  Undivided(p, S)
    <3> DEFINE T == S \cap DOMAIN f
    <3>1. \A l : l \subseteq DOMAIN f => (Undivided(l, S) <=> Undivided(l, T))
      BY DEF Undivided
    <3> HIDE DEF T
    <3>2. ClosedFor(f, L, T)
      BY <1>1, <2>2, <3>1 DEF ClosedFor
    <3>3. T \in SUBSET DOMAIN f
      BY DEF T
    <3>4. Undivided(p, T)
      BY <1>3, <3>2, <3>3 DEF ConvergedFor
    <3> QED
      BY <2>1, <3>1, <3>4
  <2> QED
    BY <2>1, <2>2 DEF ConvergedFor
<1> QED
  BY <1>2, <1>3

(* neither to the sessions. *)
LEMMA IsolatedSessions ==
  ASSUME NEW f, NEW g, NEW L, NEW R, NEW S, DOMAIN f \subseteq DOMAIN g,
         \A x \in DOMAIN f : g[x] = f[x],
         \A p \in L : p \subseteq DOMAIN f, \A p \in R : p \subseteq DOMAIN f
  PROVE  EffectiveFor(g, L, R, S) = EffectiveFor(f, L, R, S)
<1>1. \A p : p \subseteq DOMAIN f => (Same(g, p) <=> Same(f, p))
  BY DEF Same
<1>2. \A p \in EffectiveFor(g, L, R, S) : p \in EffectiveFor(f, L, R, S)
  BY <1>1 DEF EffectiveFor
<1>3. \A p \in EffectiveFor(f, L, R, S) : p \in EffectiveFor(g, L, R, S)
  BY <1>1 DEF EffectiveFor
<1> QED
  BY <1>2, <1>3

LEMMA Distinct ==
  ASSUME NEW x \in Rests
  PROVE  /\ x # << >> => Head(x) \notin {"queue", "simulate", "loop"}
         /\ x # << >> /\ Head(x) = "leave" => x = ToLeave
         /\ x # << >> /\ Head(x) = "remove" => x = ToRemove
         /\ x # << >> /\ Head(x) = "close" => x = ToClose
         /\ x # << >> /\ Head(x) = "move" => x = ToMove
         /\ x # << >> /\ Head(x) = "open" => x = ToOpen
         /\ x # << >> /\ Head(x) = "reset" => x = ToReset
BY Rest DEF Rests

(* Only one of them is left. *)
LEMMA OnePhase ==
  ASSUME NEW x \in Rests, NEW y \in Rests
  PROVE  /\ At(x) /\ At(y) => x = y
         /\ At(x)' /\ At(y)' => x = y
         /\ Simulating(x) => todo \notin Rests
         /\ Simulating(x)' => todo' \notin Rests
<1>1. \A z : Simulating(z) => todo \notin Rests
  BY Distinct DEF Simulating
<1>2. \A z : Simulating(z)' => todo' \notin Rests
  BY Distinct DEF Simulating
<1> QED
  BY <1>1, <1>2 DEF At, Simulating

LEMMA PhasedWhenSimulating ==
  ASSUME NEW x \in Rests, Simulating(x)',
         x # << >> => skip_queue' = FALSE,
         x = ToRemove => \A p \in links' \cup routed' \cup running' : Target' \notin p
  PROVE  Phased'
<1>1. At(x)' /\ todo' \notin Rests
  BY OnePhase DEF At
<1>2. At(<< >>)' => x = << >>
  BY <1>1, OnePhase, RestsListed
<1>3. At(ToRemove)' => x = ToRemove
  BY <1>1, OnePhase, RestsListed
<1> QED
  BY <1>1, <1>2, <1>3, RestsListed DEF Phased

LEMMA PhasedWhenAt ==
  ASSUME NEW x \in Rests, todo' = x,
         x # << >> => skip_queue' = FALSE,
         x = ToLeave => queue' = {},
         x = ToRemove => \A p \in links' \cup routed' \cup running' : Target' \notin p,
         x = ToRemove /\ (\A p \in sessions' : Target' \notin p)
           => \A e \in queue' : e.src # Target' /\ e.dst # Target'
  PROVE  Phased'
<1>1. At(x)'
  BY DEF At
<1>2. At(<< >>)' => x = << >>
  BY <1>1, OnePhase, RestsListed
<1>3. At(ToRemove)' => x = ToRemove
  BY <1>1, OnePhase, RestsListed
<1> QED
  BY <1>1, <1>2, <1>3 DEF Phased

(* An operation that simulates, or is done at once, when none is under way *)
LEMMA CalledPhase ==
  ASSUME NEW w \in {"queue", "simulate"}, Call(<< >>) \/ Call(<<w>>)
  PROVE  Phased'
<1>1. CASE Call(<< >>)
  BY <1>1, PhasedWhenAt, RestsListed, Rest DEF Call
<1>2. CASE Call(<<w>>)
  <2>1. Simulating(<< >>)'
    BY <1>2 DEF Call, Simulating
  <2> QED
    BY <2>1, PhasedWhenSimulating, RestsListed, Rest
<1> QED
  BY <1>1, <1>2
-----------------------------------------------------------------------------
(* The operations that are one step of the user *)
LEMMA UserKeeps ==
  ASSUME Placed, Phased,
         SetMode \/ Simulate \/ AddRouter \/ SetLink \/ SetBgpSession \/ UpdateRoutes
  PROVE  Placed' /\ Phased'
<1>1. CASE SetMode
  <2>1. Placed'
    BY <1>1 DEF SetMode, network, Placed, EventsAddressed, Present
  <2> QED
    BY <1>1, <2>1, CalledPhase DEF SetMode
<1>2. CASE Simulate
  <2>1. Placed'
    BY <1>2 DEF Simulate, network, Placed, EventsAddressed, Present
  <2> QED
    BY <1>2, <2>1, CalledPhase DEF Simulate
<1>3. CASE AddRouter
  <2>1. Present \subseteq Present' /\ Present' \subseteq Routers
    BY <1>3 DEF AddRouter, Present, Placed
  <2>2. Placed'
    BY <1>3, <2>1 DEF AddRouter, Placed, EventsAddressed
  <2> QED
    BY <1>3, <2>2, CalledPhase DEF AddRouter
<1>4. CASE SetLink
  <2>1. Present' = Present
    BY <1>4 DEF SetLink, Present
  <2>2. \A p \in links' : p \subseteq Present
    BY <1>4 DEF SetLink, Placed
  <2>3. Placed'
    BY <1>4, <2>1, <2>2, RerouteFacts DEF SetLink, Placed
  <2> QED
    BY <1>4, <2>3, CalledPhase DEF SetLink
<1>5. CASE SetBgpSession
  <2>1. Placed'
    BY <1>5, SetSessionsFacts DEF SetBgpSession
  <2> QED
    BY <1>5, <2>1, CalledPhase DEF SetBgpSession
<1>6. CASE UpdateRoutes
  <2>1. PICK r \in Present : Enqueue(queue, BgpEvents({r}, running))
    BY <1>6 DEF UpdateRoutes
  <2>2. queue' \subseteq queue \cup BgpEvents({r}, running)
    BY <2>1, EnqueueFacts
  <2>3. \A e \in queue' \ queue : {e.src, e.dst} \in running
    BY <2>2, BgpEventFacts
  <2>4. Placed'
    BY <1>6, <2>3 DEF UpdateRoutes, network, Placed, EventsAddressed, Present
  <2> QED
    BY <1>6, <2>4, CalledPhase DEF UpdateRoutes
<1> QED
  BY <1>1, <1>2, <1>3, <1>4, <1>5, <1>6
-----------------------------------------------------------------------------
(* What is left when a step of an operation is taken *)
LEMMA DoingFacts ==
  ASSUME Phased
  PROVE  /\ Doing("close") => todo = ToClose
         /\ Doing("move") => todo = ToMove
         /\ Doing("open") => todo = ToOpen
         /\ Doing("reset") => todo = ToReset
         /\ Doing("leave") => todo = ToLeave
         /\ Doing("remove") => todo = ToRemove
         /\ Doing("queue") \/ Doing("simulate") \/ Doing("loop")
              => \E rest \in Rests : Simulating(rest)
<1>1. PICK rest \in Rests : todo = rest \/ Simulating(rest)
  BY DEF Phased, At
<1>2. CASE todo = rest
  BY <1>2, Distinct DEF Doing
<1>3. CASE Simulating(rest)
  BY <1>3 DEF Doing, Simulating
<1> QED
  BY <1>1, <1>2, <1>3

(* Part of set_asn or of remove_router comes next, after a simulation. *)
LEMMA NextPart ==
  ASSUME NEW x \in Rests, todo' = <<"queue">> \o x
  PROVE  Simulating(x)'
BY Waiting DEF Simulating

LEMMA SetAsnKeeps ==
  ASSUME Placed, Phased, SetAsn \/ RemoveRouter \/ Close \/ Move \/ Open \/ Reset
  PROVE  Placed' /\ Phased'
<1>1. CASE SetAsn
  <2>1. todo' = <<"queue">> \o ToClose /\ skip_queue' = FALSE
    BY <1>1 DEF SetAsn, Begin, Call, ToClose
  <2>2. Phased'
    BY <2>1, NextPart, PhasedWhenSimulating, RestsListed, Rest
  <2>3. Placed'
    BY <1>1 DEF SetAsn, Begin, network, Placed, EventsAddressed, Present
  <2> QED
    BY <2>2, <2>3
<1>2. CASE RemoveRouter
  <2>1. todo' = <<"queue">> \o ToLeave /\ skip_queue' = FALSE
    BY <1>2 DEF RemoveRouter, Begin, Call, ToLeave
  <2>2. Phased'
    BY <2>1, NextPart, PhasedWhenSimulating, RestsListed, Rest
  <2>3. Placed'
    BY <1>2 DEF RemoveRouter, Begin, network, Placed, EventsAddressed, Present
  <2> QED
    BY <2>2, <2>3
<1>3. CASE Close
  <2>1. todo = ToClose /\ At(ToClose)
    BY <1>3, DoingFacts DEF Close, At
  <2>2. CASE Fail /\ UNCHANGED <<network, running, queue>>
    <3>1. Placed'
      BY <2>2 DEF network, Placed, EventsAddressed, Present
    <3> QED
      BY <2>2, <3>1, PhasedWhenAt, RestsListed, Rest DEF Fail
  <2>3. CASE Done /\ SetSessions(sessions \ Removed(Target)) /\ UNCHANGED mode
    <3>1. todo' = <<"queue">> \o ToMove
      BY <2>1, <2>3, Rest DEF Done
    <3>2. skip_queue' = FALSE
      BY <2>1, <2>3, OnePhase, RestsListed, Rest DEF Phased, mode
    <3> QED
      BY <2>3, <3>1, <3>2, SetSessionsFacts, NextPart, PhasedWhenSimulating, RestsListed, Rest
  <2> QED
    BY <1>3, <2>2, <2>3 DEF Close
<1>4. CASE Move
  <2>1. todo = ToMove /\ At(ToMove)
    BY <1>4, DoingFacts DEF Move, At
  <2>2. todo' = <<"queue">> \o ToOpen
    BY <1>4, <2>1, Rest DEF Move, Done
  <2>3. skip_queue' = FALSE
    BY <1>4, <2>1, OnePhase, RestsListed, Rest DEF Move, Phased, mode
  <2>4. Present' = Present
    BY <1>4 DEF Move, Present
  <2>5. Reroute(queue, {}, FALSE) /\ links' = links /\ sessions' = sessions
    BY <1>4 DEF Move
  <2>6. \A p \in links' : p \subseteq Present
    BY <2>5 DEF Placed
  <2> DEFINE none == {}
  <2>7. Reroute(queue, none, FALSE) /\ \A p \in none : p \subseteq Present
    BY <2>5
  <2> HIDE DEF none
  <2>8. Placed'
    BY <2>4, <2>5, <2>6, <2>7, RerouteFacts
  <2> QED
    BY <2>2, <2>3, <2>8, NextPart, PhasedWhenSimulating, RestsListed, Rest
<1>5. CASE Open
  <2>1. todo = ToOpen /\ At(ToOpen)
    BY <1>5, DoingFacts DEF Open, At
  <2>2. todo' = <<"queue">> \o ToReset
    BY <1>5, <2>1, Rest DEF Open, Done
  <2>3. skip_queue' = FALSE
    BY <1>5, <2>1, OnePhase, RestsListed, Rest DEF Open, Phased, mode
  <2>4. Placed'
    BY <1>5, SetSessionsFacts DEF Open
  <2> QED
    BY <2>2, <2>3, <2>4, NextPart, PhasedWhenSimulating, RestsListed, Rest
<1>6. CASE Reset
  <2>1. todo' = << >>
    BY <1>6, DoingFacts, Rest DEF Reset, Done
  <2>2. Placed'
    BY <1>6 DEF Reset, network, Placed, EventsAddressed, Present
  <2> QED
    BY <2>1, <2>2, PhasedWhenAt, RestsListed, Rest
<1> QED
  BY <1>1, <1>2, <1>3, <1>4, <1>5, <1>6

LEMMA RemoveRouterKeeps ==
  ASSUME Placed, Phased, Leave \/ Drop \/ Remove
  PROVE  Placed' /\ Phased'
<1>1. CASE Leave
  <2> DEFINE r == Target
             old == {p \in routed : r \notin p}
  <2>1. todo = ToLeave /\ At(ToLeave)
    BY <1>1, DoingFacts DEF Leave, At
  <2>2. todo' = ToRemove
    BY <1>1, <2>1, Rest DEF Leave, Done
  <2>3. skip_queue' = FALSE /\ queue = {}
    BY <1>1, <2>1, OnePhase, RestsListed, Rest DEF Leave, Phased, mode
  <2>4. /\ links' = {p \in links : r \notin p} /\ sessions' = sessions
        /\ Reroute(queue, old, TRUE) /\ r' = r
    BY <1>1 DEF Leave, Target
  <2>5. Present' = Present
    BY <1>1 DEF Leave, Present
  <2>6. /\ \A p \in links' : p \subseteq Present
        /\ \A p \in old : p \subseteq Present
    BY <2>4 DEF Placed
  <2> HIDE DEF r, old
  <2>7. /\ Placed' /\ running' = Effective' /\ routed' \in {old, Converged'}
        /\ \A e \in queue' \ queue : {e.src, e.dst} \in running \cup running' \cup links'
    BY <2>4, <2>5, <2>6, RerouteFacts
  <2>8. \A p \in Converged' : r \notin p
    <3>1. \A l \in links' : r \notin l
      BY <2>4
    <3> QED
      BY <3>1, Isolated, AsParameters
  <2>9. \A p \in links' \cup routed' \cup running' : r \notin p
    BY <2>4, <2>7, <2>8 DEF Effective, Reachable, old
  <2>10. ASSUME \A p \in sessions' : r \notin p, NEW e \in queue'
         PROVE  e.src # r /\ e.dst # r
    <3>1. r \notin {e.src, e.dst}
      BY <2>3, <2>4, <2>7, <2>9, <2>10 DEF Placed
    <3> QED
      BY <3>1
  <2>11. ToRemove # ToLeave
    BY Rest
  <2> QED
    BY <2>2, <2>3, <2>4, <2>7, <2>9, <2>10, <2>11, PhasedWhenAt, RestsListed DEF r
<1>2. CASE Drop
  <2>1. todo = ToRemove /\ At(ToRemove)
    BY <1>2, DoingFacts DEF Drop, At
  <2>2. todo' = <<"queue">> \o ToRemove
    BY <1>2, <2>1 DEF Drop, AfterDrop
  <2>3. skip_queue' = FALSE
    BY <1>2, <2>1, OnePhase, RestsListed, Rest DEF Drop, Phased, mode
  <2>4. PICK p \in sessions : SetSessions(sessions \ {p})
    BY <1>2 DEF Drop
  <2>5. Placed' /\ running' = Effective'
    BY <2>4, SetSessionsFacts
  <2>6. links' = links /\ routed' = routed /\ Target' = Target
    BY <1>2, <2>4 DEF Drop, SetSessions, Target
  <2>7. \A q \in links' \cup routed' \cup running' : Target' \notin q
    BY <2>1, <2>5, <2>6 DEF Phased, Effective, Reachable
  <2> QED
    BY <2>2, <2>3, <2>5, <2>7, NextPart, PhasedWhenSimulating, RestsListed
<1>3. CASE Remove
  <2>1. todo = ToRemove /\ At(ToRemove)
    BY <1>3, DoingFacts DEF Remove, At
  <2>2. todo' = <<"queue">> \o ToReset
    BY <1>3, <2>1, Rest DEF Remove, Done
  <2>3. skip_queue' = FALSE
    BY <1>3, <2>1, OnePhase, RestsListed, Rest DEF Remove, Phased, mode
  <2>4. Present' = Present \ {Target}
    BY <1>3 DEF Remove, Present
  <2>5. /\ \A p \in links \cup routed \cup running : Target \notin p
        /\ \A e \in queue : e.src # Target /\ e.dst # Target
    BY <1>3, <2>1 DEF Remove, Phased
  <2>6. UNCHANGED <<links, routed, sessions, running, queue>>
    BY <1>3 DEF Remove
  <2>7. Placed'
    BY <2>4, <2>5, <2>6 DEF Placed, EventsAddressed
  <2> QED
    BY <2>2, <2>3, <2>7, NextPart, PhasedWhenSimulating, RestsListed, Rest
<1> QED
  BY <1>1, <1>2, <1>3
-----------------------------------------------------------------------------
(* An event is handled or not: sessions run as far as they are configured. *)
LEMMA HandleEventFacts ==
  ASSUME Placed, NEW e \in queue, HandleEvent(e)
  PROVE  Placed'
<1>1. CASE e.kind = "bgp" /\ UNCHANGED <<network, running>>
             /\ Enqueue(queue \ {e}, IF {e.src, e.dst} \in running
                                    THEN BgpEvents({e.dst}, running) ELSE {})
  <2>1. queue' \subseteq (queue \ {e}) \cup BgpEvents({e.dst}, running)
    BY <1>1, EnqueueFacts
  <2>2. \A x \in queue' \ queue : {x.src, x.dst} \in running
    BY <2>1, BgpEventFacts
  <2> QED
    BY <1>1, <2>2 DEF network, Placed, EventsAddressed, Present
<1>2. CASE UNCHANGED <<asn, links, sessions>> /\ Reroute(queue \ {e}, routed, TRUE)
  <2> DEFINE kept == queue \ {e}
  <2>1. /\ Reroute(kept, routed, TRUE) /\ kept \subseteq queue
        /\ Present' = Present /\ sessions' = sessions
    BY <1>2 DEF Present
  <2>2. /\ \A p \in links' : p \subseteq Present
        /\ \A p \in routed : p \subseteq Present
    BY <1>2 DEF Placed
  <2> HIDE DEF kept
  <2> QED
    BY <2>1, <2>2, RerouteFacts
<1> QED
  BY <1>1, <1>2 DEF HandleEvent

LEMMA SimulationKeeps ==
  ASSUME Placed, Phased,
         DoQueueMaybeSkip \/ Start \/ Step \/ GiveUp \/ TriggerTimeout \/ Return
  PROVE  Placed' /\ Phased'
<1>1. PICK rest \in Rests : Simulating(rest) /\ At(rest)
  BY DoingFacts DEF DoQueueMaybeSkip, Start, Step, GiveUp, TriggerTimeout, Return, At
<1>2. /\ rest # << >> => skip_queue = FALSE
      /\ rest = ToRemove => \A p \in links \cup routed \cup running : Target \notin p
      /\ todo # << >> /\ Tail(todo) = rest
  BY <1>1, OnePhase, RestsListed DEF Phased, Simulating
<1>3. CASE DoQueueMaybeSkip
  <2>1. Placed'
    BY <1>3 DEF DoQueueMaybeSkip, network, Placed, EventsAddressed, Present
  <2>2. CASE skip_queue
    <3>1. rest = << >> /\ todo' = << >>
      BY <1>2, <1>3, <2>2 DEF DoQueueMaybeSkip
    <3> QED
      BY <2>1, <3>1, PhasedWhenAt, RestsListed, Rest
  <2>3. CASE ~skip_queue
    <3>1. todo' = <<"simulate">> \o rest
      BY <1>2, <1>3, <2>3 DEF DoQueueMaybeSkip
    <3>2. Simulating(rest)'
      BY <3>1, Waiting DEF Simulating
    <3>3. UNCHANGED <<links, routed, running, saved, skip_queue>>
      BY <1>3 DEF DoQueueMaybeSkip, network, mode
    <3>4. Target' = Target
      BY <3>3 DEF Target
    <3> QED
      BY <1>2, <2>1, <3>2, <3>3, <3>4, PhasedWhenSimulating
  <2> QED
    BY <2>2, <2>3
<1>4. CASE Start
  <2>1. Placed'
    BY <1>4 DEF Start, network, Placed, EventsAddressed, Present
  <2>2. todo' = <<"loop">> \o rest
    BY <1>2, <1>4 DEF Start
  <2>3. Simulating(rest)'
    BY <2>2, Waiting DEF Simulating
  <2>4. UNCHANGED <<links, routed, running, saved, skip_queue>>
    BY <1>4 DEF Start, network, mode
  <2>5. Target' = Target
    BY <2>4 DEF Target
  <2> QED
    BY <1>2, <2>1, <2>3, <2>4, <2>5, PhasedWhenSimulating
<1>5. CASE Step
  <2>1. PICK e \in queue : IF e.dst \in Present THEN HandleEvent(e) ELSE LoseEvent(e)
    BY <1>5 DEF Step
  <2>2. HandleEvent(e)
    BY <2>1 DEF Placed, EventsAddressed
  <2>3. Placed'
    BY <2>2, HandleEventFacts
  <2>4. UNCHANGED <<todo, saved, skip_queue>>
    BY <2>2 DEF HandleEvent, Spend, mode
  <2>5. Simulating(rest)' /\ Target' = Target
    BY <1>1, <2>4 DEF Simulating, Target
  <2>6. ASSUME rest = ToRemove, NEW p \in links' \cup routed' \cup running'
        PROVE  Target \notin p
    <3>1. CASE UNCHANGED <<network, running>>
      BY <1>2, <2>6, <3>1 DEF network
    <3>2. CASE UNCHANGED <<asn, links, sessions>> /\ Reroute(queue \ {e}, routed, TRUE)
      <4>1. routed' \in {routed, Converged'} /\ running' = Effective'
        BY <3>2 DEF Reroute
      <4>2. \A l \in links' : Target \notin l
        BY <1>2, <2>6, <3>2
      <4>3. \A q \in Converged' : Target \notin q
        BY <4>2, Isolated, AsParameters
      <4> QED
        BY <1>2, <2>6, <4>1, <4>2, <4>3 DEF Effective, Reachable
    <3> QED
      BY <2>2, <3>1, <3>2 DEF HandleEvent
  <2> QED
    BY <1>2, <2>3, <2>4, <2>5, <2>6, PhasedWhenSimulating
<1>6. CASE GiveUp
  <2>1. Placed'
    BY <1>6 DEF GiveUp, network, Placed, EventsAddressed, Present
  <2> QED
    BY <1>6, <2>1, PhasedWhenAt, RestsListed, Rest DEF GiveUp, Fail
<1>7. CASE TriggerTimeout
  <2>1. queue' \subseteq OspfEvents
    BY <1>7, EnqueueFacts DEF TriggerTimeout
  <2>2. Placed'
    BY <1>7, <2>1, OspfEventFacts
       DEF TriggerTimeout, network, Placed, EventsAddressed, Present
  <2>3. UNCHANGED <<links, routed, running, todo, saved, skip_queue>>
    BY <1>7 DEF TriggerTimeout, network, mode
  <2>4. Simulating(rest)' /\ Target' = Target
    BY <1>1, <2>3 DEF Simulating, Target
  <2> QED
    BY <1>2, <2>2, <2>3, <2>4, PhasedWhenSimulating
<1>8. CASE Return
  <2>1. Placed'
    BY <1>8 DEF Return, network, Placed, EventsAddressed, Present
  <2>2. /\ todo' = rest /\ queue' = {}
        /\ UNCHANGED <<links, routed, running, saved, skip_queue>>
    BY <1>2, <1>8 DEF Return, Done, network, mode
  <2>3. Target' = Target
    BY <2>2 DEF Target
  <2> QED
    BY <1>2, <2>1, <2>2, <2>3, PhasedWhenAt
<1> QED
  BY <1>3, <1>4, <1>5, <1>6, <1>7, <1>8

LEMMA Keeps ==
  ASSUME Placed, Phased, [Next]_vars
  PROVE  Placed' /\ Phased'
<1>1. CASE SetMode \/ Simulate \/ AddRouter \/ SetLink \/ SetBgpSession \/ UpdateRoutes
  BY <1>1, UserKeeps
<1>2. CASE SetAsn \/ RemoveRouter \/ Close \/ Move \/ Open \/ Reset
  BY <1>2, SetAsnKeeps
<1>3. CASE Leave \/ Drop \/ Remove
  BY <1>3, RemoveRouterKeeps
<1>4. CASE DoQueueMaybeSkip \/ Start \/ Step \/ GiveUp \/ TriggerTimeout \/ Return
  BY <1>4, SimulationKeeps
<1>5. CASE UNCHANGED vars
  BY <1>5 DEF vars, Placed, Phased, EventsAddressed, Present, At, Simulating, Target
<1> QED
  BY <1>1, <1>2, <1>3, <1>4, <1>5 DEF Next

LEMMA Initially == Init => Placed /\ Phased
<1> SUFFICES ASSUME Init PROVE Placed /\ Phased
  OBVIOUS
<1>1. At(<< >>) /\ todo \in Rests
  BY RestsListed DEF Init, At
<1>2. Placed
  BY InitialAssumption
     DEF Init, Placed, EventsAddressed, Present, Converged, Effective, Reachable
<1>3. todo # ToLeave /\ ~At(ToRemove)
  BY <1>1, OnePhase, RestsListed, Rest DEF Init, At
<1> QED
  BY <1>1, <1>2, <1>3 DEF Phased, At

(* No event is under way to or from a router that is not in the network,   *)
(* whatever operations the user calls, in either mode, and also when some  *)
(* of them fail: simulate_step finds the router of every event.            *)
THEOREM EventsReachRouters == Spec => []EventsAddressed
<1>1. Init => Placed /\ Phased
  BY Initially
<1>2. Placed /\ Phased /\ [Next]_vars => Placed' /\ Phased'
  BY Keeps
<1>3. Placed => EventsAddressed
  BY DEF Placed
<1> QED
  BY <1>1, <1>2, <1>3, PTL DEF Spec
-----------------------------------------------------------------------------
(* The invariant of OperationsComplete: unless an operation failed, what   *)
(* the user asked for is what the network has or set_asn and remove_router *)
(* will restore,                                                           *)
Shapes ==
  /\ asked = [skip |-> asked.skip, stop |-> asked.stop, sessions |-> asked.sessions]
  /\ ~At(<< >>) => saved = [args |-> saved.args, mode |-> saved.mode, sessions |-> saved.sessions]

ModeKept ==
  /\ At(<< >>) => asked.skip = skip_queue /\ asked.stop = stop_after
  /\ ~At(<< >>) => saved.mode = <<asked.skip, asked.stop>>

SessionsKept ==
  /\ At(<< >>) \/ At(ToClose) \/ At(ToReset) => asked.sessions = sessions
  /\ At(ToMove) \/ At(ToOpen) => asked.sessions = sessions \cup saved.sessions
  /\ At(ToLeave) \/ At(ToRemove) => asked.sessions = {p \in sessions : Target \notin p}

(* OSPF has converged, or has events under way, and the sessions are up to *)
(* date with its tables, except while set_asn has removed some of them.    *)
TablesKept ==
  /\ (\E e \in queue : e.kind = "ospf") \/ routed = Converged
  /\ ~At(ToOpen) => running = Effective

Kept == Shapes /\ (~failed => ModeKept /\ SessionsKept /\ TablesKept)

(* What is left, before and after a step *)
Goes(x, y) == At(x) /\ At(y)'

LEMMA Flow ==
  ASSUME Phased
  PROVE  /\ SetMode \/ Simulate \/ AddRouter \/ SetLink \/ SetBgpSession \/ UpdateRoutes
              => Goes(<< >>, << >>)
         /\ SetAsn => Goes(<< >>, ToClose)
         /\ RemoveRouter => Goes(<< >>, ToLeave)
         /\ Close => Goes(ToClose, << >>) \/ Goes(ToClose, ToMove)
         /\ Move => Goes(ToMove, ToOpen)
         /\ Open => Goes(ToOpen, ToReset)
         /\ Leave => Goes(ToLeave, ToRemove)
         /\ Drop => Goes(ToRemove, ToRemove)
         /\ Remove => Goes(ToRemove, ToReset)
         /\ Reset => Goes(ToReset, << >>)
<1>1. \A x \in Rests : todo' = <<"queue">> \o x => At(x)'
  BY NextPart DEF At
<1>2. SetMode \/ Simulate \/ AddRouter \/ SetLink \/ SetBgpSession \/ UpdateRoutes
        => Goes(<< >>, << >>)
  <2>1. SetMode \/ Simulate \/ AddRouter \/ SetLink \/ SetBgpSession \/ UpdateRoutes
          => Call(<< >>) \/ Call(<<"queue">>) \/ Call(<<"simulate">>)
    BY DEF SetMode, Simulate, AddRouter, SetLink, SetBgpSession, UpdateRoutes
  <2>2. \A w \in {"queue", "simulate"} : todo' = <<w>> => Simulating(<< >>)'
    BY DEF Simulating
  <2> QED
    BY <2>1, <2>2 DEF Call, Goes, At
<1>3. SetAsn => todo = << >> /\ todo' = <<"queue">> \o ToClose
  BY DEF SetAsn, Begin, Call, ToClose
<1>4. RemoveRouter => todo = << >> /\ todo' = <<"queue">> \o ToLeave
  BY DEF RemoveRouter, Begin, Call, ToLeave
<1>5. Close => todo = ToClose /\ (todo' = << >> \/ todo' = Tail(todo))
  BY DoingFacts DEF Close, Fail, Done
<1>6. /\ Move => todo = ToMove /\ todo' = Tail(todo)
      /\ Open => todo = ToOpen /\ todo' = Tail(todo)
      /\ Leave => todo = ToLeave /\ todo' = Tail(todo)
      /\ Remove => todo = ToRemove /\ todo' = Tail(todo)
      /\ Reset => todo = ToReset /\ todo' = Tail(todo)
  BY DoingFacts DEF Move, Open, Leave, Remove, Reset, Done
<1>7. Drop => todo = ToRemove /\ todo' = <<"queue">> \o todo
  BY DoingFacts DEF Drop, AfterDrop
<1>8. \A x \in Rests : (todo = x => At(x)) /\ (todo' = x => At(x)')
  BY DEF At
<1> QED
  BY <1>1, <1>2, <1>3, <1>4, <1>5, <1>6, <1>7, <1>8, Rest, RestsListed DEF Goes

LEMMA Different ==
  /\ ToClose \notin {<< >>, ToMove, ToOpen, ToReset, ToLeave, ToRemove}
  /\ ToMove \notin {<< >>, ToOpen, ToReset, ToLeave, ToRemove}
  /\ ToOpen \notin {<< >>, ToReset, ToLeave, ToRemove}
  /\ ToReset \notin {<< >>, ToLeave, ToRemove}
  /\ ToLeave \notin {<< >>, ToRemove}
  /\ ToRemove # << >>
BY Rest

(* so that nothing else is left. *)
LEMMA Nothing ==
  ASSUME NEW x \in Rests, NEW y \in Rests, Goes(x, y)
  PROVE  \A z \in Rests : (At(z) <=> z = x) /\ (At(z)' <=> z = y)
BY OnePhase DEF Goes

LEMMA KeptInitially == Init => Kept
<1> SUFFICES ASSUME Init PROVE Kept
  OBVIOUS
<1>1. At(<< >>)
  BY DEF Init, At
<1>2. \A z \in Rests : At(z) <=> z = << >>
  BY <1>1, OnePhase, RestsListed
<1>3. asked = [skip |-> skip_queue, stop |-> stop_after, sessions |-> sessions]
  BY DEF Init
<1>4. Shapes
  BY <1>1, <1>3 DEF Shapes
<1>5. ModeKept
  BY <1>1, <1>3 DEF ModeKept
<1>6. SessionsKept
  BY <1>2, <1>3, RestsListed, Different DEF SessionsKept
<1>7. TablesKept
  BY DEF Init, TablesKept
<1> QED
  BY <1>4, <1>5, <1>6, <1>7 DEF Kept
(* Between operations, Kept is what the user sees. *)
LEMMA KeptWhenIdle ==
  ASSUME \A z \in Rests : At(z)' <=> z = << >>,
         asked' = [skip |-> asked'.skip, stop |-> asked'.stop, sessions |-> asked'.sessions],
         ~failed' => /\ asked'.skip = skip_queue' /\ asked'.stop = stop_after'
                     /\ asked'.sessions = sessions' /\ TablesKept'
  PROVE  Kept'
<1>1. At(<< >>)'
  BY RestsListed
<1>2. Shapes'
  BY <1>1 DEF Shapes
<1>3. ~failed' => ModeKept'
  BY <1>1 DEF ModeKept
<1>4. ~failed' => SessionsKept'
  BY RestsListed, Different DEF SessionsKept
<1> QED
  BY <1>2, <1>3, <1>4 DEF Kept

(* The tables are as they were, as are the sessions: events may be added. *)
LEMMA TablesKeptByNone ==
  ASSUME TablesKept, UNCHANGED network, queue \subseteq queue' \/ routed = Converged,
         ~At(ToOpen)' => running' = Effective'
  PROVE  TablesKept'
<1>1. Converged' = Converged
  BY AsParameters DEF network
<1> QED
  BY <1>1 DEF TablesKept, network

LEMMA UserKept ==
  ASSUME Placed, Phased, Kept,
         SetMode \/ Simulate \/ AddRouter \/ SetLink \/ SetBgpSession \/ UpdateRoutes
  PROVE  Kept'
<1>1. /\ \A z \in Rests : At(z) <=> z = << >>
      /\ \A z \in Rests : At(z)' <=> z = << >>
      /\ failed' = failed
  BY Flow, Nothing, RestsListed
     DEF SetMode, Simulate, AddRouter, SetLink, SetBgpSession, UpdateRoutes, Call
<1>2. /\ asked = [skip |-> asked.skip, stop |-> asked.stop, sessions |-> asked.sessions]
      /\ ~failed => /\ asked.skip = skip_queue /\ asked.stop = stop_after
                    /\ asked.sessions = sessions /\ TablesKept /\ running = Effective
  BY <1>1, RestsListed, Different
     DEF Kept, Shapes, ModeKept, SessionsKept, TablesKept
<1>3. CASE SetMode
  <2>1. asked' = [skip |-> skip_queue', stop |-> stop_after', sessions |-> asked.sessions]
    BY <1>2, <1>3 DEF SetMode
  <2>2. UNCHANGED <<network, running, queue>>
    BY <1>3 DEF SetMode
  <2>3. Effective' = Effective
    BY <2>2, AsParameters DEF network
  <2>4. TablesKept => TablesKept'
    BY <1>1, <2>2, <2>3, TablesKeptByNone, RestsListed DEF TablesKept
  <2>5. sessions' = sessions
    BY <2>2 DEF network
  <2> QED
    BY <1>1, <1>2, <2>1, <2>4, <2>5, KeptWhenIdle
<1>4. CASE Simulate \/ UpdateRoutes
  <2>1. UNCHANGED <<network, running, mode, asked>>
    BY <1>4 DEF Simulate, UpdateRoutes
  <2>2. queue \subseteq queue'
    BY <1>4, EnqueueFacts DEF Simulate, UpdateRoutes
  <2>3. Effective' = Effective
    BY <2>1, AsParameters DEF network
  <2>4. ~failed => TablesKept'
    BY <1>2, <2>1, <2>2, <2>3, TablesKeptByNone
  <2>5. sessions' = sessions /\ skip_queue' = skip_queue /\ stop_after' = stop_after
    BY <2>1 DEF network, mode
  <2> QED
    BY <1>1, <1>2, <2>1, <2>4, <2>5, KeptWhenIdle
<1>5. CASE AddRouter
  <2>1. UNCHANGED <<links, routed, sessions, running, queue, mode, asked>>
    BY <1>5 DEF AddRouter
  <2>2. PICK r \in Routers \ Present, a \in Asns :
          asn' = [x \in Present \cup {r} |-> IF x = r THEN a ELSE asn[x]]
    BY <1>5 DEF AddRouter
  <2>3. /\ DOMAIN asn' = DOMAIN asn \cup {r}
        /\ \A x \in DOMAIN asn : asn'[x] = asn[x]
    BY <2>2 DEF Present
  <2>4. /\ \A l \in links : l \subseteq DOMAIN asn
        /\ \A p \in routed : p \subseteq DOMAIN asn
    BY DEF Placed, Present
  <2>5. Converged' = Converged
    BY <2>1, <2>3, <2>4, IsolatedRouter, AsParameters
  <2>6. Effective' = Effective
    BY <2>1, <2>3, <2>4, IsolatedSessions, AsParameters
  <2>7. ~failed => TablesKept'
    BY <1>2, <2>1, <2>5, <2>6 DEF TablesKept
  <2> QED
    BY <1>1, <1>2, <2>1, <2>7, KeptWhenIdle DEF mode
<1>6. CASE SetLink
  <2>1. /\ Reroute(queue, routed, TRUE) /\ Present' = Present
        /\ UNCHANGED <<sessions, mode, asked>>
    BY <1>6 DEF SetLink, Present
  <2>2. /\ \A p \in links' : p \subseteq Present
        /\ \A p \in routed : p \subseteq Present
    BY <1>6 DEF SetLink, Placed
  <2>3. TablesKept'
    BY <2>1, <2>2, RerouteFacts DEF TablesKept
  <2> QED
    BY <1>1, <1>2, <2>1, <2>3, KeptWhenIdle DEF mode
<1>7. CASE SetBgpSession
  <2>1. /\ asked' = [skip |-> asked.skip, stop |-> asked.stop, sessions |-> sessions']
        /\ UNCHANGED <<mode, asn, links, routed>>
    BY <1>2, <1>7 DEF SetBgpSession, SetSessions
  <2>2. running' = Effective' /\ queue \subseteq queue'
    BY <1>7, SetSessionsFacts DEF SetBgpSession
  <2>3. Converged' = Converged
    BY <2>1, AsParameters
  <2>4. ~failed => TablesKept'
    BY <1>2, <2>1, <2>2, <2>3 DEF TablesKept
  <2> QED
    BY <1>1, <1>2, <2>1, <2>4, KeptWhenIdle DEF mode
<1> QED
  BY <1>3, <1>4, <1>5, <1>6, <1>7
(* During set_asn and remove_router *)
LEMMA KeptWhenBusy ==
  ASSUME NEW y \in Rests, y # << >>, \A z \in Rests : At(z)' <=> z = y,
         asked' = [skip |-> asked'.skip, stop |-> asked'.stop, sessions |-> asked'.sessions],
         saved' = [args |-> saved'.args, mode |-> saved'.mode, sessions |-> saved'.sessions],
         ~failed' =>
           /\ saved'.mode = <<asked'.skip, asked'.stop>>
           /\ y \in {ToClose, ToReset} => asked'.sessions = sessions'
           /\ y \in {ToMove, ToOpen} => asked'.sessions = sessions' \cup saved'.sessions
           /\ y \in {ToLeave, ToRemove} =>
                asked'.sessions = {p \in sessions' : Target' \notin p}
           /\ TablesKept'
  PROVE  Kept'
<1>1. Shapes'
  BY DEF Shapes
<1>2. ~failed' => ModeKept'
  BY RestsListed DEF ModeKept
<1>3. ~failed' => SessionsKept'
  BY RestsListed, Different DEF SessionsKept
<1> QED
  BY <1>1, <1>2, <1>3 DEF Kept

LEMMA BeginKept ==
  ASSUME Kept, Phased, SetAsn \/ RemoveRouter
  PROVE  Kept'
<1>1. /\ \A z \in Rests : At(z) <=> z = << >>
      /\ UNCHANGED <<network, running, queue>> /\ failed' = failed
  BY Flow, Nothing, RestsListed DEF SetAsn, RemoveRouter, Begin, Call
<1>2. /\ asked = [skip |-> asked.skip, stop |-> asked.stop, sessions |-> asked.sessions]
      /\ ~failed => /\ mode = <<asked.skip, asked.stop>>
                    /\ asked.sessions = sessions /\ TablesKept /\ running = Effective
  BY <1>1, RestsListed, Different
     DEF Kept, Shapes, ModeKept, SessionsKept, TablesKept, mode
<1>3. ~failed => TablesKept'
  <2>1. Effective' = Effective
    BY <1>1, AsParameters DEF network
  <2> QED
    BY <1>1, <1>2, <2>1, TablesKeptByNone
<1>4. CASE SetAsn
  <2>1. PICK args : saved' = [args |-> args, mode |-> mode, sessions |-> {}]
    BY <1>4 DEF SetAsn, Begin
  <2>2. asked' = asked /\ sessions' = sessions
    BY <1>1, <1>4 DEF SetAsn, network
  <2>3. \A z \in Rests : At(z)' <=> z = ToClose
    BY <1>4, Flow, Nothing, RestsListed
  <2>4. saved' = [args |-> saved'.args, mode |-> saved'.mode, sessions |-> saved'.sessions]
    BY <2>1
  <2>5. saved'.mode = mode
    BY <2>1
  <2> QED
    BY <1>1, <1>2, <1>3, <2>2, <2>3, <2>4, <2>5, KeptWhenBusy, RestsListed, Different
<1>5. CASE RemoveRouter
  <2>1. PICK r \in Routers :
          /\ saved' = [args |-> <<r>>, mode |-> mode, sessions |-> {}]
          /\ asked' = [asked EXCEPT !.sessions = {p \in sessions : r \notin p}]
    BY <1>5 DEF RemoveRouter, Begin
  <2>2. /\ asked' = [skip |-> asked.skip, stop |-> asked.stop,
                     sessions |-> {p \in sessions : r \notin p}]
        /\ sessions' = sessions
    BY <1>1, <1>2, <2>1 DEF network
  <2>3. \A z \in Rests : At(z)' <=> z = ToLeave
    BY <1>5, Flow, Nothing, RestsListed
  <2>4. saved' = [args |-> saved'.args, mode |-> saved'.mode, sessions |-> saved'.sessions]
    BY <2>1
  <2>5. saved'.mode = mode /\ Target' = r
    BY <2>1 DEF Target
  <2>6. asked' = [skip |-> asked'.skip, stop |-> asked'.stop, sessions |-> asked'.sessions]
    BY <2>2
  <2>7. /\ asked'.skip = asked.skip /\ asked'.stop = asked.stop
        /\ asked'.sessions = {p \in sessions' : Target' \notin p}
    BY <2>2, <2>5
  <2> QED
    BY <1>1, <1>2, <1>3, <2>3, <2>4, <2>5, <2>6, <2>7, KeptWhenBusy, RestsListed, Different
<1> QED
  BY <1>4, <1>5
(* The sessions are what the tables say, once they are set anew. *)
LEMMA SetSessionsKeepsTables ==
  ASSUME Placed, TablesKept, NEW configured, SetSessions(configured)
  PROVE  TablesKept'
<1>1. Converged' = Converged
  BY AsParameters DEF SetSessions
<1>2. running' = Effective' /\ queue \subseteq queue' /\ routed' = routed
  BY SetSessionsFacts DEF SetSessions
<1> QED
  BY <1>1, <1>2 DEF TablesKept

LEMMA SetAsnKept ==
  ASSUME Placed, Phased, Kept, Close \/ Move \/ Open \/ Reset
  PROVE  Kept'
<1>1. CASE Close
  <2>1. \A z \in Rests : At(z) <=> z = ToClose
    BY <1>1, Flow, Nothing, RestsListed
  <2>2. /\ asked = [skip |-> asked.skip, stop |-> asked.stop, sessions |-> asked.sessions]
        /\ saved = [args |-> saved.args, mode |-> saved.mode, sessions |-> saved.sessions]
        /\ ~failed => /\ saved.mode = <<asked.skip, asked.stop>>
                      /\ asked.sessions = sessions /\ TablesKept
    BY <2>1, RestsListed, Different DEF Kept, Shapes, ModeKept, SessionsKept
  <2>3. CASE Fail
    <3>1. todo' = << >> /\ At(<< >>)' /\ failed' /\ asked' = asked
      BY <2>3 DEF Fail, At
    <3>2. \A z \in Rests : At(z)' <=> z = << >>
      BY <3>1, OnePhase, RestsListed
    <3> QED
      BY <2>2, <3>1, <3>2, KeptWhenIdle
  <2>4. CASE /\ Done /\ SetSessions(sessions \ Removed(Target))
             /\ saved' = [saved EXCEPT !.sessions = {p \in running : Target \in p}]
    <3>1. todo' = <<"queue">> \o ToMove
      BY <1>1, <2>4, DoingFacts, Rest DEF Close, Done
    <3>2. At(ToMove)'
      BY <3>1, NextPart, RestsListed DEF At
    <3>3. \A z \in Rests : At(z)' <=> z = ToMove
      BY <3>2, OnePhase, RestsListed
    <3>4. saved' = [args |-> saved.args, mode |-> saved.mode, sessions |-> Removed(Target)]
      BY <2>2, <2>4 DEF Removed
    <3>5. saved' = [args |-> saved'.args, mode |-> saved'.mode, sessions |-> saved'.sessions]
      BY <3>4
    <3>6. saved'.mode = saved.mode /\ saved'.sessions = Removed(Target)
      BY <3>4
    <3>7. sessions' = sessions \ Removed(Target) /\ Removed(Target) \subseteq sessions
      BY <2>4 DEF SetSessions, Removed, Placed
    <3>8. sessions = sessions' \cup saved'.sessions
      BY <3>6, <3>7
    <3>9. failed' = failed /\ asked' = asked
      BY <2>4 DEF Done
    <3>10. ~failed => TablesKept'
      BY <2>2, <2>4, SetSessionsKeepsTables
    <3> QED
      BY <2>2, <3>3, <3>5, <3>6, <3>8, <3>9, <3>10, KeptWhenBusy, RestsListed, Different
  <2> QED
    BY <1>1, <2>3, <2>4 DEF Close
<1>2. CASE Move
  <2>1. /\ \A z \in Rests : At(z) <=> z = ToMove
        /\ \A z \in Rests : At(z)' <=> z = ToOpen
    BY <1>2, Flow, Nothing, RestsListed
  <2>2. /\ asked = [skip |-> asked.skip, stop |-> asked.stop, sessions |-> asked.sessions]
        /\ saved = [args |-> saved.args, mode |-> saved.mode, sessions |-> saved.sessions]
        /\ ~failed => /\ saved.mode = <<asked.skip, asked.stop>>
                      /\ asked.sessions = sessions \cup saved.sessions
    BY <2>1, RestsListed, Different DEF Kept, Shapes, ModeKept, SessionsKept
  <2>3. /\ UNCHANGED <<saved, sessions, asked, failed>>
        /\ (\E e \in queue' : e.kind = "ospf") \/ routed' = Converged'
    BY <1>2 DEF Move, Done, Reroute
  <2>4. TablesKept'
    BY <2>1, <2>3, RestsListed DEF TablesKept
  <2> QED
    BY <2>1, <2>2, <2>3, <2>4, KeptWhenBusy, RestsListed, Different
<1>3. CASE Open
  <2>1. /\ \A z \in Rests : At(z) <=> z = ToOpen
        /\ \A z \in Rests : At(z)' <=> z = ToReset
    BY <1>3, Flow, Nothing, RestsListed
  <2>2. /\ asked = [skip |-> asked.skip, stop |-> asked.stop, sessions |-> asked.sessions]
        /\ saved = [args |-> saved.args, mode |-> saved.mode, sessions |-> saved.sessions]
        /\ ~failed => /\ saved.mode = <<asked.skip, asked.stop>>
                      /\ asked.sessions = sessions \cup saved.sessions /\ TablesKept
    BY <2>1, RestsListed, Different DEF Kept, Shapes, ModeKept, SessionsKept
  <2>3. /\ UNCHANGED <<saved, asked, failed>> /\ sessions' = sessions \cup saved.sessions
        /\ SetSessions(sessions \cup saved.sessions)
    BY <1>3 DEF Open, Done, SetSessions
  <2>4. ~failed => TablesKept'
    BY <2>2, <2>3, SetSessionsKeepsTables
  <2> QED
    BY <2>1, <2>2, <2>3, <2>4, KeptWhenBusy, RestsListed, Different
<1>4. CASE Reset
  <2>1. /\ \A z \in Rests : At(z) <=> z = ToReset
        /\ \A z \in Rests : At(z)' <=> z = << >>
    BY <1>4, Flow, Nothing, RestsListed
  <2>2. /\ asked = [skip |-> asked.skip, stop |-> asked.stop, sessions |-> asked.sessions]
        /\ ~failed => /\ saved.mode = <<asked.skip, asked.stop>>
                      /\ asked.sessions = sessions /\ TablesKept /\ running = Effective
    BY <2>1, RestsListed, Different DEF Kept, Shapes, ModeKept, SessionsKept, TablesKept
  <2>3. /\ skip_queue' = saved.mode[1] /\ stop_after' = saved.mode[2]
        /\ UNCHANGED <<network, running, queue, asked, failed>>
    BY <1>4 DEF Reset, Done
  <2>4. Effective' = Effective /\ sessions' = sessions
    BY <2>3, AsParameters DEF network
  <2>5. ~failed => TablesKept'
    BY <2>2, <2>3, <2>4, TablesKeptByNone
  <2>6. ~failed => skip_queue' = asked.skip /\ stop_after' = asked.stop
    BY <2>2, <2>3
  <2> QED
    BY <2>1, <2>2, <2>3, <2>4, <2>5, <2>6, KeptWhenIdle
<1> QED
  BY <1>1, <1>2, <1>3, <1>4

LEMMA RemoveRouterKept ==
  ASSUME Placed, Phased, Kept, Leave \/ Drop \/ Remove
  PROVE  Kept'
<1>1. PICK x \in {ToLeave, ToRemove} : \A z \in Rests : At(z) <=> z = x
  BY Flow, Nothing, RestsListed, Different
<1>2. /\ asked = [skip |-> asked.skip, stop |-> asked.stop, sessions |-> asked.sessions]
      /\ saved = [args |-> saved.args, mode |-> saved.mode, sessions |-> saved.sessions]
      /\ ~failed => /\ saved.mode = <<asked.skip, asked.stop>>
                    /\ asked.sessions = {p \in sessions : Target \notin p}
                    /\ TablesKept /\ running = Effective
  BY <1>1, RestsListed, Different DEF Kept, Shapes, ModeKept, SessionsKept, TablesKept
<1>3. UNCHANGED <<saved, asked, failed, Target>>
  BY DEF Leave, Drop, Remove, Done, Target
<1>4. CASE Leave
  <2> DEFINE old == {p \in routed : Target \notin p}
  <2>1. /\ Reroute(queue, old, TRUE) /\ sessions' = sessions /\ Present' = Present
        /\ \A p \in links' : p \subseteq Present
        /\ \A p \in old : p \subseteq Present
    BY <1>4 DEF Leave, Present, Placed
  <2> HIDE DEF old
  <2>2. TablesKept'
    BY <2>1, RerouteFacts DEF TablesKept
  <2>3. \A z \in Rests : At(z)' <=> z = ToRemove
    BY <1>4, Flow, Nothing, RestsListed
  <2> QED
    BY <1>2, <1>3, <2>1, <2>2, <2>3, KeptWhenBusy, RestsListed, Different
<1>5. CASE Drop
  <2>1. PICK p \in sessions : Target \in p /\ SetSessions(sessions \ {p})
    BY <1>5 DEF Drop
  <2>2. {q \in sessions' : Target \notin q} = {q \in sessions : Target \notin q}
    BY <2>1 DEF SetSessions
  <2>3. \A z \in Rests : At(z)' <=> z = ToRemove
    BY <1>5, Flow, Nothing, RestsListed
  <2>4. ~failed => TablesKept'
    BY <1>2, <2>1, SetSessionsKeepsTables
  <2> QED
    BY <1>2, <1>3, <2>2, <2>3, <2>4, KeptWhenBusy, RestsListed, Different
<1>6. CASE Remove
  <2>1. /\ UNCHANGED <<links, routed, sessions, running, queue>>
        /\ asn' = [r \in Present \ {Target} |-> asn[r]]
        /\ \A p \in sessions : Target \notin p
    BY <1>6 DEF Remove
  <2>2. At(ToRemove)
    BY <1>6, Flow DEF Goes
  <2>3. \A p \in links \cup routed : p \subseteq DOMAIN asn'
    BY <2>1, <2>2 DEF Phased, Placed, Present
  <2>4. /\ DOMAIN asn' \subseteq DOMAIN asn /\ DOMAIN asn \subseteq DOMAIN asn' \cup {Target}
        /\ \A z \in DOMAIN asn' : asn[z] = asn'[z]
        /\ \A l \in links : l \subseteq DOMAIN asn'
        /\ \A p \in routed : p \subseteq DOMAIN asn'
    BY <2>1, <2>3 DEF Present
  <2> DEFINE gone == Target
                f == asn'
  <2> HIDE DEF gone, f
  <2>5. ConvergedFor(asn, links) = ConvergedFor(f, links)
    <3>1. /\ DOMAIN f \subseteq DOMAIN asn /\ DOMAIN asn \subseteq DOMAIN f \cup {gone}
          /\ \A z \in DOMAIN f : asn[z] = f[z]
          /\ \A l \in links : l \subseteq DOMAIN f
      BY <2>4 DEF f, gone
    <3> QED
      BY ONLY <3>1, IsolatedRouter
  <2>6. EffectiveFor(asn, links, routed, sessions) = EffectiveFor(f, links, routed, sessions)
    BY <2>4, IsolatedSessions DEF f
  <2>7. ~failed => TablesKept'
    BY <1>2, <2>1, <2>5, <2>6, AsParameters DEF TablesKept, f
  <2>8. {q \in sessions : Target \notin q} = sessions
    BY <2>1
  <2>9. \A z \in Rests : At(z)' <=> z = ToReset
    BY <1>6, Flow, Nothing, RestsListed
  <2> QED
    BY <1>2, <1>3, <2>1, <2>7, <2>8, <2>9, KeptWhenBusy, RestsListed, Different
<1> QED
  BY <1>4, <1>5, <1>6
(* A simulation changes neither what is left of the operation nor the      *)
(* mode, unless it fails.                                                  *)
LEMMA KeptBySimulation ==
  ASSUME Kept, NEW x \in Rests,
         \A z \in Rests : (At(z) <=> z = x) /\ (At(z)' <=> z = x),
         UNCHANGED <<asked, saved, failed, mode, sessions>>, TablesKept => TablesKept'
  PROVE  Kept'
<1>1. Shapes'
  BY RestsListed DEF Kept, Shapes
<1>2. ~failed' => ModeKept'
  BY RestsListed DEF Kept, ModeKept, mode
<1>3. Target' = Target
  BY DEF Target
<1>4. ~failed' => SessionsKept'
  BY <1>3, RestsListed DEF Kept, SessionsKept
<1> QED
  BY <1>1, <1>2, <1>4 DEF Kept

LEMMA SimulationKept ==
  ASSUME Placed, Phased, Kept,
         DoQueueMaybeSkip \/ Start \/ Step \/ GiveUp \/ TriggerTimeout \/ Return
  PROVE  Kept'
<1>1. PICK x \in Rests : Simulating(x) /\ At(x)
  BY DoingFacts DEF DoQueueMaybeSkip, Start, Step, GiveUp, TriggerTimeout, Return, At
<1>2. /\ \A z \in Rests : At(z) <=> z = x
      /\ todo # << >> /\ Tail(todo) = x
  BY <1>1, OnePhase DEF Simulating
<1>3. At(x)' => \A z \in Rests : (At(z) <=> z = x) /\ (At(z)' <=> z = x)
  BY <1>2, OnePhase
<1>4. CASE DoQueueMaybeSkip \/ Start \/ TriggerTimeout \/ Return
  <2>1. /\ UNCHANGED <<network, running, asked, saved, failed, mode>>
        /\ queue \subseteq queue'
    BY <1>4 DEF DoQueueMaybeSkip, Start, TriggerTimeout, Return, Done
  <2>2. At(x)'
    <3>1. CASE DoQueueMaybeSkip \/ Start
      <4>1. todo' = << >> \o x \/ \E w \in {"simulate", "loop"} : todo' = <<w>> \o x
        BY <1>2, <3>1 DEF DoQueueMaybeSkip, Start
      <4>2. << >> \o x = x
        BY RestsAreSequences
      <4> QED
        BY <4>1, <4>2, Waiting DEF At, Simulating
    <3>2. CASE TriggerTimeout
      BY <1>1, <3>2 DEF TriggerTimeout, At, Simulating
    <3>3. CASE Return
      BY <1>2, <3>3 DEF Return, Done, At
    <3> QED
      BY <1>4, <3>1, <3>2, <3>3
  <2>3. Effective' = Effective /\ sessions' = sessions
    BY <2>1, AsParameters DEF network
  <2>4. TablesKept => TablesKept'
    <3>1. At(ToOpen)' <=> At(ToOpen)
      BY <1>3, <2>2, RestsListed
    <3> QED
      BY <2>1, <2>3, <3>1, TablesKeptByNone DEF TablesKept
  <2> QED
    BY <1>3, <2>1, <2>2, <2>3, <2>4, KeptBySimulation
<1>5. CASE Step
  <2>1. PICK e \in queue : IF e.dst \in Present THEN HandleEvent(e) ELSE LoseEvent(e)
    BY <1>5 DEF Step
  <2>2. HandleEvent(e)
    BY <2>1 DEF Placed, EventsAddressed
  <2>3. UNCHANGED <<todo, asked, saved, failed, mode>>
    BY <2>2 DEF HandleEvent, Spend
  <2>4. At(x)' /\ (At(ToOpen)' <=> At(ToOpen))
    BY <1>1, <2>3 DEF At, Simulating
  <2>5. sessions' = sessions
    BY <2>2 DEF HandleEvent, network
  <2>6. ASSUME TablesKept
        PROVE  TablesKept'
    <3>1. CASE e.kind = "bgp" /\ UNCHANGED <<network, running>>
               /\ Enqueue(queue \ {e}, IF {e.src, e.dst} \in running
                                      THEN BgpEvents({e.dst}, running) ELSE {})
      <4>1. queue \ {e} \subseteq queue'
        BY <3>1, EnqueueFacts
      <4>2. Converged' = Converged /\ Effective' = Effective
        BY <3>1, AsParameters DEF network
      <4> QED
        BY <2>4, <2>6, <3>1, <4>1, <4>2 DEF TablesKept, network
    <3>2. CASE UNCHANGED <<asn, links, sessions>> /\ Reroute(queue \ {e}, routed, TRUE)
      BY <3>2 DEF Reroute, TablesKept
    <3> QED
      BY <2>2, <3>1, <3>2 DEF HandleEvent
  <2> QED
    BY <1>3, <2>3, <2>4, <2>5, <2>6, KeptBySimulation
<1>6. CASE GiveUp
  <2>1. todo' = << >> /\ failed' /\ asked' = asked
    BY <1>6 DEF GiveUp, Fail
  <2>2. At(<< >>)'
    BY <2>1 DEF At
  <2>3. \A z \in Rests : At(z)' <=> z = << >>
    BY <2>2, OnePhase, RestsListed
  <2>4. asked = [skip |-> asked.skip, stop |-> asked.stop, sessions |-> asked.sessions]
    BY DEF Kept, Shapes
  <2> QED
    BY <2>1, <2>3, <2>4, KeptWhenIdle
<1> QED
  BY <1>4, <1>5, <1>6

LEMMA StaysKept ==
  ASSUME Placed, Phased, Kept, [Next]_vars
  PROVE  Kept'
<1>1. CASE SetMode \/ Simulate \/ AddRouter \/ SetLink \/ SetBgpSession \/ UpdateRoutes
  BY <1>1, UserKept
<1>2. CASE SetAsn \/ RemoveRouter
  BY <1>2, BeginKept
<1>3. CASE Close \/ Move \/ Open \/ Reset
  BY <1>3, SetAsnKept
<1>4. CASE Leave \/ Drop \/ Remove
  BY <1>4, RemoveRouterKept
<1>5. CASE DoQueueMaybeSkip \/ Start \/ Step \/ GiveUp \/ TriggerTimeout \/ Return
  BY <1>5, SimulationKept
<1>6. CASE UNCHANGED vars
  <2>1. UNCHANGED <<network, running, queue, todo, asked, saved, failed, mode>>
    BY <1>6 DEF vars, network, mode
  <2>2. Converged' = Converged /\ Effective' = Effective
    BY <2>1, AsParameters DEF network
  <2>3. \A z : At(z)' <=> At(z)
    BY <2>1 DEF At, Simulating
  <2>4. PICK x \in Rests : At(x)
    BY DEF Phased
  <2>5. \A z \in Rests : (At(z) <=> z = x) /\ (At(z)' <=> z = x)
    BY <2>3, <2>4, OnePhase
  <2>6. TablesKept => TablesKept'
    BY <2>1, <2>2, <2>3 DEF TablesKept, network
  <2> QED
    BY <2>1, <2>5, <2>6, KeptBySimulation DEF network
<1> QED
  BY <1>1, <1>2, <1>3, <1>4, <1>5, <1>6 DEF Next

LEMMA KeptIsComplete ==
  ASSUME Kept
  PROVE  OperationsComplete
<1> SUFFICES ASSUME todo = << >>, ~failed
             PROVE  /\ asked = [skip |-> skip_queue, stop |-> stop_after, sessions |-> sessions]
                    /\ queue = {} => running = {p \in sessions : p \subseteq Present /\
                         IF SameAs(p) THEN p \in Converged ELSE p \in links}
  BY DEF OperationsComplete
<1>1. \A z \in Rests : At(z) <=> z = << >>
  BY OnePhase, RestsListed DEF At
<1>2. Shapes /\ ModeKept /\ SessionsKept /\ TablesKept
  BY DEF Kept
<1>3. asked = [skip |-> skip_queue, stop |-> stop_after, sessions |-> sessions]
  BY <1>1, <1>2, RestsListed DEF Shapes, ModeKept, SessionsKept
<1>4. running = Effective /\ (queue = {} => routed = Converged)
  BY <1>1, <1>2, RestsListed, Different DEF TablesKept
<1> QED
  BY <1>3, <1>4 DEF Effective, Reachable

(* Whatever operations the user has called, as long as none has failed:    *)
(* between them the mode, the limit and the sessions are what the user     *)
(* asked for, also after set_asn and remove_router, and in a network       *)
(* without events those sessions run whose routers reach each other.       *)
THEOREM OperationsAreComplete == Spec => []OperationsComplete
<1>1. Init => Placed /\ Phased /\ Kept
  BY Initially, KeptInitially
<1>2. Placed /\ Phased /\ Kept /\ [Next]_vars => Placed' /\ Phased' /\ Kept'
  BY Keeps, StaysKept
<1>3. Kept => OperationsComplete
  BY KeptIsComplete
<1> QED
  BY <1>1, <1>2, <1>3, PTL DEF Spec
=============================================================================
