--------------------------------- MODULE Ospf ---------------------------------
(***************************************************************************)
(* OSPF of a domain, by either implementation of OspfImpl: the processes   *)
(* of local OSPF, or the coordinator of global OSPF.  A converged domain   *)
(* may change from one to the other (Network::swap_ospf).                  *)
(***************************************************************************)
EXTENDS LocalOspf, OspfConversion

CONSTANTS
  Topologies,    \* the domains that start with global OSPF, as in OspfOracle
  Operations,    \* the operations of a domain that runs global OSPF
  Conversions    \* the domains that start as local OSPF made from global
                 \* OSPF: scenarios, as in LocalOspf

ASSUME ConversionAssumption == \A t \in Conversions : IsScenario(t)

VARIABLES
  implementation,   \* "local" or "global"
  g                 \* the coordinator of global OSPF

allvars == <<vars, implementation, g>>

Global == INSTANCE OspfOracle

(* Nothing is left of the implementation that is not in use. *)
NoChannels == [a \in Routers |-> [b \in Routers |-> << >>]]

LocalUnused ==
  /\ procs = [r \in Routers |-> NewProcess(r)]
  /\ chan = NoChannels
  /\ script = << >>
  /\ settled = FALSE

(* into_local_ospf, of a domain that global OSPF has just computed *)
InitConverted ==
  \E t \in Conversions :
    /\ procs = [r \in Routers |-> FromGlobal(Restarted(t.links, t.external), r)]
    /\ chan = NoChannels
    /\ links = t.links
    /\ external = t.external
    /\ script = t.script
    /\ settled = TRUE

OspfInit ==
  \/ implementation = "local" /\ g = NewCoordinator /\ (Init \/ InitConverted)
  \/ implementation = "global" /\ Global!Init /\ LocalUnused

LocalStep == Next /\ UNCHANGED <<implementation, g>>

GlobalStep == Global!Next /\ UNCHANGED <<procs, chan, script, settled, implementation>>

(* into_global_ospf, at the end of a script *)
IntoGlobalOspf ==
  /\ implementation = "local" /\ settled /\ script = << >>
  /\ Consistent(procs)
  /\ g' = IntoGlobal(procs)
  /\ implementation' = "global"
  /\ procs' = [r \in Routers |-> NewProcess(r)]
  /\ settled' = FALSE
  /\ UNCHANGED <<chan, links, external, script>>

OspfNext ==
  \/ implementation = "local" /\ LocalStep
  \/ implementation = "global" /\ GlobalStep
  \/ IntoGlobalOspf

OspfSpec == OspfInit /\ [][OspfNext]_allvars

FairOspfSpec == OspfSpec /\ (Fairness \/ <>(implementation = "global"))
===============================================================================
