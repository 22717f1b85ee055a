------------------------------ MODULE Services ------------------------------
(***************************************************************************)
(* The components around the request pipelines, as one specification.      *)
(* They share no state: each is made by the application on its own, and an *)
(* effect of one on another passes through the application.  A behaviour   *)
(* runs one of them and leaves the others at rest.                         *)
(***************************************************************************)
EXTENDS AgentLoop, AdapterStreams, Credentials, Plugins,
        Authorization, Routes, Replay, MultiModal, Routing, Monitors, Observers, Middlewares,
        Retrieval

VARIABLE part  \* the component of this behaviour

services ==
  <<part, agentVars, adapterVars, oidcVars, pluginVars, accessVars,
    routeVars, replayVars, unaryVars, routingVars, monitorVars, observerVars,
    middlewareVars, retrievalVars>>

Parts == {"agents", "adapters", "credentials", "plugins", "access",
          "routes", "replay", "unary", "routing", "monitors", "observers", "middlewares", "retrieval"}

(* A component at rest stands in one of its initial states.                *)
AgentsRest ==
  /\ agent = ReAct
  /\ limits \in {[base |-> p, narrower |-> p] : p \in {CHOOSE p \in ToolInputs : p.allow \cup p.deny = {}}}
  /\ budget = {}
  /\ handler = FALSE
  /\ aborted = FALSE

AdaptersRest ==
  /\ adapter = Perplexity
  /\ answer = [i \in Blocks |-> [kind |-> "text", size |-> 1]]

AccessRest ==
  /\ policy = CHOOSE p \in RolePolicies : TRUE
  /\ strict = FALSE
  /\ purseful = FALSE

RoutesRest == route = NextChat /\ trusting = FALSE

UnaryRest == asked = [method |-> {}, network |-> TRUE]

ServicesInit ==
  /\ part \in Parts
  /\ part # "agents" => AgentsRest
  /\ AgentInit
  /\ part # "adapters" => AdaptersRest
  /\ AdapterInit
  /\ OidcInit
  /\ PluginsInit
  /\ part # "access" => AccessRest
  /\ AuthorizationInit
  /\ part # "routes" => RoutesRest
  /\ RoutesInit
  /\ part # "replay" => profile = "v1"
  /\ ReplayInit
  /\ part # "unary" => UnaryRest
  /\ MultiModalInit
  /\ RoutingInit
  /\ part # "monitors" => watching = "costs"
  /\ MonitorsInit
  /\ ObserversInit
  /\ part # "middlewares" => chain = CHOOSE stages \in Chains : TRUE
  /\ MiddlewaresInit
  /\ part # "retrieval" => metric = "cosine"
  /\ RetrievalInit

(* The others wait.                                                        *)
Only(p) ==
  /\ part = p
  /\ UNCHANGED part
  /\ p # "agents" => UNCHANGED agentVars
  /\ p # "adapters" => UNCHANGED adapterVars
  /\ p # "credentials" => UNCHANGED oidcVars
  /\ p # "plugins" => UNCHANGED pluginVars
  /\ p # "access" => UNCHANGED accessVars
  /\ p # "routes" => UNCHANGED routeVars
  /\ p # "replay" => UNCHANGED replayVars
  /\ p # "unary" => UNCHANGED unaryVars
  /\ p # "routing" => UNCHANGED routingVars
  /\ p # "monitors" => UNCHANGED monitorVars
  /\ p # "observers" => UNCHANGED observerVars
  /\ p # "middlewares" => UNCHANGED middlewareVars
  /\ p # "retrieval" => UNCHANGED retrievalVars

ServicesNext ==
  \/ Only("agents") /\ AgentNext
  \/ Only("adapters") /\ AdapterNext
  \/ Only("credentials") /\ OidcNext
  \/ Only("plugins") /\ PluginsNext
  \/ Only("access") /\ AuthorizationNext
  \/ Only("routes") /\ RoutesNext
  \/ Only("replay") /\ ReplayNext
  \/ Only("unary") /\ MultiModalNext
  \/ Only("routing") /\ RoutingNext
  \/ Only("monitors") /\ MonitorsNext
  \/ Only("observers") /\ ObserversNext
  \/ Only("middlewares") /\ MiddlewaresNext
  \/ Only("retrieval") /\ RetrievalNext

ServicesSpec == ServicesInit /\ [][ServicesNext]_services

(* Every component's state stays in its type.                              *)
ServicesTypeOK ==
  /\ AgentTypeOK
  /\ AdapterTypeOK
  /\ OidcTypeOK
  /\ PluginsTypeOK
  /\ AuthorizationTypeOK
  /\ RoutesTypeOK
  /\ ReplayTypeOK
  /\ MultiModalTypeOK
  /\ RoutingTypeOK
  /\ MonitorsTypeOK
  /\ ObserversTypeOK
  /\ MiddlewaresTypeOK
  /\ RetrievalTypeOK

(* What src/features/agent promises of one run: the tools it executes are  *)
(* those its permissions allow, and little is done once it must stop.      *)
AgentsGoverned == ToolsGoverned /\ WorkAfterStopBounded

(* What src/security promises of the requests it admits: what is let       *)
(* through a policy allows, neither a rate nor a session's purse is        *)
(* overdrawn, and a message is accepted twice only once its id may be      *)
(* forgotten.                                                              *)
AccessGoverned == AllowedByPolicy /\ LimitsHold /\ ReplayBounded

(* What the client makes of one call, from the model it asks to the stages *)
(* it passes: routing, the unary methods and the middlewares.              *)
ClientCalls == RoutingSound /\ UnaryCallsAccounted /\ StagesKept

(* What the application is told of what happened: alerts, breaches, events.*)
ObservationTruthful == MonitorsTimely /\ ObserversTruthful
============================================================================
