------------------------------- MODULE Peers -------------------------------
(***************************************************************************)
(* The components that wait for a server: the hooks of a page, the fetch   *)
(* transport and what is kept over a socket.  They share no state.  A      *)
(* behaviour runs one of them and leaves the others at rest; what must     *)
(* happen whether or not the server answers is stated here.                *)
(***************************************************************************)
EXTENDS UIHooks, FetchTransport, Connections

VARIABLE peer  \* the component of this behaviour

peers == <<peer, hookVars, transportVars, connectionVars>>

PeersInit ==
  /\ peer \in {"hooks", "transport", "connections"}
  /\ peer # "hooks" => hook = Unguarded
  /\ HooksInit
  /\ TransportInit
  /\ peer # "connections" => holder = "session"
  /\ ConnectionsInit

(* The others wait.                                                        *)
Alone(p) ==
  /\ peer = p
  /\ UNCHANGED peer
  /\ p # "hooks" => UNCHANGED hookVars
  /\ p # "transport" => UNCHANGED transportVars
  /\ p # "connections" => UNCHANGED connectionVars

PeersNext ==
  \/ Alone("hooks") /\ HooksNext
  \/ Alone("transport") /\ TransportNext
  \/ Alone("connections") /\ ConnectionsNext

(* The browser settles an aborted fetch or read, a tool the page runs      *)
(* returns and settled promises are delivered; a server owes nothing, nor  *)
(* does the user.                                                          *)
PeersSpec ==
  /\ PeersInit
  /\ [][PeersNext]_peers
  /\ \A r \in Reqs : WF_peers(Alone("hooks") /\ (AbortLands(r) \/ ToolReturns(r)))
  /\ \A f \in Fetches : WF_peers(Alone("transport") /\ Settles(f))

(* Every component's state stays in its type.                              *)
PeersTypeOK == HooksTypeOK /\ TransportTypeOK /\ ConnectionsTypeOK

(* What the hooks of src/frameworks show is what goes on: isLoading, the   *)
(* controller that stop() aborts and the message a text is written to.     *)
HooksTruthful == LoadingTellsTruth /\ AnswersInPlace

(* What the transports keep of calls in flight is what is in flight: the   *)
(* pools of src/transport/fetch.ts, the entries of websocket.ts and the    *)
(* connection of a realtime session.                                       *)
TransportsAccounted == PoolAccounted /\ RepliesMatched /\ SessionTruthful
============================================================================
