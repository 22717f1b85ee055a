---------------------------- MODULE Connections ----------------------------
(***************************************************************************)
(* What the SDK keeps over a WebSocket: WebSocketTransport                 *)
(* (src/transport/websocket.ts), which matches replies to requests by id,  *)
(* and RealtimeSession (src/realtime/index.ts), which remembers whether it *)
(* is connected.  Both may hold one socket while handlers of earlier ones  *)
(* still fire.  The socket itself is external: it opens or fails, closes   *)
(* on either side's wish, and a close() before it opened fails it later.   *)
(***************************************************************************)
EXTENDS Naturals, FiniteSets

CONSTANTS
  MaxSockets,  \* bound on the sockets made
  Requests     \* the calls of request(), numbered by _counter

ASSUME SocketsAssumption == MaxSockets \in Nat

Sockets == 1..MaxSockets

VARIABLES
  holder,     \* which of the two classes this behaviour is of
  socket,     \* [Sockets -> readyState], "failing" if closed before it opened
  current,    \* _ws, or 0 for null
  pending,    \* _pending
  request,    \* [Requests -> the promise and the socket it was sent on]
  connected,  \* _connected
  connect,    \* by socket, the connect() that made it
  doubled     \* history: a connect() came while an earlier socket was not closed

connectionVars == <<holder, socket, current, pending, request, connected, connect, doubled>>

transportFields == <<pending, request>>
sessionFields == <<connected, connect, doubled>>

ConnectionsInit ==
  /\ holder \in {"transport", "session"}
  /\ socket = [s \in Sockets |-> "none"]
  /\ current = 0
  /\ pending = {}
  /\ request = [r \in Requests |-> [phase |-> "new", on |-> 0, unbuilt |-> FALSE]]
  /\ connected = FALSE
  /\ connect = [s \in Sockets |-> [phase |-> "none", polling |-> FALSE, saw |-> FALSE, ready |-> FALSE]]
  /\ doubled = FALSE

ConnectionsTypeOK ==
  /\ holder \in {"transport", "session"}
  /\ socket \in [Sockets -> {"none", "connecting", "open", "closing", "failing", "closed"}]
  /\ current \in 0..MaxSockets
  /\ pending \subseteq Requests
  /\ request \in [Requests -> [phase : {"new", "waiting", "refused", "resolved", "rejected"},
                               on : 0..MaxSockets, unbuilt : BOOLEAN]]
  /\ connected \in BOOLEAN
  /\ connect \in [Sockets -> [phase : {"none", "waiting", "resolved", "rejected"},
                              polling : BOOLEAN, saw : BOOLEAN, ready : BOOLEAN]]
  /\ doubled \in BOOLEAN

OpenNow == {s \in Sockets : socket[s] = "open"}
Alive == {s \in Sockets : socket[s] \in {"open", "closing"}}

(* new WebSocket(): the next one.                                          *)
Makes(s) == socket[s] = "none" /\ \A t \in Sockets : t < s => socket[t] # "none"

(* Every pending promise rejects; those already settled stay as they are.  *)
AllRejected ==
  [r \in Requests |-> IF r \in pending /\ request[r].phase = "waiting"
                      THEN [request[r] EXCEPT !.phase = "rejected"] ELSE request[r]]

----------------------------------------------------------------------------
(* onopen.  A session configures _ws if that is open.                      *)
Opens(s) ==
  /\ socket[s] = "connecting"
  /\ socket' = [socket EXCEPT ![s] = "open"]
  /\ IF holder = "session"
     THEN /\ connected' = TRUE
          /\ connect' = IF current \in OpenNow \cup {s}
                        THEN [connect EXCEPT ![current].ready = TRUE] ELSE connect
          /\ UNCHANGED doubled
     ELSE UNCHANGED sessionFields
  /\ UNCHANGED <<holder, current, transportFields>>

(* Mutant: only the requests of the failed socket reject.                  *)
ErrorRejectsOwn(s) ==
  /\ IF holder = "transport"
     THEN /\ request' = [r \in Requests |-> IF request[r].on = s THEN AllRejected[r] ELSE request[r]]
          /\ pending' = {}
     ELSE UNCHANGED transportFields
  /\ UNCHANGED <<holder, current, connect, doubled>>

(* onerror, which ends the socket: the transport rejects all it waits for, *)
(* on whatever socket; the session only emits an event.                    *)
OnError(s) ==
  /\ IF holder = "transport"
     THEN request' = AllRejected /\ pending' = {}
     ELSE UNCHANGED transportFields
  /\ UNCHANGED <<holder, current, connect, doubled>>

(* onclose, which the transport does not listen to.                        *)
OnClose(s) ==
  /\ socket' = [socket EXCEPT ![s] = "closed"]
  /\ connected' = FALSE

SocketFails(s) ==
  /\ socket[s] \in {"connecting", "open", "failing"}
  /\ OnError(s)
  /\ OnClose(s)

PeerCloses(s) ==
  /\ socket[s] = "open"
  /\ socket' = [socket EXCEPT ![s] = "closing"]
  /\ UNCHANGED <<holder, current, transportFields, sessionFields>>

SocketCloses(s) ==
  /\ socket[s] = "closing"
  /\ OnClose(s)
  /\ UNCHANGED <<holder, current, transportFields, connect, doubled>>

(* WebSocket.close().                                                      *)
ClosedBySelf == [socket EXCEPT ![current] =
  CASE @ = "connecting" -> "failing" [] @ = "open" -> "closing" [] OTHER -> @]

----------------------------------------------------------------------------
(* request(): sent on an open _ws.  Otherwise a new socket is made, and    *)
(* send() throws for it is connecting: the promise rejects, with its entry *)
(* left in _pending.                                                       *)
RequestOver(r) ==
  /\ holder = "transport"
  /\ request[r].phase = "new" /\ \A q \in Requests : q < r => request[q].phase # "new"
  /\ \/ /\ current \in OpenNow
        /\ request' = [request EXCEPT ![r] = [@ EXCEPT !.phase = "waiting", !.on = current]]
        /\ UNCHANGED <<socket, current>>
     \/ /\ current \notin OpenNow
        /\ \E s \in Sockets :
             /\ Makes(s)
             /\ socket' = [socket EXCEPT ![s] = "connecting"]
             /\ current' = s
        /\ request' = [request EXCEPT ![r].phase = "refused"]
  /\ pending' = pending \cup {r}
  /\ UNCHANGED <<holder, sessionFields>>

(* onmessage: a reply finds its request by id.  The entry is gone before   *)
(* the Response is built, which throws for a status that may not have a    *)
(* body or is none; the error is swallowed.                                *)
Replies(r, buildable) ==
  /\ request[r].on \in Alive
  /\ r \in pending
  /\ pending' = pending \ {r}
  /\ request' = [request EXCEPT ![r].phase = IF buildable THEN "resolved" ELSE @,
                                ![r].unbuilt = ~buildable]
  /\ UNCHANGED <<holder, socket, current, sessionFields>>

AbortSockets ==
  /\ holder = "transport"
  /\ current # 0 \/ pending # {}
  /\ socket' = IF current # 0 THEN ClosedBySelf ELSE socket
  /\ current' = 0
  /\ request' = AllRejected
  /\ pending' = {}
  /\ UNCHANGED <<holder, sessionFields>>

----------------------------------------------------------------------------
(* connect(), whether or not there is a socket already.                    *)
Connect(s) ==
  /\ holder = "session"
  /\ Makes(s)
  /\ socket' = [socket EXCEPT ![s] = "connecting"]
  /\ current' = s
  /\ connect' = [connect EXCEPT ![s].phase = "waiting", ![s].polling = TRUE]
  /\ doubled' = (doubled \/ \E t \in Sockets : socket[t] \notin {"none", "closed"})
  /\ UNCHANGED <<holder, transportFields, connected>>

(* The interval: it sees _connected, whichever socket that is of.          *)
SeesConnected(s) ==
  /\ connect[s].polling
  /\ connected
  /\ connect' = [connect EXCEPT ![s].polling = FALSE,
       ![s].phase = IF @ = "waiting" THEN "resolved" ELSE @,
       ![s].saw = IF connect[s].phase = "waiting" THEN Alive # {} ELSE @]
  /\ UNCHANGED <<holder, socket, current, transportFields, connected, doubled>>

(* After 30 s; the interval goes on.                                       *)
ConnectTimesOut(s) ==
  /\ connect[s].phase = "waiting"
  /\ connect' = [connect EXCEPT ![s].phase = "rejected"]
  /\ UNCHANGED <<holder, socket, current, transportFields, connected, doubled>>

(* "session.deleted" from the peer.                                        *)
SessionDeleted(s) ==
  /\ holder = "session" /\ s \in Alive
  /\ connected' = FALSE
  /\ UNCHANGED <<holder, socket, current, transportFields, connect, doubled>>

CloseSession ==
  /\ holder = "session"
  /\ current # 0
  /\ socket' = ClosedBySelf
  /\ current' = 0
  /\ connected' = FALSE
  /\ UNCHANGED <<holder, transportFields, connect, doubled>>

ConnectionsNext ==
  \/ \E s \in Sockets :
       \/ Opens(s) \/ SocketFails(s) \/ PeerCloses(s) \/ SocketCloses(s)
       \/ Connect(s) \/ SeesConnected(s) \/ ConnectTimesOut(s) \/ SessionDeleted(s)
  \/ \E r \in Requests : RequestOver(r) \/ \E buildable \in BOOLEAN : Replies(r, buildable)
  \/ AbortSockets \/ CloseSession

ConnectionsSpec == ConnectionsInit /\ [][ConnectionsNext]_connectionVars

----------------------------------------------------------------------------
(* A request whose promise is open can still be found by its reply, by an  *)
(* error and by abort(), unless its reply came and no Response could be    *)
(* built of it; and _pending keeps nothing else but what a connecting      *)
(* socket refused.                                                         *)
RepliesMatched ==
  \A r \in Requests :
    /\ request[r].phase = "waiting" => (r \in pending <=> ~request[r].unbuilt)
    /\ r \in pending => request[r].phase \in {"waiting", "refused"}

(* A session that says it is connected has a socket that opened and has    *)
(* not closed, which is _ws, where sends go, until two connect() overlap;  *)
(* some socket was there for every connect() that resolved; and a _ws that *)
(* is open has been configured.                                            *)
SessionTruthful ==
  /\ connected => Alive # {} /\ (doubled \/ current \in Alive)
  /\ \A s \in Sockets : connect[s].phase = "resolved" => connect[s].saw
  /\ holder = "session" /\ current \in Alive => connect[current].ready
============================================================================
