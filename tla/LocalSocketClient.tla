------------------------- MODULE LocalSocketClient -------------------------
(***************************************************************************)
(* The in-process socket bridge, native/localsocketclient.cpp: one         *)
(* newline-terminated request over a fresh QLocalSocket connection, one    *)
(* answer line, a 4 s single-shot timeout, and exactly one of the signals  *)
(* responseReceived and transportError.                                    *)
(*                                                                         *)
(* Qt delivers socket and timer events from the event loop, so each slot   *)
(* is one action; what Qt does inside a call (connectToServer may connect  *)
(* or fail before it returns, abort and disconnectFromServer close the     *)
(* descriptor) is part of the action that makes the call.  A signal is a   *)
(* direct call of the handlers: an action that emits one is conjoined, in  *)
(* BackendProvider.tla, with what every handler does.                      *)
(***************************************************************************)
CONSTANTS
  Requests,     \* request lines: non-empty and at most 4096 characters
  NoRequest,    \* m_pendingRequest is empty
  Paths         \* socket paths

ASSUME RequestsAssumption == NoRequest \notin Requests /\ Paths # {}

VARIABLES
  busy,         \* m_busy
  timer,        \* m_timeout is running
  pending,      \* m_pendingRequest
  response,     \* m_response: "empty", "partial" (no newline yet) or "line"
  delivered,    \* m_responseDelivered
  socket,       \* m_socket.state()
  wire,         \* the request written on the current connection
  path          \* m_socketPath

clientVars == <<busy, timer, pending, response, delivered, socket, wire, path>>

ClientTypeOK ==
  /\ busy \in BOOLEAN
  /\ timer \in BOOLEAN
  /\ pending \in Requests \cup {NoRequest}
  /\ response \in {"empty", "partial", "line"}
  /\ delivered \in BOOLEAN
  /\ socket \in {"unconnected", "connecting", "connected"}
  /\ wire \in Requests \cup {NoRequest}
  /\ path \in Paths

ClientInit ==
  /\ busy = FALSE
  /\ timer = FALSE
  /\ pending = NoRequest
  /\ response = "empty"
  /\ delivered = FALSE
  /\ socket = "unconnected"
  /\ wire = NoRequest
  /\ path \in Paths

----------------------------------------------------------------------------
(* The pieces the slots are made of.                                       *)

Abort == socket' = "unconnected" /\ wire' = NoRequest

ResetRequest ==
  /\ timer' = FALSE
  /\ pending' = NoRequest
  /\ response' = "empty"
  /\ delivered' = FALSE
  /\ busy' = FALSE

\* Mutants: fail() without abort(); fail() without resetRequest().
FailKeepsSocket == ResetRequest /\ UNCHANGED <<socket, wire, path>>
FailKeepsRequest ==
  Abort /\ timer' = FALSE /\ UNCHANGED <<busy, pending, response, delivered, path>>

\* Emits transportError.  abort() may emit disconnected, which is ignored
\* because busy is already false.
Fail == Abort /\ ResetRequest /\ UNCHANGED path

----------------------------------------------------------------------------
(* request(): refused, with no effect, while busy.  An accepted request    *)
(* aborts whatever the socket still does and connects; a local connect     *)
(* succeeds at once, has to wait for the listener, or fails at once, which *)
(* runs fail() and its transportError before request() returns true.       *)

Accept(r) ==
  /\ ~busy
  /\ pending' = r
  /\ response' = "empty"
  /\ delivered' = FALSE
  /\ busy' = TRUE
  /\ timer' = TRUE
  /\ UNCHANGED path

RequestConnects(r) == Accept(r) /\ socket' = "connected" /\ wire' = r

RequestWaits(r) == Accept(r) /\ socket' = "connecting" /\ wire' = NoRequest

RequestFails(r) == r \in Requests /\ ~busy /\ Fail

----------------------------------------------------------------------------
(* The slots.                                                              *)

HandleConnected ==
  /\ socket = "connecting"
  /\ socket' = "connected"
  /\ wire' = pending
  /\ UNCHANGED <<busy, timer, pending, response, delivered, path>>

\* Mutant: the kept bytes are marked as if the line were complete.
HandleReadyReadMarks ==
  /\ socket = "connected"
  /\ response' = "newline"
  /\ UNCHANGED <<busy, timer, pending, delivered, socket, wire, path>>

\* Bytes without a newline: kept, the timeout is not restarted.
HandleReadyReadPartial ==
  /\ socket = "connected"
  /\ response # "line"
  /\ response' = "partial"
  /\ UNCHANGED <<busy, timer, pending, delivered, socket, wire, path>>

\* The answer to wire is complete: emits responseReceived.
HandleReadyReadLine ==
  /\ socket = "connected"
  /\ response' = "line"
  /\ delivered' = TRUE
  /\ timer' = FALSE
  /\ busy' = FALSE
  /\ Abort
  /\ UNCHANGED <<pending, path>>

\* More than 4 MiB arrived: emits transportError.
HandleReadyReadTooLarge ==
  /\ socket = "connected"
  /\ response # "line"
  /\ Fail

\* The connection ended before a line: emits transportError.
HandleDisconnected == socket = "connected" /\ busy /\ ~delivered /\ Fail

\* Refused, reset or closed by the peer: emits transportError.
HandleSocketError == socket # "unconnected" /\ busy /\ Fail

HandleTimeout == timer /\ busy /\ Fail

\* A new path abandons the request with no signal at all.
SetSocketPath(p) ==
  /\ p # path
  /\ path' = p
  /\ IF busy
       THEN ResetRequest /\ Abort
       ELSE UNCHANGED <<busy, timer, pending, response, delivered, socket, wire>>

\* Every way a request ends in transportError.
TransportFailure ==
  \/ HandleReadyReadTooLarge
  \/ HandleDisconnected
  \/ HandleSocketError
  \/ HandleTimeout

ClientNext ==
  \/ \E r \in Requests : RequestConnects(r) \/ RequestWaits(r) \/ RequestFails(r)
  \/ HandleConnected
  \/ HandleReadyReadPartial
  \/ HandleReadyReadLine
  \/ TransportFailure
  \/ \E p \in Paths : SetSocketPath(p)

\* The timer is Qt's: it fires if nothing stops it.
ClientSpec == ClientInit /\ [][ClientNext]_clientVars /\ WF_clientVars(HandleTimeout)

----------------------------------------------------------------------------
(* Properties.                                                             *)

\* The timeout runs exactly while a request is out, so that no request can
\* wait for ever and no old timeout can end a later request.
TimeoutCoversRequest == timer <=> busy

\* An open connection carries nothing but the request that is out: an answer
\* that arrives answers it, also after timeouts and aborted connections.
AnswerIsForPending ==
  /\ socket # "unconnected" => busy /\ ~delivered
  /\ socket = "connected" => wire = pending /\ pending \in Requests

\* The bridge is the line of RequestLine.tla with a single user.
Line == INSTANCE RequestLine
          WITH Users <- {"bridge"}, holder <- IF busy THEN {"bridge"} ELSE {}

\* It serves one request at a time and gives every one back.
ServesOneAtATime == Line!Spec
============================================================================
