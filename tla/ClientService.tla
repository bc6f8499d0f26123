---------------------------- MODULE ClientService ----------------------------
(***************************************************************************)
(* One client after the other in the backend process: the life of          *)
(* main.py's serve_forever with the socket calls of _serve_client and      *)
(* _read_request, the protocol and the GPU provider in full.  How the path *)
(* is taken is in BackendServer.tla and is one step here.                  *)
(*                                                                         *)
(* A client sends its line in pieces, may stop anywhere, by closing or by  *)
(* silence, and may never end it.  What follows the newline is not read.   *)
(***************************************************************************)
EXTENDS Protocol, GpuProvider

CONSTANTS
  ClientLines,  \* the lines that clients send
  Chunk         \* the most that one recv asks for, 1024

ASSUME ServiceAssumption ==
  /\ ClientLines \subseteq Lines
  /\ Chunk \in Nat \ {0}

VARIABLES
  stage,         \* where the process is
  halt,       \* _stop_event
  client,     \* the client's side of the connection
  got,        \* bytes that _read_request has
  ending,     \* why it stopped reading: "newline", "limit" or "gone"
  request,    \* what it returned
  response

serviceVars == <<stage, halt, client, got, ending, request, response, gpuVars>>

Connection == <<client, got, ending, request, response>>

ServiceInit ==
  /\ GpuInit
  /\ stage = "starting" /\ halt = FALSE
  /\ client \in [line : ClientLines, peer : {"user"}, sent : {0}, side : {"open"}]
  /\ got = 0 /\ ending = "none"
  /\ request = client.line /\ response = NoResponse

To(p) == stage' = p

----------------------------------------------------------------------------
(* The process.                                                            *)

\* BackendServer() makes the collector, which makes the GPU provider.
Construct ==
  /\ stage = "starting"
  /\ To("path")
  /\ Initialize \/ \E reason \in Failures : Unavailable(reason)
  /\ UNCHANGED <<halt, client, got, ending, request, response>>

\* The path is refused before the try, or bind, chmod or listen fails in it.
TakePath ==
  /\ stage = "path"
  /\ \E p \in {"refused", "closing", "waiting"} : To(p)
  /\ UNCHANGED halt /\ UNCHANGED Connection /\ UNCHANGED gpuVars

\* SIGTERM or SIGINT, once the handlers are installed.
HaltService ==
  /\ stage \notin {"starting", "refused", "exited"} /\ ~halt
  /\ halt' = TRUE
  /\ UNCHANGED stage /\ UNCHANGED Connection /\ UNCHANGED gpuVars

\* The loop ends by a stop, or by an OSError of accept().
LeaveLoop ==
  /\ stage = "waiting"
  /\ To("closing")
  /\ UNCHANGED halt /\ UNCHANGED Connection /\ UNCHANGED gpuVars

\* The finally clause.
CloseCollector ==
  /\ stage = "closing"
  /\ To("exited")
  /\ Shutdown
  /\ UNCHANGED <<halt, client, got, ending, request, response>>

----------------------------------------------------------------------------
(* The client.                                                             *)

Busy == stage \in {"reading", "handling", "scanning", "sending"}

\* A connection is accepted; another user's is told so, and not read.
AcceptClient ==
  /\ stage = "waiting" /\ ~halt
  /\ client' \in [line : ClientLines, peer : {"user", "other"}, sent : {0}, side : {"open"}]
  /\ got' = 0 /\ ending' = "none" /\ request' = client'.line
  /\ \/ client'.peer = "user" /\ To("reading") /\ response' = NoResponse
     \/ client'.peer = "other" /\ To("sending") /\ response' = ErrorResponse("permission_denied")
  /\ UNCHANGED halt /\ UNCHANGED gpuVars

\* The client has a newline to send after its line.
ClientSends ==
  /\ Busy /\ client.side = "open"
  /\ \E n \in client.sent + 1 .. client.line.size + 1 : client' = [client EXCEPT !.sent = n]
  /\ UNCHANGED <<stage, halt, got, ending, request, response>> /\ UNCHANGED gpuVars

ClientCloses ==
  /\ Busy /\ client.side = "open"
  /\ client' = [client EXCEPT !.side = "closed"]
  /\ UNCHANGED <<stage, halt, got, ending, request, response>> /\ UNCHANGED gpuVars

----------------------------------------------------------------------------
(* _read_request.                                                          *)

\* Mutant: the loop ends one byte early.
LoopEndsEarly(n) == n < MaxRequestBytes

\* The loop's condition.
ReadsOn(n) == n <= MaxRequestBytes

Returns(why, n) ==
  /\ ending' = why
  /\ request' \in IF why = "newline" THEN {client.line} ELSE Pieces(client.line, n)
  /\ To("handling")

\* A chunk, of whatever length the kernel has ready.
Recv ==
  /\ stage = "reading" /\ client.sent > got
  /\ \E n \in got + 1 .. client.sent :
       /\ n - got <= Chunk /\ n <= MaxRequestBytes + 1
       /\ got' = n
       /\ \/ n > client.line.size /\ Returns("newline", n)
          \/ n <= client.line.size /\ ~ReadsOn(n) /\ Returns("limit", n)
          \/ n <= client.line.size /\ ReadsOn(n) /\ UNCHANGED <<stage, ending, request>>
  /\ UNCHANGED <<halt, client, response>> /\ UNCHANGED gpuVars

\* Mutant: the connection has no timeout.
RecvUntimed ==
  /\ stage = "reading" /\ client.sent = got /\ client.side = "closed"
  /\ Returns("gone", got)
  /\ UNCHANGED <<halt, client, got, response>> /\ UNCHANGED gpuVars

\* recv finds the stream ended, or nothing for five seconds: what is there is
\* taken for the request.
RecvNothing ==
  /\ stage = "reading" /\ client.sent = got
  /\ Returns("gone", got)
  /\ UNCHANGED <<halt, client, got, response>> /\ UNCHANGED gpuVars

----------------------------------------------------------------------------
(* _serve_client.                                                          *)

Respond(raises) ==
  /\ response' = HandleRequest(request, raises)
  /\ To("sending")

\* The sampler may raise; ping has nothing that could.
Handle ==
  /\ stage = "handling"
  /\ ~(IsAccepted(request) /\ request.command = "gpu")
  /\ \E raises \in {FALSE, request.command # "ping"} : Respond(raises)
  /\ UNCHANGED <<halt, client, got, ending, request>> /\ UNCHANGED gpuVars

HandleGpu ==
  /\ stage = "handling"
  /\ IsAccepted(request) /\ request.command = "gpu"
  /\ CountDevices
  /\ To("scanning")
  /\ UNCHANGED halt /\ UNCHANGED Connection

ListDevice ==
  /\ stage = "scanning"
  /\ ReadDevice \/ SkipDevice
  /\ UNCHANGED <<stage, halt>> /\ UNCHANGED Connection

FinishListing ==
  /\ stage = "scanning" /\ ~MoreDevices
  /\ Respond(FALSE)
  /\ UNCHANGED <<halt, client, got, ending, request>> /\ UNCHANGED gpuVars

\* The connection is closed, and nothing of it is kept.
ConnectionEnds ==
  /\ To("waiting")
  /\ client' = [client EXCEPT !.peer = "user", !.sent = 0, !.side = "open"]
  /\ got' = 0 /\ ending' = "none" /\ request' = client.line /\ response' = NoResponse
  /\ listing' = NoListing
  /\ UNCHANGED <<halt, provider, bound, held>>

\* sendall, or the error of a client that is gone or does not read.
SendAll == stage = "sending" /\ ConnectionEnds

\* An OSError of recv that is no timeout: the client has reset the connection,
\* and is not answered.
RecvFails == stage = "reading" /\ client.side = "closed" /\ ConnectionEnds

----------------------------------------------------------------------------
ServiceStep ==
  \/ Construct \/ TakePath \/ LeaveLoop \/ CloseCollector
  \/ Recv \/ RecvNothing \/ RecvFails \/ Handle \/ HandleGpu
  \/ ListDevice \/ FinishListing \/ SendAll

ServiceNext == ServiceStep \/ AcceptClient \/ HaltService \/ ClientSends \/ ClientCloses

ServiceSpec == ServiceInit /\ [][ServiceNext]_serviceVars

\* The process runs, and recv and sendall time out.
FairServiceSpec == ServiceSpec /\ WF_serviceVars(ServiceStep)

----------------------------------------------------------------------------
(* Properties.                                                             *)

ServiceTypeOK ==
  /\ stage \in {"starting", "path", "refused", "waiting", "reading", "handling", "scanning",
             "sending", "closing", "exited"}
  /\ halt \in BOOLEAN
  /\ client \in [line : ClientLines, peer : {"user", "other"}, sent : Nat, side : {"open", "closed"}]
  /\ got \in 0 .. MaxRequestBytes + 1
  /\ ending \in {"none", "newline", "limit", "gone"}
  /\ request \in Lines /\ response \in Responses
  /\ provider \in Failures \cup {"ready", "shut"}
  /\ bound \subseteq Metrics /\ held \in Int
  /\ listing \in [count : DeviceCounts \cup {0}, next : Nat, devices : SUBSET GpuEntries]
  /\ listing.next <= listing.count

\* What a line may be answered: by the command, or by the sampler's failure.
Owed(line) == {HandleRequest(line, raises) : raises \in BOOLEAN}

\* However a line arrives, a client that ends it, or sends more than is read,
\* is answered as the whole line deserves.  One that stops before is answered
\* as if it had ended the line there, if its document was complete, and by an
\* error if it was not.
AnswerIsOfTheLine ==
  stage = "sending" /\ client.peer = "user" =>
    IF ending # "gone"
      THEN response \in Owed(client.line)
      ELSE \/ response \in Owed([client.line EXCEPT !.size = got]) /\ got >= client.line.core
           \/ response.status = "error"
           \/ client.line.text # "object"

\* NVML is called between its initialisation and its shutdown only, and a
\* process that got as far as serving has shut it down, however it ended.
NvmlCallsAreCovered ==
  /\ stage = "scanning" /\ MoreDevices => held = 1
  /\ stage \notin {"starting", "exited"} => held = (IF provider = "ready" THEN 1 ELSE 0)
  /\ stage = "exited" => held = 0

\* The process serves one client at a time, and lets every one go: one that
\* sends without end, byte by byte, or not at all.
Turns == INSTANCE RequestLine
           WITH Users <- {"client"}, holder <- IF Busy THEN {"client"} ELSE {}
ClientIsLetGo == Turns!Spec

\* What backend/README.md says of the device the widget shows.
WidgetSelectsIndexZero ==
  stage = "sending" => \A e \in Selected(listing.devices) : e.index = 0
============================================================================
