--------------------------- MODULE BackendServer ---------------------------
(***************************************************************************)
(* The backend process, backend/ttop_backend/main.py: how it takes the     *)
(* socket path, serves one connection after the other, and gives the path  *)
(* up.  Nothing but the path itself keeps two of them apart, so the module *)
(* has any number: the systemd unit's and those a developer runs by hand.  *)
(*                                                                         *)
(* A step is one system call on the path or on a socket, which is where    *)
(* another process can come between: a second server, or a program that    *)
(* puts a file of its own at the path.  Reading and answering a request is *)
(* one step; what a client sends is a request or nothing.                  *)
(***************************************************************************)
EXTENDS Naturals, Sequences, FiniteSets

CONSTANTS
  Servers,    \* processes; a restart is the same server starting again
  Service,    \* the one systemd restarts when it fails
  Conns,      \* connections that clients may make, each once
  Probe,      \* a connection by remove_stale_socket, closed as it is made
  NoConn,     \* nobody is being served
  NoFile,     \* the path does not exist
  Foreign,    \* the path is no socket, or another user's
  Backlog,    \* of listen(); Linux queues one connection more
  MaxStarts   \* bound: starts of a server (StartLimitBurst of the unit)

ASSUME NamesAssumption ==
  /\ Service \in Servers
  /\ {NoFile, Foreign} \cap Servers = {} /\ NoFile # Foreign
  /\ {Probe, NoConn} \cap Conns = {} /\ Probe # NoConn
  /\ Backlog \in Nat /\ MaxStarts \in Nat

VARIABLES
  path,       \* what the socket path names: a server stands for its socket
  sock,       \* the server's own socket: "none", "bound" or "listening"
  pc,         \* the next system call of the server
  stop,       \* _stop_event
  exit,       \* how the process ended, or will end
  starts,     \* how often it was started
  queue,      \* connections the kernel holds for accept()
  current,    \* the connection being served
  conn        \* the client's side of each connection

serverVars == <<path, sock, pc, stop, exit, starts, queue, current, conn>>

Lifecycle == <<stop, exit, starts>>
Serving == <<queue, current, conn>>

PCs == {"off", "lstat", "probe", "unlink", "bind", "chmod", "listen", "check",
        "accept", "serve", "close", "lstatOwned", "unlinkOwned"}

Open == {"silent", "sent"}

ServerTypeOK ==
  /\ path \in Servers \cup {NoFile, Foreign}
  /\ sock \in [Servers -> {"none", "bound", "listening"}]
  /\ pc \in [Servers -> PCs]
  /\ stop \in [Servers -> BOOLEAN]
  /\ exit \in [Servers -> {"clean", "failed", "killed"}]
  /\ starts \in [Servers -> 0 .. MaxStarts]
  /\ queue \in [Servers -> Seq(Conns \cup {Probe})]
  /\ current \in [Servers -> Conns \cup {Probe, NoConn}]
  /\ conn \in [Conns -> Open \cup {"unused", "answered", "aborted", "lost"}]

\* A server killed in an earlier session may have left its socket behind.
ServerInit ==
  /\ path \in Servers \cup {NoFile, Foreign}
  /\ sock = [s \in Servers |-> "none"]
  /\ pc = [s \in Servers |-> "off"]
  /\ stop = [s \in Servers |-> FALSE]
  /\ exit = [s \in Servers |-> "clean"]
  /\ starts = [s \in Servers |-> 0]
  /\ queue = [s \in Servers |-> <<>>]
  /\ current = [s \in Servers |-> NoConn]
  /\ conn = [c \in Conns |-> "unused"]

Goto(s, p) == pc' = [pc EXCEPT ![s] = p]

\* The server ends by a RuntimeError, which main turns into exit code 1, or by
\* an OSError, which leaves a traceback.
GiveUp(s) ==
  /\ Goto(s, "off")
  /\ exit' = [exit EXCEPT ![s] = "failed"]
  /\ UNCHANGED <<path, sock, stop, starts>>

\* An exception after the socket was made: the finally clause runs first.
FailInTry(s) ==
  /\ Goto(s, "close")
  /\ exit' = [exit EXCEPT ![s] = "failed"]
  /\ UNCHANGED <<path, sock, stop, starts>>

Listening(p) == p \in Servers /\ sock[p] = "listening"

HasRoom(s) == Len(queue[s]) <= Backlog

----------------------------------------------------------------------------
(* Taking the path.                                                        *)

\* Mutant: a service without StartLimitBurst.
StartUnlimited(s) ==
  /\ pc[s] = "off"
  /\ starts' = [starts EXCEPT ![s] = @ + 1]
  /\ stop' = [stop EXCEPT ![s] = FALSE]
  /\ exit' = [exit EXCEPT ![s] = "clean"]
  /\ Goto(s, "lstat")
  /\ UNCHANGED <<path, sock>> /\ UNCHANGED Serving

\* A process starts and installs its signal handlers.
Start(s) ==
  /\ pc[s] = "off"
  /\ starts[s] < MaxStarts
  /\ starts' = [starts EXCEPT ![s] = @ + 1]
  /\ stop' = [stop EXCEPT ![s] = FALSE]
  /\ exit' = [exit EXCEPT ![s] = "clean"]
  /\ Goto(s, "lstat")
  /\ UNCHANGED <<path, sock>> /\ UNCHANGED Serving

\* Mutants: a socket that exists is never replaced; the path is not asked
\* what it is.
LstatRefuses(s) ==
  /\ pc[s] = "lstat"
  /\ \/ /\ path = NoFile
        /\ Goto(s, "bind")
        /\ UNCHANGED <<path, sock>> /\ UNCHANGED Lifecycle
     \/ path # NoFile /\ GiveUp(s)
  /\ UNCHANGED Serving

LstatUnchecked(s) ==
  /\ pc[s] = "lstat"
  /\ Goto(s, IF path = NoFile THEN "bind" ELSE "probe")
  /\ UNCHANGED <<path, sock>> /\ UNCHANGED Lifecycle /\ UNCHANGED Serving

Lstat(s) ==
  /\ pc[s] = "lstat"
  /\ \/ /\ path # Foreign
        /\ Goto(s, IF path = NoFile THEN "bind" ELSE "probe")
        /\ UNCHANGED <<path, sock>> /\ UNCHANGED Lifecycle
     \/ path = Foreign /\ GiveUp(s)
  /\ UNCHANGED Serving

\* Mutant: a successful probe does not end the start.
ProbePathIgnoresListener(s) ==
  /\ pc[s] = "probe"
  /\ Goto(s, "unlink")
  /\ UNCHANGED <<path, sock, queue, current, conn>> /\ UNCHANGED Lifecycle

\* A listener that the path names by now is reached, and the server gives up
\* ("already active"); so it does if that listener's backlog is full (EAGAIN,
\* "uncertain").  Refused, or no file any more: the path counts as stale.  What
\* is foreign by now refuses, as a regular file does, or is a reason to give up.
ProbePath(s) ==
  /\ pc[s] = "probe"
  /\ \/ /\ Listening(path)
        /\ GiveUp(s)
        /\ queue' = IF HasRoom(path)
                      THEN [queue EXCEPT ![path] = Append(@, Probe)]
                      ELSE queue
     \/ /\ ~Listening(path)
        /\ Goto(s, "unlink")
        /\ UNCHANGED <<path, sock, queue>> /\ UNCHANGED Lifecycle
     \/ path = Foreign /\ GiveUp(s) /\ UNCHANGED queue
  /\ UNCHANGED <<current, conn>>

\* Unlinks what the path names by now, unless it may not or it is a directory.
UnlinkStale(s) ==
  /\ pc[s] = "unlink"
  /\ \/ /\ path # NoFile
        /\ path' = NoFile
        /\ Goto(s, "bind")
        /\ UNCHANGED sock /\ UNCHANGED Lifecycle
     \/ path \in {NoFile, Foreign} /\ GiveUp(s)
  /\ UNCHANGED Serving

\* EADDRINUSE if somebody has made the file since.
Bind(s) ==
  /\ pc[s] = "bind"
  /\ \/ /\ path = NoFile
        /\ path' = s
        /\ sock' = [sock EXCEPT ![s] = "bound"]
        /\ Goto(s, "chmod")
        /\ UNCHANGED Lifecycle
     \/ path # NoFile /\ FailInTry(s)
  /\ UNCHANGED Serving

Chmod(s) ==
  /\ pc[s] = "chmod"
  /\ \/ /\ path # NoFile
        /\ Goto(s, "listen")
        /\ UNCHANGED <<path, sock>> /\ UNCHANGED Lifecycle
     \/ path \in {NoFile, Foreign} /\ FailInTry(s)
  /\ UNCHANGED Serving

Listen(s) ==
  /\ pc[s] = "listen"
  /\ sock' = [sock EXCEPT ![s] = "listening"]
  /\ Goto(s, "check")
  /\ UNCHANGED path /\ UNCHANGED Lifecycle /\ UNCHANGED Serving

----------------------------------------------------------------------------
(* Serving.                                                                *)

\* The loop's condition; a stop that arrives later waits for the next round.
CheckStop(s) ==
  /\ pc[s] = "check"
  /\ Goto(s, IF stop[s] THEN "close" ELSE "accept")
  /\ UNCHANGED <<path, sock>> /\ UNCHANGED Lifecycle /\ UNCHANGED Serving

Accept(s) ==
  /\ pc[s] = "accept"
  /\ queue[s] # <<>>
  /\ current' = [current EXCEPT ![s] = Head(queue[s])]
  /\ queue' = [queue EXCEPT ![s] = Tail(@)]
  /\ Goto(s, "serve")
  /\ UNCHANGED <<path, sock, conn>> /\ UNCHANGED Lifecycle

\* An OSError of accept(), but for its timeout: the loop is left after a stop,
\* by the exception else.
AcceptFails(s) ==
  /\ pc[s] = "accept"
  /\ \/ /\ stop[s]
        /\ Goto(s, "close")
        /\ UNCHANGED <<path, sock>> /\ UNCHANGED Lifecycle
     \/ ~stop[s] /\ FailInTry(s)
  /\ UNCHANGED Serving

AcceptTimeout(s) ==
  /\ pc[s] = "accept"
  /\ queue[s] = <<>>
  /\ Goto(s, "check")
  /\ UNCHANGED <<path, sock>> /\ UNCHANGED Lifecycle /\ UNCHANGED Serving

\* _serve_client ends, with an answer or with the BrokenPipeError of a client
\* that is gone; the connection is closed.
ServeEnds(s) ==
  /\ conn' = [c \in Conns |-> IF c = current[s] /\ conn[c] \in Open
                                THEN "answered" ELSE conn[c]]
  /\ current' = [current EXCEPT ![s] = NoConn]
  /\ Goto(s, "check")
  /\ UNCHANGED <<path, sock, queue>> /\ UNCHANGED Lifecycle

\* The request line, or the end of the stream, is there to be read.
AnswerRequest(s) ==
  /\ pc[s] = "serve"
  /\ current[s] \in Conns => conn[current[s]] # "silent"
  /\ ServeEnds(s)

\* Mutant: recv() without a timeout goes on as the client closes only.
RecvTimeoutMissing(s) ==
  /\ pc[s] = "serve"
  /\ current[s] \in Conns /\ conn[current[s]] = "aborted"
  /\ ServeEnds(s)

\* recv() times out: what is there is parsed, and rejected if it is nothing.
RecvTimeout(s) ==
  /\ pc[s] = "serve"
  /\ current[s] \in Conns /\ conn[current[s]] = "silent"
  /\ ServeEnds(s)

----------------------------------------------------------------------------
(* Ending.                                                                 *)

Held(s) == {c \in Conns : c = current[s] \/ \E i \in DOMAIN queue[s] : queue[s][i] = c}

\* The kernel closes the server's socket and every connection it holds.
Dropped(s) ==
  /\ sock' = [sock EXCEPT ![s] = "none"]
  /\ queue' = [queue EXCEPT ![s] = <<>>]
  /\ current' = [current EXCEPT ![s] = NoConn]
  /\ conn' = [c \in Conns |-> IF c \in Held(s) /\ conn[c] \in Open
                                THEN "lost" ELSE conn[c]]

\* SIGTERM or SIGINT.
RequestStop(s) ==
  /\ pc[s] # "off" /\ ~stop[s]
  /\ stop' = [stop EXCEPT ![s] = TRUE]
  /\ UNCHANGED <<path, sock, pc, exit, starts>> /\ UNCHANGED Serving

\* Mutant: the finally clause leaves without remove_owned_socket.
CloseKeepsFile(s) ==
  /\ pc[s] = "close"
  /\ Goto(s, "off")
  /\ Dropped(s)
  /\ UNCHANGED path /\ UNCHANGED Lifecycle

\* server_socket.close() and collector.close().
Close(s) ==
  /\ pc[s] = "close"
  /\ Goto(s, "lstatOwned")
  /\ Dropped(s)
  /\ UNCHANGED path /\ UNCHANGED Lifecycle

\* remove_owned_socket: any socket of this user counts as owned.
LstatOwned(s) ==
  /\ pc[s] = "lstatOwned"
  /\ Goto(s, IF path \in Servers THEN "unlinkOwned" ELSE "off")
  /\ UNCHANGED <<path, sock>> /\ UNCHANGED Lifecycle /\ UNCHANGED Serving

UnlinkOwned(s) ==
  /\ pc[s] = "unlinkOwned"
  /\ \/ /\ path # NoFile
        /\ path' = NoFile
        /\ Goto(s, "off")
        /\ UNCHANGED sock /\ UNCHANGED Lifecycle
     \/ path \in {NoFile, Foreign} /\ GiveUp(s)
  /\ UNCHANGED Serving

\* SIGKILL, or the session ends: no finally clause.
Kill(s) ==
  /\ pc[s] # "off"
  /\ Goto(s, "off")
  /\ exit' = [exit EXCEPT ![s] = "killed"]
  /\ Dropped(s)
  /\ UNCHANGED <<path, stop, starts>>

----------------------------------------------------------------------------
(* The clients.                                                            *)

Untouched == UNCHANGED <<path, sock, pc>> /\ UNCHANGED Lifecycle

Connect(c) ==
  /\ conn[c] = "unused"
  /\ Listening(path) /\ HasRoom(path)
  /\ queue' = [queue EXCEPT ![path] = Append(@, c)]
  /\ conn' = [conn EXCEPT ![c] = "silent"]
  /\ UNCHANGED current /\ Untouched

\* The request line; a client that is not the widget may never send one.
SendRequest(c) ==
  /\ conn[c] = "silent"
  /\ conn' = [conn EXCEPT ![c] = "sent"]
  /\ UNCHANGED <<queue, current>> /\ Untouched

\* The widget's own timeout; its connection stays queued and is still served.
GiveUpWaiting(c) ==
  /\ conn[c] \in Open
  /\ conn' = [conn EXCEPT ![c] = "aborted"]
  /\ UNCHANGED <<queue, current>> /\ Untouched

----------------------------------------------------------------------------
(* Other programs.                                                         *)

\* A file that is no socket of this user's comes to the path, where nothing is
\* or in place of a socket that a process left behind.
PutForeign ==
  /\ \/ path = NoFile
     \/ path \in Servers /\ sock[path] = "none"
  /\ path' = Foreign
  /\ UNCHANGED <<sock, pc>> /\ UNCHANGED Lifecycle /\ UNCHANGED Serving

----------------------------------------------------------------------------
ServerStep(s) ==
  \/ Lstat(s) \/ ProbePath(s) \/ UnlinkStale(s) \/ Bind(s) \/ Chmod(s) \/ Listen(s)
  \/ CheckStop(s) \/ Accept(s) \/ AcceptTimeout(s) \/ AcceptFails(s)
  \/ AnswerRequest(s) \/ RecvTimeout(s) \/ Close(s) \/ LstatOwned(s) \/ UnlinkOwned(s)

ClientStep(c) == Connect(c) \/ SendRequest(c) \/ GiveUpWaiting(c)

ServerNext ==
  \/ \E s \in Servers : ServerStep(s) \/ Start(s) \/ RequestStop(s) \/ Kill(s)
  \/ \E c \in Conns : ClientStep(c)
  \/ PutForeign

\* Restart=on-failure of the unit, until its start limit is reached.
Restart == exit[Service] # "clean" /\ Start(Service)

\* A process runs, accept and recv time out, and systemd restarts what failed.
ServerSpec == ServerInit /\ [][ServerNext]_serverVars
        /\ (\A s \in Servers : WF_serverVars(ServerStep(s))) /\ WF_serverVars(Restart)

\* The same processes with starts and stops that never overlap, as if only
\* systemd started them.
Between(s) == pc[s] \notin {"off", "check", "accept", "serve"}
Alone == \A s, t \in Servers : Between(s) /\ Between(t) => s = t
SerialServerSpec == ServerInit /\ [][ServerNext /\ Alone']_serverVars

----------------------------------------------------------------------------
(* Properties.                                                             *)

Active(s) == pc[s] \in {"check", "accept", "serve"}

\* What a server found at the path when it looked is not what it removes: past
\* lstat it unlinks whatever came there since (see README, ActiveSocket).
PastLook(s) == pc[s] \in {"probe", "unlink", "unlinkOwned"}

\* A foreign file that is at the path while no server is between its look and
\* its unlink stays there for good, and so keeps every later server from
\* looking past it, whoever starts, restarts, stops or is killed.
Undisturbed == path = Foreign /\ \A s \in Servers : ~PastLook(s)
ForeignFileIsKept == [][Undisturbed => Undisturbed']_serverVars

\* A server that serves can be reached, and no second one serves, as long as
\* starts and stops do not overlap.
Reachable == \A s \in Servers : Active(s) => path = s /\ Listening(s)
ServingIsReachable == []Alone => []Reachable

\* Then the servers hold the path as the users of RequestLine.tla its line.
Lease == INSTANCE RequestLine
           WITH Users <- Servers, holder <- {s \in Servers : Active(s)}

\* A server that was stopped leaves no file of its own behind, whatever other
\* servers do at the same time.
CleanExitLeavesNoFile ==
  \A s \in Servers : pc[s] = "off" /\ exit[s] = "clean" /\ starts[s] > 0 => path # s

\* Every connection is answered, lost with its server or given up: a silent
\* client, a client that is gone or a probe holds those that are queued behind
\* it up for a while only.
ConnectionsSettle == \A c \in Conns : conn[c] \in Open ~> conn[c] \notin Open

\* A stop is obeyed, whoever is being served.
StopIsObeyed == \A s \in Servers : stop[s] ~> pc[s] = "off"

\* A service that has the path for itself, killed in whatever step, serves
\* again: what it left behind does not keep it from starting.
ServiceComesBack ==
  exit[Service] = "killed" /\ pc[Service] = "off" /\ starts[Service] < MaxStarts
    ~> \/ Active(Service) \/ stop[Service] \/ path = Foreign
       \/ exit[Service] = "killed" /\ starts[Service] = MaxStarts
       \/ \E s \in Servers \ {Service} : starts[s] > 0

\* The socket file of a server that goes on serving is not unlinked.
ActiveSocketIsKept ==
  [][\A s \in Servers : path = s /\ Active(s) /\ Active(s)' => path' = s]_serverVars
============================================================================
