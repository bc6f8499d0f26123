------------------------- MODULE BackendParts_proofs ------------------------
(***************************************************************************)
(* Proofs about the backend's process: BackendServer.tla, for every set of *)
(* servers and of connections, every backlog and every start limit, and    *)
(* ClientService.tla, for any limits, lines and devices.                   *)
(*                                                                         *)
(* The argument of ServingIsAlwaysReachable: with starts and stops that    *)
(* do not overlap, a server beyond the probe (one that may still unlink or *)
(* replace the file) knows that nobody serves, because a server that       *)
(* serves listens at the path and the probe would have reached it.         *)
(*                                                                         *)
(* Of the service of one client: that an answer is of its line (ReadInv),  *)
(* that NVML is taken and given back (NvmlInv), that the entries of a      *)
(* device list are those of their devices (EntriesInv), and that the       *)
(* server's steps only take a client towards being let go (BusyStep).      *)
(*                                                                         *)
(* Of the five parts of MCBackendParts.tla: that a behaviour in which one  *)
(* of them is followed is a behaviour of each of them (PartsBehave).       *)
(***************************************************************************)
EXTENDS MCBackendParts, ProcessSampler_proofs, Delivery_proofs, TLAPS

----------------------------------------------------------------------------
(* BackendServer.tla.                                                      *)

ServerTypes ==
  /\ path \in Servers \cup {NoFile, Foreign}
  /\ sock \in [Servers -> {"none", "bound", "listening"}]
  /\ pc \in [Servers -> PCs]

\* What a step does that changes neither the path nor a socket nor a pc.
LEMMA ClientsLeaveServersAlone ==
  ASSUME NEW c \in Conns, ClientStep(c)
  PROVE  UNCHANGED <<path, sock, pc, stop, exit, starts>>
  BY DEF ClientStep, Connect, SendRequest, GiveUpWaiting, Untouched, Lifecycle

\* No server runs at first.
LEMMA ServerTypeStarts == ServerInit => ServerTypeOK
BY NamesAssumption DEF ServerInit, ServerTypeOK, PCs, Open

\* Every step of servers and clients keeps the types.
LEMMA ServerTypeStep == ServerTypeOK /\ [ServerNext]_serverVars => ServerTypeOK'
<1> SUFFICES ASSUME ServerTypeOK, [ServerNext]_serverVars PROVE ServerTypeOK'
  OBVIOUS
<1> USE NamesAssumption DEF ServerTypeOK, PCs, Goto, Lifecycle, Serving
<1>1. ASSUME NEW s \in Servers, Start(s) PROVE ServerTypeOK'
  BY <1>1 DEF Start
<1>2. ASSUME NEW s \in Servers, Lstat(s) PROVE ServerTypeOK'
  BY <1>2 DEF Lstat, GiveUp
<1>3. ASSUME NEW s \in Servers, ProbePath(s) PROVE ServerTypeOK'
  <2>1. CASE Listening(path) /\ HasRoom(path)
    <3>1. path \in Servers /\ Probe \in Conns \cup {Probe}
      BY <2>1 DEF Listening
    <3>2. Append(queue[path], Probe) \in Seq(Conns \cup {Probe})
      BY <3>1
    <3>3. queue' = [queue EXCEPT ![path] = Append(queue[path], Probe)]
      BY <1>3, <2>1 DEF ProbePath
    <3>4. queue' \in [Servers -> Seq(Conns \cup {Probe})]
      BY <3>2, <3>3
    <3>5. QED
      BY <1>3, <2>1, <3>4 DEF ProbePath, GiveUp
  <2>2. CASE ~(Listening(path) /\ HasRoom(path))
    BY <1>3, <2>2 DEF ProbePath, GiveUp
  <2>3. QED
    BY <2>1, <2>2
<1>4. ASSUME NEW s \in Servers, UnlinkStale(s) PROVE ServerTypeOK'
  BY <1>4 DEF UnlinkStale, GiveUp
<1>5. ASSUME NEW s \in Servers, Bind(s) PROVE ServerTypeOK'
  BY <1>5 DEF Bind, FailInTry
<1>6. ASSUME NEW s \in Servers, Chmod(s) PROVE ServerTypeOK'
  BY <1>6 DEF Chmod, FailInTry
<1>7. ASSUME NEW s \in Servers, Listen(s) PROVE ServerTypeOK'
  BY <1>7 DEF Listen
<1>8. ASSUME NEW s \in Servers, CheckStop(s) PROVE ServerTypeOK'
  BY <1>8 DEF CheckStop
<1>9. ASSUME NEW s \in Servers, Accept(s) PROVE ServerTypeOK'
  BY <1>9 DEF Accept
<1>10. ASSUME NEW s \in Servers, AcceptTimeout(s) \/ AcceptFails(s) PROVE ServerTypeOK'
  BY <1>10 DEF AcceptTimeout, AcceptFails, FailInTry
<1>11. ASSUME NEW s \in Servers, AnswerRequest(s) \/ RecvTimeout(s) PROVE ServerTypeOK'
  <2>1. ServeEnds(s)
    BY <1>11 DEF AnswerRequest, RecvTimeout
  <2>2. conn' \in [Conns -> Open \cup {"unused", "answered", "aborted", "lost"}]
    BY <2>1 DEF ServeEnds
  <2>3. current' \in [Servers -> Conns \cup {Probe, NoConn}]
    BY <2>1 DEF ServeEnds
  <2>4. QED
    BY <2>1, <2>2, <2>3 DEF ServeEnds
<1>12. ASSUME NEW s \in Servers, RequestStop(s) PROVE ServerTypeOK'
  BY <1>12 DEF RequestStop
<1>13. ASSUME NEW s \in Servers, Dropped(s)
       PROVE  /\ sock' \in [Servers -> {"none", "bound", "listening"}]
              /\ queue' \in [Servers -> Seq(Conns \cup {Probe})]
              /\ current' \in [Servers -> Conns \cup {Probe, NoConn}]
              /\ conn' \in [Conns -> Open \cup {"unused", "answered", "aborted", "lost"}]
  BY <1>13 DEF Dropped
<1>14. ASSUME NEW s \in Servers, Close(s) \/ Kill(s) PROVE ServerTypeOK'
  BY <1>13, <1>14 DEF Close, Kill
<1>15. ASSUME NEW s \in Servers, LstatOwned(s) PROVE ServerTypeOK'
  BY <1>15 DEF LstatOwned
<1>16. ASSUME NEW s \in Servers, UnlinkOwned(s) PROVE ServerTypeOK'
  BY <1>16 DEF UnlinkOwned, GiveUp
<1>17. ASSUME NEW c \in Conns, Connect(c) PROVE ServerTypeOK'
  BY <1>17 DEF Connect, Listening, Untouched, Open
<1>18. ASSUME NEW c \in Conns, SendRequest(c) \/ GiveUpWaiting(c) PROVE ServerTypeOK'
  BY <1>18 DEF SendRequest, GiveUpWaiting, Untouched, Open
<1>19. CASE PutForeign
  BY <1>19 DEF PutForeign
<1>20. CASE UNCHANGED serverVars
  BY <1>20 DEF serverVars
<1>21. QED
  BY <1>1, <1>2, <1>3, <1>4, <1>5, <1>6, <1>7, <1>8, <1>9, <1>10, <1>11, <1>12,
     <1>14, <1>15, <1>16, <1>17, <1>18, <1>19, <1>20 DEF ServerNext, ServerStep, ClientStep

\* Type correctness of every instance.
THEOREM ServerTypeCorrect == ServerSpec => []ServerTypeOK
BY ServerTypeStarts, ServerTypeStep, PTL DEF ServerSpec

----------------------------------------------------------------------------
(* What holds whatever the other servers do.                               *)

\* Who looks at a foreign file goes no further, and who does not look past the
\* path does not unlink: nobody disturbs a file that nobody disturbs yet.
LEMMA ForeignStep ==
  ServerTypeOK /\ [ServerNext]_serverVars => (Undisturbed => Undisturbed')
<1> SUFFICES ASSUME ServerTypeOK, Undisturbed, [ServerNext]_serverVars PROVE Undisturbed'
  OBVIOUS
<1>0. ServerTypes
  BY DEF ServerTypeOK, ServerTypes
<1> USE <1>0, NamesAssumption DEF Undisturbed, PastLook, ServerTypes, PCs, Goto, Lifecycle
<1>1. ASSUME NEW s \in Servers, Start(s) \/ Lstat(s) \/ ProbePath(s) PROVE Undisturbed'
  BY <1>1 DEF Start, Lstat, ProbePath, GiveUp
<1>2. ASSUME NEW s \in Servers, UnlinkStale(s) \/ Bind(s) \/ Chmod(s) \/ Listen(s)
      PROVE Undisturbed'
  BY <1>2 DEF UnlinkStale, Bind, Chmod, Listen, GiveUp, FailInTry
<1>3. ASSUME NEW s \in Servers, CheckStop(s) \/ Accept(s) \/ AcceptTimeout(s) \/ AcceptFails(s)
      PROVE Undisturbed'
  BY <1>3 DEF CheckStop, Accept, AcceptTimeout, AcceptFails, FailInTry
<1>4. ASSUME NEW s \in Servers, AnswerRequest(s) \/ RecvTimeout(s) \/ RequestStop(s)
      PROVE Undisturbed'
  BY <1>4 DEF AnswerRequest, RecvTimeout, RequestStop, ServeEnds
<1>5. ASSUME NEW s \in Servers, Close(s) \/ LstatOwned(s) \/ UnlinkOwned(s) \/ Kill(s)
      PROVE Undisturbed'
  BY <1>5 DEF Close, LstatOwned, UnlinkOwned, Kill, Dropped
<1>6. ASSUME NEW c \in Conns, ClientStep(c) PROVE Undisturbed'
  BY <1>6, ClientsLeaveServersAlone
<1>7. CASE PutForeign \/ UNCHANGED serverVars
  BY <1>7 DEF PutForeign, serverVars
<1>8. QED
  BY <1>1, <1>2, <1>3, <1>4, <1>5, <1>6, <1>7 DEF ServerNext, ServerStep

\* A foreign file that comes while no server is between its look and its unlink,
\* whenever that is, survives every later start, failure, kill and stop, of any
\* number of servers.  One that comes in between is not protected.
THEOREM ForeignFileIsAlwaysKept ==
  ServerSpec => ForeignFileIsKept /\ [](Undisturbed => [](path = Foreign))
<1>1. Undisturbed => path = Foreign
  BY DEF Undisturbed
<1>2. ServerTypeOK /\ [ServerNext]_serverVars => [Undisturbed => Undisturbed']_serverVars
  BY ForeignStep
<1>3. QED
  BY <1>1, <1>2, ForeignStep, ServerTypeStarts, ServerTypeStep, PTL DEF ServerSpec, ForeignFileIsKept

\* CleanExitLeavesNoFile is inductive with the types of what it speaks of.
CleanInv ==
  /\ ServerTypes
  /\ exit \in [Servers -> {"clean", "failed", "killed"}]
  /\ starts \in [Servers -> 0 .. MaxStarts]
  /\ CleanExitLeavesNoFile

\* A clean exit leaves none of the server's own files, also if other servers
\* unlink and replace the file while it goes.
THEOREM CleanExitNeverLeavesFile == ServerSpec => []CleanExitLeavesNoFile
<1>1. ServerInit => CleanInv
  BY NamesAssumption DEF ServerInit, CleanInv, ServerTypes, PCs, CleanExitLeavesNoFile
<1>2. CleanInv /\ [ServerNext]_serverVars => CleanInv'
  <2> SUFFICES ASSUME CleanInv, [ServerNext]_serverVars PROVE CleanInv'
    OBVIOUS
  <2> USE NamesAssumption DEF CleanInv, ServerTypes, PCs, Goto, Lifecycle, CleanExitLeavesNoFile
  <2>1. ASSUME NEW s \in Servers, Start(s) PROVE CleanInv'
    BY <2>1 DEF Start
  <2>2. ASSUME NEW s \in Servers, Lstat(s) \/ ProbePath(s) PROVE CleanInv'
    BY <2>2 DEF Lstat, ProbePath, GiveUp
  <2>3. ASSUME NEW s \in Servers, UnlinkStale(s) \/ Bind(s) PROVE CleanInv'
    BY <2>3 DEF UnlinkStale, Bind, GiveUp, FailInTry
  <2>4. ASSUME NEW s \in Servers, Chmod(s) \/ Listen(s) \/ CheckStop(s) PROVE CleanInv'
    BY <2>4 DEF Chmod, Listen, FailInTry, CheckStop
  <2>5. ASSUME NEW s \in Servers, Accept(s) \/ AcceptTimeout(s) \/ AcceptFails(s) \/ RequestStop(s)
        PROVE CleanInv'
    BY <2>5 DEF Accept, AcceptTimeout, AcceptFails, FailInTry, RequestStop
  <2>6. ASSUME NEW s \in Servers, AnswerRequest(s) \/ RecvTimeout(s) PROVE CleanInv'
    BY <2>6 DEF AnswerRequest, RecvTimeout, ServeEnds
  <2>7. ASSUME NEW s \in Servers, Close(s) \/ Kill(s) PROVE CleanInv'
    BY <2>7 DEF Close, Kill, Dropped
  <2>8. ASSUME NEW s \in Servers, LstatOwned(s) PROVE CleanInv'
    BY <2>8 DEF LstatOwned
  <2>9. ASSUME NEW s \in Servers, UnlinkOwned(s) PROVE CleanInv'
    BY <2>9 DEF UnlinkOwned, GiveUp
  <2>10. ASSUME NEW c \in Conns, ClientStep(c) PROVE CleanInv'
    BY <2>10, ClientsLeaveServersAlone
  <2>11. CASE PutForeign \/ UNCHANGED serverVars
    BY <2>11 DEF PutForeign, serverVars
  <2>12. QED
    BY <2>1, <2>2, <2>3, <2>4, <2>5, <2>6, <2>7, <2>8, <2>9, <2>10, <2>11 DEF ServerNext, ServerStep
<1>3. QED
  BY <1>1, <1>2, PTL DEF ServerSpec, CleanInv

----------------------------------------------------------------------------
(* Starts and stops that do not overlap.                                   *)

\* Past the probe, where a server may touch the file.
PastProbe(s) ==
  pc[s] \in {"unlink", "bind", "chmod", "listen", "close", "lstatOwned", "unlinkOwned"}

SerialInv ==
  /\ ServerTypes
  /\ Alone
  /\ Reachable
  /\ \A s \in Servers : PastProbe(s) => \A t \in Servers : ~Active(t)
  /\ \A s \in Servers : pc[s] \in {"chmod", "listen"} => path = s /\ sock[s] = "bound"

\* At the start at most one instance runs.
LEMMA SerialInit == ServerInit => SerialInv
  BY NamesAssumption DEF ServerInit, SerialInv, ServerTypes, PCs, Alone, Between,
     Reachable, PastProbe, Active

\* While no start or stop overlaps another, an instance that serves is reachable.
LEMMA SerialStep == SerialInv /\ [ServerNext /\ Alone']_serverVars => SerialInv'
<1> SUFFICES ASSUME SerialInv, [ServerNext /\ Alone']_serverVars PROVE SerialInv'
  OBVIOUS
<1> USE NamesAssumption DEF SerialInv, ServerTypes, PCs, Goto, Lifecycle,
        Reachable, PastProbe, Active, Listening
<1>1. CASE UNCHANGED serverVars
  BY <1>1 DEF serverVars, Alone, Between
<1>2. ASSUME ServerNext, Alone' PROVE SerialInv'
  <2> USE <1>2
  <2>1. ASSUME NEW s \in Servers, Start(s) PROVE SerialInv'
    BY <2>1 DEF Start
  <2>2. ASSUME NEW s \in Servers, Lstat(s) PROVE SerialInv'
    BY <2>2 DEF Lstat, GiveUp
  <2>3. ASSUME NEW s \in Servers, ProbePath(s) PROVE SerialInv'
    BY <2>3 DEF ProbePath, GiveUp
  <2>4. ASSUME NEW s \in Servers, UnlinkStale(s) PROVE SerialInv'
    BY <2>4 DEF UnlinkStale, GiveUp, Alone, Between
  <2>5. ASSUME NEW s \in Servers, Bind(s) PROVE SerialInv'
    BY <2>5 DEF Bind, FailInTry, Alone, Between
  <2>6. ASSUME NEW s \in Servers, Chmod(s) PROVE SerialInv'
    BY <2>6 DEF Chmod, FailInTry
  <2>7. ASSUME NEW s \in Servers, Listen(s) PROVE SerialInv'
    BY <2>7 DEF Listen, Alone, Between
  <2>8. ASSUME NEW s \in Servers, CheckStop(s) PROVE SerialInv'
    BY <2>8 DEF CheckStop
  <2>9. ASSUME NEW s \in Servers, Accept(s) \/ AcceptTimeout(s) \/ RequestStop(s)
        PROVE SerialInv'
    BY <2>9 DEF Accept, AcceptTimeout, RequestStop
  <2>16. ASSUME NEW s \in Servers, AcceptFails(s) PROVE SerialInv'
    BY <2>16 DEF AcceptFails, FailInTry, Alone, Between
  <2>17. CASE PutForeign
    BY <2>17 DEF PutForeign, Alone, Between
  <2>10. ASSUME NEW s \in Servers, AnswerRequest(s) \/ RecvTimeout(s) PROVE SerialInv'
    BY <2>10 DEF AnswerRequest, RecvTimeout, ServeEnds
  <2>11. ASSUME NEW s \in Servers, Close(s) \/ Kill(s) PROVE SerialInv'
    BY <2>11 DEF Close, Kill, Dropped, Alone, Between
  <2>12. ASSUME NEW s \in Servers, LstatOwned(s) PROVE SerialInv'
    BY <2>12 DEF LstatOwned
  <2>13. ASSUME NEW s \in Servers, UnlinkOwned(s) PROVE SerialInv'
    BY <2>13 DEF UnlinkOwned, GiveUp, Alone, Between
  <2>14. ASSUME NEW c \in Conns, ClientStep(c) PROVE SerialInv'
    BY <2>14, ClientsLeaveServersAlone
  <2>15. QED
    BY <2>1, <2>2, <2>3, <2>4, <2>5, <2>6, <2>7, <2>8, <2>9, <2>10, <2>11, <2>12,
       <2>13, <2>14, <2>16, <2>17 DEF ServerNext, ServerStep
<1>3. QED
  BY <1>1, <1>2

\* With starts and stops that do not overlap, whoever serves is the one that
\* clients reach.
THEOREM ServingIsAlwaysReachable == ServerSpec => ServingIsReachable
<1>1. SerialInv /\ Alone' /\ [ServerNext]_serverVars => SerialInv'
  BY SerialStep DEF serverVars
<1>2. SerialInv => Reachable
  BY DEF SerialInv
<1>3. QED
  BY <1>1, <1>2, SerialInit, PTL DEF ServerSpec, ServingIsReachable

\* Then the servers hold the path in turns: they implement the line of
\* RequestLine.tla.
THEOREM ServersTakeTurnsSerially == SerialServerSpec => Lease!SafeSpec
<1> DEFINE holding == {s \in Servers : Active(s)}
<1>1. ServerInit => Lease!Init
  BY DEF ServerInit, Lease!Init, Active
<1>2. SerialInv /\ SerialInv' /\ [ServerNext /\ Alone']_serverVars => [Lease!Next]_holding
  <2> SUFFICES ASSUME SerialInv, SerialInv', [ServerNext /\ Alone']_serverVars
               PROVE  [Lease!Next]_holding
    OBVIOUS
  <2>1. \A s, t \in Servers : Active(s) /\ Active(t) => s = t
    BY DEF SerialInv, Reachable
  <2>2. \A s, t \in Servers : Active(s)' /\ Active(t)' => s = t
    BY DEF SerialInv, Reachable
  <2>3. \A s, t \in Servers : Active(s) /\ Active(t)' => s = t
    <3>1. SUFFICES ASSUME NEW s \in Servers, NEW t \in Servers,
                          Active(s), Active(t)', s # t, ServerNext
                   PROVE  FALSE
      BY <2>1 DEF serverVars, Active
    <3>2. ~Active(t)
      BY <2>1, <3>1
    <3>3. ~(\E r \in Servers : Listen(r))
      BY <3>1 DEF Listen, SerialInv, PastProbe
    <3> USE <3>1, <3>2 DEF SerialInv, ServerTypes, Active, Goto
    <3>4. \A r \in Servers : ~Lstat(r) /\ ~ProbePath(r) /\ ~UnlinkStale(r)
      BY DEF Lstat, ProbePath, UnlinkStale, GiveUp
    <3>5. \A r \in Servers : ~Start(r) /\ ~Bind(r) /\ ~Chmod(r) /\ ~RequestStop(r)
      BY DEF Start, Bind, Chmod, RequestStop, FailInTry
    <3>6. \A r \in Servers : ~CheckStop(r) /\ ~Accept(r) /\ ~AcceptTimeout(r) /\ ~AcceptFails(r)
      BY <2>1 DEF CheckStop, Accept, AcceptTimeout, AcceptFails, FailInTry
    <3>7. \A r \in Servers : ~AnswerRequest(r) /\ ~RecvTimeout(r)
      BY <2>1 DEF AnswerRequest, RecvTimeout, ServeEnds
    <3>8. \A r \in Servers : ~Close(r) /\ ~LstatOwned(r) /\ ~UnlinkOwned(r) /\ ~Kill(r)
      BY DEF Close, LstatOwned, UnlinkOwned, GiveUp, Kill
    <3>9. ~PutForeign /\ \A c \in Conns : ~ClientStep(c)
      BY ClientsLeaveServersAlone DEF PutForeign
    <3>10. QED
      BY <3>3, <3>4, <3>5, <3>6, <3>7, <3>8, <3>9 DEF ServerNext, ServerStep
  <2>4. CASE \A s \in Servers : ~Active(s)
    BY <2>2, <2>4 DEF Lease!Next, Lease!Occupy, Lease!Release
  <2>5. CASE \E s \in Servers : Active(s)
    BY <2>1, <2>3, <2>5 DEF Lease!Next, Lease!Occupy, Lease!Release
  <2>6. QED
    BY <2>4, <2>5
<1>3. QED
  BY <1>1, <1>2, SerialInit, SerialStep, PTL DEF SerialServerSpec, Lease!SafeSpec

----------------------------------------------------------------------------
(* What a stop leads to.                                                   *)

\* How many steps a server that was told to stop is from its end, at most.
StepsLeft ==
  [lstat |-> 13, probe |-> 12, unlink |-> 11, bind |-> 10, chmod |-> 9, listen |-> 8,
   accept |-> 7, serve |-> 6, check |-> 5, close |-> 3, lstatOwned |-> 2, unlinkOwned |-> 1, off |-> 0]

\* A server's step takes it nearer to its end, once it was told to stop.
LEMMA StoppedStep ==
  ASSUME ServerTypeOK, NEW s \in Servers, stop[s], ServerStep(s)
  PROVE  StepsLeft[pc'[s]] < StepsLeft[pc[s]] /\ UNCHANGED stop /\ pc' = [pc EXCEPT ![s] = pc'[s]]
<1>0. pc \in [Servers -> PCs]
  BY DEF ServerTypeOK
<1> USE DEF StepsLeft, Goto, GiveUp, FailInTry, Lifecycle
<1>1. CASE Lstat(s)
  BY <1>0, <1>1 DEF Lstat
<1>2. CASE ProbePath(s)
  BY <1>0, <1>2 DEF ProbePath
<1>3. CASE UnlinkStale(s)
  BY <1>0, <1>3 DEF UnlinkStale
<1>4. CASE Bind(s) \/ Chmod(s) \/ Listen(s)
  BY <1>0, <1>4 DEF Bind, Chmod, Listen
<1>5. CASE CheckStop(s)
  <2>1. pc[s] = "check" /\ pc' = [pc EXCEPT ![s] = "close"] /\ UNCHANGED stop
    BY <1>5, Zenon DEF CheckStop
  <2>2. QED
    BY <1>0, <2>1
<1>6. CASE Accept(s) \/ AcceptTimeout(s) \/ AcceptFails(s) \/ AnswerRequest(s) \/ RecvTimeout(s)
  BY <1>0, <1>6 DEF Accept, AcceptTimeout, AcceptFails, AnswerRequest, RecvTimeout, ServeEnds
<1>7. CASE Close(s) \/ LstatOwned(s) \/ UnlinkOwned(s)
  BY <1>0, <1>7 DEF Close, LstatOwned, UnlinkOwned
<1>8. QED
  BY <1>1, <1>2, <1>3, <1>4, <1>5, <1>6, <1>7 DEF ServerStep

\* A stop is never taken back while the process lives, and its every step is
\* one of the few to its end, whatever other servers, clients and kills do
\* between them: what StopIsObeyed adds is only that the process runs.
THEOREM StopAlwaysLeadsOn ==
  ServerSpec =>
    [][\A s \in Servers : stop[s] /\ pc[s] # "off" =>
         /\ stop'[s]
         /\ pc'[s] = pc[s] \/ StepsLeft[pc'[s]] < StepsLeft[pc[s]]
         /\ ServerStep(s) => StepsLeft[pc'[s]] < StepsLeft[pc[s]]]_serverVars
<1> DEFINE LeadsOn(s) == /\ stop'[s]
                         /\ pc'[s] = pc[s] \/ StepsLeft[pc'[s]] < StepsLeft[pc[s]]
                         /\ ServerStep(s) => StepsLeft[pc'[s]] < StepsLeft[pc[s]]
<1>1. ServerTypeOK /\ [ServerNext]_serverVars =>
        [\A s \in Servers : stop[s] /\ pc[s] # "off" => LeadsOn(s)]_serverVars
  <2> SUFFICES ASSUME ServerTypeOK, ServerNext, NEW s \in Servers, stop[s], pc[s] # "off"
               PROVE  LeadsOn(s)
    OBVIOUS
  <2>0. pc \in [Servers -> PCs] /\ stop \in [Servers -> BOOLEAN]
    BY DEF ServerTypeOK
  <2>1. ASSUME ServerStep(s) PROVE LeadsOn(s)
    <3>1. StepsLeft[pc'[s]] < StepsLeft[pc[s]] /\ UNCHANGED stop
      BY <2>1, StoppedStep
    <3>2. QED
      BY <3>1, Zenon
  <2>2. ASSUME UNCHANGED <<pc[s], stop[s]>> PROVE ~ServerStep(s)
    <3>1. ASSUME ServerStep(s) PROVE FALSE
      <4>1. StepsLeft[pc'[s]] < StepsLeft[pc[s]]
        BY <3>1, StoppedStep
      <4>2. StepsLeft[pc[s]] \in Nat
        BY <2>0 DEF PCs, StepsLeft
      <4>3. QED
        BY <2>2, <4>1, <4>2
    <3>2. QED
      BY <3>1
  <2>3. ASSUME UNCHANGED <<pc[s], stop[s]>> PROVE LeadsOn(s)
    BY <2>2, <2>3, Zenon
  <2>4. ASSUME NEW t \in Servers, ServerStep(t), t # s PROVE UNCHANGED <<pc[s], stop[s]>>
    <3>1. UNCHANGED stop /\ pc' = [pc EXCEPT ![t] = pc'[t]]
      BY <2>0, <2>4 DEF ServerStep, Lstat, ProbePath, UnlinkStale, Bind, Chmod, Listen, CheckStop,
         Accept, AcceptTimeout, AcceptFails, AnswerRequest, RecvTimeout, ServeEnds, Close, LstatOwned,
         UnlinkOwned, Goto, GiveUp, FailInTry, Lifecycle
    <3>2. QED
      BY <2>0, <2>4, <3>1
  <2>5. ASSUME NEW t \in Servers, Start(t) PROVE UNCHANGED <<pc[s], stop[s]>>
    BY <2>0, <2>5 DEF Start, Goto
  <2>6. ASSUME NEW t \in Servers, RequestStop(t) PROVE UNCHANGED <<pc[s], stop[s]>>
    <3>1. CASE t = s
      BY <2>6, <3>1, Zenon DEF RequestStop
    <3>2. CASE t # s
      BY <2>0, <2>6, <3>2 DEF RequestStop
    <3>3. QED
      BY <3>1, <3>2
  <2>7. ASSUME NEW t \in Servers, Kill(t), t # s PROVE UNCHANGED <<pc[s], stop[s]>>
    BY <2>0, <2>7 DEF Kill, Goto
  <2>8. ASSUME Kill(s) PROVE LeadsOn(s)
    <3>1. pc'[s] = "off" /\ UNCHANGED stop
      BY <2>0, <2>8 DEF Kill, Goto
    <3>2. StepsLeft[pc'[s]] < StepsLeft[pc[s]]
      BY <2>0, <3>1 DEF PCs, StepsLeft
    <3>3. QED
      BY <3>1, <3>2, Zenon
  <2>9. ASSUME NEW c \in Conns, ClientStep(c) PROVE UNCHANGED <<pc[s], stop[s]>>
    BY <2>9, ClientsLeaveServersAlone
  <2>11. CASE PutForeign
    BY <2>3, <2>11 DEF PutForeign, Lifecycle
  <2> HIDE DEF LeadsOn
  <2>10. QED
    BY <2>1, <2>3, <2>4, <2>5, <2>6, <2>7, <2>8, <2>9, <2>11 DEF ServerNext
<1>2. QED
  BY <1>1, ServerTypeStarts, ServerTypeStep, PTL DEF ServerSpec

----------------------------------------------------------------------------
(* The protocol.                                                           *)

\* A line that is too long is rejected as that, whatever else is wrong.
LEMMA TooLarge ==
  ASSUME NEW line \in Lines, line.size > MaxRequestBytes, NEW raises
  PROVE  HandleRequest(line, raises) = ErrorResponse("request_too_large")
<1>1. 1 \in Failing(line)
  BY DEF Failing, Fails, Lines
<1>2. \A j \in Failing(line) : 1 <= j
  BY DEF Failing
<1> DEFINE first == CHOOSE i \in Failing(line) : \A j \in Failing(line) : i <= j
<1>3. first \in Failing(line) /\ \A j \in Failing(line) : first <= j
  BY <1>1, <1>2
<1>4. first = 1
  BY <1>1, <1>2, <1>3 DEF Failing
<1>5. Rejection(line) = "request_too_large"
  <2>1. Rejection(line) = Code[first]
    BY DEF Rejection
  <2> HIDE DEF first
  <2> QED
    BY <1>4, <2>1 DEF Code
<1>6. ~IsAccepted(line)
  BY <1>1 DEF IsAccepted
<1> QED
  BY <1>5, <1>6 DEF HandleRequest

\* A text that is no object is answered by an error.
LEMMA NotAnObject ==
  ASSUME NEW line \in Lines, line.text # "object", NEW raises
  PROVE  HandleRequest(line, raises).status = "error"
<1>1. line.text \in {"undecodable", "blank", "notJson", "tooDeep", "noCommand"}
  BY DEF Lines, Texts
<1>2. \E i \in 2 .. 6 : i \in Failing(line)
  BY <1>1 DEF Failing, Fails
<1>3. ~IsAccepted(line)
  BY <1>2 DEF IsAccepted
<1> QED
  BY <1>3 DEF HandleRequest, ErrorResponse

\* A piece of a line is a line; of an object it is the whole document with
\* less white space, or no object.
LEMMA PieceOfLine ==
  ASSUME NEW line \in Lines, NEW n \in Nat, NEW piece \in Pieces(line, n)
  PROVE  /\ piece \in Lines
         /\ piece.size = n
         /\ line.text = "object" =>
              \/ piece.text # "object"
              \/ n >= line.core /\ piece = [line EXCEPT !.size = n]
<1>1. PICK t \in PieceTexts(line, n) : piece = [line EXCEPT !.size = n, !.text = t]
  BY DEF Pieces
<1>2. piece \in Lines /\ piece.size = n /\ piece.text = t
  BY <1>1 DEF Lines, PieceTexts
<1>3. ASSUME line.text = "object", piece.text = "object"
      PROVE  n >= line.core /\ piece = [line EXCEPT !.size = n]
  <2>1. n >= line.core
    BY <1>1, <1>2, <1>3 DEF PieceTexts, Lines
  <2>2. [line EXCEPT !.size = n, !.text = "object"] = [line EXCEPT !.size = n]
    BY <1>3 DEF Lines
  <2> QED
    BY <1>1, <1>2, <1>3, <2>1, <2>2
<1> QED
  BY <1>2, <1>3

\* Of the checks that fail, one is the first.
LEMMA FirstOfFailing ==
  ASSUME NEW line \in Lines, ~IsAccepted(line)
  PROVE  \E i \in Failing(line) : \A j \in Failing(line) : i <= j
<1> DEFINE F == Failing(line)
<1>1. F \subseteq 1 .. 10 /\ F # {}
  BY DEF Failing, IsAccepted
<1> HIDE DEF F
<1>2. SUFFICES \E i \in F : \A j \in F : i <= j
  BY DEF F
<1>3. CASE 1 \in F \/ 2 \in F \/ 3 \in F
  BY <1>1, <1>3
<1>4. CASE F \subseteq 4 .. 10 /\ (4 \in F \/ 5 \in F \/ 6 \in F)
  BY <1>4
<1>5. CASE F \subseteq 7 .. 10
  <2>1. CASE 7 \in F \/ 8 \in F \/ 9 \in F
    BY <1>5, <2>1
  <2>2. CASE 7 \notin F /\ 8 \notin F /\ 9 \notin F
    <3>1. \A j \in F : j = 10
      BY <1>5, <2>2
    <3>2. PICK i \in F : TRUE
      BY <1>1
    <3> QED
      BY <3>1, <3>2
  <2> QED
    BY <2>1, <2>2
<1> QED
  BY <1>1, <1>3, <1>4, <1>5

\* What a handler returns is a response.
LEMMA ResponseType ==
  ASSUME NEW line \in Lines, NEW raises \in BOOLEAN
  PROVE  HandleRequest(line, raises) \in Responses
<1> DEFINE first == CHOOSE i \in Failing(line) : \A j \in Failing(line) : i <= j
<1>1. CASE IsAccepted(line)
  <2>1. line.command \in SupportedCommands
    BY <1>1 DEF IsAccepted, Failing, Fails
  <2> QED
    BY <1>1, <2>1 DEF HandleRequest, ErrorResponse, DataResponse, Responses, Abouts
<1>2. CASE ~IsAccepted(line)
  <2>1. first \in Failing(line)
    BY <1>2, FirstOfFailing
  <2>2. first \in 1 .. 10
    BY <2>1 DEF Failing
  <2>3. Rejection(line) = Code[first]
    BY DEF Rejection
  <2> HIDE DEF first
  <2>4. Rejection(line) \in Abouts
    BY <2>2, <2>3 DEF Abouts
  <2> QED
    BY <1>2, <2>4 DEF HandleRequest, ErrorResponse, Responses
<1> QED
  BY <1>1, <1>2


----------------------------------------------------------------------------
(* The lines.                                                              *)

\* What a client sends is a line with a length.
LEMMA LinesAreLines == \A line \in ClientLines : line \in Lines /\ line.size \in Nat
  BY ServiceAssumption DEF Lines

\* What a percentage of memory is.
LEMMA PercentOfTotal ==
  ASSUME NEW used \in Nat, NEW total \in Nat, total > 0, used <= total
  PROVE  (used * 100) \div total \in 0 .. 100
  BY Z3

\* The entry of a device that is read: of that device, and within the ranges.
LEMMA EntryType ==
  ASSUME NEW d \in Device, NEW name \in Call("name", d), NEW load \in Call("load", d),
         NEW memory \in Call("memory", d), NEW heat \in Call("heat", d)
  PROVE  /\ [index |-> d, name |-> DeviceName(name), load |-> Percentage(load),
             memory |-> MemoryValues(memory), heat |-> TemperatureCelsius(heat)] \in GpuEntries
         /\ Percentage(load) \subseteq Readings[d].load \cap 0 .. 100
         /\ TemperatureCelsius(heat) \subseteq Readings[d].heat
         /\ \A m \in MemoryValues(memory) :
              /\ \E r \in Readings[d].memory : m.used = r.used /\ m.total = r.total
              /\ m.percent \in 0 .. 100
<1> USE CountsAssumption, ReadingsAssumption
<1>1. /\ name \subseteq Readings[d].name /\ load \subseteq Readings[d].load
      /\ memory \subseteq Readings[d].memory /\ heat \subseteq Readings[d].heat
  BY DEF Call
<1>2. d \in Nat
  BY DEF Device
<1>3. DeviceName(name) \in SUBSET Names
  BY <1>1 DEF DeviceName, Names
<1>4. Percentage(load) \subseteq Readings[d].load \cap 0 .. 100
  BY <1>1 DEF Percentage
<1>5. TemperatureCelsius(heat) \subseteq Readings[d].heat
  BY <1>1 DEF TemperatureCelsius
<1>6. ASSUME NEW m \in MemoryValues(memory)
      PROVE  /\ \E r \in Readings[d].memory : m.used = r.used /\ m.total = r.total
             /\ m.percent \in 0 .. 100
             /\ m \in [used : Nat, total : Nat, percent : Nat]
  <2>1. PICK r \in memory : /\ r.total > 0 /\ r.used \in 0 .. r.total
                            /\ m = [used |-> r.used, total |-> r.total,
                                    percent |-> (r.used * 100) \div r.total]
    BY DEF MemoryValues
  <2>2. r \in Readings[d].memory /\ r.used \in Nat /\ r.total \in Nat
    BY <1>1
  <2>3. r.total > 0 /\ r.used <= r.total
    BY <2>1, <2>2
  <2>4. (r.used * 100) \div r.total \in 0 .. 100
    BY <2>2, <2>3, PercentOfTotal, Zenon
  <2> QED
    BY <2>1, <2>2, <2>4
<1>7. Percentage(load) \subseteq Nat /\ TemperatureCelsius(heat) \subseteq Nat
  BY <1>4, <1>5
<1> QED
  BY <1>2, <1>3, <1>4, <1>5, <1>6, <1>7 DEF GpuEntries

\* The answers that the service itself gives are responses.
LEMMA FixedResponses ==
  NoResponse \in Responses /\ ErrorResponse("permission_denied") \in Responses
<1>1. "nothing" \in Abouts /\ "permission_denied" \in Abouts
  BY DEF Abouts
<1> QED
  BY <1>1 DEF NoResponse, ErrorResponse, Responses

Clients == [line : ClientLines, peer : {"user", "other"}, sent : Nat, side : {"open", "closed"}]
Listings == [count : DeviceCounts \cup {0}, next : Nat, devices : SUBSET GpuEntries]

\* A listing that has just begun is well typed.
LEMMA ListingTypes ==
  /\ NoListing \in Listings
  /\ NoListing.next = 0 /\ NoListing.count = 0
  /\ \A n \in DeviceCounts : /\ [NoListing EXCEPT !.count = n] \in Listings
                             /\ [NoListing EXCEPT !.count = n].next = 0
                             /\ [NoListing EXCEPT !.count = n].count = n
  BY CountsAssumption DEF NoListing, Listings

\* The next index of a loop that goes on is one of a device.
LEMMA NextDevice ==
  ASSUME MoreDevices, listing \in Listings
  PROVE  /\ listing.next \in Device /\ listing.next \in Nat
         /\ listing.next < listing.count /\ listing.count \in Nat
<1>1. listing.count \in DeviceCounts \cup {0} /\ listing.next \in Nat
  BY DEF Listings
<1>2. DeviceCounts \cup {0} \subseteq Nat
  BY CountsAssumption
<1>3. listing.count \in Nat
  BY <1>1, <1>2
<1>4. listing.next < listing.count
  BY DEF MoreDevices
<1>5. listing.count # 0 /\ listing.next \in 0 .. listing.count - 1
  BY <1>1, <1>3, <1>4
<1>6. listing.count \in DeviceCounts
  BY <1>1, <1>5
<1>7. listing.next \in Device
  BY <1>5, <1>6, Zenon DEF Device
<1> QED
  BY <1>1, <1>3, <1>4, <1>7

\* The process starts with nothing read and nothing owed.
LEMMA ServiceTypeStarts == ServiceInit => ServiceTypeOK
<1> USE ServiceAssumption, ProtocolAssumption, CountsAssumption
<1> SUFFICES ASSUME ServiceInit PROVE ServiceTypeOK
  OBVIOUS
<1>1. client \in Clients
  BY DEF ServiceInit, Clients
<1>2. request \in Lines
  BY <1>1, LinesAreLines DEF ServiceInit, Clients
<1>3. listing \in Listings /\ listing.next <= listing.count
  BY ListingTypes DEF ServiceInit, GpuInit
<1>4. got \in 0 .. MaxRequestBytes + 1 /\ held \in Int /\ bound \subseteq Metrics
  BY DEF ServiceInit, GpuInit
<1>5. provider \in Failures
  BY DEF ServiceInit, GpuInit, Failures
<1> QED
  BY <1>1, <1>2, <1>3, <1>4, <1>5, FixedResponses DEF ServiceInit, ServiceTypeOK, Listings, Clients

\* Every step of the process and of its client keeps the types.
LEMMA ServiceTypeStep == ServiceTypeOK /\ [ServiceNext]_serviceVars => ServiceTypeOK'
<1> USE ServiceAssumption, ProtocolAssumption, CountsAssumption
<1> SUFFICES ASSUME ServiceTypeOK, [ServiceNext]_serviceVars PROVE ServiceTypeOK'
  OBVIOUS
<1> USE DEF ServiceTypeOK, To, gpuVars, Connection, Clients
<1>1. CASE Construct
  <2>1. bound' \in Libraries \cup {{}}
    BY <1>1 DEF Construct, Initialize, Unavailable
  <2>2. bound' \subseteq Metrics
    BY <2>1, LibrariesAssumption
  <2> QED
    BY <1>1, <2>2 DEF Construct, Initialize, Unavailable
<1>2. CASE TakePath
  BY <1>2 DEF TakePath
<1>3. CASE LeaveLoop
  BY <1>3 DEF LeaveLoop
<1>4. CASE CloseCollector
  BY <1>4 DEF CloseCollector, Shutdown
<1>5. CASE Recv
  <2>1. PICK n \in got + 1 .. client.sent :
          /\ n - got <= Chunk /\ n <= MaxRequestBytes + 1 /\ got' = n
          /\ \/ Returns("newline", n) \/ Returns("limit", n) \/ UNCHANGED <<stage, ending, request>>
    BY <1>5 DEF Recv
  <2>2. n \in Nat /\ got' \in 0 .. MaxRequestBytes + 1
    BY <2>1
  <2>3. client.line \in Lines
    BY LinesAreLines
  <2>4. stage' \in {stage, "handling"} /\ ending' \in {ending, "newline", "limit"} /\ request' \in Lines
    BY <2>1, <2>2, <2>3, PieceOfLine DEF Returns
  <2> QED
    BY <1>5, <2>2, <2>4 DEF Recv
<1>6. CASE RecvNothing
  <2>1. client.line \in Lines /\ got \in Nat
    BY LinesAreLines
  <2>2. request' \in Lines
    BY <1>6, <2>1, PieceOfLine DEF RecvNothing, Returns
  <2> QED
    BY <1>6, <2>2 DEF RecvNothing, Returns
<1>7. CASE Handle
  BY <1>7, ResponseType DEF Handle, Respond
<1>8. CASE HandleGpu
  <2>1. listing' \in Listings /\ listing'.next <= listing'.count
    <3>1. CASE listing' = NoListing
      BY <3>1, ListingTypes
    <3>2. CASE listing' # NoListing
      <4>1. PICK n \in DeviceCounts : listing' = [NoListing EXCEPT !.count = n]
        BY <1>8, <3>2 DEF HandleGpu, CountDevices
      <4>2. listing' \in Listings /\ listing'.next = 0 /\ listing'.count = n /\ n \in Nat
        BY <4>1, ListingTypes
      <4> QED
        BY <4>2
    <3> QED
      BY <3>1, <3>2
  <2> QED
    BY <1>8, <2>1 DEF HandleGpu, CountDevices, Listings
<1>9. CASE ListDevice
  <2>1. MoreDevices /\ listing \in Listings
    BY <1>9 DEF ListDevice, ReadDevice, SkipDevice, Listings
  <2>2. listing.next \in Nat /\ listing.next < listing.count /\ listing.count \in Nat
    BY <2>1, NextDevice
  <2>3. listing.next \in Device /\ listing.next + 1 <= listing.count
    BY <2>1, <2>2, NextDevice
  <2>4. CASE ReadDevice
    <3>1. PICK name \in Call("name", listing.next), load \in Call("load", listing.next),
               memory \in Call("memory", listing.next), heat \in Call("heat", listing.next) :
            listing' = [listing EXCEPT !.next = listing.next + 1, !.devices = @ \cup
              {[index |-> listing.next, name |-> DeviceName(name), load |-> Percentage(load),
                memory |-> MemoryValues(memory), heat |-> TemperatureCelsius(heat)]}]
      BY <2>4 DEF ReadDevice, IndexOf
    <3> DEFINE entry == [index |-> listing.next, name |-> DeviceName(name),
                         load |-> Percentage(load), memory |-> MemoryValues(memory),
                         heat |-> TemperatureCelsius(heat)]
    <3>2. entry \in GpuEntries
      BY <2>3, EntryType
    <3> HIDE DEF entry
    <3>3. listing' = [count |-> listing.count, next |-> listing.next + 1,
                   devices |-> listing.devices \cup {entry}]
      BY <3>1 DEF entry
    <3>4. listing' \in Listings /\ listing'.next <= listing'.count
      BY <2>3, <3>2, <3>3 DEF Listings
    <3> QED
      BY <1>9, <2>4, <3>4 DEF ListDevice, ReadDevice, Listings
  <2>5. CASE SkipDevice
    BY <1>9, <2>3, <2>5 DEF ListDevice, SkipDevice
  <2> QED
    BY <1>9, <2>4, <2>5 DEF ListDevice
<1>10. CASE FinishListing
  BY <1>10, ResponseType DEF FinishListing, Respond
<1>11. CASE SendAll \/ RecvFails
  <2>0. ConnectionEnds
    BY <1>11 DEF SendAll, RecvFails
  <2>1. listing' \in Listings /\ listing'.next <= listing'.count
    BY <2>0, ListingTypes DEF ConnectionEnds
  <2>2. client' \in Clients
        /\ request' \in Lines
    BY <2>0, LinesAreLines DEF ConnectionEnds
  <2> QED
    BY <2>0, <2>1, <2>2, FixedResponses DEF ConnectionEnds, Listings
<1>12. CASE AcceptClient
  <2>1. client' \in Clients
        /\ request' = client'.line /\ client'.line \in ClientLines
    BY <1>12 DEF AcceptClient
  <2> QED
    BY <1>12, <2>1, LinesAreLines, FixedResponses DEF AcceptClient
<1>13. CASE HaltService
  BY <1>13 DEF HaltService
<1>14. CASE ClientSends
  BY <1>14, LinesAreLines DEF ClientSends
<1>15. CASE ClientCloses
  BY <1>15 DEF ClientCloses
<1>16. CASE UNCHANGED serviceVars
  BY <1>16 DEF serviceVars
<1> QED
  BY <1>1, <1>2, <1>3, <1>4, <1>5, <1>6, <1>7, <1>8, <1>9, <1>10, <1>11, <1>12, <1>13,
     <1>14, <1>15, <1>16 DEF ServiceNext, ServiceStep

\* The types of the service hold, for any lines, libraries and devices.
THEOREM ServiceTypeCorrect == ServiceSpec => []ServiceTypeOK
BY ServiceTypeStarts, ServiceTypeStep, PTL DEF ServiceSpec

----------------------------------------------------------------------------
(* NVML and the device list.                                               *)

NvmlInv ==
  /\ stage = "starting" => held = 0 /\ provider # "ready"
  /\ stage \notin {"starting", "exited"} => held = (IF provider = "ready" THEN 1 ELSE 0)
  /\ stage = "exited" => held = 0
  /\ stage \notin {"scanning", "sending"} => listing = NoListing
  /\ MoreDevices => provider = "ready"

\* NVML is called only while the process holds it initialised, whichever of its
\* calls fail.
THEOREM NvmlIsCovered == ServiceSpec => []NvmlCallsAreCovered
<1>1. ServiceInit => NvmlInv
  BY DEF ServiceInit, GpuInit, NvmlInv, MoreDevices, NoListing
<1>2. ServiceTypeOK /\ NvmlInv /\ [ServiceNext]_serviceVars => NvmlInv'
  <2> SUFFICES ASSUME ServiceTypeOK, NvmlInv, [ServiceNext]_serviceVars PROVE NvmlInv'
    OBVIOUS
  <2> USE DEF NvmlInv, To, gpuVars, Connection, MoreDevices
  <2>1. CASE Construct
    BY <2>1 DEF Construct, Initialize, Unavailable, Failures, NoListing
  <2>2. CASE TakePath
    BY <2>2 DEF TakePath
  <2>3. CASE LeaveLoop
    BY <2>3 DEF LeaveLoop
  <2>4. CASE CloseCollector
    BY <2>4 DEF CloseCollector, Shutdown, NoListing
  <2>5. CASE Recv
    BY <2>5 DEF Recv, Returns
  <2>6. CASE RecvNothing
    BY <2>6 DEF RecvNothing, Returns
  <2>7. CASE Handle
    BY <2>7 DEF Handle, Respond
  <2>8. CASE HandleGpu
    BY <2>8 DEF HandleGpu, CountDevices, NoListing
  <2>9. CASE ListDevice
    BY <2>9 DEF ListDevice, ReadDevice, SkipDevice
  <2>10. CASE FinishListing
    BY <2>10 DEF FinishListing, Respond
  <2>11. CASE SendAll \/ RecvFails
    BY <2>11 DEF SendAll, RecvFails, ConnectionEnds, NoListing
  <2>12. CASE AcceptClient
    BY <2>12 DEF AcceptClient
  <2>13. CASE HaltService
    BY <2>13 DEF HaltService
  <2>14. CASE ClientSends
    BY <2>14 DEF ClientSends, Busy
  <2>15. CASE ClientCloses
    BY <2>15 DEF ClientCloses, Busy
  <2>16. CASE UNCHANGED serviceVars
    BY <2>16 DEF serviceVars
  <2> QED
    BY <2>1, <2>2, <2>3, <2>4, <2>5, <2>6, <2>7, <2>8, <2>9, <2>10, <2>11, <2>12, <2>13,
       <2>14, <2>15, <2>16 DEF ServiceNext, ServiceStep
<1>3. NvmlInv => NvmlCallsAreCovered
  BY DEF NvmlInv, NvmlCallsAreCovered
<1> QED
  BY <1>1, <1>2, <1>3, ServiceTypeCorrect, PTL DEF ServiceSpec

\* The entries were read in the order of the indices, so none has the index
\* that is read next.
EntriesInv ==
  /\ EntriesAreOfTheirDevice
  /\ \A e \in listing.devices : e.index < listing.next

\* Where nothing is listed, no entry is of another device.
LEMMA NoEntries == ASSUME listing'.devices = {} PROVE EntriesInv'
  BY DEF EntriesInv, EntriesAreOfTheirDevice

\* Every entry of a listing has the values of the device with its index, though
\* devices without a handle are left out.
THEOREM EntriesAreAlwaysOfTheirDevice == ServiceSpec => []EntriesAreOfTheirDevice
<1>1. ServiceInit => EntriesInv
  BY DEF ServiceInit, GpuInit, NoListing, EntriesInv, EntriesAreOfTheirDevice
<1>2. ServiceTypeOK /\ EntriesInv /\ [ServiceNext]_serviceVars => EntriesInv'
  <2> SUFFICES ASSUME ServiceTypeOK, EntriesInv, [ServiceNext]_serviceVars PROVE EntriesInv'
    OBVIOUS
  <2>1. CASE UNCHANGED listing
    BY <2>1 DEF EntriesInv, EntriesAreOfTheirDevice
  <2>2. CASE HandleGpu \/ SendAll \/ RecvFails
    <3>1. listing'.devices = {}
      BY <2>2 DEF HandleGpu, CountDevices, SendAll, RecvFails, ConnectionEnds, NoListing
    <3> QED
      BY <3>1, NoEntries
  <2>3. CASE ListDevice /\ SkipDevice
    <3>1. /\ listing'.devices = listing.devices /\ listing'.count = listing.count
          /\ listing'.next = listing.next + 1 /\ listing.next \in Nat
      BY <2>3 DEF SkipDevice, ServiceTypeOK
    <3>2. \A e \in listing.devices : e.index \in Nat
      BY DEF ServiceTypeOK, GpuEntries
    <3> QED
      BY <3>1, <3>2 DEF EntriesInv, EntriesAreOfTheirDevice
  <2>4. CASE ListDevice /\ ReadDevice
    <3>1. MoreDevices /\ listing \in Listings
      BY <2>4 DEF ReadDevice, ServiceTypeOK, Listings
    <3>2. PICK name \in Call("name", listing.next), load \in Call("load", listing.next),
               memory \in Call("memory", listing.next), heat \in Call("heat", listing.next) :
            listing' = [listing EXCEPT !.next = listing.next + 1, !.devices = @ \cup
              {[index |-> listing.next, name |-> DeviceName(name), load |-> Percentage(load),
                memory |-> MemoryValues(memory), heat |-> TemperatureCelsius(heat)]}]
      BY <2>4 DEF ReadDevice, IndexOf
    <3> DEFINE entry == [index |-> listing.next, name |-> DeviceName(name),
                         load |-> Percentage(load), memory |-> MemoryValues(memory),
                         heat |-> TemperatureCelsius(heat)]
    <3>3. listing.next \in Device /\ listing.next \in Nat /\ listing.next < listing.count
      BY <3>1, NextDevice
    <3>4. /\ entry.load \subseteq Readings[listing.next].load \cap 0 .. 100
          /\ entry.heat \subseteq Readings[listing.next].heat
          /\ \A m \in entry.memory :
               /\ \E r \in Readings[listing.next].memory : m.used = r.used /\ m.total = r.total
               /\ m.percent \in 0 .. 100
      BY <3>3, EntryType
    <3>5. entry.index = listing.next
      OBVIOUS
    <3> HIDE DEF entry
    <3>6. /\ listing'.devices = listing.devices \cup {entry}
          /\ listing'.next = listing.next + 1 /\ listing'.count = listing.count
      BY <3>1, <3>2 DEF entry, Listings
    <3>7. \A e \in listing.devices : e.index \in Nat /\ e.index < listing.next
      BY <3>1 DEF Listings, GpuEntries, EntriesInv
    <3>8. \A e \in listing'.devices : e.index < listing'.next
      BY <3>3, <3>5, <3>6, <3>7
    <3>9. ASSUME NEW e \in listing'.devices
          PROVE  /\ e.index < listing.count
                 /\ e.load \subseteq Readings[e.index].load \cap 0 .. 100
                 /\ e.heat \subseteq Readings[e.index].heat
                 /\ \A m \in e.memory :
                      /\ \E r \in Readings[e.index].memory : m.used = r.used /\ m.total = r.total
                      /\ m.percent \in 0 .. 100
      <4>1. CASE e = entry
        BY <3>3, <3>4, <3>5, <4>1
      <4>2. CASE e \in listing.devices
        BY <4>2 DEF EntriesInv, EntriesAreOfTheirDevice
      <4> QED
        BY <3>6, <4>1, <4>2
    <3>10. \A e, f \in listing'.devices : f.index = e.index => f = e
      <4> SUFFICES ASSUME NEW e \in listing'.devices, NEW f \in listing'.devices, f.index = e.index
                   PROVE  f = e
        OBVIOUS
      <4>1. CASE e \in listing.devices /\ f \in listing.devices
        BY <4>1 DEF EntriesInv, EntriesAreOfTheirDevice
      <4>2. CASE e = entry /\ f \in listing.devices
        BY <3>3, <3>5, <3>7, <4>2
      <4>3. CASE e \in listing.devices /\ f = entry
        BY <3>3, <3>5, <3>7, <4>3
      <4> QED
        BY <3>6, <4>1, <4>2, <4>3
    <3> QED
      BY <3>6, <3>8, <3>9, <3>10 DEF EntriesInv, EntriesAreOfTheirDevice
  <2> QED
    BY <2>1, <2>2, <2>3, <2>4 DEF ServiceNext, ServiceStep, Construct, Initialize, Unavailable,
       TakePath, LeaveLoop, CloseCollector, Shutdown, Recv, RecvNothing, Handle, ListDevice,
       FinishListing, AcceptClient, HaltService, ClientSends, ClientCloses, gpuVars, serviceVars
<1>3. EntriesInv => EntriesAreOfTheirDevice
  BY DEF EntriesInv
<1> QED
  BY <1>1, <1>2, <1>3, ServiceTypeCorrect, PTL DEF ServiceSpec

----------------------------------------------------------------------------
(* The answers.                                                            *)

\* What _read_request returned, by the reason for which it stopped.
RequestIsRead ==
  \/ ending = "newline" /\ request = client.line
  \/ /\ ending = "limit" /\ request \in Pieces(client.line, got)
     /\ got > MaxRequestBytes /\ got <= client.line.size
  \/ ending = "gone" /\ request \in Pieces(client.line, got)

ReadInv ==
  /\ stage = "reading" => client.peer = "user" /\ got <= client.line.size
  /\ stage \in {"handling", "scanning"} => RequestIsRead
  /\ stage = "sending" /\ client.peer = "user" => RequestIsRead /\ response \in Owed(request)

\* What is owed to the bytes that were read is owed to the line.
LEMMA OwedOfRead ==
  ASSUME ServiceTypeOK, RequestIsRead, response \in Owed(request), stage = "sending"
  PROVE  AnswerIsOfTheLine
<1>1. client.line \in Lines /\ got \in Nat /\ client.line.size \in Nat /\ request \in Lines
  BY LinesAreLines, ProtocolAssumption DEF ServiceTypeOK
<1>2. CASE ending = "newline" /\ request = client.line
  BY <1>2 DEF AnswerIsOfTheLine
<1>3. CASE /\ ending = "limit" /\ request \in Pieces(client.line, got)
           /\ got > MaxRequestBytes /\ got <= client.line.size
  <2>1. request.size > MaxRequestBytes /\ client.line.size > MaxRequestBytes
    BY <1>1, <1>3, PieceOfLine, ProtocolAssumption
  <2>2. response = ErrorResponse("request_too_large")
    BY <1>1, <2>1, TooLarge DEF Owed
  <2>3. HandleRequest(client.line, TRUE) = ErrorResponse("request_too_large")
    BY <1>1, <2>1, TooLarge
  <2>4. response \in Owed(client.line)
    BY <2>2, <2>3 DEF Owed
  <2> QED
    BY <1>3, <2>4 DEF AnswerIsOfTheLine
<1>4. CASE ending = "gone" /\ request \in Pieces(client.line, got)
  <2>1. CASE client.line.text # "object"
    BY <1>4, <2>1 DEF AnswerIsOfTheLine
  <2>2. CASE request.text # "object"
    <3>1. response.status = "error"
      BY <1>1, <2>2, NotAnObject DEF Owed
    <3> QED
      BY <1>4, <3>1 DEF AnswerIsOfTheLine
  <2>3. CASE client.line.text = "object" /\ request.text = "object"
    <3>1. got >= client.line.core /\ request = [client.line EXCEPT !.size = got]
      BY <1>1, <1>4, <2>3, PieceOfLine
    <3> QED
      BY <1>4, <3>1 DEF AnswerIsOfTheLine
  <2> QED
    BY <2>1, <2>2, <2>3
<1> QED
  BY <1>2, <1>3, <1>4 DEF RequestIsRead

\* A client of the user that ends its line is sent what is owed to the line, however
\* it is cut; one that stops before it ends is sent an error, or what is owed to
\* what it sent.
THEOREM AnswerIsAlwaysOfTheLine == ServiceSpec => []AnswerIsOfTheLine
<1>1. ServiceInit => ReadInv
  BY DEF ServiceInit, ReadInv
<1>2. ServiceTypeOK /\ ReadInv /\ [ServiceNext]_serviceVars => ReadInv'
  <2> SUFFICES ASSUME ServiceTypeOK, ReadInv, [ServiceNext]_serviceVars PROVE ReadInv'
    OBVIOUS
  <2> USE DEF To, gpuVars, Connection
  <2>1. CASE Construct \/ TakePath \/ LeaveLoop \/ CloseCollector \/ SendAll \/ RecvFails
    <3>1. stage' \in {"path", "refused", "closing", "waiting", "exited"}
      BY <2>1 DEF Construct, TakePath, LeaveLoop, CloseCollector, SendAll, RecvFails, ConnectionEnds
    <3> QED
      BY <3>1 DEF ReadInv
  <2>2. CASE Recv
    <3>1. PICK n \in got + 1 .. client.sent :
            /\ got' = n
            /\ \/ n > client.line.size /\ Returns("newline", n)
               \/ n <= client.line.size /\ ~ReadsOn(n) /\ Returns("limit", n)
               \/ n <= client.line.size /\ UNCHANGED <<stage, ending, request>>
      BY <2>2 DEF Recv
    <3>2. n \in Nat /\ client.line.size \in Nat /\ MaxRequestBytes \in Nat
      BY <3>1, LinesAreLines, ProtocolAssumption DEF ServiceTypeOK
    <3>3. UNCHANGED <<client, response>> /\ stage = "reading" /\ client.peer = "user"
      BY <2>2 DEF Recv, ReadInv
    <3>4. CASE n > client.line.size /\ Returns("newline", n)
      BY <3>3, <3>4 DEF Returns, ReadInv, RequestIsRead
    <3>5. CASE n <= client.line.size /\ ~ReadsOn(n) /\ Returns("limit", n)
      <4>1. got' > MaxRequestBytes /\ got' <= client'.line.size
        BY <3>1, <3>2, <3>3, <3>5 DEF ReadsOn
      <4>2. ending' = "limit" /\ request' \in Pieces(client'.line, got') /\ stage' = "handling"
        BY <3>1, <3>3, <3>5 DEF Returns
      <4> QED
        BY <4>1, <4>2 DEF ReadInv, RequestIsRead
    <3>6. CASE n <= client.line.size /\ UNCHANGED <<stage, ending, request>>
      BY <3>1, <3>3, <3>6 DEF ReadInv
    <3> QED
      BY <3>1, <3>4, <3>5, <3>6
  <2>3. CASE RecvNothing
    <3>1. /\ ending' = "gone" /\ request' \in Pieces(client.line, got) /\ stage' = "handling"
          /\ UNCHANGED <<client, got>>
      BY <2>3 DEF RecvNothing, Returns
    <3> QED
      BY <3>1 DEF ReadInv, RequestIsRead
  <2>4. CASE Handle \/ FinishListing
    <3>1. RequestIsRead /\ UNCHANGED <<client, got, ending, request>> /\ stage' = "sending"
      BY <2>4 DEF Handle, FinishListing, Respond, ReadInv
    <3>2. PICK raises \in BOOLEAN : response' = HandleRequest(request, raises)
      <4>1. CASE Handle
        BY <4>1, Zenon DEF Handle, Respond
      <4>2. CASE FinishListing
        BY <4>2, Zenon DEF FinishListing, Respond
      <4> QED
        BY <2>4, <4>1, <4>2
    <3>3. response' \in Owed(request)
      BY <3>2 DEF Owed
    <3> QED
      BY <3>1, <3>3 DEF ReadInv, RequestIsRead, Owed
  <2>5. CASE HandleGpu \/ ListDevice
    BY <2>5 DEF HandleGpu, ListDevice, ReadInv, RequestIsRead
  <2>6. CASE AcceptClient
    <3>1. /\ stage' \in {"reading", "sending"} /\ (stage' = "reading" <=> client'.peer = "user")
          /\ got' = 0 /\ client'.line \in ClientLines
      BY <2>6 DEF AcceptClient
    <3> QED
      BY <3>1, LinesAreLines DEF ReadInv
  <2>7. CASE HaltService \/ UNCHANGED serviceVars
    BY <2>7 DEF HaltService, serviceVars, ReadInv, RequestIsRead, Owed
  <2>8. CASE ClientSends \/ ClientCloses
    <3>1. /\ client'.line = client.line /\ client'.peer = client.peer
          /\ UNCHANGED <<stage, got, ending, request, response>>
      BY <2>8 DEF ClientSends, ClientCloses, ServiceTypeOK
    <3> QED
      BY <3>1 DEF ReadInv, RequestIsRead, Owed
  <2> QED
    BY <2>1, <2>2, <2>3, <2>4, <2>5, <2>6, <2>7, <2>8 DEF ServiceNext, ServiceStep
<1>3. ServiceTypeOK /\ ReadInv => AnswerIsOfTheLine
  <2> SUFFICES ASSUME ServiceTypeOK, ReadInv, stage = "sending", client.peer = "user"
               PROVE  AnswerIsOfTheLine
    BY DEF AnswerIsOfTheLine
  <2> QED
    BY OwedOfRead DEF ReadInv
<1> QED
  BY <1>1, <1>2, <1>3, ServiceTypeCorrect, PTL DEF ServiceSpec

----------------------------------------------------------------------------
(* One client after the other.                                             *)

\* The step takes the client at hand further: to the next stage, or within a
\* stage to more bytes or a later device, of which there are only so many.
Onward ==
  \/ ~Busy'
  \/ <<stage, stage'>> \in {<<"reading", "handling">>, <<"handling", "scanning">>,
                            <<"handling", "sending">>, <<"scanning", "sending">>}
  \/ stage = "reading" /\ stage' = "reading" /\ got' \in got + 1 .. MaxRequestBytes + 1
  \/ /\ stage = "scanning" /\ stage' = "scanning"
     /\ listing'.next \in listing.next + 1 .. listing.count /\ listing'.count = listing.count

\* While a client is served, the server's steps are onward and the others' are
\* onward or leave its progress alone.
LEMMA BusyStep ==
  ASSUME ServiceTypeOK, [ServiceNext]_serviceVars, Busy
  PROVE  (ServiceStep => Onward) /\ (Onward \/ UNCHANGED <<stage, got, listing>>)
<1> USE DEF Busy, To, gpuVars, Connection
<1>1. ASSUME ServiceStep PROVE Onward
  <2>1. ~Construct /\ ~TakePath /\ ~LeaveLoop /\ ~CloseCollector
    BY DEF Construct, TakePath, LeaveLoop, CloseCollector
  <2>2. CASE Recv
    <3>1. PICK n \in got + 1 .. client.sent :
            /\ n <= MaxRequestBytes + 1 /\ got' = n
            /\ \/ Returns("newline", n)
               \/ Returns("limit", n)
               \/ UNCHANGED stage
      BY <2>2 DEF Recv
    <3>2. stage = "reading"
      BY <2>2 DEF Recv
    <3>3. got' \in got + 1 .. MaxRequestBytes + 1
      BY <3>1, ProtocolAssumption DEF ServiceTypeOK
    <3> QED
      BY <3>1, <3>2, <3>3 DEF Returns, Onward
  <2>3. CASE RecvNothing
    BY <2>3 DEF RecvNothing, Returns, Onward
  <2>4. CASE Handle
    BY <2>4 DEF Handle, Respond, Onward
  <2>5. CASE HandleGpu
    BY <2>5 DEF HandleGpu, Onward
  <2>6. CASE ListDevice
    <3>1. MoreDevices /\ stage = "scanning" /\ stage' = "scanning" /\ listing \in Listings
      BY <2>6 DEF ListDevice, ReadDevice, SkipDevice, ServiceTypeOK, Listings
    <3>2. listing'.next = listing.next + 1 /\ listing'.count = listing.count
      <4>1. CASE ReadDevice
        BY <3>1, <4>1 DEF ReadDevice, Listings
      <4>2. CASE SkipDevice
        BY <3>1, <4>2 DEF SkipDevice, Listings
      <4> QED
        BY <2>6, <4>1, <4>2 DEF ListDevice
    <3> QED
      BY <3>1, <3>2, NextDevice DEF Onward
  <2>7. CASE FinishListing
    BY <2>7 DEF FinishListing, Respond, Onward
  <2>8. CASE SendAll \/ RecvFails
    BY <2>8 DEF SendAll, RecvFails, ConnectionEnds, Onward
  <2> QED
    BY <1>1, <2>1, <2>2, <2>3, <2>4, <2>5, <2>6, <2>7, <2>8 DEF ServiceStep
<1>2. ~AcceptClient
  BY DEF AcceptClient
<1>3. HaltService \/ ClientSends \/ ClientCloses \/ UNCHANGED serviceVars
        => UNCHANGED <<stage, got, listing>>
  BY DEF HaltService, ClientSends, ClientCloses, serviceVars
<1> QED
  BY <1>1, <1>2, <1>3 DEF ServiceNext

\* Whatever a client sends, stops sending or closes, each step of the server
\* is one towards letting it go, and none of anybody's is one back.
THEOREM ServingAlwaysAdvances ==
  ServiceSpec => [][Busy => (ServiceStep => Onward) /\ (Onward \/ UNCHANGED <<stage, got, listing>>)]_serviceVars
<1>1. ServiceTypeOK /\ [ServiceNext]_serviceVars =>
        [Busy => (ServiceStep => Onward) /\ (Onward \/ UNCHANGED <<stage, got, listing>>)]_serviceVars
  BY BusyStep
<1> QED
  BY <1>1, ServiceTypeCorrect, PTL DEF ServiceSpec

----------------------------------------------------------------------------
(* MCBackendParts.tla: the five parts side by side.                        *)

PartsSpec == Init /\ [][Next]_partVars

\* A step of one part is a step of it or a stutter of every part.
LEMMA StepOfParts ==
  [Next]_partVars =>
    /\ [ServerNext]_serverVars /\ [SamplerNext]_samplerVars /\ [ServiceNext]_serviceVars
    /\ [InstallerNext]_installerVars /\ [ReleaseNext]_releaseVars
<1> USE DEF ServerIdle, SamplerIdle, ServiceIdle, InstallerIdle, ReleaseIdle
<1>1. CASE AtServer /\ ServerNext
  BY <1>1 DEF AtServer
<1>2. CASE AtSampler /\ SamplerNext
  BY <1>2 DEF AtSampler
<1>3. CASE AtService /\ ServiceNext
  BY <1>3 DEF AtService
<1>4. CASE AtInstaller /\ InstallerNext
  BY <1>4 DEF AtInstaller
<1>5. CASE AtRelease /\ ReleaseNext
  BY <1>5 DEF AtRelease
<1>6. CASE UNCHANGED partVars
  BY <1>6 DEF partVars
<1>7. QED
  BY <1>1, <1>2, <1>3, <1>4, <1>5, <1>6 DEF Next

\* What is followed is a behaviour of every part's own specification (of the
\* servers, but for its fairness), so that what is proved of a part holds here.
THEOREM PartsBehave ==
  PartsSpec => /\ ServerInit /\ [][ServerNext]_serverVars
               /\ SamplerSpec /\ ServiceSpec /\ InstallerSpec /\ ReleaseSpec
<1>1. Init => ServerInit /\ SamplerInit /\ ServiceInit /\ InstallerInit /\ ReleaseInit
  BY DEF Init
<1>2. QED
  BY <1>1, StepOfParts, PTL DEF PartsSpec, SamplerSpec, ServiceSpec, InstallerSpec, ReleaseSpec

\* Type correctness of every part around the backend.
THEOREM PartTypeCorrect == PartsSpec => []PartTypeOK
<1>1. SamplerSpec => []SamplerTypeOK
  <2>1. SamplerInv => SamplerTypeOK
    BY DEF SamplerInv, SamplerTypes, SamplerTypeOK
  <2>2. QED
    BY <2>1, SamplerStart, SamplerStep, PTL DEF SamplerSpec
<1>2. ServerTypeOK /\ SamplerTypeOK /\ ServiceTypeOK /\ InstallerTypeOK /\ ReleaseTypeOK => PartTypeOK
  BY DEF PartTypeOK
<1>3. QED
  BY <1>1, <1>2, PartsBehave, ServerTypeStarts, ServerTypeStep, ServiceTypeCorrect, InstallerTypeCorrect, ReleaseTypeCorrect, PTL
=============================================================================
