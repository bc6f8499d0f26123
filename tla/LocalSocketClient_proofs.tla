---------------------- MODULE LocalSocketClient_proofs ----------------------
(***************************************************************************)
(* Proofs about LocalSocketClient.tla for every set of requests and paths. *)
(***************************************************************************)
EXTENDS LocalSocketClient, TLAPS

\* The strengthening: a busy bridge has a request to send.  AnswerIsForPending
\* alone says nothing of it while the connection is still being made, when
\* HandleConnected is about to write it.
ClientInv ==
  /\ ClientTypeOK
  /\ TimeoutCoversRequest
  /\ AnswerIsForPending
  /\ busy => pending \in Requests

\* An accepted request leaves the bridge busy, timed, and connected, if at
\* all, for that request only.
LEMMA AcceptStep ==
  ASSUME ClientInv, NEW r \in Requests, RequestConnects(r) \/ RequestWaits(r)
  PROVE  ClientInv'
  BY DEF ClientInv, ClientTypeOK, TimeoutCoversRequest, AnswerIsForPending,
     RequestConnects, RequestWaits, Accept

\* fail() leaves nothing behind.
LEMMA FailStep ==
  ASSUME ClientInv, Fail
  PROVE  ClientInv'
  BY DEF ClientInv, ClientTypeOK, TimeoutCoversRequest, AnswerIsForPending,
     Fail, Abort, ResetRequest

\* A change of path leaves nothing behind either.
LEMMA PathStep ==
  ASSUME ClientInv, NEW p \in Paths, SetSocketPath(p)
  PROVE  ClientInv'
  <1>1. CASE busy
    BY <1>1 DEF ClientInv, ClientTypeOK, TimeoutCoversRequest, AnswerIsForPending,
       SetSocketPath, Abort, ResetRequest
  <1>2. CASE ~busy
    BY <1>2 DEF ClientInv, ClientTypeOK, TimeoutCoversRequest, AnswerIsForPending,
       SetSocketPath
  <1>. QED
    BY <1>1, <1>2

\* A bridge that was never used is in order.
LEMMA ClientStarts == ClientInit => ClientInv
BY DEF ClientInit, ClientInv, ClientTypeOK, TimeoutCoversRequest, AnswerIsForPending

\* Every step of the bridge keeps the invariant.
LEMMA ClientStep == ClientInv /\ [ClientNext]_clientVars => ClientInv'
  <1> SUFFICES ASSUME ClientInv, [ClientNext]_clientVars
               PROVE  ClientInv'
    OBVIOUS
  <1>1. ASSUME NEW r \in Requests, RequestConnects(r) \/ RequestWaits(r)
        PROVE  ClientInv'
    BY <1>1, AcceptStep
  <1>2. ASSUME NEW r \in Requests, RequestFails(r)
        PROVE  ClientInv'
    BY <1>2, FailStep DEF RequestFails
  <1>3. CASE HandleConnected
    BY <1>3 DEF ClientInv, ClientTypeOK, TimeoutCoversRequest,
       AnswerIsForPending, HandleConnected
  <1>4. CASE HandleReadyReadPartial
    BY <1>4 DEF ClientInv, ClientTypeOK, TimeoutCoversRequest,
       AnswerIsForPending, HandleReadyReadPartial
  <1>5. CASE HandleReadyReadLine
    BY <1>5 DEF ClientInv, ClientTypeOK, TimeoutCoversRequest,
       AnswerIsForPending, HandleReadyReadLine, Abort
  <1>6. CASE TransportFailure
    <2>1. Fail
      BY <1>6 DEF TransportFailure, HandleReadyReadTooLarge, HandleDisconnected,
         HandleSocketError, HandleTimeout
    <2>. QED
      BY <2>1, FailStep
  <1>7. ASSUME NEW p \in Paths, SetSocketPath(p)
        PROVE  ClientInv'
    BY <1>7, PathStep
  <1>8. CASE UNCHANGED clientVars
    BY <1>8 DEF ClientInv, ClientTypeOK, TimeoutCoversRequest,
       AnswerIsForPending, clientVars
  <1>. QED
    BY <1>1, <1>2, <1>3, <1>4, <1>5, <1>6, <1>7, <1>8 DEF ClientNext

\* The types hold, the timeout covers exactly the time a request is out, and
\* what arrives on a connection answers the request that is out.
THEOREM ClientInvariant == ClientSpec => []ClientInv
  BY ClientStarts, ClientStep, PTL DEF ClientSpec

\* The timeout runs exactly while a request is out.
THEOREM TimeoutAlwaysCoversRequest == ClientSpec => []TimeoutCoversRequest
  BY ClientInvariant, PTL DEF ClientInv

\* An answer that arrives is the answer to the request that is out.
THEOREM AnswerIsAlwaysForPending == ClientSpec => []AnswerIsForPending
  BY ClientInvariant, PTL DEF ClientInv

\* The bridge implements the line of RequestLine.tla, step by step: a request
\* is only accepted over a free line, and only an answer, a failure or a change
\* of the path frees it.
THEOREM ClientImplementsLine == ClientSpec => Line!SafeSpec
  <1> DEFINE holder == IF busy THEN {"bridge"} ELSE {}
  <1>1. ClientInit => Line!Init
    BY DEF ClientInit, Line!Init
  <1>2. [ClientNext]_clientVars => [Line!Next]_holder
    <2> SUFFICES ASSUME [ClientNext]_clientVars PROVE [Line!Next]_holder
      OBVIOUS
    <2>1. ASSUME NEW r \in Requests, RequestConnects(r) \/ RequestWaits(r)
          PROVE  Line!Occupy("bridge")
      BY <2>1 DEF RequestConnects, RequestWaits, Accept, Line!Occupy
    <2>2. busy' = busy \/ ~busy' => [Line!Next]_holder
      <3>1. CASE busy' = busy
        BY <3>1
      <3>2. CASE busy /\ ~busy'
        BY <3>2 DEF Line!Next, Line!Release
      <3>3. CASE ~busy /\ ~busy'
        BY <3>3
      <3>. QED
        BY <3>1, <3>2, <3>3
    <2>3. (\E r \in Requests : RequestFails(r)) \/ HandleReadyReadLine \/ TransportFailure => ~busy'
      BY DEF RequestFails, HandleReadyReadLine, TransportFailure, HandleReadyReadTooLarge,
         HandleDisconnected, HandleSocketError, HandleTimeout, Fail, ResetRequest
    <2>4. HandleConnected \/ HandleReadyReadPartial \/ UNCHANGED clientVars => busy' = busy
      BY DEF HandleConnected, HandleReadyReadPartial, clientVars
    <2>5. (\E p \in Paths : SetSocketPath(p)) => busy' = busy \/ ~busy'
      BY DEF SetSocketPath, ResetRequest
    <2>. QED
      BY <2>1, <2>2, <2>3, <2>4, <2>5 DEF ClientNext, Line!Next
  <1>. QED
    BY <1>1, <1>2, PTL DEF ClientSpec, Line!SafeSpec
============================================================================
