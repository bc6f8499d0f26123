----------------------- MODULE BackendProvider_proofs -----------------------
(***************************************************************************)
(* Proofs about BackendProvider.tla, for every set of widgets, every set   *)
(* of limits and every settings change.                                    *)
(*                                                                         *)
(* LinkInv is the inductive strengthening of InFlightMatchesBridge and     *)
(* QueueIsCoalesced: it adds the types, and that an open or opening        *)
(* connection belongs to a request that is out.  Without the latter a      *)
(* connection left over from an earlier request could be confirmed         *)
(* (HandleConnected) while nothing, or something else, is pending.         *)
(***************************************************************************)
EXTENDS BackendProvider, TLAPS

\* A queue that may become the queue of widget w.
Coalesced(w, q) ==
  /\ q \in Seq(RequestTypes)
  /\ \A i, j \in 1..Len(q) : q[i] = q[j] => i = j
  /\ \A i \in 1..Len(q) : ~InFlightCovers(w, q[i])

LinkTypes ==
  /\ inFlight \in [Widgets -> Commands \cup {None}]
  /\ queue \in [Widgets -> Seq(RequestTypes)]
  /\ bounded \in [Widgets -> BOOLEAN]
  /\ Client!ClientTypeOK

LinkInv ==
  /\ LinkTypes
  /\ InFlightMatchesBridge
  /\ QueueIsCoalesced
  /\ socket # "unconnected" => busy

ConfigTypes == config \in [Widgets -> Configs]

----------------------------------------------------------------------------
(* Requests and queues.                                                    *)

\* The line of a request is a line the bridge accepts, and names the command
\* that inFlightCommand is set to.
LEMMA RequestForFacts ==
  ASSUME ConfigTypes, bounded \in [Widgets -> BOOLEAN],
         NEW w \in Widgets, NEW type \in RequestTypes
  PROVE  /\ RequestFor(w, type) \in WireRequests
         /\ RequestFor(w, type) # NoRequest
         /\ RequestFor(w, type).command \in Commands
         /\ RequestFor(w, type).command = type
              \/ (type = "processes" /\ RequestFor(w, type).command = "snapshot")
  <1>1. config[w].sort \in SortModes
    BY DEF ConfigTypes, Configs
  <1>2. CASE type = "gpu"
    BY <1>2 DEF RequestFor, WireRequests, NoRequest, Commands, RequestTypes, None
  <1>3. CASE type = "processes" /\ bounded[w]
    BY <1>1, <1>3 DEF RequestFor, WireRequests, NoRequest, Commands, RequestTypes, None
  <1>4. CASE type = "processes" /\ ~bounded[w]
    BY <1>4 DEF RequestFor, WireRequests, NoRequest, Commands, RequestTypes, None
  <1>. QED
    BY <1>2, <1>3, <1>4 DEF RequestTypes

\* Taking the head off a coalesced queue leaves one without that type.
LEMMA TailFacts ==
  ASSUME NEW q \in Seq(RequestTypes), q # <<>>,
         \A i, j \in 1..Len(q) : q[i] = q[j] => i = j
  PROVE  /\ Head(q) \in RequestTypes
         /\ Tail(q) \in Seq(RequestTypes)
         /\ \A i, j \in 1..Len(Tail(q)) : Tail(q)[i] = Tail(q)[j] => i = j
         /\ \A i \in 1..Len(Tail(q)) : Tail(q)[i] # Head(q)
  OBVIOUS

\* enqueueRequest keeps the queue coalesced.
LEMMA EnqueueFacts ==
  ASSUME LinkInv, NEW w \in Widgets, NEW type \in RequestTypes,
         ~InFlightCovers(w, type)
  PROVE  Coalesced(w, IF InQueue(queue[w], type) THEN queue[w]
                      ELSE Append(queue[w], type))
  <1>1. Coalesced(w, queue[w])
    BY DEF LinkInv, LinkTypes, QueueIsCoalesced, Coalesced
  <1>2. CASE InQueue(queue[w], type)
    BY <1>1, <1>2
  <1>3. CASE ~InQueue(queue[w], type)
    <2> DEFINE q == queue[w]
    <2>1. q \in Seq(RequestTypes)
      BY <1>1 DEF Coalesced
    <2>2. /\ Append(q, type) \in Seq(RequestTypes)
          /\ Len(Append(q, type)) = Len(q) + 1
          /\ Append(q, type)[Len(q) + 1] = type
          /\ \A i \in 1..Len(q) : Append(q, type)[i] = q[i]
      BY <2>1
    <2>3. \A i \in 1..Len(q) : q[i] # type
      BY <1>3 DEF InQueue
    <2>4. Len(q) \in Nat
      BY <2>1
    <2>. HIDE DEF q
    <2>5. \A i, j \in 1..Len(Append(q, type)) :
            Append(q, type)[i] = Append(q, type)[j] => i = j
      BY <1>1, <2>2, <2>3, <2>4 DEF Coalesced, q
    <2>6. \A i \in 1..Len(Append(q, type)) : ~InFlightCovers(w, Append(q, type)[i])
      BY <1>1, <2>2, <2>3, <2>4 DEF Coalesced, q
    <2>. QED
      BY <1>3, <2>2, <2>5, <2>6 DEF Coalesced, q
  <1>. QED
    BY <1>2, <1>3

\* discardQueuedRequest takes out one entry, and keeps the queue coalesced.
LEMMA DiscardFacts ==
  ASSUME NEW w \in Widgets, NEW q, NEW type \in RequestTypes, Coalesced(w, q)
  PROVE  Coalesced(w, Discard(q, type)) /\ ~InQueue(Discard(q, type), type)
  <1> DEFINE Hits == {i \in 1..Len(q) : q[i] = type}
             first == CHOOSE i \in Hits : \A j \in Hits : i <= j
             rest == [j \in 1..(Len(q) - 1) |-> IF j < first THEN q[j] ELSE q[j + 1]]
  <1>0. q \in Seq(RequestTypes) /\ Len(q) \in Nat
    BY DEF Coalesced
  <1>1. CASE Hits = {}
    BY <1>1 DEF Discard, InQueue
  <1>2. CASE Hits # {}
    <2>1. PICK i \in Hits : TRUE
      BY <1>2
    <2>2. Hits = {i}
      BY <2>1 DEF Coalesced
    <2>3. first = i /\ i \in 1..Len(q) /\ q[i] = type
      BY <2>1, <2>2, <1>0
    <2>4. Discard(q, type) = rest
      BY <1>2 DEF Discard
    <2>. HIDE DEF first
    <2>5. \A j \in 1..(Len(q) - 1) : rest[j] = (IF j < i THEN q[j] ELSE q[j + 1])
      BY <2>3
    <2>6. rest \in Seq(RequestTypes) /\ Len(rest) = Len(q) - 1
      BY <2>3, <1>0
    <2>. HIDE DEF rest, Hits
    <2>7. \A j \in 1..Len(rest) : \E k \in 1..Len(q) :
             k # i /\ rest[j] = q[k] /\ k = IF j < i THEN j ELSE j + 1
      BY <2>3, <2>5, <2>6, <1>0
    <2>8. \A j \in 1..Len(rest) : rest[j] # type /\ ~InFlightCovers(w, rest[j])
      BY <2>3, <2>7 DEF Coalesced
    <2>9. \A j, k \in 1..Len(rest) : rest[j] = rest[k] => j = k
      BY <2>3, <2>7, <2>6, <1>0 DEF Coalesced
    <2>. QED
      BY <2>4, <2>6, <2>8, <2>9 DEF Coalesced, InQueue
  <1>. QED
    BY <1>1, <1>2

\* What discardQueuedRequest leaves was there before.
LEMMA DiscardSubset ==
  ASSUME NEW w \in Widgets, NEW q, NEW type \in RequestTypes, Coalesced(w, q)
  PROVE  \A t : InQueue(Discard(q, type), t) => InQueue(q, t)
  <1> DEFINE Hits == {i \in 1..Len(q) : q[i] = type}
             first == CHOOSE i \in Hits : \A j \in Hits : i <= j
             rest == [j \in 1..(Len(q) - 1) |-> IF j < first THEN q[j] ELSE q[j + 1]]
  <1>0. q \in Seq(RequestTypes) /\ Len(q) \in Nat
    BY DEF Coalesced
  <1>1. CASE Hits = {}
    BY <1>1 DEF Discard
  <1>2. CASE Hits # {}
    <2>1. PICK i \in Hits : TRUE
      BY <1>2
    <2>2. Hits = {i}
      BY <2>1 DEF Coalesced
    <2>3. first = i /\ i \in 1..Len(q)
      BY <2>1, <2>2, <1>0
    <2>4. Discard(q, type) = rest
      BY <1>2 DEF Discard
    <2>. HIDE DEF first
    <2>5. Len(rest) = Len(q) - 1
      BY <2>3, <1>0
    <2>6. \A j \in 1..(Len(q) - 1) : \E k \in 1..Len(q) : rest[j] = q[k]
      BY <1>0
    <2>. QED
      BY <2>4, <2>5, <2>6 DEF InQueue
  <1>. QED
    BY <1>1, <1>2

----------------------------------------------------------------------------
(* Each step keeps LinkInv.                                                *)

\* A failure of the bridge resets the bridge and every provider.
LEMMA FailureStep ==
  ASSUME LinkInv, Client!Fail, OnTransportError
  PROVE  LinkInv'
  <1>1. LinkTypes'
    <2>1. Client!ClientTypeOK'
      BY DEF LinkInv, LinkTypes, Client!Fail, Client!Abort, Client!ResetRequest,
             Client!ClientTypeOK
    <2>2. <<>> \in Seq(RequestTypes)
      OBVIOUS
    <2>. QED
      BY <2>1, <2>2 DEF LinkTypes, OnTransportError
  <1>2. InFlightMatchesBridge'
    BY DEF LinkInv, OnTransportError, Client!Fail, Client!Abort,
           Client!ResetRequest, InFlightMatchesBridge
  <1>3. QueueIsCoalesced'
    BY DEF OnTransportError, QueueIsCoalesced
  <1>. QED
    BY <1>1, <1>2, <1>3 DEF LinkInv, Client!Fail, Client!Abort

\* sendNextRequest, with a coalesced queue.
LEMMA SendStep ==
  ASSUME LinkInv, ConfigTypes, NEW w \in Widgets, NEW q, Coalesced(w, q),
         SendNext(w, q)
  PROVE  LinkInv'
  <1>0. q \in Seq(RequestTypes)
    BY DEF Coalesced
  <1>1. CASE ~config[w].enabled \/ busy \/ inFlight[w] # None \/ q = <<>>
    <2>1. queue' = [queue EXCEPT ![w] = q] /\ UNCHANGED <<inFlight, bounded, clientVars>>
      BY <1>1 DEF SendNext
    <2>2. LinkTypes'
      BY <2>1, <1>0 DEF LinkInv, LinkTypes, clientVars, Client!ClientTypeOK
    <2>3. InFlightMatchesBridge'
      BY <2>1 DEF LinkInv, InFlightMatchesBridge, clientVars
    <2>4. QueueIsCoalesced'
      BY <2>1 DEF LinkInv, LinkTypes, QueueIsCoalesced, Coalesced, InFlightCovers
    <2>. QED
      BY <2>1, <2>2, <2>3, <2>4 DEF LinkInv, clientVars
  <1>2. CASE ~(~config[w].enabled \/ busy \/ inFlight[w] # None \/ q = <<>>)
    <2> DEFINE r == RequestFor(w, Head(q))
    <2>1. /\ Head(q) \in RequestTypes
          /\ Tail(q) \in Seq(RequestTypes)
          /\ \A i, j \in 1..Len(Tail(q)) : Tail(q)[i] = Tail(q)[j] => i = j
          /\ \A i \in 1..Len(Tail(q)) : Tail(q)[i] # Head(q)
      BY <1>0, <1>2, TailFacts DEF Coalesced
    <2>2. /\ r \in WireRequests
          /\ r # NoRequest
          /\ r.command \in Commands
          /\ r.command = Head(q) \/ (Head(q) = "processes" /\ r.command = "snapshot")
      BY <2>1, RequestForFacts DEF LinkInv, LinkTypes
    <2>. HIDE DEF r
    <2>3. \A v \in Widgets : inFlight[v] = None
      BY <1>2 DEF LinkInv, InFlightMatchesBridge
    <2>4. CASE Client!RequestFails(r) /\ OnTransportError
      BY <2>4, FailureStep DEF Client!RequestFails
    <2>5. CASE /\ Client!RequestConnects(r) \/ Client!RequestWaits(r)
               /\ inFlight' = [inFlight EXCEPT ![w] = r.command]
               /\ queue' = [queue EXCEPT ![w] = Tail(q)]
               /\ UNCHANGED <<bounded, view>>
      <3>1. LinkTypes'
        BY <2>1, <2>2, <2>5 DEF LinkInv, LinkTypes, Client!ClientTypeOK,
           Client!RequestConnects, Client!RequestWaits, Client!Accept
      <3>2. r.command # None
        BY <2>2 DEF Commands, RequestTypes, None
      <3>3. InFlightMatchesBridge'
        BY <2>3, <2>5, <3>2 DEF LinkInv, LinkTypes, InFlightMatchesBridge,
           Client!RequestConnects, Client!RequestWaits, Client!Accept
      <3>4. \A i \in 1..Len(Tail(q)) :
               /\ Tail(q)[i] # r.command
               /\ ~(Tail(q)[i] = "processes" /\ r.command = "snapshot")
        <4>1. \A i \in 1..Len(Tail(q)) : Tail(q)[i] \in RequestTypes
          BY <2>1
        <4>. QED
          BY <2>1, <2>2, <4>1 DEF RequestTypes
      <3>5. QueueIsCoalesced'
        <4>1. inFlight'[w] = r.command /\ queue'[w] = Tail(q)
          BY <2>5 DEF LinkInv, LinkTypes
        <4>2. \A v \in Widgets \ {w} : inFlight'[v] = inFlight[v] /\ queue'[v] = queue[v]
          BY <2>5 DEF LinkInv, LinkTypes
        <4>3. \A i \in 1..Len(queue'[w]) : ~(InFlightCovers(w, queue[w][i])')
          BY <3>4, <4>1 DEF InFlightCovers
        <4>4. \A v \in Widgets \ {w} : \A i \in 1..Len(queue'[v]) :
                 ~(InFlightCovers(v, queue[v][i])')
          BY <4>2 DEF LinkInv, QueueIsCoalesced, InFlightCovers
        <4>5. \A v \in Widgets : \A i, j \in 1..Len(queue'[v]) :
                 queue'[v][i] = queue'[v][j] => i = j
          BY <2>1, <4>1, <4>2 DEF LinkInv, QueueIsCoalesced
        <4>. QED
          BY <4>3, <4>4, <4>5 DEF QueueIsCoalesced
      <3>6. busy'
        BY <2>5 DEF Client!RequestConnects, Client!RequestWaits, Client!Accept
      <3>. QED
        BY <3>1, <3>3, <3>5, <3>6 DEF LinkInv
    <2>. QED
      BY <1>2, <2>4, <2>5 DEF SendNext, r
  <1>. QED
    BY <1>1, <1>2

\* Steps that touch neither the bridge nor what is in flight, and leave every
\* queue coalesced.
LEMMA QueueOnlyStep ==
  ASSUME LinkInv, UNCHANGED <<inFlight, bounded, clientVars>>,
         queue' \in [Widgets -> Seq(RequestTypes)],
         \A w \in Widgets : Coalesced(w, queue'[w])
  PROVE  LinkInv'
  <1>1. LinkTypes'
    BY DEF LinkInv, LinkTypes, clientVars, Client!ClientTypeOK
  <1>2. InFlightMatchesBridge'
    BY DEF LinkInv, InFlightMatchesBridge, clientVars
  <1>3. QueueIsCoalesced'
    <2>1. inFlight' = inFlight
      OBVIOUS
    <2>. QED
      BY <2>1 DEF QueueIsCoalesced, Coalesced, InFlightCovers
  <1>. QED
    BY <1>1, <1>2, <1>3 DEF LinkInv, clientVars

\* Queueing a request keeps the link between provider and bridge.
LEMMA EnqueueStep ==
  ASSUME LinkInv, ConfigTypes, NEW w \in Widgets, NEW type \in RequestTypes,
         Enqueue(w, type)
  PROVE  LinkInv'
  <1>1. CASE InFlightCovers(w, type)
    <2>1. UNCHANGED <<inFlight, queue, bounded, clientVars>>
      BY <1>1 DEF Enqueue, InFlightCovers
    <2>. QED
      BY <2>1, QueueOnlyStep DEF LinkInv, LinkTypes, QueueIsCoalesced, Coalesced
  <1>2. CASE ~InFlightCovers(w, type)
    BY <1>2, EnqueueFacts, SendStep DEF Enqueue, InFlightCovers
  <1>. QED
    BY <1>1, <1>2

\* So does a request of the processes, sent or refused.
LEMMA RequestProcessesStep ==
  ASSUME LinkInv, ConfigTypes, NEW w \in Widgets, RequestProcesses(w)
  PROVE  LinkInv'
  <1>1. CASE config[w].enabled /\ config[w].processesEnabled
    BY <1>1, EnqueueStep DEF RequestProcesses, RequestTypes
  <1>2. CASE ~(config[w].enabled /\ config[w].processesEnabled)
    <2>1. UNCHANGED <<inFlight, queue, bounded, clientVars>>
      BY <1>2 DEF RequestProcesses
    <2>. QED
      BY <2>1, QueueOnlyStep DEF LinkInv, LinkTypes, QueueIsCoalesced, Coalesced
  <1>. QED
    BY <1>1, <1>2

\* The answer frees the bridge and every provider's inFlightCommand.
LEMMA ResponseStep ==
  ASSUME LinkInv, NEW reply \in Replies, ResponseReceived(reply)
  PROVE  LinkInv'
  <1>1. LinkTypes'
    BY DEF LinkInv, LinkTypes, ResponseReceived, Client!HandleReadyReadLine,
           Client!Abort, Client!ClientTypeOK, None, Unsupported
  <1>2. InFlightMatchesBridge'
    BY DEF LinkInv, InFlightMatchesBridge, ResponseReceived,
           Client!HandleReadyReadLine, Client!Abort
  <1>3. QueueIsCoalesced'
    <2>1. \A w \in Widgets : inFlight'[w] = None /\ queue'[w] = queue[w]
      BY DEF ResponseReceived
    <2>2. \A w \in Widgets : \A i \in 1..Len(queue[w]) : queue[w][i] \in RequestTypes
      BY DEF LinkInv, LinkTypes
    <2>. QED
      BY <2>1, <2>2 DEF LinkInv, QueueIsCoalesced, InFlightCovers, RequestTypes, None
  <1>4. socket' = "unconnected"
    BY DEF ResponseReceived, Client!HandleReadyReadLine, Client!Abort
  <1>. QED
    BY <1>1, <1>2, <1>3, <1>4 DEF LinkInv

\* A socket that connects or reads a part changes the bridge alone.
LEMMA ProgressStep ==
  ASSUME LinkInv, SocketProgress
  PROVE  LinkInv'
  <1>1. LinkTypes'
    BY DEF LinkInv, LinkTypes, SocketProgress, Client!HandleConnected,
           Client!HandleReadyReadPartial, Client!ClientTypeOK
  <1>2. InFlightMatchesBridge'
    BY DEF LinkInv, InFlightMatchesBridge, SocketProgress, Client!HandleConnected,
           Client!HandleReadyReadPartial
  <1>3. QueueIsCoalesced'
    BY DEF LinkInv, QueueIsCoalesced, SocketProgress, InFlightCovers
  <1>4. (socket # "unconnected" => busy)'
    BY DEF LinkInv, SocketProgress, Client!HandleConnected,
           Client!HandleReadyReadPartial
  <1>. QED
    BY <1>1, <1>2, <1>3, <1>4 DEF LinkInv

\* A settings change at most shortens a queue.
LEMMA SettingStep ==
  ASSUME LinkInv, NEW w \in Widgets, ChangeSetting(w)
  PROVE  LinkInv'
  <1>0. \A v \in Widgets : Coalesced(v, queue[v])
    BY DEF LinkInv, LinkTypes, QueueIsCoalesced, Coalesced
  <1>1. UNCHANGED <<inFlight, bounded, clientVars>>
    BY DEF ChangeSetting, SetEnabled, SetProcessesEnabled, SetGpuEnabled,
           SetLimit, SetSort
  <1>2. Coalesced(w, <<>>)
    BY DEF Coalesced
  <1>3. \E q : Coalesced(w, q) /\ queue' = [queue EXCEPT ![w] = q]
    <2>1. CASE UNCHANGED queue
      <3>1. queue = [queue EXCEPT ![w] = queue[w]]
        BY DEF LinkInv, LinkTypes
      <3>. QED
        BY <1>0, <2>1, <3>1
    <2>2. CASE queue' = [queue EXCEPT ![w] = <<>>]
      BY <1>2, <2>2
    <2>3. CASE \E type \in RequestTypes : Discarding(w, type)
      <3>1. PICK type \in RequestTypes : Discarding(w, type)
        BY <2>3
      <3>2. queue' = [queue EXCEPT ![w] = Discard(queue[w], type)]
        BY <3>1 DEF Discarding, LinkInv, LinkTypes
      <3>3. Coalesced(w, Discard(queue[w], type))
        BY <1>0, DiscardFacts
      <3>. QED
        BY <3>2, <3>3
    <2>. QED
      BY <2>1, <2>2, <2>3 DEF ChangeSetting, SetEnabled, SetProcessesEnabled,
         SetGpuEnabled, SetLimit, SetSort, RequestTypes
  <1>4. /\ queue' \in [Widgets -> Seq(RequestTypes)]
        /\ \A v \in Widgets : Coalesced(v, queue'[v])
    BY <1>0, <1>3 DEF LinkInv, LinkTypes, Coalesced
  <1>. QED
    BY <1>1, <1>4, QueueOnlyStep

----------------------------------------------------------------------------
(* Types of what the link does not touch, and the theorems.                *)

ViewTypes ==
  /\ ConfigTypes
  /\ view \in [Widgets -> Views]
  /\ armed \in [Widgets -> SUBSET {"dispatch", "fallback", "configuration"}]

\* An answer leaves a well-formed view.
LEMMA AfterReplyType ==
  ASSUME ViewTypes, Client!ClientTypeOK,
         NEW w \in Widgets, NEW reply \in Replies,
         inFlight[w] = "processes" \/ inFlight[w] = "snapshot" =>
           pending.sort \in SortModes \cup {"all"}
  PROVE  AfterReply(w, reply) \in Views
  <1>1. view[w] \in Views /\ config[w] \in Configs
    BY DEF ViewTypes, ConfigTypes
  <1>2. reply.n \in Nat /\ config[w].limit \in Nat
    <2>1. reply.n = 0 \/ reply.n \in 0..MaxReply
      BY DEF Replies
    <2>2. config[w].limit \in Limits
      BY <1>1 DEF Configs
    <2>3. config[w].limit \in Nat
      BY <2>2, LimitsAssumption
    <2>4. reply.n \in Nat
      BY <2>1, MaxReplyAssumption
    <2>. QED
      BY <2>3, <2>4
  <1>3. \A v \in Views : ClearProcesses(v) \in Views
    BY DEF ClearProcesses, Views, None
  <1>4. \A v \in Views : [v EXCEPT !.backend = "error"] \in Views
    BY DEF Views
  <1>5. AfterGpuReply(view[w], config[w], reply) \in Views
    BY <1>1 DEF AfterGpuReply, Views
  <1>6. ASSUME inFlight[w] \in Commands, inFlight[w] # "gpu"
        PROVE  AfterProcessReply(view[w], config[w], reply, Unsupported(w, reply)) \in Views
    <2>1. pending.sort \in SortModes \cup {"all"}
      BY <1>6 DEF Commands, RequestTypes
    <2>2. [view[w] EXCEPT !.backend = "detecting"] \in Views
      BY <1>1 DEF Views
    <2>3. [ClearProcesses(view[w]) EXCEPT !.backend = "error"] \in Views
      BY <1>1, <1>3, <1>4
    <2>4. \A n \in Nat : \A from \in SortModes \cup {"all", None} :
            [view[w] EXCEPT !.backend = "connected", !.rows = n, !.rowsFrom = from] \in Views
      BY <1>1 DEF Views
    <2>. QED
      BY <1>1, <1>2, <2>1, <2>2, <2>3, <2>4 DEF AfterProcessReply
  <1>7. [view[w] EXCEPT !.backend = "error", !.gpu = "error"] \in Views
    BY <1>1 DEF Views
  <1>. QED
    BY <1>1, <1>3, <1>4, <1>5, <1>6, <1>7 DEF AfterReply

\* sendNextRequest leaves every view as it is or blanks them all.
LEMMA SendViews ==
  ASSUME NEW w \in Widgets, NEW q, SendNext(w, q)
  PROVE  view' = view \/ view' = [v \in Widgets |-> Blank]
  BY DEF SendNext, OnTransportError

\* Neither does a request that is queued first.
LEMMA RequestViews ==
  ASSUME NEW w \in Widgets, NEW type \in RequestTypes,
         Enqueue(w, type) \/ RequestProcesses(w)
  PROVE  view' = view \/ view' = [v \in Widgets |-> Blank]
  BY SendViews DEF RequestProcesses, Enqueue

\* What a failed backend leaves is a view.
LEMMA BlankIsView == Blank \in Views
  BY DEF Blank, Views, None

\* The command that is out is the one on the line: its ordering is known.
LEMMA PendingSort ==
  ASSUME LinkInv, NEW w \in Widgets
  PROVE  inFlight[w] = "processes" \/ inFlight[w] = "snapshot" =>
           pending.sort \in SortModes \cup {"all"}
  BY DEF LinkInv, LinkTypes, InFlightMatchesBridge, Client!ClientTypeOK,
         WireRequests, NoRequest, None, SortModes

\* A change of a setting keeps the types of views and settings.
LEMMA SettingTypes ==
  ASSUME ViewTypes, NEW w \in Widgets, ChangeSetting(w)
  PROVE  ViewTypes'
  <1>1. view[w] \in Views /\ config[w] \in Configs
    BY DEF ViewTypes, ConfigTypes
  <1>2. \A v \in Views : ClearProcesses(v) \in Views
    BY DEF ClearProcesses, Views, None
  <1>3. \A v \in Views : [v EXCEPT !.backend = "detecting"] \in Views
    BY DEF Views
  <1>4. CASE SetEnabled(w)
    BY <1>1, <1>3, <1>4, BlankIsView DEF SetEnabled, Set, ViewTypes, ConfigTypes, Configs
  <1>5. CASE SetProcessesEnabled(w)
    BY <1>1, <1>2, <1>3, <1>5 DEF SetProcessesEnabled, Set, ViewTypes, ConfigTypes, Configs
  <1>6. CASE SetGpuEnabled(w)
    <2>1. \A v \in Views : \A g \in {"detecting", "unavailable"} :
            [v EXCEPT !.reading = FALSE, !.gpu = g] \in Views
      BY DEF Views
    <2>. QED
      BY <1>1, <1>6, <2>1 DEF SetGpuEnabled, Set, ViewTypes, ConfigTypes, Configs
  <1>7. ASSUME NEW l \in Limits, SetLimit(w, l)
        PROVE  ViewTypes'
    <2>1. l \in Nat
      BY LimitsAssumption
    <2>2. \A v \in Views : [v EXCEPT !.rows = IF @ > l THEN l ELSE @] \in Views
      BY <2>1 DEF Views
    <2>3. view' \in [Widgets -> Views]
      BY <1>1, <1>7, <2>2 DEF SetLimit, ViewTypes
    <2>4. ConfigTypes'
      BY <1>1, <1>7 DEF SetLimit, Set, ViewTypes, ConfigTypes, Configs
    <2>. QED
      BY <1>7, <2>3, <2>4 DEF SetLimit, ArmConfiguration, ViewTypes
  <1>8. ASSUME NEW s \in SortModes, SetSort(w, s)
        PROVE  ViewTypes'
    <2>1. view' \in [Widgets -> Views]
      BY <1>1, <1>2, <1>3, <1>8 DEF SetSort, ViewTypes
    <2>2. ConfigTypes'
      BY <1>1, <1>8 DEF SetSort, Set, ViewTypes, ConfigTypes, Configs
    <2>. QED
      BY <1>8, <2>1, <2>2 DEF SetSort, ArmConfiguration, ViewTypes
  <1>. QED
    BY <1>4, <1>5, <1>6, <1>7, <1>8 DEF ChangeSetting

\* The inductive invariant of the link.
THEOREM LinkIsInvariant == Spec => [](LinkInv /\ ViewTypes)
  <1>1. Init => LinkInv /\ ViewTypes
    <2> SUFFICES ASSUME Init PROVE LinkInv /\ ViewTypes
      OBVIOUS
    <2>1. LinkTypes
      <3>1. <<>> \in Seq(RequestTypes)
        OBVIOUS
      <3>. QED
        BY <3>1 DEF Init, LinkTypes, Client!ClientInit, Client!ClientTypeOK
    <2>2. InFlightMatchesBridge /\ QueueIsCoalesced /\ socket = "unconnected"
      BY DEF Init, Client!ClientInit, InFlightMatchesBridge, QueueIsCoalesced
    <2>3. ViewTypes
      <3>1. [Blank EXCEPT !.backend = "detecting", !.gpu = "detecting"] \in Views
        BY DEF Blank, Views, None
      <3>. QED
        BY <3>1 DEF Init, ViewTypes, ConfigTypes
    <2>. QED
      BY <2>1, <2>2, <2>3 DEF LinkInv
  <1>2. LinkInv /\ ViewTypes /\ [Next]_vars => (LinkInv /\ ViewTypes)'
    <2> SUFFICES ASSUME LinkInv, ViewTypes, [Next]_vars
                 PROVE  LinkInv' /\ ViewTypes'
      OBVIOUS
    <2>0. ConfigTypes
      BY DEF ViewTypes
    <2>1. ASSUME NEW w \in Widgets, PollProcesses(w) PROVE LinkInv' /\ ViewTypes'
      <3>1. LinkInv'
        BY <2>0, <2>1, RequestProcessesStep DEF PollProcesses
      <3>. QED
        BY <2>1, <3>1, RequestViews, BlankIsView DEF PollProcesses, ViewTypes, ConfigTypes, RequestTypes
    <2>2. ASSUME NEW w \in Widgets, PollGpu(w) PROVE LinkInv' /\ ViewTypes'
      <3>1. LinkInv'
        BY <2>0, <2>2, EnqueueStep DEF PollGpu, RequestTypes
      <3>. QED
        BY <2>2, <3>1, RequestViews, BlankIsView DEF PollGpu, ViewTypes, ConfigTypes, RequestTypes
    <2>3. ASSUME NEW w \in Widgets, Dispatch(w) PROVE LinkInv' /\ ViewTypes'
      <3>1. Coalesced(w, queue[w])
        BY DEF LinkInv, LinkTypes, QueueIsCoalesced, Coalesced
      <3>2. LinkInv'
        BY <2>0, <2>3, <3>1, SendStep DEF Dispatch
      <3>3. armed' \in [Widgets -> SUBSET {"dispatch", "fallback", "configuration"}]
        BY <2>3 DEF Dispatch, ViewTypes
      <3>. QED
        BY <2>3, <3>2, <3>3, SendViews, BlankIsView DEF Dispatch, ViewTypes, ConfigTypes
    <2>4. ASSUME NEW w \in Widgets, NEW t, DelayedRequest(w, t) PROVE LinkInv' /\ ViewTypes'
      <3>1. LinkInv'
        BY <2>0, <2>4, RequestProcessesStep DEF DelayedRequest
      <3>2. armed' \in [Widgets -> SUBSET {"dispatch", "fallback", "configuration"}]
        BY <2>4 DEF DelayedRequest, ViewTypes
      <3>. QED
        BY <2>4, <3>1, <3>2, RequestViews, BlankIsView DEF DelayedRequest, ViewTypes, ConfigTypes, RequestTypes
    <2>5. ASSUME NEW w \in Widgets, ChangeSetting(w) PROVE LinkInv' /\ ViewTypes'
      BY <2>5, SettingStep, SettingTypes
    <2>6. ASSUME NEW reply \in Replies, ResponseReceived(reply) PROVE LinkInv' /\ ViewTypes'
      <3>1. LinkInv'
        BY <2>6, ResponseStep
      <3>2. \A w \in Widgets : AfterReply(w, reply) \in Views
        BY <2>6, AfterReplyType, PendingSort DEF LinkInv, LinkTypes
      <3>3. view' \in [Widgets -> Views]
        BY <2>6, <3>2 DEF ResponseReceived
      <3>4. armed' \in [Widgets -> SUBSET {"dispatch", "fallback", "configuration"}]
        BY <2>6 DEF ResponseReceived, ViewTypes
      <3>. QED
        BY <2>6, <3>1, <3>3, <3>4 DEF ResponseReceived, ViewTypes, ConfigTypes
    <2>7. CASE TransportError
      <3>1. Client!Fail
        BY <2>7 DEF TransportError, Client!TransportFailure, Client!HandleReadyReadTooLarge,
           Client!HandleDisconnected, Client!HandleSocketError, Client!HandleTimeout
      <3>2. LinkInv'
        BY <2>7, <3>1, FailureStep DEF TransportError
      <3>. QED
        BY <2>7, <3>2, BlankIsView DEF TransportError, OnTransportError, ViewTypes, ConfigTypes
    <2>8. CASE SocketProgress
      BY <2>8, ProgressStep DEF SocketProgress, ViewTypes, ConfigTypes
    <2>9. CASE UNCHANGED vars
      <3>1. LinkInv'
        <4>1. UNCHANGED <<inFlight, queue, bounded, clientVars>>
          BY <2>9 DEF vars
        <4>. QED
          BY <4>1, QueueOnlyStep DEF LinkInv, LinkTypes, QueueIsCoalesced, Coalesced
      <3>. QED
        BY <2>9, <3>1 DEF vars, ViewTypes, ConfigTypes
    <2>. QED
      BY <2>1, <2>2, <2>3, <2>4, <2>5, <2>6, <2>7, <2>8, <2>9
         DEF Next, FallbackTick, ConfigurationTick
  <1>. QED
    BY <1>1, <1>2, PTL DEF Spec

\* Type correctness of the composition of the providers and the bridge.
THEOREM TypeCorrect == Spec => []TypeOK
  <1>1. LinkInv /\ ViewTypes => TypeOK
    BY DEF LinkInv, LinkTypes, ViewTypes, ConfigTypes, TypeOK
  <1>. QED
    BY <1>1, LinkIsInvariant, PTL

\* For any number of widgets on one bridge, at most one command is in flight,
\* exactly while the bridge is busy, and it is the command on the line.
THEOREM InFlightMatchesBridgeAlways == Spec => []InFlightMatchesBridge
  <1>1. LinkInv /\ ViewTypes => InFlightMatchesBridge
    BY DEF LinkInv
  <1>. QED
    BY <1>1, LinkIsInvariant, PTL

\* No provider's queue ever holds a request twice, or one that is out.
THEOREM QueueIsCoalescedAlways == Spec => []QueueIsCoalesced
  <1>1. LinkInv /\ ViewTypes => QueueIsCoalesced
    BY DEF LinkInv
  <1>. QED
    BY <1>1, LinkIsInvariant, PTL

----------------------------------------------------------------------------
(* The shared bridge implements the line of RequestLine.tla, for any set of *)
(* widgets: the safety part of the refinement, step by step.               *)

Holders == {w \in Widgets : inFlight[w] # None}

\* Sending a request occupies the line or leaves it as it was.
LEMMA SendMaps ==
  ASSUME LinkInv, ConfigTypes, NEW w \in Widgets, NEW q, Coalesced(w, q),
         SendNext(w, q)
  PROVE  [Line!Next]_Holders
  <1>1. CASE ~config[w].enabled \/ busy \/ inFlight[w] # None \/ q = <<>>
    BY <1>1 DEF SendNext, Holders
  <1>2. CASE ~(~config[w].enabled \/ busy \/ inFlight[w] # None \/ q = <<>>)
    <2>1. Head(q) \in RequestTypes
      BY <1>2 DEF Coalesced
    <2>2. RequestFor(w, Head(q)).command # None
      BY <2>1, RequestForFacts DEF LinkInv, LinkTypes, Commands, RequestTypes, None
    <2>3. Holders = {}
      BY <1>2 DEF LinkInv, InFlightMatchesBridge, Holders
    <2>4. CASE OnTransportError
      BY <2>3, <2>4 DEF OnTransportError, Holders
    <2>5. CASE inFlight' = [inFlight EXCEPT ![w] = RequestFor(w, Head(q)).command]
      <3>1. Holders' = {w}
        BY <2>2, <2>3, <2>5 DEF LinkInv, LinkTypes, Holders
      <3>. QED
        BY <2>3, <3>1 DEF Line!Next, Line!Occupy, Holders
    <2>. QED
      BY <1>2, <2>4, <2>5 DEF SendNext
  <1>. QED
    BY <1>1, <1>2

\* So does queueing one.
LEMMA EnqueueMaps ==
  ASSUME LinkInv, ConfigTypes, NEW w \in Widgets, NEW type \in RequestTypes,
         Enqueue(w, type) \/ RequestProcesses(w)
  PROVE  [Line!Next]_Holders
  <1>1. ASSUME NEW t \in RequestTypes, Enqueue(w, t)
        PROVE  [Line!Next]_Holders
    <2>1. CASE InFlightCovers(w, t)
      BY <1>1, <2>1 DEF Enqueue, InFlightCovers, Holders
    <2>2. CASE ~InFlightCovers(w, t)
      BY <1>1, <2>2, EnqueueFacts, SendMaps DEF Enqueue, InFlightCovers
    <2>. QED
      BY <2>1, <2>2
  <1>2. CASE RequestProcesses(w)
    <2>1. CASE config[w].enabled /\ config[w].processesEnabled
      BY <1>1, <1>2, <2>1 DEF RequestProcesses, RequestTypes
    <2>2. CASE ~(config[w].enabled /\ config[w].processesEnabled)
      BY <1>2, <2>2 DEF RequestProcesses, Holders
    <2>. QED
      BY <2>1, <2>2
  <1>. QED
    BY <1>1, <1>2

\* Whatever the widgets, their timers, their settings and the backend do, a
\* request is only sent over a free line, and only its holder's command is
\* out until an answer or a failure frees it.
THEOREM BridgeImplementsLine == Spec => OneRequestOut
  <1>1. Init => Line!Init
    BY DEF Init, Line!Init
  <1>2. LinkInv /\ ViewTypes /\ [Next]_vars => [Line!Next]_Holders
    <2> SUFFICES ASSUME LinkInv, ConfigTypes, [Next]_vars
                 PROVE  [Line!Next]_Holders
      BY DEF ViewTypes
    <2>1. ASSUME NEW w \in Widgets,
                 PollProcesses(w) \/ PollGpu(w) \/ FallbackTick(w) \/ ConfigurationTick(w)
          PROVE  [Line!Next]_Holders
      BY <2>1, EnqueueMaps DEF PollProcesses, PollGpu, FallbackTick,
         ConfigurationTick, DelayedRequest, RequestTypes
    <2>2. ASSUME NEW w \in Widgets, Dispatch(w)
          PROVE  [Line!Next]_Holders
      <3>1. Coalesced(w, queue[w])
        BY DEF LinkInv, LinkTypes, QueueIsCoalesced, Coalesced
      <3>. QED
        BY <2>2, <3>1, SendMaps DEF Dispatch
    <2>3. ASSUME inFlight' = inFlight
          PROVE  [Line!Next]_Holders
      BY <2>3 DEF Holders
    <2>4. ASSUME inFlight' = [w \in Widgets |-> None]
          PROVE  [Line!Next]_Holders
      <3>1. Holders' = {}
        BY <2>4 DEF Holders
      <3>. QED
        BY <3>1 DEF Line!Next, Line!Release, Holders
    <2>5. ASSUME NEW w \in Widgets, ChangeSetting(w)
          PROVE  inFlight' = inFlight
      BY <2>5 DEF ChangeSetting, SetEnabled, SetProcessesEnabled, SetGpuEnabled,
         SetLimit, SetSort
    <2>6. ASSUME NEW reply \in Replies, ResponseReceived(reply)
          PROVE  inFlight' = [w \in Widgets |-> None]
      BY <2>6 DEF ResponseReceived
    <2>7. TransportError => inFlight' = [w \in Widgets |-> None]
      BY DEF TransportError, OnTransportError
    <2>8. SocketProgress \/ UNCHANGED vars => inFlight' = inFlight
      BY DEF SocketProgress, vars
    <2>. QED
      BY <2>1, <2>2, <2>3, <2>4, <2>5, <2>6, <2>7, <2>8 DEF Next
  <1>3. [Line!Next]_Holders => [Line!Next]_{w \in Widgets : inFlight[w] # None}
    BY DEF Holders
  <1>. QED
    BY <1>1, <1>2, <1>3, LinkIsInvariant, PTL DEF Spec, OneRequestOut, Line!SafeSpec

----------------------------------------------------------------------------
(* What a widget shows agrees with its settings.  ShownInv puts            *)
(* HiddenSectionsStayEmpty and ShownDataIsBounded widget by widget.        *)

SectionOK(v, c) ==
  /\ ~c.enabled => v = Blank
  /\ ~c.processesEnabled => v.rows = 0
  /\ ~c.gpuEnabled => ~v.reading /\ v.gpu # "available"
  /\ v.rows <= c.limit
  /\ v.reading => v.gpu \in {"available", "error"}

QueueOK(q, c) ==
  /\ ~c.enabled => q = <<>>
  /\ ~c.processesEnabled => ~InQueue(q, "processes")
  /\ ~c.gpuEnabled => ~InQueue(q, "gpu")

ShownInv ==
  \A w \in Widgets : SectionOK(view[w], config[w]) /\ QueueOK(queue[w], config[w])

\* A blank view and an empty queue fit any settings.
LEMMA BlankFits ==
  ASSUME NEW c \in Configs
  PROVE  SectionOK(Blank, c) /\ QueueOK(<<>>, c)
  <1>1. c.limit \in Nat
    BY LimitsAssumption DEF Configs
  <1>. QED
    BY <1>1 DEF SectionOK, QueueOK, Blank, InQueue

\* Clearing what is blank leaves it blank; clearing anything empties it.
LEMMA ClearingFacts ==
  /\ ClearProcesses(Blank) = Blank
  /\ [Blank EXCEPT !.reading = FALSE, !.gpu = "unavailable"] = Blank
  /\ \A v \in Views : /\ ClearProcesses(v).rows = 0
                      /\ ClearProcesses(v).reading = v.reading
                      /\ ClearProcesses(v).gpu = v.gpu
                      /\ ClearProcesses(v) \in Views
  <1>0. /\ Blank.rows = 0 /\ Blank.rowsFrom = None
        /\ Blank.gpu = "unavailable" /\ ~Blank.reading
    BY DEF Blank
  <1>1. ClearProcesses(Blank) = Blank
    <2>1. ASSUME NEW v \in Views, v.rows = 0, v.rowsFrom = None
          PROVE  ClearProcesses(v) = v
      BY <2>1 DEF ClearProcesses, Views
    <2>. QED
      BY <1>0, <2>1, BlankIsView
  <1>2. [Blank EXCEPT !.reading = FALSE, !.gpu = "unavailable"] = Blank
    <2>1. ASSUME NEW v \in Views, ~v.reading, v.gpu = "unavailable"
          PROVE  [v EXCEPT !.reading = FALSE, !.gpu = "unavailable"] = v
      BY <2>1 DEF Views
    <2>. QED
      BY <1>0, <2>1, BlankIsView
  <1>3. ASSUME NEW v \in Views
        PROVE  /\ ClearProcesses(v).rows = 0
               /\ ClearProcesses(v).reading = v.reading
               /\ ClearProcesses(v).gpu = v.gpu
               /\ ClearProcesses(v) \in Views
    BY DEF ClearProcesses, Views, None
  <1>. QED
    BY <1>1, <1>2, <1>3

\* Sending a request leaves hidden sections empty.
LEMMA SendShown ==
  ASSUME LinkInv, ViewTypes, ShownInv, UNCHANGED config,
         NEW w \in Widgets, NEW q \in Seq(RequestTypes), QueueOK(q, config[w]),
         SendNext(w, q)
  PROVE  ShownInv'
  <1>0. \A v \in Widgets : config[v] \in Configs
    BY DEF ViewTypes, ConfigTypes
  <1>1. CASE view' = view /\ queue' = [queue EXCEPT ![w] = q]
    BY <1>1 DEF ShownInv, LinkInv, LinkTypes
  <1>2. CASE view' = view /\ q # <<>> /\ queue' = [queue EXCEPT ![w] = Tail(q)]
    <2>1. \A t : InQueue(Tail(q), t) => InQueue(q, t)
      BY <1>2 DEF InQueue
    <2>2. QueueOK(Tail(q), config[w])
      BY <1>2, <2>1 DEF QueueOK
    <2>. QED
      BY <1>2, <2>2 DEF ShownInv, LinkInv, LinkTypes
  <1>3. CASE OnTransportError
    BY <1>0, <1>3, BlankFits DEF OnTransportError, ShownInv
  <1>. QED
    BY <1>1, <1>2, <1>3 DEF SendNext

\* So does queueing one for a section that is shown.
LEMMA RequestShown ==
  ASSUME LinkInv, ViewTypes, ShownInv, UNCHANGED config,
         NEW w \in Widgets, NEW type \in RequestTypes, Enqueue(w, type),
         config[w].enabled,
         type = "processes" => config[w].processesEnabled,
         type = "gpu" => config[w].gpuEnabled
  PROVE  ShownInv'
  <1>1. CASE InFlightCovers(w, type)
    BY <1>1 DEF Enqueue, InFlightCovers, ShownInv
  <1>2. CASE ~InFlightCovers(w, type)
    <2>1. queue[w] \in Seq(RequestTypes) /\ QueueOK(queue[w], config[w])
      BY DEF LinkInv, LinkTypes, ShownInv
    <2>2. \A t : InQueue(Append(queue[w], type), t) => t = type \/ InQueue(queue[w], t)
      BY <2>1 DEF InQueue
    <2>3. QueueOK(Append(queue[w], type), config[w])
      BY <2>1, <2>2 DEF QueueOK, RequestTypes
    <2>4. Append(queue[w], type) \in Seq(RequestTypes)
      BY <2>1
    <2>. QED
      BY <1>2, <2>1, <2>3, <2>4, SendShown DEF Enqueue, InFlightCovers
  <1>. QED
    BY <1>1, <1>2

\* The heart of it: an answer that arrives after its section was hidden, or
\* after the limit was lowered, leaves the view within the settings.
LEMMA AnswerShown ==
  ASSUME ViewTypes, ShownInv, Client!ClientTypeOK, NEW w \in Widgets, NEW reply \in Replies
  PROVE  SectionOK(AfterReply(w, reply), config[w])
  <1> DEFINE v == view[w]
             c == config[w]
  <1>1. v \in Views /\ c \in Configs /\ SectionOK(v, c)
    BY DEF ViewTypes, ConfigTypes, ShownInv
  <1>2. c.limit \in Nat /\ reply.n \in Nat
    <2>1. reply.n = 0 \/ reply.n \in 0..MaxReply
      BY DEF Replies
    <2>2. c.limit \in Limits
      BY <1>1 DEF Configs
    <2>3. c.limit \in Nat
      BY <2>2, LimitsAssumption
    <2>4. reply.n \in Nat
      BY <2>1, MaxReplyAssumption
    <2>. QED
      BY <2>3, <2>4
  <1>. HIDE DEF v, c
  <1>3. CASE ~c.enabled
    BY <1>1, <1>3 DEF AfterReply, v, c
  <1>4. CASE c.enabled
    <2>1. SectionOK([v EXCEPT !.backend = "error"], c)
      BY <1>1, <1>4 DEF SectionOK, Views
    <2>2. SectionOK([ClearProcesses(v) EXCEPT !.backend = "error"], c)
      BY <1>1, <1>2, <1>4 DEF SectionOK, Views, ClearProcesses
    <2>3. SectionOK([v EXCEPT !.backend = "error", !.gpu = "error"], c)
      BY <1>1, <1>4 DEF SectionOK, Views
    <2>4. SectionOK(AfterGpuReply(v, c, reply), c)
      BY <1>1, <1>4 DEF SectionOK, Views, AfterGpuReply
    <2>5. SectionOK([v EXCEPT !.backend = "detecting"], c)
      BY <1>1, <1>4 DEF SectionOK, Views
    <2>6. ASSUME c.processesEnabled, NEW n \in Nat, n <= c.limit, NEW from
          PROVE  SectionOK([v EXCEPT !.backend = "connected", !.rows = n, !.rowsFrom = from], c)
      BY <1>1, <1>2, <1>4, <2>6 DEF SectionOK, Views
    <2>7. ASSUME NEW u \in BOOLEAN
          PROVE  SectionOK(AfterProcessReply(v, c, reply, u), c)
      <3> DEFINE n == IF reply.n > c.limit THEN c.limit ELSE reply.n
      <3>1. n \in Nat /\ n <= c.limit
        BY <1>2
      <3>. HIDE DEF n
      <3>2. c.processesEnabled =>
              SectionOK([v EXCEPT !.backend = "connected", !.rows = n,
                                  !.rowsFrom = IF n = 0 THEN None ELSE pending.sort], c)
        BY <2>6, <3>1
      <3>. QED
        BY <1>1, <2>2, <2>5, <3>2 DEF AfterProcessReply, n
    <2>. QED
      BY <1>1, <1>4, <2>1, <2>2, <2>3, <2>4, <2>7 DEF AfterReply, Unsupported, v, c
  <1>. QED
    BY <1>3, <1>4

\* A settings change clears, discards or cuts whatever no longer fits.
LEMMA SettingShown ==
  ASSUME LinkInv, ViewTypes, ShownInv, NEW w \in Widgets, ChangeSetting(w)
  PROVE  ShownInv'
  <1> DEFINE Fits(x) == SectionOK(view'[x], config'[x]) /\ QueueOK(queue'[x], config'[x])
  <1>0. /\ view[w] \in Views /\ config[w] \in Configs /\ config[w].limit \in Nat
        /\ SectionOK(view[w], config[w]) /\ QueueOK(queue[w], config[w])
        /\ Coalesced(w, queue[w])
    <2>1. config[w] \in Configs /\ config[w].limit \in Limits
      BY DEF ViewTypes, ConfigTypes, Configs
    <2>2. config[w].limit \in Nat
      BY <2>1, LimitsAssumption
    <2>. QED
      BY <2>1, <2>2 DEF ViewTypes, ShownInv, LinkInv, LinkTypes, QueueIsCoalesced, Coalesced
  <1>1. /\ config \in [Widgets -> Configs] /\ view \in [Widgets -> Views]
        /\ queue \in [Widgets -> Seq(RequestTypes)]
    BY DEF ViewTypes, ConfigTypes, LinkInv, LinkTypes
  <1>2. CASE SetEnabled(w)
    <2>1. \A x \in Widgets \ {w} :
             config'[x] = config[x] /\ view'[x] = view[x] /\ queue'[x] = queue[x]
      BY <1>1, <1>2 DEF SetEnabled, Set
    <2>2. config'[w] = [config[w] EXCEPT !.enabled = ~config[w].enabled]
      BY <1>1, <1>2 DEF SetEnabled, Set
    <2>3. CASE config[w].enabled
      <3>1. view'[w] = Blank /\ queue'[w] = <<>>
        BY <1>1, <1>2, <2>3 DEF SetEnabled
      <3>2. config'[w] \in Configs
        BY <1>0, <2>2 DEF Configs
      <3>. QED
        BY <2>1, <3>1, <3>2, BlankFits DEF ShownInv
    <2>4. CASE ~config[w].enabled
      <3>1. view'[w] = [view[w] EXCEPT !.backend = "detecting"] /\ queue'[w] = queue[w]
        BY <1>1, <1>2, <2>4 DEF SetEnabled
      <3>2. Fits(w)
        BY <1>0, <2>2, <2>4, <3>1 DEF SectionOK, QueueOK, Views, Configs
      <3>. QED
        BY <2>1, <3>2 DEF ShownInv
    <2>. QED
      BY <2>3, <2>4
  <1>3. CASE SetProcessesEnabled(w)
    <2>1. \A x \in Widgets \ {w} :
             config'[x] = config[x] /\ view'[x] = view[x] /\ queue'[x] = queue[x]
      BY <1>1, <1>3 DEF SetProcessesEnabled, Set, Discarding
    <2>2. config'[w] = [config[w] EXCEPT !.processesEnabled = ~config[w].processesEnabled]
      BY <1>1, <1>3 DEF SetProcessesEnabled, Set
    <2>3. CASE ~config[w].processesEnabled /\ config[w].enabled
      <3>1. view'[w] = [view[w] EXCEPT !.backend = "detecting"] /\ queue'[w] = queue[w]
        BY <1>1, <1>3, <2>3 DEF SetProcessesEnabled
      <3>2. Fits(w)
        BY <1>0, <2>2, <2>3, <3>1 DEF SectionOK, QueueOK, Views, Configs
      <3>. QED
        BY <2>1, <3>2 DEF ShownInv
    <2>4. CASE ~(~config[w].processesEnabled /\ config[w].enabled)
      <3>1. view'[w] = ClearProcesses(view[w])
        BY <1>1, <1>3, <2>4 DEF SetProcessesEnabled
      <3>2. queue'[w] = Discard(queue[w], "processes")
        BY <1>1, <1>3, <2>4 DEF SetProcessesEnabled, Discarding
      <3>3. /\ ~InQueue(queue'[w], "processes")
            /\ \A t : InQueue(queue'[w], t) => InQueue(queue[w], t)
            /\ queue[w] = <<>> => queue'[w] = <<>>
        <4>1. Coalesced(w, Discard(queue[w], "processes"))
              /\ ~InQueue(Discard(queue[w], "processes"), "processes")
          BY <1>0, DiscardFacts DEF RequestTypes
        <4>2. \A t : InQueue(Discard(queue[w], "processes"), t) => InQueue(queue[w], t)
          BY <1>0, DiscardSubset DEF RequestTypes
        <4>3. Discard(<<>>, "processes") = <<>>
          BY DEF Discard
        <4>. QED
          BY <3>2, <4>1, <4>2, <4>3
      <3>4. SectionOK(view'[w], config'[w])
        BY <1>0, <2>2, <2>4, <3>1, ClearingFacts DEF SectionOK, Configs
      <3>5. QueueOK(queue'[w], config'[w])
        BY <1>0, <2>2, <3>3 DEF QueueOK, Configs
      <3>. QED
        BY <2>1, <3>4, <3>5 DEF ShownInv
    <2>. QED
      BY <2>3, <2>4
  <1>4. CASE SetGpuEnabled(w)
    <2>1. \A x \in Widgets \ {w} :
             config'[x] = config[x] /\ view'[x] = view[x] /\ queue'[x] = queue[x]
      BY <1>1, <1>4 DEF SetGpuEnabled, Set, Discarding
    <2>2. config'[w] = [config[w] EXCEPT !.gpuEnabled = ~config[w].gpuEnabled]
      BY <1>1, <1>4 DEF SetGpuEnabled, Set
    <2>3. CASE ~config[w].gpuEnabled /\ config[w].enabled
      <3>1. /\ view'[w] = [view[w] EXCEPT !.reading = FALSE, !.gpu = "detecting"]
            /\ queue'[w] = queue[w]
        BY <1>1, <1>4, <2>3 DEF SetGpuEnabled
      <3>2. Fits(w)
        BY <1>0, <2>2, <2>3, <3>1 DEF SectionOK, QueueOK, Views, Configs
      <3>. QED
        BY <2>1, <3>2 DEF ShownInv
    <2>4. CASE ~(~config[w].gpuEnabled /\ config[w].enabled)
      <3>1. view'[w] = [view[w] EXCEPT !.reading = FALSE, !.gpu = "unavailable"]
        BY <1>1, <1>4, <2>4 DEF SetGpuEnabled
      <3>2. queue'[w] = Discard(queue[w], "gpu")
        BY <1>1, <1>4, <2>4 DEF SetGpuEnabled, Discarding
      <3>3. /\ ~InQueue(queue'[w], "gpu")
            /\ \A t : InQueue(queue'[w], t) => InQueue(queue[w], t)
            /\ queue[w] = <<>> => queue'[w] = <<>>
        <4>1. ~InQueue(Discard(queue[w], "gpu"), "gpu")
          BY <1>0, DiscardFacts DEF RequestTypes
        <4>2. \A t : InQueue(Discard(queue[w], "gpu"), t) => InQueue(queue[w], t)
          BY <1>0, DiscardSubset DEF RequestTypes
        <4>3. Discard(<<>>, "gpu") = <<>>
          BY DEF Discard
        <4>. QED
          BY <3>2, <4>1, <4>2, <4>3
      <3>4. SectionOK(view'[w], config'[w])
        <4>1. /\ view'[w].rows = view[w].rows /\ ~view'[w].reading
              /\ view'[w].gpu = "unavailable"
          BY <1>0, <3>1 DEF Views
        <4>. QED
          BY <1>0, <2>2, <3>1, <4>1, ClearingFacts DEF SectionOK, Configs
      <3>5. QueueOK(queue'[w], config'[w])
        BY <1>0, <2>2, <3>3 DEF QueueOK, Configs
      <3>. QED
        BY <2>1, <3>4, <3>5 DEF ShownInv
    <2>. QED
      BY <2>3, <2>4
  <1>5. ASSUME NEW l \in Limits, SetLimit(w, l)
        PROVE  ShownInv'
    <2>1. \A x \in Widgets \ {w} :
             config'[x] = config[x] /\ view'[x] = view[x] /\ queue'[x] = queue[x]
      BY <1>1, <1>5 DEF SetLimit, Set
    <2>2. config'[w] = [config[w] EXCEPT !.limit = l]
      BY <1>1, <1>5 DEF SetLimit, Set
    <2>3. l \in Nat \ {0}
      BY LimitsAssumption
    <2>4. /\ view'[w] = [view[w] EXCEPT !.rows = IF @ > l THEN l ELSE @]
          /\ queue'[w] = queue[w]
      BY <1>1, <1>5 DEF SetLimit
    <2>5. SectionOK(view'[w], config'[w])
      <3>1. view[w].rows \in Nat
        BY <1>0 DEF Views
      <3>2. view[w].rows = 0 => view'[w] = view[w]
        BY <1>0, <2>3, <2>4, <3>1 DEF Views
      <3>. QED
        BY <1>0, <2>2, <2>3, <2>4, <3>1, <3>2 DEF SectionOK, Views, Configs, Blank
    <2>6. QueueOK(queue'[w], config'[w])
      BY <1>0, <2>2, <2>4 DEF QueueOK, Configs
    <2>. QED
      BY <2>1, <2>5, <2>6 DEF ShownInv
  <1>6. ASSUME NEW s \in SortModes, SetSort(w, s)
        PROVE  ShownInv'
    <2>1. \A x \in Widgets \ {w} :
             config'[x] = config[x] /\ view'[x] = view[x] /\ queue'[x] = queue[x]
      BY <1>1, <1>6 DEF SetSort, Set
    <2>2. config'[w] = [config[w] EXCEPT !.sort = s] /\ queue'[w] = queue[w]
      BY <1>1, <1>6 DEF SetSort, Set
    <2>3. view'[w] = IF config[w].enabled
                       THEN [ClearProcesses(view[w]) EXCEPT !.backend = "detecting"]
                       ELSE ClearProcesses(view[w])
      BY <1>1, <1>6 DEF SetSort
    <2>4. SectionOK(view'[w], config'[w])
      <3>1. CASE config[w].enabled
        <4>1. /\ view'[w].rows = 0 /\ view'[w].reading = view[w].reading
              /\ view'[w].gpu = view[w].gpu
          BY <1>0, <2>3, <3>1, ClearingFacts DEF Views
        <4>. QED
          BY <1>0, <2>2, <3>1, <4>1 DEF SectionOK, Configs
      <3>2. CASE ~config[w].enabled
        BY <1>0, <2>2, <2>3, <3>2, ClearingFacts DEF SectionOK, Configs
      <3>. QED
        BY <3>1, <3>2
    <2>5. QueueOK(queue'[w], config'[w])
      BY <1>0, <2>2 DEF QueueOK, Configs
    <2>. QED
      BY <2>1, <2>4, <2>5 DEF ShownInv
  <1>. QED
    BY <1>2, <1>3, <1>4, <1>5, <1>6 DEF ChangeSetting

\* The settings hold over what is shown, in every reachable state.
THEOREM ShownIsInvariant == Spec => []ShownInv
  <1>1. Init => ShownInv
    <2> SUFFICES ASSUME Init, NEW w \in Widgets
                 PROVE  SectionOK(view[w], config[w]) /\ QueueOK(queue[w], config[w])
      BY DEF ShownInv
    <2>1. config[w] \in Configs /\ config[w].enabled /\ config[w].processesEnabled
          /\ config[w].gpuEnabled
      BY DEF Init
    <2>2. config[w].limit \in Limits
      BY <2>1 DEF Configs
    <2>3. config[w].limit \in Nat
      BY <2>2, LimitsAssumption
    <2>. QED
      <3>1. /\ view[w].rows = 0 /\ view[w].gpu = "detecting" /\ queue[w] = <<>>
            /\ ~view[w].reading
        BY DEF Init, Blank
      <3>. QED
        BY <2>1, <2>3, <3>1 DEF SectionOK, QueueOK
  <1>2. LinkInv /\ ViewTypes /\ ShownInv /\ [Next]_vars => ShownInv'
    <2> SUFFICES ASSUME LinkInv, ViewTypes, ShownInv, [Next]_vars
                 PROVE  ShownInv'
      OBVIOUS
    <2>0. \A w \in Widgets : config[w] \in Configs
      BY DEF ViewTypes, ConfigTypes
    <2>1. ASSUME NEW w \in Widgets, RequestProcesses(w), UNCHANGED config
          PROVE  ShownInv'
      <3>1. CASE config[w].enabled /\ config[w].processesEnabled
        BY <2>1, <3>1, RequestShown DEF RequestProcesses, RequestTypes
      <3>2. CASE ~(config[w].enabled /\ config[w].processesEnabled)
        BY <2>1, <3>2 DEF RequestProcesses, ShownInv
      <3>. QED
        BY <3>1, <3>2
    <2>2. ASSUME NEW w \in Widgets,
                 PollProcesses(w) \/ FallbackTick(w) \/ ConfigurationTick(w)
          PROVE  ShownInv'
      BY <2>1, <2>2 DEF PollProcesses, FallbackTick, ConfigurationTick, DelayedRequest
    <2>3. ASSUME NEW w \in Widgets, PollGpu(w)
          PROVE  ShownInv'
      BY <2>3, RequestShown DEF PollGpu, RequestTypes
    <2>4. ASSUME NEW w \in Widgets, Dispatch(w)
          PROVE  ShownInv'
      BY <2>4, SendShown DEF Dispatch, ShownInv, LinkInv, LinkTypes
    <2>5. ASSUME NEW reply \in Replies, ResponseReceived(reply)
          PROVE  ShownInv'
      BY <2>5, AnswerShown DEF ResponseReceived, ShownInv, LinkInv, LinkTypes
    <2>6. CASE TransportError
      BY <2>0, <2>6, BlankFits DEF TransportError, OnTransportError, ShownInv
    <2>7. CASE SocketProgress \/ UNCHANGED vars
      BY <2>7 DEF SocketProgress, vars, ShownInv
    <2>. QED
      BY <2>2, <2>3, <2>4, <2>5, <2>6, <2>7, SettingShown DEF Next
  <1>. QED
    BY <1>1, <1>2, LinkIsInvariant, PTL DEF Spec

\* A hidden section shows nothing and has nothing queued, whatever arrives.
THEOREM HiddenSectionsStayEmptyAlways == Spec => []HiddenSectionsStayEmpty
  <1>1. ShownInv => HiddenSectionsStayEmpty
    BY DEF ShownInv, SectionOK, QueueOK, HiddenSectionsStayEmpty
  <1>. QED
    BY <1>1, ShownIsInvariant, PTL

\* The rows stay within the visible limit, and GPU values do not outlive the
\* device that had them.
THEOREM ShownDataIsBoundedAlways == Spec => []ShownDataIsBounded
  <1>1. ShownInv => ShownDataIsBounded
    BY DEF ShownInv, SectionOK, ShownDataIsBounded
  <1>. QED
    BY <1>1, ShownIsInvariant, PTL

----------------------------------------------------------------------------
(* The fallback of an older backend.  A provider that was refused the      *)
(* bounded command has it neither in flight nor sends it, and only a       *)
(* failure of the bridge, which ends what is in flight, makes it forget.   *)

Sticky == \A w \in Widgets : ~bounded[w] => inFlight[w] # "processes"

\* What a step does to every provider of which the backend refused the command.
Sticks ==
  \A w \in Widgets :
    /\ ~bounded[w] \/ ~bounded'[w] => inFlight'[w] # "processes"
    /\ ~bounded[w] /\ bounded'[w] => inFlight' = [u \in Widgets |-> None] /\ ~busy'

\* A step that changes neither, a failure and a send keep to it.
LEMMA SendSticks ==
  ASSUME LinkInv, ConfigTypes, Sticky, NEW w \in Widgets, NEW q, Coalesced(w, q),
         SendNext(w, q)
  PROVE  Sticks
  <1>1. CASE ~config[w].enabled \/ busy \/ inFlight[w] # None \/ q = <<>>
    BY <1>1 DEF SendNext, Sticky, Sticks
  <1>2. CASE ~(~config[w].enabled \/ busy \/ inFlight[w] # None \/ q = <<>>)
    <2> DEFINE command == RequestFor(w, Head(q)).command
    <2>1. ~bounded[w] => command # "processes"
      BY DEF RequestFor
    <2>. HIDE DEF command
    <2>2. CASE Client!Fail /\ OnTransportError
      BY <2>2 DEF Client!Fail, Client!ResetRequest, OnTransportError, Sticks, None
    <2>3. CASE inFlight' = [inFlight EXCEPT ![w] = command] /\ bounded' = bounded
      BY <2>1, <2>3 DEF LinkInv, LinkTypes, Sticky, Sticks
    <2>. QED
      BY <1>2, <2>2, <2>3 DEF SendNext, Client!RequestFails, command
  <1>. QED
    BY <1>1, <1>2

\* So does queueing a request.
LEMMA EnqueueSticks ==
  ASSUME LinkInv, ConfigTypes, Sticky, NEW w \in Widgets, NEW type \in RequestTypes,
         Enqueue(w, type) \/ RequestProcesses(w)
  PROVE  Sticks
  <1>1. ASSUME NEW t \in RequestTypes, Enqueue(w, t)
        PROVE  Sticks
    <2>1. CASE InFlightCovers(w, t)
      BY <1>1, <2>1 DEF Enqueue, InFlightCovers, Sticky, Sticks
    <2>2. CASE ~InFlightCovers(w, t)
      BY <1>1, <2>2, EnqueueFacts, SendSticks DEF Enqueue, InFlightCovers
    <2>. QED
      BY <2>1, <2>2
  <1>2. CASE RequestProcesses(w)
    <2>1. CASE config[w].enabled /\ config[w].processesEnabled
      BY <1>1, <1>2, <2>1 DEF RequestProcesses, RequestTypes
    <2>2. CASE ~(config[w].enabled /\ config[w].processesEnabled)
      BY <1>2, <2>2 DEF RequestProcesses, Sticky, Sticks
    <2>. QED
      BY <2>1, <2>2
  <1>. QED
    BY <1>1, <1>2

\* Every step keeps to it.
LEMMA StepSticks == LinkInv /\ ViewTypes /\ Sticky /\ [Next]_vars => Sticks
  <1> SUFFICES ASSUME LinkInv, ConfigTypes, Sticky, [Next]_vars PROVE Sticks
    BY DEF ViewTypes
  <1>1. ASSUME NEW w \in Widgets,
               PollProcesses(w) \/ PollGpu(w) \/ FallbackTick(w) \/ ConfigurationTick(w)
        PROVE  Sticks
    BY <1>1, EnqueueSticks DEF PollProcesses, PollGpu, FallbackTick, ConfigurationTick,
       DelayedRequest, RequestTypes
  <1>2. ASSUME NEW w \in Widgets, Dispatch(w)
        PROVE  Sticks
    <2>1. Coalesced(w, queue[w])
      BY DEF LinkInv, LinkTypes, QueueIsCoalesced, Coalesced
    <2>. QED
      BY <1>2, <2>1, SendSticks DEF Dispatch
  <1>3. ASSUME UNCHANGED <<inFlight, bounded>>
        PROVE  Sticks
    BY <1>3 DEF Sticky, Sticks
  <1>4. ASSUME NEW w \in Widgets, ChangeSetting(w)
        PROVE  UNCHANGED <<inFlight, bounded>>
    BY <1>4 DEF ChangeSetting, SetEnabled, SetProcessesEnabled, SetGpuEnabled, SetLimit, SetSort
  <1>5. ASSUME NEW reply \in Replies, ResponseReceived(reply)
        PROVE  Sticks
    BY <1>5 DEF ResponseReceived, Sticks, None
  <1>6. CASE TransportError
    <2>1. Client!Fail /\ OnTransportError
      BY <1>6 DEF TransportError, Client!TransportFailure, Client!HandleReadyReadTooLarge,
         Client!HandleDisconnected, Client!HandleSocketError, Client!HandleTimeout
    <2>. QED
      BY <2>1 DEF Client!Fail, Client!ResetRequest, OnTransportError, Sticks, None
  <1>7. SocketProgress \/ UNCHANGED vars => UNCHANGED <<inFlight, bounded>>
    BY DEF SocketProgress, vars
  <1>. QED
    BY <1>1, <1>2, <1>3, <1>4, <1>5, <1>6, <1>7 DEF Next

\* An older backend is never sent the bounded command again before a failure
\* of the bridge, after which nothing is in flight, whatever settings change
\* and whichever requests were queued when it refused.
THEOREM FallbackIsAlwaysSticky == Spec => FallbackIsSticky
  <1>1. Init => Sticky
    BY DEF Init, Sticky
  <1>2. LinkInv /\ ViewTypes /\ Sticky /\ [Next]_vars => Sticky'
    BY StepSticks DEF Sticky, Sticks
  <1>3. LinkInv /\ ViewTypes /\ Sticky /\ [Next]_vars =>
          [\A w \in Widgets : ~bounded[w] =>
             /\ inFlight'[w] # "processes"
             /\ bounded'[w] => inFlight' = [u \in Widgets |-> None] /\ ~busy']_vars
    BY StepSticks DEF Sticks
  <1>. QED
    BY <1>1, <1>2, <1>3, LinkIsInvariant, PTL DEF Spec, FallbackIsSticky
============================================================================
