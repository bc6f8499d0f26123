-------------------------- MODULE BackendProvider --------------------------
(***************************************************************************)
(* The request scheduler and view state of every widget's backend provider *)
(* (package/contents/ui/BackendProvider.qml) on top of the socket bridge   *)
(* of LocalSocketClient.tla.                                               *)
(*                                                                         *)
(* The bridge is a context property of the QML engine                      *)
(* (native/backendplugin.cpp), so the widgets of one engine share it: each *)
(* provider's Connections hears every responseReceived and transportError, *)
(* whoever asked.  Widgets is a singleton for one widget in a panel.       *)
(*                                                                         *)
(* QML runs one handler at a time; signal handlers run inside the call     *)
(* that emits.  A step is therefore one event: a timer tick, a socket      *)
(* event with all handlers it reaches, or a settings change.               *)
(*                                                                         *)
(* Data is reduced to what the properties need: a row list is its length   *)
(* and the ordering it was requested for, GPU values are there or not,     *)
(* an answer is its kind.  Intervals are not modelled: a running timer may *)
(* tick at any moment.                                                     *)
(***************************************************************************)
EXTENDS Naturals, Sequences

CONSTANTS
  Widgets,        \* provider instances that share the bridge
  Limits,         \* values of effectiveMaximumProcessEntries
  MaxReply,       \* rows of the longest answer
  Settings        \* the settings the user changes in this instance

SettingNames == {"enabled", "processesEnabled", "gpuEnabled", "sort", "limit"}

ASSUME WidgetsAssumption == Widgets # {}
ASSUME LimitsAssumption == Limits \subseteq Nat \ {0} /\ Limits # {}
ASSUME MaxReplyAssumption == MaxReply \in Nat
ASSUME SettingsAssumption == Settings \subseteq SettingNames

VARIABLES
  config,     \* the provider's input properties
  inFlight,   \* inFlightCommand
  queue,      \* requestQueue
  bounded,    \* boundedProcessRequestSupported
  view,       \* what the representations read
  armed,      \* the single-shot timers that are running
  \* the shared bridge
  busy, timer, pending, response, delivered, socket, wire, path

clientVars == <<busy, timer, pending, response, delivered, socket, wire, path>>
vars == <<config, inFlight, queue, bounded, view, armed, clientVars>>

SortModes == {"cpu", "memory"}
RequestTypes == {"processes", "gpu"}
Commands == RequestTypes \cup {"snapshot"}
None == "none"

\* A request line: the ordering asked for; a snapshot has no ordering.
WireRequests ==
  [command : {"processes"}, sort : SortModes] \cup
  {[command |-> "snapshot", sort |-> "all"], [command |-> "gpu", sort |-> None]}

NoRequest == [command |-> None, sort |-> None]

Client == INSTANCE LocalSocketClient
            WITH Requests <- WireRequests, Paths <- {"default"}

Configs == [enabled : BOOLEAN, processesEnabled : BOOLEAN, gpuEnabled : BOOLEAN,
            sort : SortModes, limit : Limits]

\* backend: backendState; rows: processCount; rowsFrom: the ordering for
\* which those rows were requested; gpu: gpuState; reading: one of the gpu
\* values is not NaN.
Views == [backend : {"detecting", "connected", "unavailable", "error"},
          rows : Nat, rowsFrom : SortModes \cup {"all", None},
          gpu : {"detecting", "available", "unavailable", "error"},
          reading : BOOLEAN]

\* What a provider shows after its bridge failed, or once it is disabled.
Blank == [backend |-> "unavailable", rows |-> 0, rowsFrom |-> None,
          gpu |-> "unavailable", reading |-> FALSE]

\* An answer: unparsable, of another version, an error (unsupported_command
\* or another code), without its array, or with n usable entries.  A GPU entry
\* is usable by its index and name alone; values: the shown one has more.
Replies ==
  [kind : {"malformed", "version", "unsupported", "error", "missing"}, n : {0},
   values : {FALSE}]
    \cup [kind : {"ok"}, n : 0..MaxReply, values : BOOLEAN]

Init ==
  /\ config \in [Widgets -> {c \in Configs : c.enabled /\ c.processesEnabled
                                             /\ c.gpuEnabled /\ c.sort = "cpu"}]
  /\ inFlight = [w \in Widgets |-> None]
  /\ queue = [w \in Widgets |-> <<>>]
  /\ bounded = [w \in Widgets |-> TRUE]
  /\ view = [w \in Widgets |->
               [Blank EXCEPT !.backend = "detecting", !.gpu = "detecting"]]
  /\ armed = [w \in Widgets |-> {}]
  /\ Client!ClientInit

----------------------------------------------------------------------------
(* Sending.                                                                *)

InQueue(q, type) == \E i \in 1..Len(q) : q[i] = type

\* requestQueue without its first entry of that type.
Discard(q, type) ==
  LET Hits == {i \in 1..Len(q) : q[i] = type}
      first == CHOOSE i \in Hits : \A j \in Hits : i <= j
  IN IF Hits = {} THEN q
     ELSE [j \in 1..(Len(q) - 1) |-> IF j < first THEN q[j] ELSE q[j + 1]]

\* Mutants: the rejection of the bounded command is forgotten; the sort mode
\* is that of the first request.
RequestForForgetsFallback(w, type) ==
  IF type = "gpu" THEN [command |-> "gpu", sort |-> None]
  ELSE [command |-> "processes", sort |-> config[w].sort]
RequestForFixedSort(w, type) ==
  IF type = "gpu" THEN [command |-> "gpu", sort |-> None]
  ELSE [command |-> "processes", sort |-> "cpu"]

RequestFor(w, type) ==
  IF type = "gpu" THEN [command |-> "gpu", sort |-> None]
  ELSE IF bounded[w] THEN [command |-> "processes", sort |-> config[w].sort]
  ELSE [command |-> "snapshot", sort |-> "all"]

\* Mutant: onTransportError leaves inFlightCommand alone.
OnTransportErrorKeepsInFlight ==
  /\ queue' = [w \in Widgets |-> <<>>]
  /\ bounded' = [w \in Widgets |-> TRUE]
  /\ view' = [w \in Widgets |-> Blank]
  /\ UNCHANGED inFlight

\* onTransportError, in every provider.
OnTransportError ==
  /\ inFlight' = [w \in Widgets |-> None]
  /\ queue' = [w \in Widgets |-> <<>>]
  /\ bounded' = [w \in Widgets |-> TRUE]
  /\ view' = [w \in Widgets |-> Blank]

\* sendNextRequest with requestQueue = q.  inFlightCommand is set before
\* request() is called, so that a connect that fails at once, whose
\* transportError runs first, leaves it empty.  request() itself cannot
\* refuse: busy was tested, and the line is neither empty nor too long.
SendNext(w, q) ==
  IF ~config[w].enabled \/ busy \/ inFlight[w] # None \/ q = <<>>
  THEN queue' = [queue EXCEPT ![w] = q]
       /\ UNCHANGED <<inFlight, bounded, view, clientVars>>
  ELSE LET r == RequestFor(w, Head(q)) IN
       \/ /\ Client!RequestConnects(r) \/ Client!RequestWaits(r)
          /\ inFlight' = [inFlight EXCEPT ![w] = r.command]
          /\ queue' = [queue EXCEPT ![w] = Tail(q)]
          /\ UNCHANGED <<bounded, view>>
       \/ Client!RequestFails(r) /\ OnTransportError

\* Mutant: a new request goes to the head of the queue.
EnqueueFront(w, type) ==
  IF inFlight[w] = type
  THEN UNCHANGED <<inFlight, queue, bounded, view, clientVars>>
  ELSE SendNext(w, IF InQueue(queue[w], type) THEN queue[w]
                   ELSE <<type>> \o queue[w])

\* enqueueRequest: a request that is already out is not asked for again, one
\* that is already queued is not queued twice.
Enqueue(w, type) ==
  IF inFlight[w] = type \/ (type = "processes" /\ inFlight[w] = "snapshot")
  THEN UNCHANGED <<inFlight, queue, bounded, view, clientVars>>
  ELSE SendNext(w, IF InQueue(queue[w], type) THEN queue[w]
                   ELSE Append(queue[w], type))

\* requestProcesses.
RequestProcesses(w) ==
  IF config[w].enabled /\ config[w].processesEnabled
  THEN Enqueue(w, "processes")
  ELSE UNCHANGED <<inFlight, queue, bounded, view, clientVars>>

\* The repeating poll timers run while their section is shown.
PollProcesses(w) ==
  /\ config[w].enabled /\ config[w].processesEnabled
  /\ RequestProcesses(w)
  /\ UNCHANGED <<config, armed>>

PollGpu(w) ==
  /\ config[w].enabled /\ config[w].gpuEnabled
  /\ Enqueue(w, "gpu")
  /\ UNCHANGED <<config, armed>>

\* dispatchTimer, fallbackTimer and configurationRequestTimer.
Dispatch(w) ==
  /\ "dispatch" \in armed[w]
  /\ armed' = [armed EXCEPT ![w] = @ \ {"dispatch"}]
  /\ SendNext(w, queue[w])
  /\ UNCHANGED config

DelayedRequest(w, t) ==
  /\ t \in armed[w]
  /\ armed' = [armed EXCEPT ![w] = @ \ {t}]
  /\ RequestProcesses(w)
  /\ UNCHANGED config

FallbackTick(w) == DelayedRequest(w, "fallback")
ConfigurationTick(w) == DelayedRequest(w, "configuration")

----------------------------------------------------------------------------
(* Answers.                                                                *)

ClearProcesses(v) == [v EXCEPT !.rows = 0, !.rowsFrom = None]

\* The bounded command is rejected by an older backend.
Unsupported(w, reply) ==
  /\ config[w].enabled /\ config[w].processesEnabled
  /\ inFlight[w] = "processes" /\ reply.kind = "unsupported"

\* handleProcessResponse: the rows are ordered, and cut, under the settings
\* of the moment; which rows they are was decided by the request.
AfterProcessReply(v, c, reply, unsupported) ==
  IF ~c.processesEnabled THEN v
  ELSE IF unsupported THEN [v EXCEPT !.backend = "detecting"]
  ELSE IF reply.kind # "ok" THEN [ClearProcesses(v) EXCEPT !.backend = "error"]
  ELSE LET n == IF reply.n > c.limit THEN c.limit ELSE reply.n IN
       [v EXCEPT !.backend = "connected", !.rows = n,
                 !.rowsFrom = IF n = 0 THEN None ELSE pending.sort]

\* Mutant: a late answer reaches a section that has been hidden.
AfterGpuReplyHidden(v, c, reply) ==
  [v EXCEPT !.reading = reply.kind = "ok" /\ reply.n > 0 /\ reply.values]

\* handleGpuResponse: of several devices, the one with index 0.  A value that
\* the entry lacks is NaN, and the device is available all the same.
AfterGpuReply(v, c, reply) ==
  IF ~c.gpuEnabled THEN v
  ELSE [v EXCEPT
         !.backend = "connected",
         !.reading = reply.kind = "ok" /\ reply.n > 0 /\ reply.values,
         !.gpu = CASE reply.kind = "ok" -> IF reply.n > 0 THEN "available"
                                           ELSE "unavailable"
                   [] reply.kind = "unsupported" -> "unavailable"
                   [] OTHER -> "error"]

\* handleResponse: a provider that has nothing in flight, because another
\* widget asked, takes the answer for an unexpected one.
AfterReply(w, reply) ==
  LET v == view[w] IN
  IF ~config[w].enabled THEN v
  ELSE IF reply.kind \in {"malformed", "version"}
  THEN IF inFlight[w] = "gpu" THEN [v EXCEPT !.backend = "error", !.gpu = "error"]
       ELSE [ClearProcesses(v) EXCEPT !.backend = "error"]
  ELSE IF inFlight[w] = "gpu" THEN AfterGpuReply(v, config[w], reply)
  ELSE IF inFlight[w] \in Commands
  THEN AfterProcessReply(v, config[w], reply, Unsupported(w, reply))
  ELSE [v EXCEPT !.backend = "error"]

\* completeResponse, in every provider.
ResponseReceived(reply) ==
  /\ Client!HandleReadyReadLine
  /\ inFlight' = [w \in Widgets |-> None]
  /\ view' = [w \in Widgets |-> AfterReply(w, reply)]
  /\ bounded' = [w \in Widgets |-> bounded[w] /\ ~Unsupported(w, reply)]
  /\ armed' = [w \in Widgets |-> armed[w] \cup {"dispatch"} \cup
                 IF Unsupported(w, reply) THEN {"fallback"} ELSE {}]
  /\ UNCHANGED <<config, queue>>

TransportError ==
  /\ Client!TransportFailure
  /\ OnTransportError
  /\ UNCHANGED <<config, armed>>

\* The 4 s timeout among them.
Timeout ==
  /\ Client!HandleTimeout
  /\ OnTransportError
  /\ UNCHANGED <<config, armed>>

SocketProgress ==
  /\ Client!HandleConnected \/ Client!HandleReadyReadPartial
  /\ UNCHANGED <<config, inFlight, queue, bounded, view, armed>>

----------------------------------------------------------------------------
(* Settings.                                                               *)

Set(w, name, value) == config' = [config EXCEPT ![w][name] = value]

Discarding(w, type) == queue' = [queue EXCEPT ![w] = Discard(@, type)]

\* onEnabledChanged.  A request that is out stays out.
SetEnabled(w) ==
  /\ "enabled" \in Settings
  /\ Set(w, "enabled", ~config[w].enabled)
  /\ IF config[w].enabled
       THEN queue' = [queue EXCEPT ![w] = <<>>] /\ view' = [view EXCEPT ![w] = Blank]
       ELSE view' = [view EXCEPT ![w].backend = "detecting"] /\ UNCHANGED queue
  /\ UNCHANGED <<inFlight, bounded, armed, clientVars>>

\* onProcessesEnabledChanged.
SetProcessesEnabled(w) ==
  /\ "processesEnabled" \in Settings
  /\ Set(w, "processesEnabled", ~config[w].processesEnabled)
  /\ IF ~config[w].processesEnabled /\ config[w].enabled
       THEN view' = [view EXCEPT ![w].backend = "detecting"] /\ UNCHANGED queue
       ELSE view' = [view EXCEPT ![w] = ClearProcesses(@)] /\ Discarding(w, "processes")
  /\ UNCHANGED <<inFlight, bounded, armed, clientVars>>

\* onGpuEnabledChanged.
SetGpuEnabled(w) ==
  /\ "gpuEnabled" \in Settings
  /\ Set(w, "gpuEnabled", ~config[w].gpuEnabled)
  /\ IF ~config[w].gpuEnabled /\ config[w].enabled
       THEN /\ view' = [view EXCEPT ![w].reading = FALSE, ![w].gpu = "detecting"]
            /\ UNCHANGED queue
       ELSE /\ view' = [view EXCEPT ![w].reading = FALSE, ![w].gpu = "unavailable"]
            /\ Discarding(w, "gpu")
  /\ UNCHANGED <<inFlight, bounded, armed, clientVars>>

\* Mutant: the timer is restarted under a name nobody serves.
ArmConfigurationMisnamed(w) == armed' = [armed EXCEPT ![w] = @ \cup {"config"}]

ArmConfiguration(w) ==
  armed' = IF config[w].enabled
             THEN [armed EXCEPT ![w] = @ \cup {"configuration"}] ELSE armed

\* Mutant: the rows on screen are left for the next answer to cut.
SetLimitKeepsRows(w, limit) ==
  /\ "limit" \in Settings
  /\ limit # config[w].limit
  /\ Set(w, "limit", limit)
  /\ ArmConfiguration(w)
  /\ UNCHANGED <<inFlight, queue, bounded, view, clientVars>>

\* onEffectiveMaximumProcessEntriesChanged.
SetLimit(w, limit) ==
  /\ "limit" \in Settings
  /\ limit # config[w].limit
  /\ Set(w, "limit", limit)
  /\ view' = [view EXCEPT ![w].rows = IF @ > limit THEN limit ELSE @]
  /\ ArmConfiguration(w)
  /\ UNCHANGED <<inFlight, queue, bounded, clientVars>>

\* onEffectiveProcessSortModeChanged.
SetSort(w, sort) ==
  /\ "sort" \in Settings
  /\ sort # config[w].sort
  /\ Set(w, "sort", sort)
  /\ view' = [view EXCEPT ![w] =
                IF config[w].enabled
                  THEN [ClearProcesses(@) EXCEPT !.backend = "detecting"]
                  ELSE ClearProcesses(@)]
  /\ ArmConfiguration(w)
  /\ UNCHANGED <<inFlight, queue, bounded, clientVars>>

ChangeSetting(w) ==
  \/ SetEnabled(w)
  \/ SetProcessesEnabled(w)
  \/ SetGpuEnabled(w)
  \/ \E l \in Limits : SetLimit(w, l)
  \/ \E s \in SortModes : SetSort(w, s)

----------------------------------------------------------------------------
Next ==
  \/ \E w \in Widgets :
       \/ PollProcesses(w)
       \/ PollGpu(w)
       \/ Dispatch(w)
       \/ FallbackTick(w)
       \/ ConfigurationTick(w)
       \/ ChangeSetting(w)
  \/ \E reply \in Replies : ResponseReceived(reply)
  \/ TransportError
  \/ SocketProgress

Spec == Init /\ [][Next]_vars

\* Timers fire: Qt's timers are served by the event loop.  Nothing is assumed
\* of the backend, which may never answer, nor of the user.
Fairness ==
  /\ \A w \in Widgets :
       /\ WF_vars(PollProcesses(w))
       /\ WF_vars(PollGpu(w))
       /\ WF_vars(Dispatch(w))
       /\ WF_vars(FallbackTick(w))
       /\ WF_vars(ConfigurationTick(w))
  /\ WF_vars(Timeout)

FairSpec == Spec /\ Fairness

----------------------------------------------------------------------------
(* Properties.                                                             *)

TypeOK ==
  /\ config \in [Widgets -> Configs]
  /\ inFlight \in [Widgets -> Commands \cup {None}]
  /\ queue \in [Widgets -> Seq(RequestTypes)]
  /\ bounded \in [Widgets -> BOOLEAN]
  /\ view \in [Widgets -> Views]
  /\ armed \in [Widgets -> SUBSET {"dispatch", "fallback", "configuration"}]
  /\ Client!ClientTypeOK

\* The scheduler and the bridge agree on what is out: at most one widget has
\* a command in flight, it has one exactly while the bridge is busy under its
\* timeout, and that command is the one the bridge sends.  Otherwise
\* inFlightCommand would stay set for ever, which silences the provider, or
\* an answer would be read as the answer to another command.
InFlightMatchesBridge ==
  /\ \A v, w \in Widgets : inFlight[v] # None /\ inFlight[w] # None => v = w
  /\ busy <=> \E w \in Widgets : inFlight[w] # None
  /\ timer <=> busy
  /\ \A w \in Widgets : inFlight[w] # None => pending.command = inFlight[w]
  /\ socket = "connected" => busy /\ wire = pending

\* The queue is coalesced by request type and bounded by their number
\* (tests/BackendProviderProbe.qml:218), and what is out is not queued again.
InFlightCovers(w, type) ==
  inFlight[w] = type \/ (type = "processes" /\ inFlight[w] = "snapshot")

QueueIsCoalesced ==
  \A w \in Widgets :
    /\ \A i, j \in 1..Len(queue[w]) : queue[w][i] = queue[w][j] => i = j
    /\ \A i \in 1..Len(queue[w]) : ~InFlightCovers(w, queue[w][i])

\* A section that is hidden has nothing to show and nothing queued, also when
\* the answer to a request it sent earlier arrives after it was hidden.
HiddenSectionsStayEmpty ==
  \A w \in Widgets :
    /\ ~config[w].enabled => view[w] = Blank /\ queue[w] = <<>>
    /\ ~config[w].processesEnabled => /\ view[w].rows = 0
                                      /\ ~InQueue(queue[w], "processes")
    /\ ~config[w].gpuEnabled => /\ ~view[w].reading
                                /\ view[w].gpu # "available"
                                /\ ~InQueue(queue[w], "gpu")

\* The rows on screen never exceed the visible limit, whichever limit the
\* request carried.  GPU values are kept for a device only that the last usable
\* answer had: available still, or behind the error of an unusable one.
ShownDataIsBounded ==
  \A w \in Widgets :
    /\ view[w].rows <= config[w].limit
    /\ view[w].reading => view[w].gpu \in {"available", "error"}

\* A backend that rejected the bounded command is not sent it again until a
\* transport error suggests that it may have been replaced.
FallbackIsSticky ==
  [][\A w \in Widgets : ~bounded[w] =>
       /\ inFlight'[w] # "processes"
       /\ bounded'[w] => inFlight' = [u \in Widgets |-> None] /\ ~busy']_vars

\* Every request is given back: the line of RequestLine.tla, held by the
\* widget that has a command in flight.
Line == INSTANCE RequestLine
          WITH Users <- Widgets, holder <- {w \in Widgets : inFlight[w] # None}

OneRequestAtATime == Line!Spec

\* Without the liveness: nobody sends while somebody's request is out.
OneRequestOut == Line!SafeSpec

\* Neither section starves the other: a queued request is sent or dropped,
\* although the other section keeps polling and the backend may be silent.
QueuedRequestsMove ==
  \A w \in Widgets : \A type \in RequestTypes :
    InQueue(queue[w], type) ~> ~InQueue(queue[w], type)

\* The rows shown were requested for the ordering they are shown under.
RowsOrderedAsConfigured(w) ==
  view[w].rows > 0 => view[w].rowsFrom \in {config[w].sort, "all"}

\* A change of the sort mode takes effect in the end, with a backend that may
\* fail at will: rows selected for the old ordering do not stay.
SortModeTakesEffect ==
  \A w \in Widgets : \A sort \in SortModes :
    <>[](config[w].sort = sort) => <>[]RowsOrderedAsConfigured(w)

----------------------------------------------------------------------------
(* What the documentation says and the code does not do.                   *)

\* components/GpuSection.qml statusText.
GpuStatus(w) ==
  CASE view[w].backend \in {"unavailable", "error"} -> "Backend unavailable"
    [] view[w].gpu = "detecting" -> "Detecting"
    [] view[w].gpu = "unavailable" -> "GPU unavailable"
    [] view[w].gpu = "error" -> "GPU error"
    [] OTHER -> ""

\* "Backend unavailable means the socket could not be reached"
\* (backend/README.md:179): the answer to another widget's request, heard on
\* the shared bridge by a widget that asked nothing, does not bring it up.
UnaskedAnswersAreHarmless ==
  [][\A w \in Widgets :
       inFlight[w] = None /\ GpuStatus(w)' = "Backend unavailable"
           /\ GpuStatus(w) # "Backend unavailable"
         => view' = [u \in Widgets |-> Blank]]_vars
============================================================================
