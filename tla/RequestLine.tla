---------------------------- MODULE RequestLine ----------------------------
(***************************************************************************)
(* What the socket bridge promises to the widgets that use it: a line that *)
(* one request occupies at a time, and that is given back by exactly one   *)
(* answer or failure, always.  This module states the promise only; module *)
(* LocalSocketClient (native/localsocketclient.cpp) implements it, and so  *)
(* does the system of BackendProvider.tla, for the widget that holds it.   *)
(***************************************************************************)
CONSTANT Users      \* whoever may occupy the line

VARIABLE holder     \* the users whose request occupies it: none or one

Init == holder = {}

\* Nobody is served while the line is occupied: requests are not queued here.
Occupy(u) ==
  /\ holder = {}
  /\ holder' = {u}

\* The answer, or the transport error, or the request being abandoned.
Release ==
  /\ holder # {}
  /\ holder' = {}

Next == Release \/ \E u \in Users : Occupy(u)

\* An occupied line is given back: no request hangs for ever.
Spec == Init /\ [][Next]_holder /\ WF_holder(Release)

\* The part of the promise without the liveness, which TLAPS can prove.
SafeSpec == Init /\ [][Next]_holder

\* At most one request is out at any time.
Exclusive == \A u, v \in holder : u = v
============================================================================
