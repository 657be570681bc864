----------------------------- MODULE HostEvents -----------------------------
(***************************************************************************)
(* What the host is promised of the events it polls for: they come in the      *)
(* order of their making, and when more than Capacity wait the oldest ones are     *)
(* gone.  The host of a serial interface takes those of one endpoint and leaves      *)
(* the others in their order.                                                         *)
(***************************************************************************)
EXTENDS Naturals, Sequences

CONSTANTS
  Endpoints,   \* the interfaces events come from
  Capacity,    \* the events that wait, 64
  EventsMade   \* events made

VARIABLES
  waiting,     \* the events the host has not taken, the oldest first
  made         \* the events made so far

hostVars == <<waiting, made>>

HostInit == waiting = <<>> /\ made = 0

Newest(q) == IF Len(q) > Capacity THEN Tail(q) ELSE q

Make(endpoint) ==
  /\ made < EventsMade
  /\ made' = made + 1
  /\ waiting' = Newest(Append(waiting, [endpoint |-> endpoint, n |-> made']))

(* The position of the first event of an endpoint *)
FirstOf(endpoint, q, i) ==
  /\ q[i].endpoint = endpoint
  /\ \A j \in 1..(i - 1) : q[j].endpoint # endpoint

Take(endpoint) ==
  \E i \in DOMAIN waiting :
    /\ FirstOf(endpoint, waiting, i)
    /\ waiting' = SubSeq(waiting, 1, i - 1) \o SubSeq(waiting, i + 1, Len(waiting))
    /\ UNCHANGED made

TakeOldest == waiting # <<>> /\ waiting' = Tail(waiting) /\ UNCHANGED made

Forget == waiting' = <<>> /\ UNCHANGED made

HostNext ==
  \/ \E endpoint \in Endpoints : Make(endpoint) \/ Take(endpoint)
  \/ TakeOldest
  \/ Forget

HostSpec == HostInit /\ [][HostNext]_hostVars
=============================================================================
