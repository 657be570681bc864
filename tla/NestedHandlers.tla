--------------------------- MODULE NestedHandlers ---------------------------
(***************************************************************************)
(* What the exception model promises to the author of a handler, with no   *)
(* step, frame, mask, bus or register in sight: handlers nest by urgency.  *)
(* Exceptions wait; one that waits and is more urgent than the handler     *)
(* that runs may interrupt it, or may take over from a handler that ends;  *)
(* what runs stops waiting, nothing else stops waiting because of it, and  *)
(* urgencies stand still while any handler is active.                      *)
(*                                                                         *)
(* HardFault may begin without waiting: it is what the core does when it   *)
(* fails to fetch the vector of another exception.                         *)
(***************************************************************************)
EXTENDS Integers, Sequences

CONSTANTS Exceptions, HardFault

VARIABLES
  handlers,   \* the active handlers, the running one last
  waiting,    \* the exceptions that wait
  urgency     \* a lower value is more urgent

vars == <<handlers, waiting, urgency>>

Init ==
  /\ handlers = <<>>
  /\ waiting = {}
  /\ urgency \in [Exceptions -> Int]

Running == handlers[Len(handlers)]

(* Requests come and go. *)
Request ==
  /\ waiting' \subseteq Exceptions
  /\ UNCHANGED <<handlers, urgency>>

Begin(e) ==
  /\ e \in waiting \cup {HardFault}
  /\ handlers # <<>> => urgency[e] < urgency[Running]
  /\ handlers' = Append(handlers, e)
  /\ waiting' = waiting \ {e}
  /\ UNCHANGED urgency

(* The handler that ends waits again if its request is still there. *)
TakeOver(e) ==
  /\ handlers # <<>>
  /\ e \in waiting \cup {Running, HardFault}
  /\ Len(handlers) > 1 => urgency[e] < urgency[handlers[Len(handlers) - 1]]
  /\ handlers' = [handlers EXCEPT ![Len(handlers)] = e]
  /\ waiting \ {e} \subseteq waiting'
  /\ waiting' \subseteq (waiting \cup {Running}) \ {e}
  /\ UNCHANGED urgency

End ==
  /\ handlers # <<>>
  /\ handlers' = SubSeq(handlers, 1, Len(handlers) - 1)
  /\ waiting \subseteq waiting'
  /\ waiting' \subseteq waiting \cup {Running}
  /\ UNCHANGED urgency

Reprogram ==
  /\ handlers = <<>>
  /\ urgency' \in [Exceptions -> Int]
  /\ UNCHANGED <<handlers, waiting>>

Reset ==
  /\ handlers' = <<>>
  /\ waiting' = {}
  /\ urgency' \in [Exceptions -> Int]

Next ==
  \/ Request \/ End \/ Reprogram \/ Reset
  \/ \E e \in Exceptions : Begin(e) \/ TakeOver(e)

Spec == Init /\ [][Next]_vars
=============================================================================
