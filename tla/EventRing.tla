----------------------------- MODULE EventRing ------------------------------
(***************************************************************************)
(* The rings the events for the host wait in: of the device (queue_event,       *)
(* kinetis_k22_next_event) and of the serial interfaces (push_event,               *)
(* kinetis_k22_internal_pop_serial_event), which can also give up an event from     *)
(* its middle.  Both are one ring here, with every operation of either.               *)
(***************************************************************************)
EXTENDS Naturals, Sequences

CONSTANTS
  Endpoints,   \* the interfaces events come from
  Capacity,    \* the slots, 64
  EventsMade   \* events made

ASSUME RingAssumption == Capacity \in Nat \ {0}

VARIABLES
  ring,       \* [slot, read, write, count]
  ringMade    \* the events made so far

ringVars == <<ring, ringMade>>

Slots == 0..(Capacity - 1)
NoEvent == [endpoint |-> 0, n |-> 0]

RingTypeOK ==
  /\ ring.read \in Slots
  /\ ring.write = (ring.read + ring.count) % Capacity
  /\ ring.count \in 0..Capacity

RingInit ==
  /\ ring = [slot |-> [s \in Slots |-> NoEvent], read |-> 0, write |-> 0, count |-> 0]
  /\ ringMade = 0

-----------------------------------------------------------------------------

(* A full ring gives up its oldest event. *)
RoomMade(r) ==
  IF r.count = Capacity
  THEN [r EXCEPT !.read = (@ + 1) % Capacity, !.count = @ - 1]
  ELSE r

Queued(r, event) ==
  LET room == RoomMade(r)
  IN  [room EXCEPT !.slot[room.write] = event,
                   !.write = (@ + 1) % Capacity,
                   !.count = @ + 1]

QueueEvent(endpoint) ==
  /\ ringMade < EventsMade
  /\ ringMade' = ringMade + 1
  /\ ring' = Queued(ring, [endpoint |-> endpoint, n |-> ringMade'])

NextEvent ==
  /\ ring.count # 0
  /\ ring' = [ring EXCEPT !.read = (@ + 1) % Capacity, !.count = @ - 1]
  /\ UNCHANGED ringMade

At(r, offset) == r.slot[(r.read + offset) % Capacity]

ClosedShort(r, offset) ==  \* mutant: the last of the later events is not moved
  [r EXCEPT
    !.slot = [s \in Slots |->
      LET o == (s + Capacity - r.read) % Capacity
      IN  IF offset <= o /\ o + 2 < r.count THEN At(r, o + 1) ELSE r.slot[s]],
    !.write = (@ + Capacity - 1) % Capacity,
    !.count = @ - 1]

(* The events after the one taken move up by a slot. *)
Closed(r, offset) ==
  [r EXCEPT
    !.slot = [s \in Slots |->
      LET o == (s + Capacity - r.read) % Capacity
      IN  IF offset <= o /\ o + 1 < r.count THEN At(r, o + 1) ELSE r.slot[s]],
    !.write = (@ + Capacity - 1) % Capacity,
    !.count = @ - 1]

PopSerialEvent(endpoint) ==
  \E offset \in 0..(ring.count - 1) :
    /\ At(ring, offset).endpoint = endpoint
    /\ \A o \in 0..(offset - 1) : At(ring, o).endpoint # endpoint
    /\ ring' = Closed(ring, offset)
    /\ UNCHANGED ringMade

RingReset == ring' = [ring EXCEPT !.read = 0, !.write = 0, !.count = 0] /\ UNCHANGED ringMade

RingNext ==
  \/ \E endpoint \in Endpoints : QueueEvent(endpoint) \/ PopSerialEvent(endpoint)
  \/ NextEvent
  \/ RingReset

RingSpec == RingInit /\ [][RingNext]_ringVars

-----------------------------------------------------------------------------
(* The ring is the queue the host is promised: the events between its read and its
   write index, and every operation is one of the queue's (queue_event,
   kinetis_k22_internal_pop_serial_event). *)
Queue ==
  INSTANCE HostEvents WITH
    waiting <- [i \in 1..ring.count |-> At(ring, i - 1)],
    made <- ringMade

RingIsQueue == Queue!HostSpec
=============================================================================
