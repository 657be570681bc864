-------------------------------- MODULE Pit ---------------------------------
(***************************************************************************)
(* The periodic interrupt timer (timing/counters.c).  Each channel counts   *)
(* down to zero and reloads; a chained channel counts the expirations of    *)
(* the channel before it.  Time arrives in batches of ticks.                *)
(***************************************************************************)
EXTENDS Naturals

CONSTANTS
  PitLast,     \* the highest channel
  PitLoads,    \* values software writes to LDVAL
  PitSteps     \* the ticks one advance brings

VARIABLES
  pit,         \* pit[channel]: K22PitChannel
  pitHold,     \* what may stop the module: its gate, MDIS, FRZ, a halted core
  pitLine      \* channels whose interrupt line is up

pitVars == <<pit, pitHold, pitLine>>

PitChannels == 0..PitLast
PitIdle == [load |-> 0, current |-> 0, on |-> FALSE, ie |-> FALSE, chain |-> FALSE, flag |-> FALSE]

PitTypeOK ==
  /\ pit \in [PitChannels -> [load : PitLoads \cup {0}, current : Nat, on : BOOLEAN,
                              ie : BOOLEAN, chain : BOOLEAN, flag : BOOLEAN]]
  /\ ~pit[0].chain
  /\ pitHold \subseteq {"gate", "MDIS", "FRZ", "halted"}
  /\ pitLine \subseteq PitChannels

PitInit ==
  /\ pit = [c \in PitChannels |-> PitIdle]
  /\ pitHold = {"gate", "MDIS"}
  /\ pitLine = {}

-----------------------------------------------------------------------------
(* Time *)

Expirations(ch, ticks) ==
  IF ch.on /\ ticks > ch.current
    THEN 1 + (ticks - ch.current - 1) \div (ch.load + 1)
    ELSE 0

PitCountedFrom(ch, ticks) ==  \* mutant: the reload counts from the whole batch
  [ch EXCEPT !.current = ch.load - (ticks % (ch.load + 1)), !.flag = TRUE]

PitCounted(ch, ticks) ==
  [ch EXCEPT !.current = ch.load - ((ticks - ch.current - 1) % (ch.load + 1)), !.flag = TRUE]

TickedDown(ch, ticks) ==
  IF Expirations(ch, ticks) > 0 THEN PitCounted(ch, ticks)
  ELSE [ch EXCEPT !.current = IF ch.on THEN @ - ticks ELSE @]

(* The ticks each channel sees: those of the clock, or the expirations of the
   channel before it. *)
TickSources(chs, ticks) ==
  LET source[c \in PitChannels] ==
        IF chs[c].chain THEN Expirations(chs[c - 1], source[c - 1]) ELSE ticks
  IN  source

PitElapsed(chs, ticks) ==
  [c \in PitChannels |-> TickedDown(chs[c], TickSources(chs, ticks)[c])]

(* The channels that expire, each of which triggers the DMA and the ADC once. *)
Expired(chs, ticks) ==
  {c \in PitChannels : Expirations(chs[c], TickSources(chs, ticks)[c]) > 0}

PitRunning ==
  /\ pitHold \cap {"gate", "MDIS"} = {}
  /\ ~({"FRZ", "halted"} \subseteq pitHold)

PitAdvance(ticks) ==
  /\ PitRunning
  /\ pit' = PitElapsed(pit, ticks)
  /\ pitLine' = pitLine \cup {c \in Expired(pit, ticks) : pit[c].ie}
  /\ UNCHANGED pitHold

-----------------------------------------------------------------------------
(* Software and the rest of the device *)

PitAccessible == "gate" \notin pitHold

PitWriteLoad(c, load) ==
  /\ PitAccessible
  /\ pit' = [pit EXCEPT ![c].load = load]
  /\ UNCHANGED <<pitHold, pitLine>>

(* Enabling a channel starts it from its load value; the line is set again from
   the flag and the enable.  Channel 0 has nothing to be chained to. *)
LineSet(c, up) == IF up THEN pitLine \cup {c} ELSE pitLine \ {c}

PitWriteControlOnly(c, on, ie, chain) ==  \* mutant: the line does not follow TIE
  /\ PitAccessible
  /\ chain => c # 0
  /\ pit' = [pit EXCEPT ![c].on = on, ![c].ie = ie, ![c].chain = chain,
                        ![c].current = IF on /\ ~pit[c].on THEN pit[c].load ELSE @]
  /\ UNCHANGED <<pitHold, pitLine>>

PitWriteControl(c, on, ie, chain) ==
  /\ PitAccessible
  /\ chain => c # 0
  /\ pit' = [pit EXCEPT ![c].on = on, ![c].ie = ie, ![c].chain = chain,
                        ![c].current = IF on /\ ~pit[c].on THEN pit[c].load ELSE @]
  /\ pitLine' = LineSet(c, pit[c].flag /\ ie)
  /\ UNCHANGED pitHold

PitClearFlag(c) ==
  /\ PitAccessible
  /\ pit' = [pit EXCEPT ![c].flag = FALSE]
  /\ pitLine' = pitLine \ {c}
  /\ UNCHANGED pitHold

(* Writing MCR, the clock gate of SIM, a debugger that halts or lets go. *)
PitHoldChanges(h) ==
  /\ h \in {"MDIS", "FRZ"} => PitAccessible
  /\ pitHold' = IF h \in pitHold THEN pitHold \ {h} ELSE pitHold \cup {h}
  /\ UNCHANGED <<pit, pitLine>>

(* A warm reset clears the module, and the core's reset drops every line; the
   halt is seen again at the next advance. *)
PitReset ==
  /\ pit' = [c \in PitChannels |-> PitIdle]
  /\ pitHold' = {"gate", "MDIS"} \cup (pitHold \cap {"halted"})
  /\ pitLine' = {}

PitNext ==
  \/ \E ticks \in PitSteps : PitAdvance(ticks)
  \/ \E c \in PitChannels, load \in PitLoads : PitWriteLoad(c, load)
  \/ \E c \in PitChannels, on, ie, chain \in BOOLEAN : PitWriteControl(c, on, ie, chain)
  \/ \E c \in PitChannels : PitClearFlag(c)
  \/ \E h \in {"gate", "MDIS", "FRZ", "halted"} : PitHoldChanges(h)
  \/ PitReset

-----------------------------------------------------------------------------
(* How time is cut into batches does not show in the counters and flags
   (advance_pit_channel, k22_timing_internal_advance_pit): two batches leave
   every channel, chained ones too, where one batch of their sum does. *)
PitSplits ==
  PitRunning =>
    \A a, b \in PitSteps : PitElapsed(PitElapsed(pit, a), b) = PitElapsed(pit, a + b)

(* A chained channel expires exactly when the channel before it has expired once
   more than its own count, whatever the batch (the source handed from channel to
   channel in k22_timing_internal_advance_pit). *)
PitCascades ==
  PitRunning =>
    \A c \in PitChannels \ {0}, ticks \in PitSteps :
      LET before == pit[c - 1]
          wait == before.current + 1 + pit[c].current * (before.load + 1)
      IN  pit[c].on /\ pit[c].chain /\ before.on /\ ~before.chain
            => (c \in Expired(pit, ticks) <=> ticks >= wait)

(* The line of a channel is up exactly while its flag is set and its interrupt is
   enabled: an enable after the flag raises it, a disable drops it
   (k22_timing_internal_pit_write, advance_pit_channel). *)
PitLineInStep == pitLine = {c \in PitChannels : pit[c].flag /\ pit[c].ie}
=============================================================================
