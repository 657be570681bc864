------------------------------ MODULE FtmTime -------------------------------
(***************************************************************************)
(* A FlexTimer module (timing/ftm.c, K22FtmState): its registers, the modes    *)
(* that follow from them, and what time does to it: write buffers that wait      *)
(* for a synchronization, faults that force the outputs off, the counter and       *)
(* its channels, dead time, and the filters of the inputs.  Two channels, one      *)
(* pair, and two fault inputs stand for the eight and the four; counter, dead       *)
(* time and filters tick once a cycle.                                                *)
(***************************************************************************)
EXTENDS Integers, FiniteSets

CONSTANTS
  FtmWidth,       \* the values of the 16-bit counter, 65536
  FtmLongFilter   \* the cycles of a filter that is programmed; without it there are 3

FtmChannels == {0, 1}
Named(c) == IF c = 0 THEN "first" ELSE "second"   \* among buffers and triggers

(* SYNCONF: what each kind of synchronization does, and which controls wait. *)
FtmSyncPlain ==
  [enhanced |-> FALSE, initial |-> FALSE, invert |-> FALSE, soft |-> FALSE, keeptrigger |-> FALSE,
   swreset |-> FALSE, swbuffers |-> FALSE, swmask |-> FALSE, swinvert |-> FALSE, swsoft |-> FALSE,
   hwreset |-> FALSE, hwbuffers |-> FALSE, hwmask |-> FALSE, hwinvert |-> FALSE, hwsoft |-> FALSE]

FtmChannelOff ==
  [ms |-> 0, edges |-> 0, ie |-> FALSE, reset |-> FALSE, flag |-> FALSE, read |-> FALSE,
   value |-> 0, output |-> FALSE, dead |-> [out |-> FALSE, left |-> 0]]

FtmPairOff ==
  [combine |-> FALSE, complement |-> FALSE, dual |-> FALSE, deadtime |-> FALSE, sync |-> FALSE,
   fault |-> FALSE, dead |-> 0]

FtmOff ==
  [gate |-> TRUE, clock |-> FALSE, updown |-> FALSE, ie |-> FALSE,
   tof |-> [set |-> FALSE, read |-> FALSE], numtof |-> 0, overflows |-> 0,
   counter |-> 0, down |-> FALSE, initial |-> 0, modulo |-> 0,
   ch |-> [c \in FtmChannels |-> FtmChannelOff], pair |-> FtmPairOff,
   quad |-> [on |-> FALSE, direction |-> FALSE, up |-> FALSE, top |-> FALSE, filters |-> {}],
   (* the write buffers, and those that wait *)
   buffer |-> [initial |-> 0, modulo |-> 0, value |-> [c \in FtmChannels |-> 0],
               mask |-> {}, invert |-> FALSE, soft |-> [on |-> {}, high |-> {}]],
   pending |-> {}, mask |-> {}, inverted |-> FALSE, soft |-> [on |-> {}, high |-> {}],
   ftmen |-> FALSE, pwmsync |-> FALSE, outinit |-> {},
   cntmin |-> FALSE, cntmax |-> FALSE, reinit |-> FALSE, synchom |-> FALSE, swsync |-> FALSE,
   trigger |-> FALSE, triggered |-> FALSE, waits |-> [software |-> FALSE, hardware |-> FALSE],
   conf |-> FtmSyncPlain, load |-> [ok |-> FALSE, on |-> {}],
   triggers |-> {}, trigf |-> [set |-> FALSE, read |-> FALSE],
   (* MODE, FMS, FLTCTRL, FLTPOL *)
   wpdis |-> TRUE, wpen |-> [set |-> FALSE, read |-> FALSE],
   fault |-> [mode |-> 0, ie |-> FALSE, enabled |-> {}, filters |-> {}, polarity |-> {},
              level |-> {}, age |-> [i \in {0, 1} |-> 0], filtered |-> {}, flags |-> {},
              in |-> FALSE, read |-> {}, allread |-> FALSE, off |-> FALSE, release |-> FALSE],
   (* the inputs of the channels and their filters *)
   input |-> {}, filtered |-> {}, filters |-> {}, age |-> [c \in FtmChannels |-> 0],
   (* events since the register that tells them was last read *)
   unseen |-> {}]

-----------------------------------------------------------------------------
(* The mode of a channel *)

PairPlain(f) == ~f.pair.combine /\ ~f.pair.dual

Combined(f) == ~f.updown /\ ~f.quad.on /\ f.pair.combine /\ ~f.pair.dual

Complementary(f) ==
  ~f.quad.on /\ f.pair.complement /\ ~f.pair.dual /\ (f.updown \/ f.ch[0].ms # 1)

OutputCompare(f, c) == ~f.updown /\ f.ch[c].ms = 1 /\ ~f.quad.on /\ PairPlain(f)
EdgeAligned(f, c) == ~f.updown /\ f.ch[c].ms \in {2, 3} /\ ~f.quad.on /\ PairPlain(f)
CenterAligned(f, c) == f.updown /\ ~f.quad.on /\ PairPlain(f)
InputCapture(f, c) ==
  ~f.quad.on /\ ~f.updown /\ f.ch[c].ms = 0 /\ f.ch[c].edges # 0 /\ PairPlain(f)

DeadtimeOn(f) == Complementary(f) /\ f.pair.deadtime /\ f.pair.dead # 0

-----------------------------------------------------------------------------
(* The level of an output, before its polarity *)

(* The pair's own: the second channel follows the first, or is its complement. *)
PairOutput(f, c) ==
  IF (Combined(f) \/ Complementary(f)) /\ f.ch[c].edges # 0
    THEN f.ch[0].output # (Complementary(f) /\ (c = 1) # f.inverted)
    ELSE f.ch[c].output

(* SWOCTRL's: of a complementary pair under software control one stays low. *)
SoftOutput(f, c) ==
  /\ c \in f.soft.high
  /\ ~(c = 1 /\ Complementary(f) /\ f.soft.on = FtmChannels /\ 0 \in f.soft.high)

RawOutput(f, c) ==
  IF ~f.quad.on /\ ~f.pair.dual /\ c \in f.soft.on THEN SoftOutput(f, c) ELSE PairOutput(f, c)

FaultsOff(f, c) ==
  f.fault.off /\ f.pair.fault /\ (f.fault.mode \in {2, 3} \/ (f.fault.mode = 1 /\ c = 0))

Driven(f, c) ==
  /\ IF DeadtimeOn(f) THEN f.ch[c].dead.out ELSE RawOutput(f, c)
  /\ c \notin f.mask
  /\ ~FaultsOff(f, c)

-----------------------------------------------------------------------------
(* The interrupt *)

EnabledFaults(f) == IF f.fault.mode = 0 THEN {} ELSE f.fault.enabled
ActiveFaults(f) == EnabledFaults(f) \cap f.fault.filtered

FtmWants(f) ==
  \/ f.ie /\ f.tof.set
  \/ \E c \in FtmChannels : f.ch[c].ie /\ f.ch[c].flag
  \/ f.fault.ie /\ f.fault.flags # {}

-----------------------------------------------------------------------------
(* Write buffers *)

ApplyModulo(f) ==
  IF "modulo" \in f.pending
    THEN [f EXCEPT !.modulo = f.buffer.modulo, !.pending = @ \ {"modulo"}]
    ELSE f

ApplyInitial(f) ==
  IF "initial" \in f.pending
    THEN [f EXCEPT !.initial = f.buffer.initial, !.pending = @ \ {"initial"}]
    ELSE f

ApplyValues(f, cs) ==
  LET due == {c \in cs : Named(c) \in f.pending}
  IN  [f EXCEPT !.ch = [c \in FtmChannels |->
                          IF c \in due THEN [@[c] EXCEPT !.value = f.buffer.value[c]] ELSE @[c]],
                !.pending = @ \ {Named(c) : c \in due}]

ApplyHeld(f, kinds) ==
  LET due == kinds \cap f.pending
  IN  [f EXCEPT !.mask = IF "mask" \in due THEN f.buffer.mask ELSE @,
                !.inverted = IF "invert" \in due THEN f.buffer.invert ELSE @,
                !.soft = IF "soft" \in due THEN f.buffer.soft ELSE @,
                !.pending = @ \ due]

Synced(f) == IF f.pair.sync THEN FtmChannels ELSE {}

ApplyAtOverflow(f) ==  \* without FTMEN the buffers are loaded where the counter wraps
  IF f.ftmen THEN f
  ELSE ApplyValues(ApplyModulo(f),
                   {c \in FtmChannels : EdgeAligned(f, c) \/ CenterAligned(f, c) \/ Combined(f)})

ApplyOnCount(f) ==  \* output compare takes its value with the next tick
  ApplyValues(f, {c \in FtmChannels : OutputCompare(f, c) /\ (~f.ftmen \/ ~f.pair.sync)})

ApplyTogetherValues(f) ==  \* mutant: the modulus waits for another synchronization
  IF ~f.ftmen THEN f ELSE ApplyValues(f, Synced(f))

ApplyTogether(f) ==
  IF ~f.ftmen THEN f
  ELSE ApplyValues(IF f.conf.enhanced /\ f.conf.initial THEN ApplyInitial(ApplyModulo(f))
                   ELSE ApplyModulo(f),
                   Synced(f))

ApplyIntermediate(f) ==
  [ApplyValues(IF f.conf.initial THEN ApplyInitial(ApplyModulo(f)) ELSE ApplyModulo(f), Synced(f))
     EXCEPT !.load.ok = FALSE]

Recounted(f) == [f EXCEPT !.counter = f.initial, !.down = FALSE, !.overflows = 0]

AtPoint(f, min, max) == (f.cntmin /\ min) \/ (f.cntmax /\ max)

SoftwarePoint(f, min, max) ==
  IF f.waits.software /\ AtPoint(f, min, max)
    THEN [(IF f.conf.enhanced => f.conf.swbuffers THEN ApplyTogether(f) ELSE f)
            EXCEPT !.waits.software = FALSE, !.swsync = FALSE]
    ELSE f

HardwarePoint(f, min, max) ==
  IF f.waits.hardware /\ AtPoint(f, min, max)
    THEN [(IF f.conf.enhanced => f.conf.hwbuffers THEN ApplyTogether(f) ELSE f)
            EXCEPT !.waits.hardware = FALSE]
    ELSE f

LoadingPoint(f, min, max, matched) ==
  LET g == HardwarePoint(SoftwarePoint(f, min, max), min, max)
  IN  IF g.load.ok /\ (max \/ matched \cap g.load.on # {}) THEN ApplyIntermediate(g) ELSE g

SystemClockUpdates(f) ==
  LET g == ApplyHeld(f, (IF f.synchom THEN {} ELSE {"mask"})
                          \cup (IF f.conf.invert THEN {} ELSE {"invert"})
                          \cup (IF f.conf.soft THEN {} ELSE {"soft"}))
  IN  IF ~f.ftmen \/ ~f.conf.initial THEN ApplyInitial(g) ELSE g

(* What a software synchronization does at once; without a reset of the counter
   the buffers wait for a loading point. *)
SoftwareSync(f) ==
  LET c == f.conf
      held == (IF c.swsoft /\ c.soft THEN {"soft"} ELSE {})
                \cup (IF c.swinvert /\ c.invert THEN {"invert"} ELSE {})
                \cup (IF f.synchom /\ (IF c.enhanced THEN c.swmask ELSE ~f.pwmsync)
                        THEN {"mask"} ELSE {})
      g == ApplyHeld(f, held)
  IN  IF IF c.enhanced THEN c.swreset ELSE f.reinit
        THEN [Recounted(IF c.enhanced => c.swbuffers THEN ApplyTogether(g) ELSE g)
                EXCEPT !.swsync = FALSE, !.waits.software = FALSE]
        ELSE [g EXCEPT !.waits.software = TRUE]

HardwareSync(f) ==
  LET c == f.conf
      held == (IF c.enhanced /\ c.hwsoft /\ c.soft THEN {"soft"} ELSE {})
                \cup (IF c.enhanced /\ c.hwinvert /\ c.invert THEN {"invert"} ELSE {})
                \cup (IF f.synchom /\ (c.enhanced => c.hwmask) THEN {"mask"} ELSE {})
      g == ApplyHeld(f, held)
      buffers == IF c.enhanced THEN c.hwbuffers ELSE ~f.pwmsync
  IN  IF IF c.enhanced THEN c.hwreset ELSE f.reinit
        THEN [Recounted(IF buffers THEN ApplyTogether(g) ELSE g) EXCEPT !.waits.hardware = FALSE]
        ELSE [g EXCEPT !.waits.hardware = c.enhanced \/ ~f.pwmsync]

HardwareTriggers(f) ==
  IF ~f.triggered \/ ~f.gate THEN f
  ELSE IF ~f.trigger THEN [f EXCEPT !.triggered = FALSE]
  ELSE HardwareSync([f EXCEPT !.triggered = FALSE, !.trigger = @ /\ f.conf.keeptrigger])

-----------------------------------------------------------------------------
(* Faults *)

FaultStatus(f) == [f EXCEPT !.fault.in = ActiveFaults(f) # {}]

DetectedUnmarked(f, i) ==  \* mutant: a new fault leaves the marks of what was read
  FaultStatus([f EXCEPT !.fault.flags = @ \cup {i}, !.fault.off = TRUE, !.fault.release = FALSE,
                        !.unseen = @ \cup {<<"fault", i>>}])

Detected(f, i) ==
  FaultStatus([f EXCEPT !.fault.flags = @ \cup {i}, !.fault.read = @ \ {i},
                        !.fault.allread = FALSE, !.fault.off = TRUE, !.fault.release = FALSE,
                        !.unseen = @ \cup {<<"fault", i>>}])

FaultLevel(f, i) == (i \in f.fault.level) # (i \in f.fault.polarity)

FaultThreshold(f, i) == IF i \in f.fault.filters THEN FtmLongFilter ELSE 3

SampledFault(f, i, cycles) ==
  LET active == FaultLevel(f, i)
      age == f.fault.age[i] + cycles
  IN  IF i \notin EnabledFaults(f)
        THEN [f EXCEPT !.fault.filtered = @ \ {i}, !.fault.age[i] = 0]
      ELSE IF active = (i \in f.fault.filtered) THEN [f EXCEPT !.fault.age[i] = 0]
      ELSE IF age < FaultThreshold(f, i) THEN [f EXCEPT !.fault.age[i] = age]
      ELSE LET g == [f EXCEPT !.fault.age[i] = 0,
                              !.fault.filtered = IF active THEN @ \cup {i} ELSE @ \ {i}]
           IN  IF active THEN Detected(g, i) ELSE g

FaultInputs(f, cycles) ==
  LET g == FaultStatus(SampledFault(SampledFault(f, 0, cycles), 1, cycles))
  IN  IF ~f.gate THEN f
      ELSE [g EXCEPT !.fault.release =
                       @ \/ (g.fault.off /\ g.fault.mode = 3 /\ ActiveFaults(g) = {})]

(* The outputs come back where a cycle of the counter begins. *)
CycleBoundary(f, begins) ==
  IF ~begins \/ ~f.fault.release THEN f
  ELSE FaultStatus([f EXCEPT !.fault.flags = IF f.fault.mode = 3 THEN {} ELSE @,
                             !.fault.off = FALSE, !.fault.release = FALSE,
                             !.fault.read = {}, !.fault.allread = FALSE])

-----------------------------------------------------------------------------
(* The counter and its channels *)

Triggers(f, source) ==
  IF source \in f.triggers THEN [f EXCEPT !.trigf.set = TRUE, !.trigf.read = FALSE] ELSE f

ChannelEvent(f, c) ==
  Triggers([f EXCEPT !.ch[c].flag = TRUE, !.ch[c].read = FALSE, !.unseen = @ \cup {<<"channel", c>>}],
           Named(c))

ChannelEvents(f, cs) ==
  LET g == IF 0 \in cs THEN ChannelEvent(f, 0) ELSE f
  IN  IF 1 \in cs THEN ChannelEvent(g, 1) ELSE g

(* TOF is set with the first overflow of every NUMTOF + 1. *)
Overflowed(f, count) ==
  LET cycle == f.numtof + 1
      first == IF f.overflows = 0 THEN 1 ELSE (cycle - f.overflows + 1) % 256
      g == [f EXCEPT !.overflows = (@ + (count % cycle)) % cycle]
  IN  IF count = 0 THEN f
      ELSE IF count < first THEN g
      ELSE [g EXCEPT !.tof.set = TRUE, !.tof.read = FALSE, !.unseen = @ \cup {<<"overflow", 0>>}]

Crossings(phase, ticks, period, target) ==
  LET distance == IF target > phase THEN target - phase ELSE period - (phase - target)
  IN  IF ticks < distance THEN 0 ELSE 1 + (ticks - distance) \div period

OutputSet(f, c, level) == [f EXCEPT !.ch[c].output = level]

(* What the matches and the overflows of a batch leave on an output. *)
CompareOutput(f, c, matches) ==
  IF matches = 0 \/ ~OutputCompare(f, c) THEN f
  ELSE CASE f.ch[c].edges = 0 -> f
         [] f.ch[c].edges = 1 -> OutputSet(f, c, f.ch[c].output # (matches % 2 = 1))
         [] f.ch[c].edges = 2 -> OutputSet(f, c, FALSE)
         [] f.ch[c].edges = 3 -> OutputSet(f, c, TRUE)

EdgeOutput(f, c, matches, overflows) ==
  LET value == f.ch[c].value
      outside == value < f.initial \/ value > f.modulo
      active == outside \/ (value # f.initial /\ f.counter < value)
      high == f.ch[c].edges = 2
  IN  IF ~EdgeAligned(f, c) \/ f.ch[c].edges = 0 THEN f
      ELSE IF overflows # 0 THEN OutputSet(f, c, active = high)
      ELSE IF matches # 0 THEN OutputSet(f, c, ~high)
      ELSE f

CenterOutput(f, c, matches) ==
  LET value == f.ch[c].value
      never == value <= f.initial \/ value >= FtmWidth \div 2
      always == value >= f.modulo
      active == ~never /\ (always \/ f.counter < value \/ (f.down /\ f.counter = value))
  IN  IF \/ ~CenterAligned(f, c) \/ f.ch[c].edges = 0
         \/ ~never /\ ~always /\ matches = 0 THEN f
      ELSE OutputSet(f, c, active = (f.ch[c].edges = 2))

CombinedOutput(f) ==
  LET first == f.ch[0].value
      second == f.ch[1].value
      inside(v) == v >= f.initial /\ v <= f.modulo
      active == /\ inside(first) /\ f.counter >= first
                /\ inside(second) => first < second /\ f.counter < second
  IN  IF ~Combined(f) \/ f.ch[0].edges = 0 THEN f
      ELSE OutputSet(f, 0, active = (f.ch[0].edges = 2))

(* Up counting, from CNTIN to MOD or, when MOD is below, to the last value. *)
CountedUp(f, ticks) ==
  LET g == ApplyOnCount(f)
      first == g.initial
      last == IF g.modulo >= first THEN g.modulo ELSE FtmWidth - 1
      period == (last - first) + 1
      start == IF g.counter \in first..last THEN g.counter ELSE first
      relative == (start - first) + ticks
      overflows == relative \div period
      valid(c) == /\ g.ch[c].value <= last
                  /\ \/ OutputCompare(g, c) /\ g.ch[c].value >= first
                     \/ EdgeAligned(g, c) /\ g.ch[c].value > first
                     \/ Combined(g) /\ g.ch[c].value >= first
      matches == [c \in FtmChannels |->
                    IF valid(c) THEN Crossings(start, ticks, period, g.ch[c].value) ELSE 0]
      matched == {c \in FtmChannels : matches[c] # 0}
      h == CycleBoundary(Overflowed([ChannelEvents(g, matched)
                                       EXCEPT !.counter = first + (relative % period)], overflows),
                         overflows # 0)
      i == IF overflows = 0 THEN h ELSE ApplyAtOverflow(Triggers(h, "initial"))
      driven(k, c) == EdgeOutput(CompareOutput(k, c, matches[c]), c, matches[c], overflows)
  IN  LoadingPoint(CombinedOutput(driven(driven(i, 0), 1)),
                   overflows # 0, overflows # 0, matched)

(* Up and down: TOF where the counter turns at MOD, a cycle where it turns at
   CNTIN. *)
CountedUpDown(f, ticks) ==
  LET g == ApplyOnCount(f)
      span == g.modulo - g.initial
      period == 2 * span
      phase == IF g.counter \notin g.initial..g.modulo THEN 0
               ELSE IF g.down THEN span + (g.modulo - g.counter)
               ELSE g.counter - g.initial
      matches == [c \in FtmChannels |->
                    LET up == g.ch[c].value - g.initial
                    IN  IF up <= 0 \/ up >= span THEN 0
                        ELSE Crossings(phase, ticks, period, up)
                               + Crossings(phase, ticks, period, period - up)]
      matched == {c \in FtmChannels : matches[c] # 0}
      max == Crossings(phase, ticks, period, span + 1) # 0
      min == Crossings(phase, ticks, period, 0) # 0
      h == CycleBoundary(Overflowed(ChannelEvents(g, matched),
                                    Crossings(phase, ticks, period, span + 1)), min)
      at == (phase + ticks) % period
      i == [(IF min THEN Triggers(h, "initial") ELSE h)
              EXCEPT !.counter = IF at <= span THEN g.initial + at ELSE g.modulo - (at - span),
                     !.down = at > span]
      j == IF max THEN ApplyAtOverflow(i) ELSE i
  IN  LoadingPoint(CenterOutput(CenterOutput(j, 0, matches[0]), 1, matches[1]), min, max, matched)

CountedStill(f, ticks) ==  \* an up-down counter with no room turns at every tick
  Triggers(Overflowed([f EXCEPT !.counter = f.initial, !.down = FALSE], ticks), "initial")

Counted(f, ticks) ==
  IF f.quad.on \/ ~f.gate \/ ~f.clock THEN f
  ELSE IF ~f.updown THEN CountedUp(f, ticks)
  ELSE IF f.modulo <= f.initial THEN CountedStill(f, ticks)
  ELSE CountedUpDown(f, ticks)

(* One step of the quadrature decoder. *)
QuadratureStep(f, up) ==
  LET last == IF f.modulo >= f.initial THEN f.modulo ELSE FtmWidth - 1
      counter == IF f.counter \in f.initial..last THEN f.counter ELSE f.initial
      wraps == counter = IF up THEN last ELSE f.initial
      g == [f EXCEPT !.quad.up = up,
                     !.quad.top = IF wraps THEN up ELSE @,
                     !.counter = IF wraps THEN (IF up THEN f.initial ELSE last)
                                 ELSE IF up THEN counter + 1 ELSE counter - 1]
  IN  IF ~f.clock THEN f
      ELSE IF wraps THEN Triggers(CycleBoundary(Overflowed(g, 1), TRUE), "initial")
      ELSE g

(* The edges of phases A and B count; or the rises of A, in the direction of B. *)
QuadratureEdge(f, c) ==
  LET phase(i) == i \in f.filtered
  IN  IF f.quad.direction
        THEN IF c = 0 /\ phase(0) THEN QuadratureStep(f, phase(1)) ELSE f
        ELSE QuadratureStep(f, IF c = 0 THEN phase(0) # phase(1) ELSE phase(0) = phase(1))

Captured(f, c) ==
  LET high == c \in f.filtered
      selected == IF high THEN f.ch[c].edges \in {1, 3} ELSE f.ch[c].edges \in {2, 3}
      g == ChannelEvent([f EXCEPT !.ch[c].value = f.counter], c)
  IN  IF f.quad.on THEN QuadratureEdge(f, c)
      ELSE IF ~selected \/ ~InputCapture(f, c) THEN f
      ELSE IF f.ch[c].reset THEN Triggers(Recounted(g), "initial")
      ELSE g

-----------------------------------------------------------------------------
(* Dead time *)

Deadtime(f, c) ==
  IF ~DeadtimeOn(f) \/ ~RawOutput(f, c)
    THEN [f EXCEPT !.ch[c].dead = [out |-> ~DeadtimeOn(f) /\ RawOutput(f, c), left |-> 0]]
  ELSE IF f.ch[c].dead.out THEN f
  ELSE IF f.ch[c].dead.left = 0 THEN [f EXCEPT !.ch[c].dead.left = f.pair.dead]
  ELSE IF f.ch[c].dead.left = 1 THEN [f EXCEPT !.ch[c].dead = [out |-> TRUE, left |-> 0]]
  ELSE [f EXCEPT !.ch[c].dead.left = @ - 1]

DeadtimeElapsed(f, cycles) ==  \* a pair with dead time advances a cycle at a time
  IF ~f.gate \/ cycles = 0 THEN f ELSE Deadtime(Deadtime(f, 0), 1)

-----------------------------------------------------------------------------
(* k22_timing_internal_advance_ftm *)

Unfiltered(f) == {c \in FtmChannels : (c \in f.input) # (c \in f.filtered)}

InputThreshold(f, c) ==
  IF c \in f.filters /\ (f.quad.on => c \in f.quad.filters) THEN FtmLongFilter ELSE 3

SampledInput(f, c, cycles) ==
  LET age == f.age[c] + cycles
      g == [f EXCEPT !.age[c] = 0,
                     !.filtered = IF c \in f.input THEN @ \cup {c} ELSE @ \ {c}]
  IN  IF c \notin Unfiltered(f) THEN f
      ELSE IF age < InputThreshold(f, c) THEN [f EXCEPT !.age[c] = age]
      ELSE Captured(g, c)

SegmentOf(f, remaining) ==
  LET whole == IF DeadtimeOn(f) \/ EnabledFaults(f) # {} \/ f.fault.off THEN 1 ELSE remaining
      untilEvent(c) == IF f.age[c] >= InputThreshold(f, c) THEN 0 ELSE InputThreshold(f, c) - f.age[c]
      limits == {whole} \cup {untilEvent(c) : c \in Unfiltered(f)}
  IN  CHOOSE n \in limits : \A other \in limits : n <= other

Segment(f, n) ==
  LET g == DeadtimeElapsed(Counted(FaultInputs(f, n), n), n)
  IN  SampledInput(SampledInput(g, 0, n), 1, n)

RECURSIVE Segments(_, _)
Segments(f, remaining) ==
  IF remaining = 0 THEN f
  ELSE LET n == SegmentOf(f, remaining) IN Segments(Segment(f, n), remaining - n)

Elapsed(f, cycles) == Segments(HardwareTriggers(SystemClockUpdates(f)), cycles)
=============================================================================
