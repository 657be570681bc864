-------------------------------- MODULE Cmt ---------------------------------
(***************************************************************************)
(* The carrier modulator timer (platform/peripherals.c): a cycle of a mark and  *)
(* a space is loaded when it begins and raises EOC, which firmware clears by       *)
(* reading the flag and then a data register, or a DMA transfer by its end.  The     *)
(* carrier's own wave and the clock dividers are left out: a tick is a unit of        *)
(* the modulator.                                                                        *)
(***************************************************************************)
EXTENDS Naturals

CONSTANTS
  CmtMarks,    \* values of the mark and of the space period
  CmtModes,    \* what firmware writes to MSC besides MCGEN, as records [ie, fsk, extended]
  CmtSteps     \* the ticks one advance brings

VARIABLES
  cmt,       \* the registers and the cycle under way
  cmtLine,   \* interrupt line 45
  cmtAsked   \* DMA transfers asked for and not yet ended

cmtVars == <<cmt, cmtLine, cmtAsked>>

CmtOff ==
  [on |-> FALSE, mode |-> [ie |-> FALSE, fsk |-> FALSE, extended |-> FALSE], eoc |-> FALSE,
   dma |-> FALSE, mark |-> 0, space |-> 0, seen |-> FALSE, running |-> FALSE,
   stopping |-> FALSE, secondary |-> FALSE, blank |-> FALSE, ticks |-> 0, high |-> 0,
   period |-> 0, pending |-> FALSE]

CmtTypeOK ==
  /\ cmt.running => cmt.ticks < cmt.period
  /\ cmt.high <= cmt.period
  /\ cmt.stopping => cmt.running
  /\ cmtAsked \in Nat

CmtInit == cmt = CmtOff /\ cmtLine = FALSE /\ cmtAsked = 0

-----------------------------------------------------------------------------
(* Operators on c, the record cmt with the line and the requests beside it. *)
Cmt == [t |-> cmt, line |-> cmtLine, asked |-> cmtAsked]

CmtSet(c) == cmt' = c.t /\ cmtLine' = c.line /\ cmtAsked' = c.asked

CmtIrq(c) == [c EXCEPT !.line = c.t.eoc /\ c.t.mode.ie /\ ~c.t.dma]

CmtDmaAgain(c, accepts) ==  \* mutant: a request may be outstanding
  IF c.t.eoc /\ c.t.mode.ie /\ c.t.dma /\ accepts
  THEN [c EXCEPT !.t.pending = TRUE, !.asked = @ + 1]
  ELSE c

(* One request at a time, if a channel takes it (accepts). *)
CmtDma(c, accepts) ==
  IF c.t.eoc /\ c.t.mode.ie /\ c.t.dma /\ ~c.t.pending /\ accepts
  THEN [c EXCEPT !.t.pending = TRUE, !.asked = @ + 1]
  ELSE c

CmtRaised(c, accepts) == CmtIrq(CmtDma([c EXCEPT !.t.eoc = TRUE], accepts))

CmtCleared(c) == CmtIrq([c EXCEPT !.t.eoc = FALSE, !.t.seen = FALSE])

CmtLoadedLate(c) ==  \* mutant: the ticks are not started anew
  LET t == c.t
  IN  [c EXCEPT !.t.blank = t.mode.extended,
                !.t.high = IF t.mode.extended THEN 0 ELSE t.mark + 1,
                !.t.period = t.mark + 1 + t.space]

(* The periods are read when a cycle begins. *)
CmtLoaded(c) ==
  LET t == c.t
  IN  [c EXCEPT !.t.blank = t.mode.extended,
                !.t.high = IF t.mode.extended THEN 0 ELSE t.mark + 1,
                !.t.period = t.mark + 1 + t.space,
                !.t.ticks = 0]

CmtStarted(c, accepts) ==
  CmtRaised(CmtLoaded([c EXCEPT !.t.running = TRUE, !.t.stopping = FALSE, !.t.secondary = FALSE]),
            accepts)

CmtStopped(c) == [c EXCEPT !.t.running = FALSE, !.t.stopping = FALSE, !.t.ticks = 0]

(* The end of a cycle: the stop that waits for it, or the next one. *)
CmtCycle(c, accepts) ==
  LET t == c.t
  IN  IF t.stopping \/ ~t.on THEN CmtStopped(c)
      ELSE CmtRaised(CmtLoaded([c EXCEPT !.t.secondary = IF t.mode.fsk THEN ~@ ELSE @]), accepts)

RECURSIVE CmtElapsed(_, _, _)
CmtElapsed(c, ticks, accepts) ==
  LET left == c.t.period - c.t.ticks
  IN  IF ticks = 0 \/ ~c.t.running THEN c
      ELSE IF ticks < left THEN [c EXCEPT !.t.ticks = @ + ticks]
      ELSE CmtElapsed(CmtCycle(c, accepts), ticks - left, accepts)

CmtAdvance(ticks, accepts) == cmt.running /\ CmtSet(CmtElapsed(Cmt, ticks, accepts))

-----------------------------------------------------------------------------

(* MSC: clearing MCGEN lets the cycle under way end. *)
CmtControlled(on, mode, accepts) ==
  LET c == [Cmt EXCEPT !.t.on = on, !.t.mode = mode]
  IN  IF ~on /\ c.t.running THEN [c EXCEPT !.t.stopping = TRUE]
      ELSE IF on /\ ~c.t.running THEN CmtStarted(c, accepts)
      ELSE IF on THEN [c EXCEPT !.t.stopping = FALSE]
      ELSE c

WriteMsc(on, mode, accepts) ==
  CmtSet(CmtIrq(CmtDma(CmtControlled(on, mode, accepts), accepts)))

ReadMsc == CmtSet(IF cmt.eoc THEN [Cmt EXCEPT !.t.seen = TRUE] ELSE Cmt)

(* Reading or writing CMD2 or CMD4 clears an EOC that was read, without DMA. *)
CmtTouched(c) == IF c.t.seen /\ ~c.t.dma THEN CmtCleared(c) ELSE c

ReadCmd == CmtSet(CmtTouched(Cmt))
WriteCmd2(mark) == CmtSet(CmtTouched([Cmt EXCEPT !.t.mark = mark]))
WriteCmd4(space) == CmtSet(CmtTouched([Cmt EXCEPT !.t.space = space]))

WriteDma(on, accepts) == CmtSet(CmtIrq(CmtDma([Cmt EXCEPT !.t.dma = on], accepts)))

(* The end of the transfer, told by the controller. *)
CmtDmaComplete ==
  /\ cmtAsked > 0
  /\ LET c == [Cmt EXCEPT !.asked = @ - 1]
     IN  CmtSet(IF cmt.pending THEN CmtCleared([c EXCEPT !.t.pending = FALSE]) ELSE c)

(* A transfer that firmware takes back, or that fails, tells nobody. *)
CmtDmaLost == cmtAsked > 0 /\ cmtAsked' = cmtAsked - 1 /\ UNCHANGED <<cmt, cmtLine>>

CmtReset == cmt' = CmtOff /\ cmtLine' = FALSE /\ cmtAsked' = 0

CmtNext ==
  \/ \E ticks \in CmtSteps, accepts \in BOOLEAN : CmtAdvance(ticks, accepts)
  \/ \E on, accepts \in BOOLEAN, mode \in CmtModes : WriteMsc(on, mode, accepts)
  \/ ReadMsc
  \/ ReadCmd
  \/ \E mark \in CmtMarks : WriteCmd2(mark)
  \/ \E space \in CmtMarks : WriteCmd4(space)
  \/ \E on, accepts \in BOOLEAN : WriteDma(on, accepts)
  \/ CmtDmaComplete
  \/ CmtDmaLost
  \/ CmtReset

-----------------------------------------------------------------------------
(* An advance in two parts does what one does (kinetis_k22_internal_cmt_advance). *)
CmtSplits ==
  cmt.running =>
    \A a \in CmtSteps, b \in CmtSteps, accepts \in BOOLEAN :
      CmtElapsed(Cmt, a + b, accepts) = CmtElapsed(CmtElapsed(Cmt, a, accepts), b, accepts)

(* The line follows EOC, its enable and the DMA bit through every access and
   every end of a cycle or a transfer (cmt_refresh_irq). *)
CmtLineInStep == cmtLine = (cmt.eoc /\ cmt.mode.ie /\ ~cmt.dma)

(* At most one transfer is asked for at a time, unless one was lost: an end of
   cycle that finds one outstanding asks for no other (cmt_refresh_dma). *)
OneTransfer == cmtAsked <= 1 /\ (cmtAsked = 1 => cmt.pending)

(* A cycle that began is played to its end as it was loaded: a stop or new
   periods wait for its last tick (cmt_write, kinetis_k22_internal_cmt_advance). *)
CmtUnderWay == <<cmt.running, cmt.period, cmt.high, cmt.blank>>

CyclesWhole ==
  cmt.running /\ CmtUnderWay' # CmtUnderWay
    => \/ cmt' = CmtOff
       \/ \E ticks \in CmtSteps, accepts \in BOOLEAN :
            CmtAdvance(ticks, accepts) /\ cmt.ticks + ticks >= cmt.period
=============================================================================
