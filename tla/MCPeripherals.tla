--------------------------- MODULE MCPeripherals ----------------------------
(***************************************************************************)
(* The peripherals that share no state, side by side for TLC: in a behaviour  *)
(* one of them, the one in focus, takes every step and the others rest as a    *)
(* reset leaves them.  The properties join what the peripherals of a kind       *)
(* promise.                                                                       *)
(***************************************************************************)
EXTENDS Pit, Rtc, Lptmr, Pdb, Power, Cmt, EventRing, Uart, Spi, I2c, Pins, Can, I2s,
        UsbDcd, Sdhc, Analog, Integrity

VARIABLE focus   \* the peripheral that steps

timerVars == <<pitVars, rtcVars, lptmrVars, pdbVars, powerVars, cmtVars>>
linkVars == <<ringVars, uartVars, spiVars, i2cVars, canVars, i2sVars>>
otherVars == <<pinsVars, dcdVars, sdVars>>
dataVars == <<dacVars, cmpVars, vrefVars, adcVars, crcVars, rngVars>>

Peripherals ==
  {"pit", "rtc", "lptmr", "pdb", "power", "cmt", "ring", "uart", "spi", "i2c", "can", "i2s",
   "pins", "dcd", "sd", "dac", "cmp", "vref", "adc", "crc", "rng"}

(* What is explored: wake-up sources, supply and modes one at a time; at most
   three frames on a line; one pin that firmware configures, and one setting of it
   at a time; the two directions of the I2S one at a time past two samples; one
   pending interrupt of the card, and none of the larger; masks of the CAN before
   the first frame. *)
ExploredPower ==
  /\ wake # WakeOff => supply = SupplyOff /\ causes.sticky = {"por", "lvd"}
  /\ \/ causes.cleared = {} /\ Cardinality(causes.sticky) <= 2
     \/ wake = WakeOff /\ supply = SupplyOff /\ power = PowerOff

ExploredPins ==
  /\ pin[1] = PinReset0 /\ 1 \notin pinDir \cup pinOut \cup pinFilter.on
  /\ (pinDir # {} \/ pinOut # {}) => (pinFilter.on = {} /\ pinFilter.width = 0)

ExploredI2s ==
  \/ i2sWire.came = 0 /\ ~i2sIn.on /\ ~i2sIn.requestIe /\ ~i2sIn.errorIe
  \/ i2sWire.made = 0 /\ ~i2sOut.on /\ ~i2sOut.requestIe /\ ~i2sOut.errorIe
  \/ i2sWire.came + i2sWire.made <= 2

ExploredSd ==
  /\ Cardinality(sdIrq) <= 1 /\ (sd.app => sdMove.left = 0 /\ sdIrq = {})
  /\ sd.length # SdBlock => sdIrq = {}
  /\ sd.size = 4 => ~sd.protected /\ sdIrq = {}
  /\ sdCard \in {{}, {0}, {2}, {0, 1}, {0, 1, 2, 3}}

Explored ==
  CASE focus = "power" -> ExploredPower
    [] focus = "uart" -> Len(uartWire.transmit) <= 3
    [] focus = "pins" -> ExploredPins
    [] focus = "i2s" -> ExploredI2s
    [] focus = "sd" -> ExploredSd
    [] focus = "can" -> canMask = {} \/ (canWire.taken = 0 /\ canMatch)
    [] OTHER -> TRUE

Init ==
  /\ focus \in Peripherals
  /\ PitInit /\ RtcInit /\ LptmrInit /\ PdbInit /\ PowerInit /\ CmtInit
  /\ RingInit /\ UartInit /\ SpiInit /\ I2cInit /\ CanInit /\ I2sInit
  /\ PinsInit /\ DcdInit /\ SdInit
  /\ DacInit /\ CmpInit /\ VrefInit /\ AdcInit /\ CrcInit /\ RngInit
  /\ focus # "uart" => uartPort.kind = "lpuart"   \* what rests, rests in one way
  /\ focus # "dcd" => dcd.prelude = 1
  /\ Explored

TimerStep ==
  \/ focus = "pit" /\ UNCHANGED <<rtcVars, lptmrVars, pdbVars, powerVars, cmtVars>> /\ PitNext
  \/ focus = "rtc" /\ UNCHANGED <<pitVars, lptmrVars, pdbVars, powerVars, cmtVars>> /\ RtcNext
  \/ focus = "lptmr" /\ UNCHANGED <<pitVars, rtcVars, pdbVars, powerVars, cmtVars>> /\ LptmrNext
  \/ focus = "pdb" /\ UNCHANGED <<pitVars, rtcVars, lptmrVars, powerVars, cmtVars>> /\ PdbNext
  \/ focus = "power" /\ UNCHANGED <<pitVars, rtcVars, lptmrVars, pdbVars, cmtVars>> /\ PowerNext
  \/ focus = "cmt" /\ UNCHANGED <<pitVars, rtcVars, lptmrVars, pdbVars, powerVars>> /\ CmtNext

LinkStep ==
  \/ focus = "ring" /\ UNCHANGED <<uartVars, spiVars, i2cVars, canVars, i2sVars>> /\ RingNext
  \/ focus = "uart" /\ UNCHANGED <<ringVars, spiVars, i2cVars, canVars, i2sVars>> /\ UartNext
  \/ focus = "spi" /\ UNCHANGED <<ringVars, uartVars, i2cVars, canVars, i2sVars>> /\ SpiNext
  \/ focus = "i2c" /\ UNCHANGED <<ringVars, uartVars, spiVars, canVars, i2sVars>> /\ I2cNext
  \/ focus = "can" /\ UNCHANGED <<ringVars, uartVars, spiVars, i2cVars, i2sVars>> /\ CanNext
  \/ focus = "i2s" /\ UNCHANGED <<ringVars, uartVars, spiVars, i2cVars, canVars>> /\ I2sNext

OtherStep ==
  \/ focus = "pins" /\ UNCHANGED <<dcdVars, sdVars>> /\ PinsNext
  \/ focus = "dcd" /\ UNCHANGED <<pinsVars, sdVars>> /\ DcdNext
  \/ focus = "sd" /\ UNCHANGED <<pinsVars, dcdVars>> /\ SdNext

DataStep ==
  \/ focus = "dac" /\ UNCHANGED <<cmpVars, vrefVars, adcVars, crcVars, rngVars>> /\ DacNext
  \/ focus = "cmp" /\ UNCHANGED <<dacVars, vrefVars, adcVars, crcVars, rngVars>> /\ CmpNext
  \/ focus = "vref" /\ UNCHANGED <<dacVars, cmpVars, adcVars, crcVars, rngVars>> /\ VrefNext
  \/ focus = "adc" /\ UNCHANGED <<dacVars, cmpVars, vrefVars, crcVars, rngVars>> /\ AdcNext
  \/ focus = "crc" /\ UNCHANGED <<dacVars, cmpVars, vrefVars, adcVars, rngVars>> /\ CrcNext
  \/ focus = "rng" /\ UNCHANGED <<dacVars, cmpVars, vrefVars, adcVars, crcVars>> /\ RngNext

Next ==
  /\ UNCHANGED focus
  /\ \/ UNCHANGED <<linkVars, otherVars, dataVars>> /\ TimerStep
     \/ UNCHANGED <<timerVars, otherVars, dataVars>> /\ LinkStep
     \/ UNCHANGED <<timerVars, linkVars, dataVars>> /\ OtherStep
     \/ UNCHANGED <<timerVars, linkVars, otherVars>> /\ DataStep
  /\ Explored'

peripheralVars == <<focus, timerVars, linkVars, otherVars, dataVars>>

Spec == Init /\ [][Next]_peripheralVars

-----------------------------------------------------------------------------
(* Constants *)

CmtModeValues == {[ie |-> TRUE, fsk |-> FALSE, extended |-> FALSE],
                  [ie |-> FALSE, fsk |-> TRUE, extended |-> TRUE]}
Compensations == {<<-1, 1>>}
Ports == {[kind |-> "uart", host |-> 3, firmware |-> 0],
          [kind |-> "uart", host |-> 0, firmware |-> 3],
          [kind |-> "lpuart", host |-> 2, firmware |-> 1]}
PinModes == {[PinReset0 EXCEPT !.mux = TRUE, !.pull = "up", !.irqc = 9],
             [PinReset0 EXCEPT !.mux = TRUE, !.ode = TRUE, !.irqc = 8],
             [PinReset0 EXCEPT !.irqc = 12, !.lock = TRUE]}
DetectionTimes == {[contact |-> 2, primary |-> 1, delay |-> 1, second |-> 2]}
StatusEnables == {SdEvents, {}}
Comparisons ==
  {AdcSetup0, [AdcSetup0 EXCEPT !.compare = TRUE, !.cv1 = 2],
   [AdcSetup0 EXCEPT !.compare = TRUE, !.greater = TRUE, !.cv1 = 1],
   [AdcSetup0 EXCEPT !.trigger = TRUE, !.compare = TRUE, !.range = TRUE, !.greater = TRUE,
                     !.cv1 = 1, !.cv2 = 2]}
CrcPlain == [in |-> 0, out |-> 0, xor |-> FALSE, seed |-> FALSE, wide |-> FALSE]
CrcModes ==
  {CrcPlain, [CrcPlain EXCEPT !.seed = TRUE], [CrcPlain EXCEPT !.out = 1, !.xor = TRUE],
   [CrcPlain EXCEPT !.in = 2, !.out = 2, !.wide = TRUE],
   [CrcPlain EXCEPT !.in = 3, !.out = 3, !.seed = TRUE, !.wide = TRUE]}
Polynomials == {{0, 2, 3, 5}}

(* A state is told from another by the peripheral in focus: the others never move. *)
Focused ==
  <<focus,
    CASE focus = "pit" -> pitVars
      [] focus = "rtc" -> rtcVars
      [] focus = "lptmr" -> lptmrVars
      [] focus = "pdb" -> pdbVars
      [] focus = "power" -> powerVars
      [] focus = "cmt" -> cmtVars
      [] focus = "ring" -> ringVars
      [] focus = "uart" -> uartVars
      [] focus = "spi" -> spiVars
      [] focus = "i2c" -> i2cVars
      [] focus = "can" -> canVars
      [] focus = "i2s" -> i2sVars
      [] focus = "pins" -> pinsVars
      [] focus = "dcd" -> dcdVars
      [] focus = "sd" -> sdVars
      [] focus = "dac" -> dacVars
      [] focus = "cmp" -> cmpVars
      [] focus = "vref" -> vrefVars
      [] focus = "adc" -> adcVars
      [] focus = "crc" -> crcVars
      [] focus = "rng" -> rngVars>>

-----------------------------------------------------------------------------
(* Properties *)

(* Counters stay below the values at which they expire, queues inside their
   arrays, and flags and modes are among those the registers can show: the type
   invariants of all the peripherals. *)
DevicesTypeOK ==
  CASE focus = "pit" -> PitTypeOK
    [] focus = "rtc" -> RtcTypeOK
    [] focus = "lptmr" -> LptmrTypeOK
    [] focus = "pdb" -> PdbTypeOK
    [] focus = "power" -> PowerTypeOK
    [] focus = "cmt" -> CmtTypeOK
    [] focus = "ring" -> RingTypeOK
    [] focus = "uart" -> UartTypeOK
    [] focus = "spi" -> SpiTypeOK
    [] focus = "i2c" -> I2cTypeOK
    [] focus = "can" -> CanTypeOK
    [] focus = "i2s" -> I2sTypeOK
    [] focus = "pins" -> PinsTypeOK
    [] focus = "dcd" -> DcdTypeOK
    [] focus = "sd" -> SdTypeOK
    [] focus \in {"dac", "cmp", "vref"} -> AnalogTypeOK
    [] focus = "adc" -> AdcTypeOK
    [] OTHER -> IntegrityTypeOK

(* How the host cuts time into advances does not show: one advance of a sum
   leaves PIT, RTC, PDB, CMT and the pin filters where two advances do
   (timing/counters.c, platform/peripherals.c, gpio/api.c). *)
BatchesSplit ==
  /\ focus = "pit" => PitSplits
  /\ focus = "rtc" => RtcSplits
  /\ focus = "pdb" => PdbSplits
  /\ focus = "cmt" => CmtSplits
  /\ focus = "pins" => PinsSplit

(* The timers tell what happens to them: the alarm and the overflow of the RTC are
   flagged when the counter passes the value and never stepped over, its line stays up
   until the handler acts, locked registers keep their values until a reset, and an
   interval of seconds is compensated once; a line of
   PIT and CMT is what flag and enable ask for, that of the PDB goes up only with a
   flag; a PIT timer that is chained moves only with the one below it; the
   CMT sends whole cycles and asks the DMA once for each; a detection of the charger
   runs only while its status says so, and its end and its time-out are told
   (timing/counters.c, timing/registers.c, platform/peripherals.c,
   communication/usb_dcd.c). *)
TimersTell ==
  /\ [](/\ focus = "rtc" => IntervalsCompensated
        /\ focus = "pit" => PitLineInStep /\ PitCascades
        /\ focus = "pdb" => PdbLineHasFlag
        /\ focus = "cmt" => CmtLineInStep /\ OneTransfer
        /\ focus = "dcd" => ActiveInStep)
  /\ [][/\ focus = "rtc" => RtcLineKept /\ AlarmTold /\ LocksHold
        /\ focus = "cmt" => CyclesWhole
        /\ focus = "dcd" => EndsTold /\ TimeoutSticks]_peripheralVars

(* What passes a link comes out in the order in which it went in, whole and once:
   UART, SPI, I2S and CAN; the I2C moves no byte after its stop and shows the bus busy
   from start to stop. A link that loses data says so: a frame the UART cannot store is
   an overrun, the SPI receives a frame for each it sends, a CAN frame that is
   accepted is flagged, and the requests of I2S are true of its FIFOs
   (communication/serial, gpio/peripherals.c, gpio/api.c). *)
LinksHonest ==
  /\ [](/\ focus = "uart" => UartInOrder /\ FramesWhole
        /\ focus = "spi" => SpiInOrder
        /\ focus = "i2s" => SamplesInOrder /\ RequestsTrue
        /\ focus = "can" => FramesKept
        /\ focus = "i2c" => I2cNoByteAfterStop /\ I2cBusyTold)
  /\ [][/\ focus = "uart" => LossTold
        /\ focus = "spi" => SpiFrameForFrame
        /\ focus = "can" => ArrivalsFlagged]_peripheralVars

(* What is computed is what was asked: the remainder of the bytes fed to the CRC,
   turned as its control asks, and a random number per request, whose line goes up
   only with a number to read (memory/integrity.c). *)
ResultsHonest ==
  /\ focus = "crc" => ValueIsRemainder /\ ReadsTurned
  /\ focus = "rng" => OnePerRequest /\ RngLineHasNumber
=============================================================================
