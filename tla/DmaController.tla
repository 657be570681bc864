--------------------------- MODULE DmaController ----------------------------
(***************************************************************************)
(* The eDMA controller and its request multiplexer:                        *)
(* src/device/kinetis_k22/memory/dma.c and the DMA part of                 *)
(* memory/runtime.c.                                                       *)
(*                                                                         *)
(* k22_data_advance serves requests in a loop.  A minor loop reads and     *)
(* writes the bus, whose devices call back in between: they request again, *)
(* the registers of the controller may be what is written, and the write   *)
(* may reset the device.  So the service of a channel has two steps, with  *)
(* the locals of k22_data_internal_dma_service_channel kept in service.    *)
(* Addresses and data are left out: what a transfer does to the rest of    *)
(* the system is any of the actions that may happen during it.             *)
(***************************************************************************)
EXTENDS Integers, FiniteSets

CONSTANTS
  N,               \* dma_channel_count
  Limit,           \* iteration counts are below it, 0x8000 in the code
  LinkedLimit,     \* and below it when the minor loop links, 0x200
  None,            \* no source, UINT8_MAX; no link
  Sources,         \* request sources of the multiplexer
  AlwaysEnabled,   \* those that request again and again by themselves
  TriggerChannels, \* channels that a PIT may pace, the first four
  HighChannels,    \* channels 8 to 15
  Programmed,      \* channels whose descriptor and source the firmware writes
  Descriptors,     \* descriptors the firmware writes or chains to
  CrValues,        \* sets of control bits the firmware writes
  PriorityValues,  \* priorities the firmware writes
  MuxValues,       \* configurations of the multiplexer the firmware writes
  Budgets,         \* cycles of an advance
  Commands,        \* command registers the firmware writes
  Features         \* "DURING": a transfer has side effects, "RESET": resets,
                   \* "WORDS": flags written with the count, "REGISTERS": see WriteControl

Channels == 0 .. N - 1
LinkChannels == 0 .. N           \* N stands for every channel that is not there
Flags == {"INTMAJOR", "INTHALF", "DREQ", "ESG", "MAJORELINK", "DONE", "ACTIVE"}
Status == {"DONE", "ACTIVE"}
Controls == {"EDBG", "ERCA", "HOE", "HALT"}
Reasons == {"config", "bus", "priority"}

(* A transfer control descriptor; good says that sizes and byte count fit. *)
Tcd == [citer : 0 .. Limit - 1, link : LinkChannels \cup {None}, biter : 0 .. Limit - 1,
        csr : SUBSET Flags, major : LinkChannels, good : BOOLEAN]
Mux == [on : BOOLEAN, periodic : BOOLEAN, source : Sources]

ASSUME CountsAssumption ==
  /\ N \in Nat \ {0}
  /\ LinkedLimit \in Nat \ {0} /\ Limit \in Nat /\ LinkedLimit <= Limit
  /\ None \notin LinkChannels \cup Sources
ASSUME ValuesAssumption ==
  /\ AlwaysEnabled \subseteq Sources /\ Sources # {}
  /\ TriggerChannels \subseteq Channels /\ HighChannels \subseteq Channels
  /\ Programmed \subseteq Channels
  /\ Descriptors \subseteq Tcd
  /\ \A t \in Descriptors : t.link # None => t.citer < LinkedLimit
  /\ CrValues \subseteq SUBSET Controls
  /\ PriorityValues \subseteq Nat /\ MuxValues \subseteq Mux
  /\ Budgets \subseteq Nat \ {0}

VARIABLES
  dma,      \* the DMA part of K22Data
  service,  \* the locals of k22_data_internal_dma_service_channel
  phase,    \* where k22_data_advance is
  budget    \* always_enabled_budget

vars == <<dma, service, phase, budget>>

Dma ==
  [ tcd : [Channels -> Tcd], cr : SUBSET Controls, es : SUBSET Reasons,
    erq : SUBSET Channels, eei : SUBSET Channels,
    int : SUBSET Channels, err : SUBSET Channels,
    priority : [Channels -> Nat], mux : [Channels -> Mux],
    requests : SUBSET Channels,       \* dma_requests
    hardware : SUBSET Channels,       \* dma_hardware_requests
    waiting : SUBSET Channels,        \* dma_trigger_waiting
    half : SUBSET Channels, active : SUBSET Channels,
    source : [Channels -> Sources \cup {None}],   \* dma_request_source
    last : Channels, halted : BOOLEAN,
    irqs : SUBSET Channels, error_irq : BOOLEAN ] \* levels last reported

Service == [channel : Channels, source : Sources \cup {None}, count : 0 .. Limit - 1,
            link : LinkChannels \cup {None}, beginning : 0 .. Limit - 1, csr : SUBSET Flags]
NoService == [channel |-> 0, source |-> None, count |-> 0, link |-> None,
              beginning |-> 0, csr |-> {}]

TypeOK ==
  /\ dma \in Dma /\ service \in Service
  /\ phase \in {"idle", "arbitrate", "transfer"} /\ budget \in Nat

(* k22_data_reset: zero is the source of no request, so any will do in the
   multiplexer, which is off. *)
Off == [on |-> FALSE, periodic |-> FALSE, source |-> CHOOSE s \in Sources : TRUE]
ClearTcd == [citer |-> 0, link |-> None, biter |-> 0, csr |-> {}, major |-> 0, good |-> FALSE]
AfterReset ==
  [ tcd |-> [c \in Channels |-> ClearTcd], cr |-> {}, es |-> {}, erq |-> {}, eei |-> {},
    int |-> {}, err |-> {}, priority |-> [c \in Channels |-> c],
    mux |-> [c \in Channels |-> Off],
    requests |-> {}, hardware |-> {}, waiting |-> {}, half |-> {}, active |-> {},
    source |-> [c \in Channels |-> None], last |-> N - 1, halted |-> FALSE,
    irqs |-> {}, error_irq |-> FALSE ]

Init ==
  /\ dma = AfterReset
  /\ service = NoService /\ phase = "idle" /\ budget = 0

-----------------------------------------------------------------------------
(* Requests and errors *)

(* dma_queue_channel, which ignores a channel that is not there. *)
QueueAny(d, c) == [d EXCEPT !.requests = @ \cup {c}]  \* mutant: any channel
Queue(d, c) == [d EXCEPT !.requests = @ \cup ({c} \cap Channels)]

(* k22_data_internal_dma_queue_hardware_channel, with the source that the
   multiplexer gives each of the channels cs. *)
QueueHardware(d, cs) ==
  [d EXCEPT !.requests = @ \cup cs, !.hardware = @ \cup cs,
            !.source = [c \in Channels |-> IF c \in cs THEN d.mux[c].source ELSE @[c]]]

(* k22_data_internal_dma_queue_always_enabled for the channels cs. *)
QueueAlwaysEnabled(d, cs) ==
  QueueHardware(d, {c \in cs \cap d.erq : /\ d.mux[c].on /\ ~d.mux[c].periodic
                                          /\ d.mux[c].source \in AlwaysEnabled})

(* k22_data_internal_dma_update_interrupts *)
UpdateInterrupts(d) == [d EXCEPT !.irqs = d.int, !.error_irq = d.err \cap d.eei # {}]

(* k22_data_internal_dma_error *)
ErrorQuiet(d, c, reason) ==  \* mutant: the interrupt waits for the next update
  [d EXCEPT !.es = @ \cup {reason}, !.err = @ \cup {c},
            !.cr = IF "HOE" \in @ THEN @ \cup {"HALT"} ELSE @]
Error(d, c, reason) ==
  [d EXCEPT !.es = @ \cup {reason}, !.err = @ \cup {c},
            !.error_irq = @ \/ c \in d.eei,
            !.cr = IF "HOE" \in @ THEN @ \cup {"HALT"} ELSE @]

-----------------------------------------------------------------------------
(* The loop of k22_data_advance *)

(* The loop goes on: there is a request and nothing halts the controller. *)
Busy(d) ==
  d.requests # {} /\ "HALT" \notin d.cr /\ ~("EDBG" \in d.cr /\ d.halted)

(* k22_data_internal_dma_select_channel: the next in turn after the channel
   served last, or the one of the greatest priority. *)
Turn(d, c) == (c - d.last - 1) % N
SelectedSticky(d, c) ==  \* mutant: the turn begins with the channel served last
  /\ c \in d.requests
  /\ \A other \in d.requests :
       IF "ERCA" \in d.cr THEN (c - d.last) % N <= (other - d.last) % N
       ELSE \/ d.priority[other] < d.priority[c]
            \/ d.priority[other] = d.priority[c] /\ c <= other
Selected(d, c) ==
  /\ c \in d.requests
  /\ \A other \in d.requests :
       IF "ERCA" \in d.cr THEN Turn(d, c) <= Turn(d, other)
       ELSE \/ d.priority[other] < d.priority[c]
            \/ d.priority[other] = d.priority[c] /\ c <= other

(* k22_data_internal_dma_priorities_valid *)
PrioritiesValid(d) ==
  \A c, other \in Channels : c # other => d.priority[c] # d.priority[other]
Conflict(d) == "ERCA" \notin d.cr /\ ~PrioritiesValid(d)

Advance ==
  /\ phase = "idle"
  /\ \E cycles \in Budgets, halted \in BOOLEAN :
       /\ dma' = [dma EXCEPT !.halted = halted]
       /\ budget' = cycles
  /\ phase' = "arbitrate"
  /\ UNCHANGED service

AdvanceEnds ==
  /\ phase = "arbitrate" /\ ~Busy(dma)
  /\ phase' = "idle" /\ budget' = 0
  /\ UNCHANGED <<dma, service>>

PriorityError ==
  /\ phase = "arbitrate" /\ Busy(dma) /\ Conflict(dma)
  /\ \E c \in Channels :
       /\ Selected(dma, c)
       /\ dma' = [Error(dma, c, "priority") EXCEPT !.requests = @ \ {c}, !.hardware = @ \ {c}]
  /\ phase' = "idle" /\ budget' = 0
  /\ UNCHANGED service

(* The request is taken from the queue. *)
TakenSourced(d, c) ==  \* mutant: its source is left for the next request
  [d EXCEPT !.requests = @ \ {c}, !.hardware = @ \ {c}, !.last = c]
Taken(d, c) ==
  [d EXCEPT !.requests = @ \ {c}, !.hardware = @ \ {c}, !.last = c, !.source[c] = None]
Fits(t) == t.citer # 0 /\ t.good

ConfigError ==
  /\ phase = "arbitrate" /\ Busy(dma) /\ ~Conflict(dma)
  /\ \E c \in Channels :
       /\ Selected(dma, c) /\ ~Fits(dma.tcd[c])
       /\ dma' = Error(Taken(dma, c), c, "config")
  /\ UNCHANGED <<service, phase, budget>>

Begin ==
  /\ phase = "arbitrate" /\ Busy(dma) /\ ~Conflict(dma)
  /\ \E c \in Channels :
       /\ Selected(dma, c) /\ Fits(dma.tcd[c])
       /\ dma' = [Taken(dma, c) EXCEPT !.tcd[c].csr = @ \cup {"ACTIVE"}, !.active = @ \cup {c}]
       /\ service' = [channel |-> c, source |-> dma.source[c], count |-> dma.tcd[c].citer,
                      link |-> dma.tcd[c].link, beginning |-> dma.tcd[c].biter,
                      csr |-> dma.tcd[c].csr]
  /\ phase' = "transfer"
  /\ UNCHANGED budget

(* The flags of the descriptor are put back as they were read. *)
Ended(d) ==
  [d EXCEPT !.active = @ \ {service.channel}, !.tcd[service.channel].csr = service.csr]

BusErrorActive ==  \* mutant: the failing path forgets the active bit
  /\ phase = "transfer"
  /\ dma' = [Error(dma, service.channel, "bus") EXCEPT !.tcd[service.channel].csr = service.csr]
  /\ service' = NoService /\ phase' = "arbitrate"
  /\ UNCHANGED budget
BusError ==
  /\ phase = "transfer"
  /\ dma' = Ended(Error(dma, service.channel, "bus"))
  /\ service' = NoService /\ phase' = "arbitrate"
  /\ UNCHANGED budget

(* dma_set_iteration_count: the width of the count depends on the link bit. *)
SetIteration(t, count) ==
  [t EXCEPT !.citer = count % (IF t.link = None THEN Limit ELSE LinkedLimit)]

(* The end of dma_complete_major, by the flags of the descriptor now there. *)
MajorDone(d, c) ==
  LET csr == d.tcd[c].csr
      disabled == IF "DREQ" \in csr THEN [d EXCEPT !.erq = @ \ {c}] ELSE d
      told == IF "INTMAJOR" \in csr THEN [disabled EXCEPT !.int = @ \cup {c}] ELSE disabled
  IN  IF "MAJORELINK" \in csr THEN Queue(told, d.tcd[c].major) ELSE told

(* dma_copy_descriptor fails before it starts, among the sizes, which may fit
   or not when some are old and some new, or after the word of the iteration
   count; the flags come last. *)
HalfCopied(t) ==
  {t} \cup {[t EXCEPT !.good = fits] : fits \in BOOLEAN}
      \cup {[t EXCEPT !.good = next.good, !.citer = next.citer, !.link = next.link] :
              next \in Descriptors}

(* What dma_complete_major may make of d. *)
MajorOutcomes(d, c) ==
  LET t == SetIteration(d.tcd[c], d.tcd[c].biter)
  IN  IF "ESG" \in t.csr
      THEN {MajorDone([d EXCEPT !.tcd[c] = next], c) : next \in Descriptors}
           \cup {Error([d EXCEPT !.tcd[c] = rest], c, "bus") : rest \in HalfCopied(t)}
      ELSE {MajorDone([d EXCEPT !.tcd[c] = [t EXCEPT !.csr = @ \cup {"DONE"}]], c)}

(* The rest of a service whose transfer went well, up to the callbacks. *)
Served(d, c) ==
  LET count == service.count - 1
      counted == [Ended(d) EXCEPT !.tcd[c] = SetIteration(@, count)]
      linked == IF service.link = None THEN counted ELSE Queue(counted, service.link)
      halved == IF /\ service.beginning > 1 /\ count = service.beginning \div 2
                   /\ "INTHALF" \in service.csr /\ c \notin d.half
                THEN [linked EXCEPT !.half = @ \cup {c}, !.int = @ \cup {c}]
                ELSE linked
  IN  IF count = 0 THEN MajorOutcomes([halved EXCEPT !.half = @ \ {c}], c) ELSE {halved}

(* A channel with an always enabled source requests again, and may do so as
   often in an advance as it has cycles. *)
CompleteUnbounded ==  \* mutant: always enabled channels are served without end
  /\ phase = "transfer"
  /\ \E served \in Served(dma, service.channel) :
       dma' = IF service.source \in AlwaysEnabled
              THEN QueueAlwaysEnabled(UpdateInterrupts(served), {service.channel})
              ELSE UpdateInterrupts(served)
  /\ service' = NoService /\ phase' = "arbitrate"
  /\ UNCHANGED budget
CompleteEarly ==  \* mutant: the channel requests again before its loop is completed
  /\ phase = "transfer"
  /\ \E served \in Served(IF service.source \in AlwaysEnabled
                          THEN QueueAlwaysEnabled(dma, {service.channel}) ELSE dma,
                          service.channel) :
       dma' = UpdateInterrupts(served)
  /\ LET again == service.source \in AlwaysEnabled /\ service.channel \in dma'.requests
     IN  /\ budget' = IF again THEN budget - 1 ELSE budget
         /\ phase' = IF again /\ budget = 1 THEN "idle" ELSE "arbitrate"
  /\ service' = NoService
CompleteStale ==  \* mutant: the lines are updated before the major loop is completed
  /\ phase = "transfer"
  /\ dma' \in Served(UpdateInterrupts(dma), service.channel)
  /\ service' = NoService /\ phase' = "arbitrate"
  /\ UNCHANGED budget
Complete ==
  /\ phase = "transfer"
  /\ \E served \in Served(dma, service.channel) :
       dma' = IF service.source \in AlwaysEnabled
              THEN QueueAlwaysEnabled(UpdateInterrupts(served), {service.channel})
              ELSE UpdateInterrupts(served)
  /\ LET again == service.source \in AlwaysEnabled /\ service.channel \in dma'.requests
     IN  /\ budget' = IF again THEN budget - 1 ELSE budget
         /\ phase' = IF again /\ budget = 1 THEN "idle" ELSE "arbitrate"
  /\ service' = NoService

-----------------------------------------------------------------------------
(* What peripherals and firmware do between advances, and through the bus
   accesses of a transfer. *)

Asking == phase = "idle" \/ (phase = "transfer" /\ "DURING" \in Features)
Asked(d) == dma' = d /\ UNCHANGED <<service, phase, budget>>

(* k22_data_dma_request: channels that a PIT paces wait for it. *)
Request ==
  /\ Asking
  /\ \E source \in Sources :
       LET asked == {c \in dma.erq : dma.mux[c].on /\ dma.mux[c].source = source}
           paced == {c \in asked \cap TriggerChannels : dma.mux[c].periodic}
       IN  /\ asked # {}
           /\ Asked([QueueHardware(dma, asked \ paced) EXCEPT !.waiting = @ \cup paced])

(* k22_data_dma_trigger *)
Trigger ==
  /\ Asking
  /\ \E c \in TriggerChannels \cap dma.erq :
       /\ dma.mux[c].on /\ dma.mux[c].periodic
       /\ dma.mux[c].source \in AlwaysEnabled \/ c \in dma.waiting
       /\ Asked(QueueHardware([dma EXCEPT !.waiting = @ \ {c}], {c}))

(* dma_command, for one channel or all of them. *)
ClearErrorsKept(d, cs) ==  \* mutant: the summary of the errors stays
  [d EXCEPT !.err = @ \ cs]
ClearErrors(d, cs) ==
  [d EXCEPT !.err = @ \ cs, !.es = IF d.err \subseteq cs THEN {} ELSE @]
Commanded(d) == Asked(UpdateInterrupts(QueueAlwaysEnabled(d, Channels)))
OneOrAll == {Channels} \cup {{c} : c \in Channels}

Command ==
  /\ Asking
  /\ \E cs \in OneOrAll :
       \/ "SERQ" \in Commands /\ Commanded([dma EXCEPT !.erq = @ \cup cs])
       \/ "CERQ" \in Commands /\ Commanded([dma EXCEPT !.erq = @ \ cs])
       \/ "SEEI" \in Commands /\ Commanded([dma EXCEPT !.eei = @ \cup cs])
       \/ "CEEI" \in Commands /\ Commanded([dma EXCEPT !.eei = @ \ cs])
       \/ "CINT" \in Commands /\ Commanded([dma EXCEPT !.int = @ \ cs])
       \/ "CERR" \in Commands /\ Commanded(ClearErrors(dma, cs))

(* Two more commands, that know one channel only. *)
StartOrRearm ==
  /\ Asking
  /\ \E c \in Channels :
       \/ "SSRT" \in Commands /\ Commanded(Queue(dma, c))
       \/ "CDNE" \in Commands /\ Commanded([dma EXCEPT !.tcd[c].csr = @ \ {"DONE"}])

(* k22_data_internal_dma_write: the control register, the priorities, and the
   enables written as registers.  The pending interrupts, the errors and their
   summary refuse a write at their first byte only: the channels 8 to 15 and
   the priority error can be written by the bytes that follow. *)
WriteControl ==
  /\ Asking
  /\ \/ \E value \in CrValues : Asked([dma EXCEPT !.cr = value])
     \/ \E c \in Channels, value \in PriorityValues : Asked([dma EXCEPT !.priority[c] = value])

WriteEnables ==
  /\ Asking /\ "REGISTERS" \in Features
  /\ \E cs \in SUBSET Channels :
       \/ Asked(QueueAlwaysEnabled([dma EXCEPT !.erq = cs], Channels))
       \/ Asked([dma EXCEPT !.eei = cs])
       \/ Asked([dma EXCEPT !.int = (@ \ HighChannels) \cup (cs \cap HighChannels)])
       \/ Asked([dma EXCEPT !.err = (@ \ HighChannels) \cup (cs \cap HighChannels)])
       \/ Asked([dma EXCEPT !.es = @ \ {"priority"}])
       \/ Asked([dma EXCEPT !.es = @ \cup {"priority"}])

(* What a write to one field makes of a descriptor.  The flags as a byte or
   half-word keep the status, as a word together with the count they do not. *)
FieldsWritten(old, t) ==
  { [old EXCEPT !.good = t.good], [old EXCEPT !.citer = t.citer, !.link = t.link],
    [old EXCEPT !.biter = t.biter], [old EXCEPT !.major = t.major] }
  \cup (IF "WORDS" \in Features
       THEN {[old EXCEPT !.csr = t.csr, !.major = t.major, !.biter = t.biter]} ELSE {})
FlagsWritten(old, t) ==
  {[old EXCEPT !.csr = (t.csr \ Status) \cup (@ \cap Status), !.major = major] :
     major \in {t.major, old.major}}

(* A write of the flags as a byte or half-word may start the channel. *)
WriteTcd ==
  /\ Asking
  /\ \E c \in Programmed, t \in Descriptors :
       \/ \E next \in FieldsWritten(dma.tcd[c], t) : Asked([dma EXCEPT !.tcd[c] = next])
       \/ \E next \in FlagsWritten(dma.tcd[c], t) :
            \/ Asked([dma EXCEPT !.tcd[c] = next])
            \/ Asked(Queue([dma EXCEPT !.tcd[c] = next], c))

(* k22_data_internal_dmamux_write *)
WriteMux ==
  /\ Asking
  /\ \E c \in Programmed, value \in MuxValues :
       Asked(QueueAlwaysEnabled([dma EXCEPT !.mux[c] = value, !.waiting = @ \ {c}], {c}))

(* A reset of the device, also by a transfer that writes the watchdog. *)
Reset == "RESET" \in Features /\ Asking /\ Asked(AfterReset)

-----------------------------------------------------------------------------
Engine == AdvanceEnds \/ PriorityError \/ ConfigError \/ Begin \/ BusError \/ Complete
Next ==
  \/ Advance \/ AdvanceEnds \/ PriorityError \/ ConfigError \/ Begin \/ BusError \/ Complete
  \/ Request \/ Trigger \/ Command \/ StartOrRearm
  \/ WriteControl \/ WriteEnables \/ WriteTcd \/ WriteMux \/ Reset

Spec == Init /\ [][Next]_vars

(* The loop runs to its end by itself, and the host keeps advancing time. *)
Fairness == WF_vars(Engine) /\ WF_vars(Advance)
FairSpec == Spec /\ Fairness
-----------------------------------------------------------------------------
(* Properties *)

(* The channels in error and the summary of the errors appear and are cleared
   together, for errors of the configuration, of the bus and of priorities, and
   for errors cleared one by one or all at once; unless the firmware writes the
   bytes of these registers that should be read-only. *)
ErrorsTold == "REGISTERS" \notin Features => (dma.err = {} <=> dma.es = {})

(* The interrupt lines are what the registers say, though some paths report
   them at once and some leave it to the end of the service.  It takes a
   firmware that enables and acknowledges by commands: a write to the registers
   themselves reports nothing. *)
InStep == dma.irqs = dma.int /\ dma.error_irq = (dma.err \cap dma.eei # {})
LinesInStep == "REGISTERS" \notin Features => InStep

(* When the lines lag behind such a write, the next service that is completed
   and the next command, whatever it is about, bring all of them in step. *)
LinesCatchUp == [][Complete \/ Command \/ StartOrRearm => InStep']_vars

(* A source is on record for exactly the channels that hardware has requested,
   so that nothing is reported to a peripheral that did not ask.  Where channels
   share a priority, the code drops the request and keeps the source. *)
SourcesOnRecord ==
  PriorityValues = {} =>
    /\ dma.hardware = {c \in Channels : dma.source[c] # None}
    /\ dma.hardware \subseteq dma.requests

(* No channel is active but the one in transfer, whatever ended the transfers
   before, in the register and in the descriptors. *)
OnlyTheServedIsActive ==
  (\A t \in Descriptors : "ACTIVE" \notin t.csr) =>
    LET served == IF phase = "transfer" THEN {service.channel} ELSE {}
    IN  /\ dma.active \subseteq served
        /\ \A c \in Channels : "ACTIVE" \in dma.tcd[c].csr => c \in served

(* The service that disables a channel at the end of its major loop leaves it no
   request of the hardware that was not there before, so that a channel does not
   start over by itself, not even one with a source that always requests. *)
DisabledAtTheEnd ==
  [][phase = "transfer" /\ phase' # "transfer" =>
       \A c \in dma.erq \ dma'.erq : c \in dma'.hardware => c \in dma.hardware]_vars

(* In turn, every channel that requests is served, also beside channels that
   request again and again. *)
InTurn == "ERCA" \in dma.cr /\ "HALT" \notin dma.cr /\ ~("EDBG" \in dma.cr /\ dma.halted)
EveryoneIsServed ==
  <>[]InTurn => \A c \in Channels : c \in dma.requests ~> c \notin dma.requests

(* An advance comes to its end when links lead from each channel to greater
   ones only and peripherals stop asking during transfers.  A circle of links
   never ends the loop of k22_data_advance. *)
LinksLeadOn ==
  \A c \in Channels :
    /\ dma.tcd[c].link = None \/ dma.tcd[c].link > c
    /\ "MAJORELINK" \in dma.tcd[c].csr => dma.tcd[c].major > c
AskedDuring == phase = "transfer" /\ phase' = "transfer" /\ dma' # dma
AdvanceReturns ==
  (<>[]LinksLeadOn /\ <>[][~AskedDuring]_vars) => []<>(phase = "idle")

(* Errors show in the summary, by channel and on the lines. *)
ErrorsReported == ErrorsTold /\ LinesInStep

(* A channel that ends is done with, has no source on record that nobody asked
   for, links to channels that are there only, and lines that were left behind
   catch up. *)
ChannelsFinish == [](TypeOK /\ SourcesOnRecord) /\ DisabledAtTheEnd /\ LinesCatchUp
=============================================================================
