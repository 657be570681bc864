# A verification of the Cortex-M4 and Kinetis K22 simulator

The repository simulates a Cortex-M4 core and the Kinetis K22 parts around it.
Firmware runs on the simulated core. A host program steps the core, feeds pins
and peripherals, and may stop, break or reset it. This directory holds TLA+
models of the simulator's state machines, the TLC configurations that check
them, and theorems about them that TLAPS checks. Paths below are relative to the
repository's `src/` unless they start with `tests/` or `architecture/` and
`device/`, which are under that `src/`.

## Inventory

| Component | State | Operations | What makes it correct |
|---|---|---|---|
| NVIC and system control (`architecture/cortex_m4/system.c`) | pending, enabled, level and active bits, priorities, PRIGROUP, masks, SCR | stores to ISER, ICER, ISPR, ICPR, IPR, ICSR, AIRCR, SCR, SHPR, SHCSR, STIR; `set_pending`, `wait_for_interrupt` | requests are not lost, priorities form a strict order, pending work wakes the core |
| Exceptions (`exceptions/base.c`, `exceptions/advanced.c`) | stack of active exceptions, stack of frames, IPSR | entry, late arrival, vector fault, tail chain, return, fault escalation | handlers nest by urgency; the stacks, IPSR and the active bits agree; the stacks stay in their arrays |
| Core (`core.c`) | `stop`, `sleeping`, `event_register`, `instruction_faulted` | `cortex_m4_step`, `cortex_m4_run`, `cortex_m4_reset`, breakpoints | the most urgent eligible exception runs; the core does not sleep on work |
| Bus, SysTick (`bus.c`) | the SysTick counter | accesses, `cortex_m4_advance` | a failing access raises one fault |
| Floating-point frames (`system.c`) | FPCCR, FPCAR, LSPACT | lazy stacking, materialising, unstacking | the deferred registers reach the frame they belong to |
| Timing (`timing.c`) | store buffer, exclusive monitor, cycle counts | exclusive load and store, writes of other masters | a store-exclusive succeeds only when nobody wrote the granule |
| Debug (`debug.c`) | halting, stepping, watchpoints, DEMCR | debug events, halt, step, resume | a halt happens once and loses no exception |
| Protection units (`mpu.c`; the system's in `gpio/api.c`) | regions, rights, captured errors | register writes, permission check | a refused access never passes and is on record |
| Instructions (`instructions/`, `constraints.c`) | flags, IT state, interrupted transfers | execution | a block is executed by its conditions through every exception; the rest are pure functions |
| Watchdogs (`device/kinetis_k22/timing/watchdogs.c`) | counter, unlock and refresh stages, update window, EWM | register writes, passage of bus time | the configuration changes only in an unlocked window; a missing refresh resets the part |
| Flash cache (`device/kinetis_k22/device.c`) | cache lines, prefetch buffers, controller registers | lookup, fill, invalidate, lock | no stale line, no duplicate line, locked ways stay |
| Flash commands (`device/kinetis_k22/memory/flash.c`) | command registers, erase and program in progress, swap state | launch, completion, abort by reset | protected flash is not changed; swap state survives a reset |
| DMA (`device/kinetis_k22/memory/dma.c`, `runtime.c`) | descriptors, requests, channel in service | request, minor loop, link, scatter/gather | every request is served once, errors stop the channel |
| Timers (`timing/counters.c`, `ftm.c`, `registers.c`) | PIT, LPTMR, RTC, PDB, FTM counters | passage of time, register writes | counters wrap and chain exactly; write buffers commit at the boundary |
| Clocks and power (`timing/clocks.c`) | MCG, SMC, PMC modes | mode changes | legal mode transitions only |
| Serial (`communication/serial/`) | FIFOs, shift registers, event queue | register access, passage of time, host input | bytes keep their order, overruns are flagged |
| SDHC, USB charger detection (`communication/`) | command and detection sequences | register access | sequences end in one outcome |
| Pins (`gpio/`) | pin levels, port interrupt flags | host input, register access | an edge is flagged once |
| Analog, integrity (`memory/analog.c`, `integrity.c`) | conversion state, CRC, RNG | register access, passage of time | a result is of the input it was asked for; lines have flags |
| Device (`device.c`, `host.c`) | everything above, composed | reset, load, copy, host calls | a reset reaches every part |
| Variants, image, runner | constants, files | parsing, tables | pure |

The parts interact by calls. The core calls the bus, and the bus the device; each
cycle the core consumes is reported by `cortex_m4_advance` to the device, which
advances timers, DMA and serial units; they call back `cortex_m4_set_irq_level`,
`cortex_m4_set_irq` and reset. Everything runs in one thread, yet the callbacks
arrive in the middle of the core's own operations, in between the words of an
exception frame for instance, and that is where the interleavings come from.

What is hard here: requests that arrive in the middle of an entry or a return;
failures of one step of several (stacking, vector, unstacking); values that the
firmware controls and the core must check (frames, EXC_RETURN); sleep decisions
taken on state that changes in the same operation; sequences of timed writes.
`PROJECT.json` lists each hazard at its line with the properties that cover it, and its
`map` the lines of the code each definition stands for; it leaves out the next-state
relations, the sets of inputs and the one-line helpers, whose lines are those of the
operations that use them.

### The modules

| Part | Modules | Run by | Proved in |
|---|---|---|---|
| NVIC, exceptions, core step | `Nvic`, `Exceptions`, `NestedHandlers` | `MCExceptions` | `ExceptionProofs`, `NestingProofs` |
| Watchdog and its monitor | `Watchdogs` | `MCWatchdogs` | `WatchdogProofs` |
| DMA controller | `DmaController` | `MCDma` | `DmaProofs` |
| Flash and its cache | `FlashController` | `MCSystem` | `FlashProofs` |
| FlexTimer | `FtmTime`, `Ftm` | `MCSystem` | |
| Debug unit | `Debug` | `MCSystem` | `SystemProofs` |
| Protection of accesses | `Mpu`, `SysMpu`, `ClockGates`, `Guards` | `MCSystem` | `SystemProofs` |
| Exclusive monitor, store buffer | `Exclusive` | `MCSystem` | `SystemProofs` |
| Flags, conditions, IT blocks, cut transfers | `Instructions` | `MCSystem` | `InstructionProofs` |
| Timers | `Pit`, `Rtc`, `Pdb`, `Cmt` | `MCPeripherals` | |
| Low-power timer, power modes | `Lptmr`, `Power` | `MCPeripherals` | `PeripheralProofs` |
| Links | `Uart`, `Spi`, `I2c`, `Can`, `I2s` | `MCPeripherals` | |
| Events for the host | `EventRing`, `HostEvents` | `MCPeripherals` | `SystemProofs` |
| Pins, SDHC | `Pins`, `Sdhc` | `MCPeripherals` | `PeripheralProofs` |
| ADC, DAC, comparator, reference | `Analog` | `MCPeripherals` | `PeripheralProofs` |
| USB detection, integrity | `UsbDcd`, `Integrity` | `MCPeripherals` | |

An operator whose comment begins with *mutant* is a bug the code could have: it
makes one property fail in its run and is used by nothing else.

## The exception model

`Nvic` holds the registers of the NVIC and the priority rules of `system.c`.
`Exceptions` extends it with the stacks, the step of the core, the
instructions that touch the state, and the environment; its end states the
properties. `NestedHandlers` is the abstract specification, and `MCExceptions` names the feature sets the configurations use.

| Model | Code |
|---|---|
| `pending`, `enabled`, `level`, `irq_active` | `system_pending` and `irq_pending` in one set, `irq_enabled`, `irq_level`, `irq_active` |
| `priority`, `prigroup` | `system_priority`, `irq_priority` as logical values (the implemented bits), AIRCR bits 8 to 10 |
| `active`, `depth` | `active_exceptions`, `exception_depth` |
| `frames`, `frame_depth` | `exception_frames[].return_value` reduced to handler, MSP or PSP; `exception_frame_depth` |
| `ipsr`, `spsel`, `nonbase` | the low bits of `xpsr`, CONTROL.SPSEL, CCR.NONBASETHRDENA |
| `phase`, `entering` | the place in `cortex_m4_step`; not variables of the code |
| `TakePending`, `StackingFails`, `NothingPending` | `cortex_m4_take_pending_exception` and the first half of `enter_exception` |
| `CommitEntry`, `EntryVectorFault`, `EntryVectorLockup` | the second half of `enter_exception`, from the late arrival on |
| `Svc`, `Wfi`, `Wfe`, `Sev`, `Write...` | one instruction each, by the store or register it writes |
| `InvalidReturn`, `TailChain...`, `UnstackingFails`, `Return` | the outcomes of `cortex_m4_exception_return` |
| `SetIrq`, `SetIrqLevel`, `SysTickExpires`, `Reset`, `SetBreakpoint` | calls of peripherals and host |

The entry is split where the bus writes of the frame let other requests in. The
rest of a step is atomic: a callback inside it has the same effect as one just
before or just after it, because no later line of the step reads what the
callback writes. Executing an instruction does not look at `stop`, as in the
code: after a lockup during an entry the step goes on.

What is chosen freely is what the code does not control: whether a frame or a
vector can be accessed, the xPSR read back from a frame, the EXC_RETURN value.
`Features` is the set of what an instance makes use of, so that a property can
say what it depends on (`"ICPR" \notin Features`) and a run can stay small.

*Discipline.* The order of handlers holds only for firmware that programs priorities
while no exception is active, does not set NONBASETHRDENA, and for a host that
sets no breakpoint (`Disciplined`). With priorities changed under an active
handler the code enters an exception that is already active, because the
selection in `exceptions/base.c` does not look at the active exceptions; with a
breakpoint in a step whose entry locked up, the lockup is overwritten
(`core.c:199-204`). No text of the repository promises otherwise, so these are
recorded as hazards and not as findings.

### Abstract specification

`NestedHandlers` is what the author of a handler relies on: a sequence of
handlers, a set of waiting exceptions, an urgency for each. A waiting exception
may begin if it is more urgent than the running handler, or take over from a
handler that ends if it is more urgent than the one below; priorities stand
still while a handler is active. `NestsByUrgency` says that the detailed
specification implements it, with the first `depth` slots of `active` as the
handlers, `pending` as the waiting and `Preemption` as the urgency.

### Runs

| Run | Instance | Shows |
|---|---|---|
| `nesting` | two interrupts, NMI, HardFault; frame limit 4; lines, FAULTMASK, bus errors, forged returns, SPSEL, reset | `NestingSound`: every handler has one frame and preempts all those below; `HandlersAccounted`: active bits and frames are those of the handlers; `RequestsSurvive`: a held line stays on record, a handler consumes its own request; `EntersByUrgency`: late arrival is right, and the core implements `NestedHandlers` |
| `faults` | one interrupt, UsageFault, SVC; two PRIGROUP values; frame limit 5 | `LockupOnlyInFaultHandlers`; `UrgencyHeld`: no instruction runs while something eligible preempts it, and nesting is no deeper than the levels of urgency |
| `sleep` | one interrupt, SysTick; BASEPRI; WFE, SEVONPEND, sleep-on-exit, lines, pulses, breakpoints; fairness | `PreemptionHappens`, `WorkWakes` |
| `unrestricted` | two interrupts, frame limit 3; priorities change at run time, NONBASETHRDENA; WFI, sleep-on-exit | `StacksSound`: arrays and stacks stay in step when frames run out; `NoSleepOnWork` |

Bounds. Two logical priorities and two interrupts give equal priorities and
both strict orders; with NMI and HardFault there are four levels, and the frame
limits 4 and 5 are at least the number of levels, so a disciplined program
fills the stack exactly. The limit 3 of `unrestricted` is below it, so the
stacks do fill up there. The real limit is 16; the theorems hold for every one.

Fairness. `FairSpec` asks for weak fairness of `CoreStep` alone. It is what
`cortex_m4_run` does: its loop calls `cortex_m4_step` while the core runs. No
peripheral and no particular instruction is assumed to act.

### Proofs

All the safety properties of these runs are theorems, for every finite set of
interrupts, every priority, every PRIGROUP and every limit of frames.

`ExceptionProofs` proves `StacksSound`. The inductive invariant `Balance`
relates the two depths, IPSR and the entry under way; that frames match
handlers is alone not inductive, since a return compares IPSR with the stack
before it pops.

It also proves `RequestsSurvive` through `Held` (a line is pending or
active; the step from active to inactive is `PendingAfter`), `NoSleepOnWork`
through `Rested`, and `WorkWakes`.

`NestingProofs` proves the order of handlers.

- `NestingSound` through `Nested`, which adds that the exception whose frame is
  being stacked preempts the running context: late arrival, tail chaining and
  vector faults each keep it. It needs the lemma that priorities do not move in
  a step that programs none.
- `HandlersAccounted` through `Accounted`: the active bits are the interrupts on
  the stack and only the outermost frame returns to thread mode. That nobody is
  on the stack twice follows from strict nesting, and with it the count of the
  active exceptions, by a bijection with the slots of the stack.
- `UrgencyHeld`: handlers at different depths have different urgencies, so there
  are at most as many as levels; and whatever software makes eligible in a step
  is entered, or chained to, in the next one before an instruction is executed.
- `EntersByUrgency`: `MostUrgentIsEntered` for the choice at the vector, and
  the refinement of `NestedHandlers`, step by step, through `EntryWaits` (the
  exception whose frame is being stacked is still pending).

Assumptions. Interrupts are numbered from 16 and finitely many, system exceptions
below, four to eight priority bits, at least one frame. Two theorems, `UrgencyIsHeld`
and `LockupIsConfined`, also ask for `RoomForAll`: as many frames as there are
exceptions in use. The code has 16 frames and more levels than that, so this is
for firmware to keep; with more levels in use than frames, an entry finds the
stack full and the core locks up in whatever it was running.
`LockupIsConfined` and `HandlersAreImplemented` ask for discipline, and the
refinement also that the host withdraws no pulse (feature `"PULSE"`): a request
withdrawn between stacking and commit is entered all the same, while in the
abstract specification only what waits begins.

Only model-checked: `PreemptionHappens`, which is liveness and out of the
prover's reach.

## The watchdog model

`Watchdogs` models `device/kinetis_k22/timing/watchdogs.c`, the watchdog of the
chip and the external watchdog monitor beside it, with the resets and pauses of
`timing/registers.c`, and states the properties. `MCWatchdogs` names the sets the
configurations use.

| Model | Code |
|---|---|
| `config`, `pending`, `mask` | `wdog[0]`, `wdog[2]` to `wdog[5]`; `wdog_pending`; `wdog_update_mask`, one bit for each of three registers |
| `unlock`, `refresh` | `wdog[7]`, `wdog[6]` by their two bytes, each from the first word of the sequence, the second, or neither |
| `sequence_left`, `ready_left`, `update_left`, `reset_left`, `ewm.service_left` | the deadlines of the same names, as cycles left instead of absolute times |
| `flag`, `irq`, `reset` | bit 15 of `wdog[1]`; the level last given to the interrupt line; whether the last step called the reset callback |
| `halted`, `sleep` | `debug_halted`, `cpu_sleeping` and the mode: what the core reported last |
| `Advance` | `k22_timing_advance` as the core calls it: reports of sleep and debugger, bus time, then ticks of the counter and of the monitor |
| `Unlock`, `Refresh`, `WriteStatus`, `Configure` | `k22_timing_internal_write_wdog`, which lets one bus cycle pass first |
| `WriteEwm`, `SetEwmInput` | `k22_timing_internal_write_ewm`, `k22_timing_set_ewm_input` |
| `AdvanceCounter` | `kinetis_k22_watchdog_advance`, by which a host can tick the counter alone |

The state is one record, and every function of the code an operator from record
to record, because the code composes them: a register write is the passage of a
cycle and then the effect of the write, unless that cycle reset the device.
Deadlines are counted down and stop at -1. The code compares each with
`wdog_bus_cycles`, never asks how long ago one passed, and the saved difference
(`wdog_initial_debug_remaining`) is only taken when it is not negative; the
types in `WatchdogSound` say so.

`cortex_m4_debug_instruction_retired` halts the core before the time of a
stepped instruction is reported, so an instruction that is stepped through runs
while the watchdog takes the core for halted. The feature `"STEP"` allows that.

### Runs

| Run | Instance | Shows |
|---|---|---|
| `wdog_update` | sequences by words and bytes, configurations with and without ALLOWUPDATE, interrupt, window; sleep, halts and single steps; the monitor with three configurations and its pin | `WatchdogSound`: sequences exclude each other, no deadline is left over, the shared line is what both flags say, the counter stays below its timeout; `ConfigKept`: the configuration is guarded and a lock is final; `CounterKept`: window and counter end for their own reasons only; `MonitorHonest`: service is judged by counter and pin |
| `wdog_bites` | words only, halts, stop mode, ticks by the host; fairness | `NoEscape`: the interrupt is followed by the reset; `Bites`: a neglected watchdog resets again and again |
| `wdog_window` | the watchdog alone | a violation of `WindowLasts`, see below |

Bounds. Times are cut to one to three cycles and advances to one or three (in
`wdog_bites` to zero or two): one advance may so end no deadline, one, or several at once, and it may
end them exactly or run past. `SequenceTime` 1 and `WindowTime` 2 differ, so a
deadline mistaken for another shows. Timeouts 3 and 4 with steps of two are
reached exactly and jumped over. Nothing in the code depends on the real values
(20, 256, 257 cycles) but through comparisons, and the theorems hold for all.
`OneAtATime` keeps `wdog_update` small: the monitor is used once the watchdog
is configured to warn before it resets and no sequence is under way. The two
meet in the shared line, whose every combination of flags is still reached.

Fairness. `FairSpec` asks that time passes: the host goes on stepping the core,
each step reports at least one cycle, and the clocks of the bus and the
watchdog make ticks of them. Nothing is asked of the firmware.

### A window that a debugger shortens

`WindowLasts` says an unlock opens the whole window, as
`tests/device/kinetis_k22/timing/watchdog_api_test.c:159-161` expects of it. The
run `wdog_window` shows when the code does otherwise. A debugger halts the core
after a reset; the time for the first unlock is saved. The firmware is stepped
through the unlock, which opens the window but leaves
`wdog_initial_debug_pause` set. When the core goes on,
`k22_timing_set_debug_halted` puts the saved time of the first unlock in place
of the deadline of the window. `OnlyTimeClosesTheWindow` is what remains true:
the window lasts unless such a pause is under way.

### Proofs

`WatchdogProofs` proves `WatchdogInvariant`: every reachable state is `Good`.
`Good` is `Sound` and `Timely`. `Sound` is about the shape: types, at most one
sequence under way, the line in step with the flags, the counter below the
timeout. `Timely` is about the deadlines. Two parts
are there for the induction only. The sequences and the window exclude each
other, which is why one expired deadline per call is enough although
`wdog_process_bus_time` looks at no second one. And before the first unlock no
window is open and IRQRSTEN is off, so running out of the time for the first
unlock is a reset at once and no other deadline is left beside it. A halt by a debugger keeps `Sound` but not `Timely`: the
restored deadline is checked in the advance that follows in the same step, so
the two are separate predicates and `Timely` is restored by `AdvanceBusSound`.

From the invariant follows `WatchdogSound`, all its parts at once, and, with
`KeepsLock` carried through each operator, that a lock is final. The other action
properties (`ConfigKept`, `CounterKept`, `MonitorHonest`) are proved together as
`Honest`. A step of the code is a chain of stages on one record (bus time passes, the
register is written, a reset may follow), so each stage gets a relation between the
record before and after it: `Alike` for what only reports, `Elapsed` for bus time,
`Acted` for the write or the tick; `StagesHonest` composes them. Two attempts failed
for a reason: a write to the monitor takes no bus time, so the time a step takes may be
zero, and the service of the monitor is judged rightly only while its counter is in
`0 .. CounterLimit`, which the type invariant had left open. The assumptions are
those on the constants: times are natural numbers, the delay of the reset and the
timeout after a reset are not zero.

Only model-checked: the liveness properties `NoEscape` and `Bites`.

Not modelled: the functional test mode of the watchdog, its prescaler and clock
source, the counter of resets RSTCNT, and byte writes to TOVAL and WIN.

## The DMA model

`DmaController` models `device/kinetis_k22/memory/dma.c` and the DMA part of
`memory/runtime.c`, and states the properties. `MCDma` names the descriptors and
sources the configurations use.

| Model | Code |
|---|---|
| `dma.tcd` | the descriptors at 0x1000: counts with their link, flags, major link, and whether sizes and byte count fit; CITER and BITER by the count `dma_iteration_count` reads |
| `dma.cr`, `es`, `erq`, `eei`, `int`, `err`, `priority` | the registers of these names, as sets of bits or channels |
| `dma.mux` | `dmamux[]`: enable, trigger and source |
| `dma.requests`, `hardware`, `waiting`, `active`, `half`, `source`, `last` | `dma_requests`, `dma_hardware_requests`, `dma_trigger_waiting`, `dma_active`, `dma_half`, `dma_request_source[]`, `dma_last_channel` |
| `dma.irqs`, `error_irq` | the levels last given to the interrupt callback |
| `service`, `phase`, `budget` | the locals of `k22_data_internal_dma_service_channel`, where `k22_data_advance` is, `always_enabled_budget` |
| `Advance`, `AdvanceEnds` | a call of `k22_data_advance` and the end of its loop |
| `PriorityError`, `ConfigError` | a request that is given up before its transfer |
| `Begin`, `BusError`, `Complete` | a service: up to its first bus access, a failing access, the end of the transfer with links, half and major completion, scatter/gather and the new request of an always enabled source |
| `Request`, `Trigger` | `k22_data_dma_request`, `k22_data_dma_trigger` |
| `Command`, `StartOrRearm`, `WriteControl`, `WriteEnables`, `WriteTcd` | `k22_data_internal_dma_write` by register |
| `WriteMux`, `Reset` | `k22_data_internal_dmamux_write`, `k22_data_reset` |

Why a service has two steps. Between its first and last bus access the code
holds locals while the bus calls other peripherals, which request again, and may
write the controller's own registers or the watchdog, which resets the device.
With the feature `"DURING"` any action of the environment may come between
`Begin` and the end of the service, `Reset` included; what the locals then write
back is part of `BusError` and `Complete`. Addresses and data are left out: they
decide which environment action a transfer is, and the model allows all.
Reading the next descriptor is within `Complete`; it is complete, or fails after
any of its words (`HalfCopied`), with the error told and the channel's flags old.

A write to one field of a descriptor at a time lets descriptors be served half
programmed. The flags have two ways: bytes and half-words keep DONE and ACTIVE,
a word overwrites both (feature `"WORDS"`).

### Runs

| Run | Instance | Shows |
|---|---|---|
| `dma_requests` | two channels, equal priorities possible; a peripheral, an always enabled and a paced source; halt on error and in debug; every command; software starts, resets and accesses, also during transfers | `ErrorsReported`: summary, channels in error and lines agree; `OnlyTheServedIsActive` |
| `dma_chain` | one channel, counted among the upper ones; scatter/gather between two descriptors, a link to a channel that is not there, one or two cycles per advance; direct writes to enables, pending, error and status bytes between advances | `ChannelsFinish`: types, sources on record for the hardware's requests only, a disabled channel does not start over, the next service or command repairs the lines |
| `dma_live` | two channels, round robin, one always enabled with two iterations and links; fairness | `EveryoneIsServed`, and `AdvanceReturns`: every advance ends |

Bounds. Two channels have every order of request, link and arbitration that
round robin and priorities tell apart; the lines of channels do not depend on
each other but for the shared error line, so one channel is enough for
`dma_chain`. Counts of one and two reach the half, the end and the reload of
a major loop. `Limit` stands for 0x8000 and `LinkedLimit` for 0x200.
`RequestsOrErrors` keeps `dma_requests` small: where the control register, the
priorities or the error interrupts are not as after a reset, the requests are
those of software. The theorems hold for any number of channels, any counts and
any sets of descriptors, without that constraint.

Conditions in the properties. `ErrorsTold` and `LinesInStep` hold for firmware
that does not write read-only bytes and enables as registers (feature
`"REGISTERS"`): those writes report nothing, and `LinesCatchUp` says when that is
repaired. `SourcesOnRecord` holds where priorities stay different: after a
priority error the code drops the request and keeps its source.
`OnlyTheServedIsActive` needs descriptors without the active bit, which a word
written or a descriptor loaded could set. `AdvanceReturns` excludes circles of
links and peripherals that ask during every transfer: the loop of
`k22_data_advance` has no bound for them.

Fairness. `FairSpec` asks that the loop of `k22_data_advance`, once entered, runs
on, and that the host keeps calling it, as `kinetis_k22_peripheral_advance` does
after every instruction. Whether a transfer fails is left open.

### Proofs

`DmaProofs` first states what each operator on the record returns and leaves
alone, and then proves `DmaInv` step by step. `Good(d, cs)` collects what the
properties say of the record, with `cs` the channels that may be active;
`DmaInv` adds what a service in progress needs: the flags it will put back have
no active bit, its count is not zero (so it can be decremented), and an advance
under way has cycles left (so `always_enabled_budget` does not wrap). From it
follow `ErrorsReported`, `OnlyTheServedIsActive` and `ChannelsFinish`, the last
with the action properties `LinesCatchUp` and `DisabledAtTheEnd`. The assumptions
are those on the constants: at least one channel, values of the right kind, and
None apart from channels and sources.

Only model-checked: `EveryoneIsServed` and `AdvanceReturns`, which are liveness.

## The two benches

The other parts are small machines that share no state. Each has a module with
its own `...Init`, `...Next`, type invariant and properties; `MCPeripherals` and
`MCSystem` set them side by side. The variable `focus` is chosen once: the part
in focus takes every step and the others rest as a reset leaves them, and the
view `Focused` keeps what rests out of the state. A property of a bench joins
what the parts of a kind promise, so that each is a question about the system
and not about one register. The parts call each other in the code (a timer
triggers the ADC, a UART asks the DMA). What such a call may bring is an input
here: it can come at any time. That is more than the code allows, so a safety
property that holds here holds there.

No fairness is assumed in the benches: their properties are about what is done,
not about when. `CHECK_DEADLOCK FALSE` stands in their configurations because
a part may come to rest for good: inputs are counted, and `Explored` cuts
branches off.

### Peripherals

| Module | State | Actions |
|---|---|---|
| `Pit`, `Lptmr`, `Pdb` | counters, flags, enables, chains, the filter of the input pin | register writes, batches of ticks |
| `Rtc` | seconds, prescaler, compensation, alarm, locks and accesses | register writes with their locks, batches |
| `Power` | run and stop mode, wake-up flags, low-voltage detection, causes of resets | mode requests, sleep and waking, pins, supply, reset |
| `Cmt` | mark and space of the cycle, EOC in its two steps, DMA request | register access, time, end of the transfer |
| `Uart`, `Spi` | frames on the wire, FIFOs, flags and the reads that clear them | both hosts' access, time |
| `I2c` | role, bus, shift in progress | starts, stops, bytes, the host as master, time |
| `Can`, `I2s` | mailboxes with masks; FIFOs each way | register access, host frames and samples |
| `EventRing` | slots, head and count of a ring | push, pop, pop of one endpoint |
| `Pins` | level, drive, pull, filter, PCR, flag of each pin | PCR and GPIO registers, drives of the world, time |
| `UsbDcd` | step of the detection, timers, status | register access, milliseconds, the charger |
| `Sdhc` | card, transfer, status and its enables | commands, port, DMA with failures, insertion, ejection |
| `Analog`, `Integrity` | conversions, buffer of the DAC, comparator, reference, CRC, random numbers | register access, triggers, time |

`HostEvents` is the abstract specification of `EventRing`: a queue that forgets
its oldest events when it is full. `RingIsQueue` states the refinement; the ring
that gives up an event of one endpoint from its middle moves the others
together, and the mapping must see through that.

The run `peripherals` shows:

- `DevicesTypeOK`: counters stay below the values at which they expire, queues in
  their arrays;
- `BatchesSplit`: one advance of a sum does what two advances do, which the code
  relies on because the host reports time in pieces of any size;
- `TimersTell`: the RTC steps over no alarm, compensates an interval of seconds once
  (the first of its seconds) and its locks hold, the CMT sends whole
  cycles, a detection of the charger runs only while its status says so, and the
  lines of PIT, PDB and CMT go up only with a flag for the handler to find;
- `LptmrHonest`: the compare of the low-power timer is never passed in silence,
  its line keeps to its flag, and its batches split too;
- `PowerHonest`: only modes that PMPROT allows are entered, a stop mode is shown
  asleep only, causes of resets stay, both lines follow their flags;
- `AnalogHonest`: results are of the channel asked for and admitted by the
  comparison (a calibration raises the flag of slot A without a result, and is told apart
  from one by `adcTold`), the whole buffer of the DAC is played, every edge of the comparator is
  told, and a reference is stable after its time;
- `LinksHonest`: frames come out whole, once and in order, and a
  frame that is lost raises its flag;
- `PinsHonest`, `TransfersHonest`: an edge that is asked for is told and a level that
  does not outlast the filter is not seen; a transfer stays in its card and ends in a
  completion or an error;
- `ResultsHonest`: the CRC is the remainder of what it was fed, and each random number
  was asked for and raises its line; and `RingIsQueue`, above.

Bounds. Counters are cut to moduli of one to three and batches to one and to
more than a period, so that a batch ends before, at, and after an expiry, and
holds several. FIFOs have two slots; overrun needs three frames, and a frame takes two
units of time so that it can be cut. Two mailboxes, two pins, two identifiers, cards of
two and four words with blocks of two give every agreement and disagreement
the code tells apart. CRC works on bytes of two bits: the widths are parameters of the
algorithm and nothing else depends on them. `Explored` names what is left out
of the product of independent settings: wake-up sources, supply and modes one at
a time, one pin configured, the two directions of the I2S one at a time past
two samples.

### What surrounds the core

| Module | State | Actions |
|---|---|---|
| `FlashController` | ways with tags and locks, the array by sectors, command, protection, swap, partition, FlexRAM | launch and end of each command, reads by master, register writes, reset in the middle |
| `FtmTime`, `Ftm` | counter, channels, buffers waiting for a synchronization, faults, outputs, decoder | register writes, inputs, batches of time |
| `Debug` | halt, step, monitor, DFSR, the cycle comparator | DHCSR and DEMCR writes, events, a step of the core |
| `Mpu`, `SysMpu`, `ClockGates`, together `Guards` | regions and rights, both copies of the system's; captured fault; bridge and gates | register writes with their aliases, accesses by mode and master |
| `Exclusive` | reservation, store buffer and the cycles still owed | exclusive loads and stores, writes of anybody, time |
| `Instructions` | IT state, ICI, flags, frames, pending exception | arithmetic and logic, IT, branches, transfers that are cut or fail, entry, tail chain, return |

The run `system` shows:

- `FlashHonest`, `CacheHonest`: what is protected stays, nothing is programmed but
  what was erased, the swap indicators tell where a swap stands through resets,
  a place is in one way at most, and only commands leave old lines behind;
- `FtmHonest`: batches split, no event is cleared unseen, a
  complementary pair never drives both, a fault holds the outputs, what waits
  together is loaded together;
- `DebugHonest`: a halt needs a debugger, a step retires one instruction, every
  stop has its reason;
- `AccessesConfined`: no access gets past the two protection units, the bridge and
  the clock gates, and every refusal is on record;
- `ReservationsFair`: an exclusive store succeeds only on a reservation nobody
  broke, once, and no wait cycle is lost;
- `ConditionsTell`: after a comparison the conditions say what they promise of its
  operands, and a block is executed by the conditions it was written with through
  every exception, unless it was torn (see the observations);
- `SystemTypeOK`: the types of all parts; with them, that the barrel shifter does what
  single shifts do (`ShiftsStepByStep`).

Bounds. Four flash parts cover one and two blocks, swap and data flash; a sector
is one word. The FlexTimer is found in one of seven uses, each with what that use
needs. Two regions overlap in every way. Words of three bits have a sign, a carry
and an overflow in every combination; four blocks have one to four
conditions and both polarities; one handler level shows a block suspended
and resumed. The theorems hold for any width, any blocks and any depth.

### Proofs

`SystemProofs`:

- `ReservationsAreFair` through `ExInv`: a reservation that stands is fresh and
  unused, and every cycle owed by the store buffer has a place to be paid
  (`DebtPlaced`; the buffer alone is not inductive, since a store leaves its cycles to
  the instruction after it). For every granule, size and wait time.
- `GuardsHold`, that is `AccessesConfined`, for the four guards of an access. Each
  guard has registers of its own, and a step of `Guards` is a step of one of them
  (`EachGuardSteps`), so the parts are proved apart: `UsersAreConfined` and
  `HardFaultIsServed` for the core's unit, `CopiesAlwaysAgree` and
  `RefusalsAndGrants` for the system's, `BridgeAlwaysHolds`, `GatesAlwaysFollow` and
  `AccessesAreClocked` for bridge and gates; for any number of regions, masters and
  peripherals. The arithmetic is in the core's unit: a region and its eighths are
  found by dividing the address, and `RegionDrawn` says that the bytes with the same
  quotient are those between its ends (`Divides`, `SameQuotient`, `InBlock`).
- `DebugIsHonest` and `DebugTypesHold` through `DebugInv`: only an attached debugger
  holds or arms the core, and the cycle counter keeps its width. `Follows` relates
  the record before and after each handler; `MatchSplits` says that a batch of cycles
  meets the comparator if and only if one of its two pieces does, through the wrap
  of the counter.
- `RingImplementsQueue`: the ring refines `HostEvents`. The queue is read off the ring
  (`Waiting`), and the arithmetic of its indices is in `Wraps`; `EventJoins` and
  `OldestLeaves` are the two ends, `ClosedTakesOne` the removal of one endpoint's
  event, which moves the others together.

`FlashProofs` proves `FlashHonest` through `FlashInv`, which adds to the four state
properties that only a part that can swap has left mode 0, that before the first swap
block 0 is the current one, that an absent data flash is erased and that a cache
turned off stays off. `Stored` says what a write of the controller makes of each
place while the halves may have changed names, `LaunchTells` what every command
leaves in its flags, and `LoadTells` what a command may conclude from a word it read as
erased; there is one lemma per command, and one for each way past the controller. The
hardest is the swap: an indicator is written whatever protects it, an erase of the
other half takes the sequence a step on, and the reset gives the halves each other's
name (`SwapKeeps`, `EraseKeeps`, `ResetKeeps`). `EraseAll` asks for the protection of the
places a part has; that nothing else changes needs the absent data flash to be erased.

Assumptions, beyond the types of the constants. `GatesAssumption`: a peripheral keeps a
clock flag of its own or is asked at the SIM. `MpuAssumption`: sizes and counts are not zero and
bases lie in the space; `SysAssumption`: addresses and regions are numbered from zero;
`ExTimesAssumption` and `ExPlacesAssumption`: so are times and places. `DebugAssumption`: no two instructions take the cycle
counter once round. `RingAssumption`: the ring has a slot. `FlashAssumption`: what goes past
the controller spares what the controller answers for, that is, a debugger writes no
configuration word and neither debugger nor host writes the sector of the swap
indicators; without it the copies part, as in the code.

`InstructionProofs` proves `ConditionsTell` through `ItInv`. The state `it` is the
encoding of what firmware still expects (`BlockKept`), or zero; and so it is in every
frame (`SoundFrames`), which is what a return needs. The argument rests on lemmas
about the operators, for every word and block: `EncodedDigits` and `AdvancedEncoded`
(shifting the encoded block by one is the encoding of its tail),
`SubtractionFlags` and `ComparisonSays` (carry and overflow of `left + NOT right + 1`
say which word is larger, unsigned and signed), `PassedMeans`, `ShiftCarries`.
Assumption: `ItAssumption`, that a block has one to four conditions that differ in
polarity only, as the assembler must write them.

`PeripheralProofs` proves `PinsHonest`, `TransfersHonest`, `PowerHonest`,
`LptmrHonest` and `AnalogHonest`, each of the specification its module states
(`PinsSpec`, `SdSpec`, `PowerSpec`, `LptmrSpec`, `AnalogSpec`); in the bench the same
actions are taken one part at a time.

- `PinsAreHonest` through `PinsInv`. That a level is filtered is not inductive: it says
  how long a drive has held when an edge is taken, and the filter counts something else,
  the age of the level it saw last. `HeldLongEnough` relates the two (the age never runs
  ahead of the time held), which must survive the filter being moved to other pins, cut
  to another width, or left to a pin that returns. Every step is a chain of stages on the
  filter, the levels and the flags, with one lemma for each stage.
- `CardTransfersAreHonest` through `SdInv`. `MoveBegunSoundly` adds that a transfer which
  writes was begun with a card that may be written, however the card's protection stands
  later, and that no transfer runs past the largest card even when a smaller one was put in
  its place.

- `PowerIsHonest`: with the types the three state properties are inductive together. A
  change of mode keeps `ModesAllowed` since PMPROT only grows until a reset and a mode is
  entered only if it is allowed; a wakeup returns to the run mode that was left.
- `LptmrIsHonest` through `LptmrInv`, the types. The work is in the operators: that the
  remainder of a sum is that of the remainders added (`RemainderOfSum`), that a compare
  value is met in a batch if and only if in one of its pieces, round the wrap of the
  counter (`ReachSplits`), and that count, prescaler and filter then split
  (`IncrementSplits`, `FilterSplits`).
- `AnalogIsHonest` for its four units, which share no state. That the whole buffer of the
  DAC is played needs what was played so far (`PlayedSoFar`); that a reference waited its
  time needs that time waited and time left make the whole (`VrefInv`); that a flagged
  result is of the channel asked for needs the same of the conversion under way
  (`RunningBegun`). `ControlWriteSound` is the step of a calibration, whose flag no
  comparison admitted and which is on record until the flag is cleared or a conversion ends.

Assumptions, all about types and about what is not zero: `PinsAssumption` (settings are
values of the register, widths and steps are numbers, one width is the longest),
`SdAssumption` (sizes are numbers, one card is the largest), `PowerAssumption` (the modes PMCTRL
can run in, sets of modes for PMPROT), `LptmrAssumption` (the counter has a width and compare
values lie in it), `AnalogAssumption` and `AdcAssumption` (a conversion takes time, sizes,
levels and times are numbers, what a reset leaves is among the values).

Only model-checked: of the run `peripherals` the joint properties of the other parts
(`DevicesTypeOK`, `BatchesSplit`, `TimersTell`, `LinksHonest`, `ResultsHonest`); of `system`
`CacheHonest`, `FtmHonest` and `SystemTypeOK`. That a place is in one way
at most survives a command that checks a whole block only by induction over the places
it reads (`LoadAll`), and invalidation filters the order of use (`SelectSeq`): both are
inductions over data. `Uart`, `Spi`, `Cmt` and `FtmTime` use recursive operators, over
frames and over the pieces of a batch, which the prover does not take; that a CRC is the
remainder of all the bytes fed to it and that a shift is so many single shifts
(`ShiftsStepByStep`) would need induction over data too.

## Observations

What the code does that a reader may not expect, where the repository states no
promise that it breaks. The models carry these out.

- `architecture/cortex_m4/instructions/thumb/thumb32.c:61`: BASEPRI keeps four bits of what is written whatever number of priority bits the device implements, and is compared after PRIGROUP was applied to it. The model covers four and more priority bits, where the two agree; every supported device has four.
- `architecture/cortex_m4/system.c:820`: The deferred floating-point state is written for the top frame only: with LSPACT set and another exception nested, the registers of the wrong frame could be written or lost. Floating-point frames are not modelled.
- `device/kinetis_k22/timing/watchdogs.c:249`: A store to a watchdog register lets a bus cycle pass and may so reset the whole device, the core included, in the middle of the instruction; the rest of the instruction is then carried out on the core that was reset. The watchdog model shows the write swallowed by the reset; the rest of the instruction needs the composition with the core, which is left out.
- `device/kinetis_k22/memory/dma.c:268`: running_control, read before the transfer, is put back after it: a write of the transfer to the flags of its own descriptor, or a reset within it, is undone. Nothing in the repository says what such a write should do; the model carries it out as the code does.
- `device/kinetis_k22/memory/runtime.c:297`: A peripheral that asks during the very last transfer of a major loop leaves a request that survives the disabling at the end of the loop, and the channel is served once more. Observed while stating DisabledAtTheEnd, which is limited to requests the service itself makes; nothing says such a request should be dropped.
- `device/kinetis_k22/memory/runtime.c:426`: Links that lead in a circle, and bus accesses that request again, are served within one call: k22_data_advance does not return and the whole simulation hangs. AdvanceReturns excludes such links: the code has no bound there.
- `device/kinetis_k22/memory/runtime.c:434`: After a priority error the request is dropped but dma_request_source keeps its source: the next software start of that channel is taken for one of the hardware, and the peripheral is told of a completion. SourcesOnRecord holds only where priorities differ; nothing in the repository says what becomes of the source.
- `device/kinetis_k22/memory/dma.c:277`: dma_half remembers that the half interrupt was given; a descriptor that is programmed anew in the middle of a loop keeps it, so the new loop gives no half interrupt. Nothing in the repository says when it should be forgotten.
- `device/kinetis_k22/memory/dma.c:71`: A count without a link bit is cut to nine bits when the count it replaces has one: a major loop that begins with 512 iterations is reloaded with zero and ends in a configuration error. The model cuts the count as the code does; nothing says what firmware that writes the two link bits differently may expect.
- `device/kinetis_k22/timing/counters.c:237`: TPR can be written past the length of a compensated second: the ticks still needed are an unsigned difference that wraps, and the second never ends. The model carries it out as the code does (Pass); nothing in the repository says what should happen.
- `device/kinetis_k22/timing/counters.c:330`: A pretrigger delay above the modulus is passed or not depending on how the time is cut into batches. BatchesSplit is stated for delays within the modulus; nothing says what firmware may expect beyond it.
- `device/kinetis_k22/timing/registers.c:612`: The low-power timer survives a reset by the mask 0x84 of the causes, which leaves out the low-voltage detect. The model lets either happen; the repository does not say which causes should clear the timer.
- `device/kinetis_k22/timing/counters.c:18`: The DMA is triggered once per batch, however many periods the batch holds. Follows from the interface of k22_timing_internal_trigger_dma; the DMA model takes one trigger at a time.
- `device/kinetis_k22/timing/registers.c:905`: PMSTAT stays VLLS after a wakeup that was not a reset, and what depends on it goes on as in VLLS. StoppedOnlyAsleep leaves VLLS out; nothing in the repository covers it.
- `device/kinetis_k22/timing/registers.c:698`: The module flag of a wakeup has no path that clears it but a reset: its line stays. The model carries it out; nothing in the repository says how it is cleared.
- `device/kinetis_k22/timing/registers.c:853`: A reset forgets the level of the wakeup pin: the same level driven again counts as an edge. The model carries it out (ResetBy); the repository does not say what the pin does over a reset.
- `device/kinetis_k22/platform/peripherals.c:100`: EOC is cleared by reading a data register after the flag was seen once: the flag of a newer cycle goes with that of the older. The model carries it out; the repository does not say whether the newer cycle should be told.
- `device/kinetis_k22/platform/peripherals.c:117`: A DMA request of the modulator that the controller gives up leaves cmt_dma_pending set: no request is made again. CmtDmaLost is the step; OneTransfer allows it, and nothing in the repository says how it recovers.
- `device/kinetis_k22/memory/flash.c:49`: The commands that check a section read through the bus as a master does, so what they compare may be an old line of the cache. The model carries it out (Load goes through the cache); the repository states no promise about it.
- `device/kinetis_k22/timing/registers.c:97`: A write to STATUS clears the flags of the channels whether or not each was read before: an event that nobody saw goes with the others. UnseenEventsStay leaves writes to STATUS out; nothing in the repository says they should look.
- `device/kinetis_k22/timing/registers.c:130`: A write to SYNC without SWSYNC takes back a software synchronization that waits for its point. The model carries it out (WriteSync); SwsyncWaits names it among the ways a waiting request goes.
- `device/kinetis_k22/timing/ftm.c:385`: NUMTOF may be lowered below the overflows already counted: the counter of overflows has eight bits and goes round before the next flag. The model carries it out; nothing in the repository says when a lowered value takes effect.
- `device/kinetis_k22/timing/ftm.c:426`: Where values wait in their buffers the result of an advance depends on how the time is cut. FtmSplits is stated for advances without waiting buffers; the model shows both.
- `device/kinetis_k22/communication/serial/runtime.c:94`: A direction that is stopped in the middle of a frame still counts its cycles down, but they no longer bound the segment: the unsigned counter passes zero. FramesWhole leaves it out (uartStopped); the model carries the wrap out, and nothing in the repository says what becomes of the frame.
- `device/kinetis_k22/communication/serial/registers.c:433`: The receive overflow of the FIFO is a flag that SFIFO does not clear: its mask names other bits. The model carries it out (ClearOverflow gives up only the transmit overflow).
- `device/kinetis_k22/communication/serial/registers.c:382`: An overrun between the read of S1 and the read of D is cleared with the flags that were seen. The model carries it out (UartReadData); the same holds of the hardware's sequence.
- `device/kinetis_k22/communication/serial/registers.c:473`: A flush of the transmit FIFO leaves the cycles of the frame that was under way to the next one. The model carries it out (WriteMcr); nothing in the repository says how long that frame takes.
- `device/kinetis_k22/communication/serial/registers.c:554`: The master bit set while the module is off, then enabled, lets a transfer begin without a START. I2cNoByteAfterStop is about transactions that were open; the model shows the other.
- `device/kinetis_k22/communication/serial/runtime.c:99`: The frames that were sent wait for the host in a queue of 256, beyond which they are dropped silently. The models keep fewer frames than that under way; the bound is of the simulation, not of the device.
- `device/kinetis_k22/gpio/core.c:366`: Enabling the filter takes the level as it stands but leaves target and age of earlier filtering: a pin may move towards a target nobody drives. The model carries it out (WriteDfer); nothing in the repository says what a newly filtered pin does.
- `device/kinetis_k22/gpio/core.c:316`: A pull that is switched in PCR, and DFER, change the level of a pin without an event. The model carries it out; the repository says of external drives only that they raise flags.
- `device/kinetis_k22/gpio/core.c:128`: A level interrupt whose flag is cleared while the level stays is not raised again. The model carries it out; EdgesFlagged is about changes of level.
- `device/kinetis_k22/gpio/core.c:345`: GPCLR and GPCHR write sixteen bits and clear the interrupt configuration above them. The model carries it out (WriteGlobal); nothing in the repository says it should be kept.
- `architecture/cortex_m4/debug.c:262`: MON_PEND stays set after the monitor was entered: the next write to DEMCR that keeps the bit pends it again. The model carries it out (EventTaken leaves the bit); PendingShows asks only that what is pending shows.
- `architecture/cortex_m4/debug.c:716`: A step of the monitor in the monitor's own handler escalates to HardFault, which retires in the same way. The model carries it out (Retired, Event); nothing in the repository says that stepping spares the handler.
- `architecture/cortex_m4/core.c:180`: A vector catch or a match halts the core only after one more instruction of the handler. The model carries it out (Step): the step does not look at halted between entry and execution.
- `architecture/cortex_m4/debug.c:244`: A step that is armed and then replaced by a run still halts after the next instruction. The model carries it out (Controlled leaves armed); StepRunsOne starts from the write that arms.
- `architecture/cortex_m4/timing.c:480`: A DMA transfer writes the memory without cortex_m4_notify_external_write: a reservation survives it. The DMA model has no addresses; src/src/device/kinetis_k22 does not call the function, so the two do not meet.
- `architecture/cortex_m4/instructions/thumb/thumb32.c:447`: An exclusive store that the memory refuses has consumed the reservation and leaves its status register unwritten. The model shows the reservation consumed (StoreExclusive); the register is data.
- `architecture/cortex_m4/exceptions/base.c:117`: The wait states of an instruction that is aborted by a fault are forgotten with it. The model carries it out (Aborts); nothing in the repository says who should pay them.
- `device/kinetis_k22/gpio/peripherals.c:99`: A mailbox whose code is 12 to 15 transmits in the write itself, also while the module is disabled or frozen. The model carries it out (Send has no guard); nothing in the repository says that a disabled module is silent.
- `device/kinetis_k22/communication/usb_dcd.c:224`: The milliseconds of a batch that are left when the sequence ends still count TIMER0 up and can raise its time-out. The model carries it out (Milliseconds); DCD is left out of BatchesSplit for it.
- `device/kinetis_k22/communication/sdhc.c:132`: A card is inserted over one whose transfer is under way: the port goes on with the rest of it on the new card. The model records it (sdSwapped), and TransfersHonest is stated for transfers that began with the card they end with.
- `device/kinetis_k22/communication/sdhc.c:47`: A status whose bit in IRQSTATEN is clear when its event happens is lost for good, also for software that polls IRQSTAT. The model carries it out (Status); MovesTold is stated for enabled statuses.
- `device/kinetis_k22/memory/analog.c:67`: Reading the result of one ADC slot, or writing its SC1, drops the line that the other slot's flag holds up. The model carries it out (LineDropped, AdcReadResult); AnalogHonest asks for the converse only.
- `device/kinetis_k22/memory/analog.c:15`: A pretrigger clears the slot's flag and leaves its line up, so the handler finds no flag. The model carries it out (AdcPretrigger).
- `device/kinetis_k22/memory/analog.c:103`: A calibration raises the flag of slot A without a conversion: no result is new, no comparison is made and no line goes up, also with AIEN set. The model carries it out (AdcWriteControl); FlaggedIsAsked keeps such a flag apart from those of results, until it is cleared or a conversion ends.
- `device/kinetis_k22/memory/analog.c:16`: Channel 31 in SC1 does not stop the conversion under way: it completes into a slot that was disabled. The model carries it out (AdcScheduled).
- `device/kinetis_k22/memory/analog.c:131`: A DAC trigger that raises no flag drops the line of the trigger before it, although that flag is still set. The model carries it out (DacTrigger); AnalogHonest asks that a line has a flag, not the converse.
- `device/kinetis_k22/platform/registers.c:142`: A byte written inside SCGC1 changes the bit and not the module's copy of it, until another register of the timing modules is written. The model carries it out (WriteGateByte, gateBehind) and GatesFollow is stated for the moments between.
- `device/kinetis_k22/timing/clocks.c:156`: A byte written to SCGC3 to SCGC7 is accepted and lost. The model carries it out (WriteGateByte changes the SCGC1 bits only); no document of the repository says that byte writes count.
- `device/kinetis_k22/platform/registers.c:74`: The bridge judges a DMA transfer by the privilege the core has at that moment. The model carries it out (IsUser).
- `device/kinetis_k22/platform/registers.c:120`: A write to a read-only register succeeds before bridge and clock are asked. The model carries it out (PeripheralAccess with readonly); it changes no state.
- `device/kinetis_k22/device.c:295`: A load or store of an unprivileged thread reaches the system protection unit as a supervisor's; only LDRT and STRT are a user's. The model carries it out (CoreData), and PassedIsAllowed asks it of fetches only.

## Not modelled

- Floating point: `fpu.c`, the floating-point part of an exception frame and its
  lazy preservation. They move data to and from the stack.
- The DSP and multiplication instructions, saturation, data movement, addressing and
  decoding: functions of registers that a unit test reaches.
- The contents of exception frames, fault status registers, and the cycles an
  instruction takes, which are an input of `Exclusive`.
- Accesses wider than a register: a word written across the registers of the comparator
  stores SCR as it is, flags included, where a byte clears them. The DMA requests
  of ADC, DAC and comparator, and how long a conversion takes.
- Frequencies of the clock generator, prescalers and fractions of clocks.
- Addresses and data of DMA transfers; bit timing of links.
- Generated register tables, variants, the image loader and the runner: constants,
  parsing and files.
- The assembly of the device (`device.c`, `host.c`): it routes calls between the
  parts, each of which takes those calls as inputs here.
- Priority bits below four, see the observation on BASEPRI.

The components in `PROJECT.json` say for each part what of it is modelled.

## Plan

Done: the exceptions with their order, nesting and refinement; the watchdogs; the DMA
controller; the guards of an access; the exclusive monitor; the debug unit; the
conditions of instructions; the flash commands; the ring of events; pins and cards; power
modes, low-power timer and analog units. What is left, in
this order:

1. the FlexTimer's outputs (in `FtmHonest`): dead time and faults are sets and
   comparisons, without the recursion of its batches;
2. the timers whose batch is arithmetic (`Pit`, `Rtc`) for `BatchesSplit`, by the
   lemmas on quotients and remainders that the MPU and the low-power timer needed;
3. lines and flags of the serial links (in `LinksHonest`), which are
   functions of the registers after every write;
4. the type invariants of the benches' parts.
