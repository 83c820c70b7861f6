----------------------------- MODULE Interrupts -----------------------------
(***************************************************************************)
(* The interrupts of the kernel: the boot code that remaps the two PICs,   *)
(* fills and loads the IDT and enables interrupts (interrupts/idt.c), the  *)
(* 256 gates and their stubs (interrupts/idtstubs.h), the three handlers,  *)
(* and wait (util/earlyutil.c), which sleeps until the timer handler has   *)
(* counted enough.  Every gate is an interrupt gate (0x8E), so a handler   *)
(* runs with interrupts off.  The PIC latches an edge of a line in irr,    *)
(* moves the line to isr when the processor takes it, and sends nothing of *)
(* that line's priority or below until an end of interrupt.                *)
(***************************************************************************)
EXTENDS Integers, Sequences, FiniteSetsExt

CONSTANTS
  Word,     \* ticks is read modulo Word: 2^32
  Delays,   \* the arguments of wait
  Faults,   \* exceptions that may strike
  Burst,    \* the most device events between two steps of the main line
  Nesting   \* the most stubs on the stack

ASSUME InterruptsAssumption ==
  /\ Burst \in Nat \ {0} /\ Nesting \in Nat /\ Delays \subseteq Nat /\ Faults \subseteq 0..31
  /\ Word \in Nat \ {0} /\ \A ms \in Delays : ms + 2 * Burst + 1 < Word

VARIABLES
  pc,       \* the main line: kernel_main, then wait or the code between waits
  flag,     \* the processor's interrupt flag
  idt,      \* the table of gates is filled and loaded
  offset,   \* the vector of line 0 in the master PIC
  mask,     \* its masked lines
  irr, isr, \* its requested lines, its lines in service
  full,     \* the keyboard controller holds a scancode nobody has read
  ticks,    \* the timer's interrupts, modulo Word
  frames,   \* the stubs on the stack, innermost first
  start, asked, \* wait's local and argument
  elapsed,  \* the timer's pulses since wait was called (history, capped)
  since     \* device events since the last step of the main line

vars == <<pc, flag, idt, offset, mask, irr, isr, full, ticks, frames, start, asked, elapsed, since>>

Timer == 0
Keyboard == 1
Serial == 4
Lines == {Timer, Keyboard, Serial}
Spurious == 7

-----------------------------------------------------------------------------
(* The stubs and the gates.  GENERATE_STUB pushes int_no and calls the     *)
(* target; it pops what it pushed, and not an error code.                  *)
Stub(target, int_no) == [target |-> target, int_no |-> int_no]
CpuStub(v)    == Stub("generic_handler", v)
IrqStub(v)    == Stub(IF v = 32 THEN "timer_handler"
                      ELSE IF v = 33 THEN "keyboard_handler" ELSE "generic_handler", v)
UnusedStub(v) == Stub("generic_handler", v)

CpuGates    == 0..31
IrqGates    == 32..47
UnusedGates == 48..255
Gate(v) ==
  CASE v \in CpuGates -> CpuStub(v) [] v \in IrqGates -> IrqStub(v) [] v \in UnusedGates -> UnusedStub(v)

(* The exceptions for which the processor pushes an error code.            *)
WithErrorCode == {8} \cup (10..14) \cup {17, 21, 29, 30}

Top == Head(frames)
AtStep(target, step) == frames # <<>> /\ Top.target = target /\ Top.step = step
Step(s) == frames' = <<[Top EXCEPT !.step = s]>> \o Tail(frames)
Hung == frames # <<>> /\ Top.step = "hung"

(* The processor enters a gate: it saves the flag and clears it.           *)
Enter(v) ==
  /\ frames' = <<[vector |-> v, target |-> Gate(v).target, int_no |-> Gate(v).int_no,
                  saved |-> flag, step |-> "body"]>> \o frames
  /\ flag' = FALSE

-----------------------------------------------------------------------------
Init ==
  /\ pc = "remap" /\ flag = FALSE /\ idt = FALSE
  /\ offset = 8 /\ mask = {} /\ irr \in SUBSET {Timer, Serial} /\ isr = {}
  /\ full = FALSE /\ ticks = 0 /\ frames = <<>>
  /\ start = 0 /\ asked = 0 /\ elapsed = 0 /\ since = 0

Pending == {l \in irr \ mask : \A s \in isr : l < s}

(* The processor takes an interrupt before its next instruction.           *)
Main(from, to) ==
  /\ pc = from /\ frames = <<>> /\ ~(flag /\ Pending # {}) /\ pc' = to /\ since' = 0
devices == <<full, irr, isr>>
waiting == <<start, asked, elapsed>>

(* The initialisation words: both PICs forget what was requested and in    *)
(* service, take the new vectors and come up fully masked.  A device       *)
(* nobody drives requests at once, and keeps its request for ever.         *)
pic_remap ==
  /\ Main("remap", "pit") /\ offset' = 32 /\ mask' = Lines /\ irr' = {Serial} /\ isr' = {}
  /\ UNCHANGED <<flag, idt, full, ticks, frames, waiting>>

pit_set_frequency ==
  /\ Main("pit", "idt") /\ UNCHANGED <<flag, idt, offset, mask, devices, ticks, frames, waiting>>

init_idt_entries ==
  /\ Main("idt", "unmask") /\ idt' = TRUE
  /\ UNCHANGED <<flag, offset, mask, devices, ticks, frames, waiting>>

(* 0xFC: the timer and the keyboard.                                       *)
Unmasked == {Timer, Keyboard}
Unmask ==
  /\ Main("unmask", "sti") /\ mask' = Lines \ Unmasked
  /\ UNCHANGED <<flag, idt, offset, devices, ticks, frames, waiting>>

Sti ==
  /\ Main("sti", "run") /\ flag' = TRUE
  /\ UNCHANGED <<idt, offset, mask, devices, ticks, frames, waiting>>

ExpiredAtDeadline(now, from, ms) == now >= (from + ms) % Word

(* wait.  The difference is taken modulo Word, so a wrap does no harm.     *)
Expired(now, from, ms) == (now - from) % Word >= ms

wait(ms) ==
  /\ Main("run", "check") /\ start' = ticks /\ asked' = ms /\ elapsed' = 0
  /\ UNCHANGED <<flag, idt, offset, mask, devices, ticks, frames>>

Check ==
  /\ IF Expired(ticks, start, asked)
       THEN Main("check", "run") /\ start' = 0 /\ asked' = 0 /\ elapsed' = 0
       ELSE Main("check", "hlt") /\ UNCHANGED waiting
  /\ UNCHANGED <<flag, idt, offset, mask, devices, ticks, frames>>

(* An interrupt taken between Check and Hlt wakes nobody.                  *)
Hlt ==
  /\ Main("hlt", "asleep")
  /\ UNCHANGED <<flag, idt, offset, mask, devices, ticks, frames, waiting>>

-----------------------------------------------------------------------------
(* The devices and the PIC.                                                *)
DeviceEvent == since < Burst /\ since' = since + 1 /\ ~Hung

(* A pulse while the last one is still in irr is lost.                     *)
TimerPulse ==
  /\ DeviceEvent /\ irr' = irr \cup {Timer}
  /\ elapsed' = Min({elapsed + 1, asked})
  /\ UNCHANGED <<pc, flag, idt, offset, mask, isr, full, ticks, frames, start, asked>>

(* The controller raises its line again only after its buffer was read.    *)
(* No key is pressed between the boot loader and pic_remap.                *)
KeyPress ==
  /\ DeviceEvent /\ pc # "remap" /\ ~full /\ full' = TRUE /\ irr' = irr \cup {Keyboard}
  /\ UNCHANGED <<pc, flag, idt, offset, mask, isr, ticks, frames, waiting>>

Accept(v) ==
  /\ flag /\ Enter(v) /\ pc' = IF pc = "asleep" THEN "check" ELSE pc
  /\ UNCHANGED <<idt, offset, mask, full, ticks, waiting, since>>

Deliver(l) ==
  /\ Pending # {} /\ l = Min(Pending) /\ irr' = irr \ {l} /\ isr' = isr \cup {l}
  /\ Accept(offset + l)

(* The line fell before the processor answered: the PIC sends its last     *)
(* vector and puts nothing in service.  The timer's output is a square     *)
(* wave; the keyboard's line stays up while its buffer is full.            *)
DeliverSpurious ==
  /\ Timer \in Pending /\ irr' = irr \ {Timer} /\ isr' = isr /\ Accept(offset + Spurious)

(* An exception, in the main line or in a handler, Nesting deep at most.   *)
Fault(v) ==
  /\ idt /\ pc # "asleep" /\ ~Hung /\ Len(frames) < Nesting /\ Enter(v)
  /\ UNCHANGED <<pc, idt, offset, mask, devices, ticks, waiting, since>>

-----------------------------------------------------------------------------
(* The handlers: their body, the end of interrupt, the return.             *)
BumpUncut(t) == t + 1

Bump(t) == (t + 1) % Word

timer_handler ==
  /\ AtStep("timer_handler", "body") /\ ticks' = Bump(ticks) /\ Step("eoi")
  /\ UNCHANGED <<pc, flag, idt, offset, mask, devices, waiting, since>>

keyboard_handler ==
  /\ AtStep("keyboard_handler", "body") /\ full' = FALSE /\ Step("eoi")
  /\ UNCHANGED <<pc, flag, idt, offset, mask, irr, isr, ticks, waiting, since>>

HangsBelow8(int_no) == int_no < 8

(* For an exception hlt and an endless loop, with interrupts off.          *)
Hangs(int_no) == int_no < 32

generic_handler ==
  /\ AtStep("generic_handler", "body") /\ Step(IF Hangs(Top.int_no) THEN "hung" ELSE "eoi")
  /\ UNCHANGED <<pc, flag, idt, offset, mask, devices, ticks, waiting, since>>

AcknowledgeNone(s) == s

(* Not specific: the line of highest priority in service is done.  The     *)
(* slave has no line in service, its end of interrupt does nothing.        *)
Acknowledge(s) == IF s = {} THEN s ELSE s \ {Min(s)}

EndOfInterrupt ==
  /\ frames # <<>> /\ Top.step = "eoi" /\ isr' = Acknowledge(isr) /\ Step("iret")
  /\ UNCHANGED <<pc, flag, idt, offset, mask, irr, full, ticks, waiting, since>>

Iret ==
  /\ frames # <<>> /\ Top.step = "iret" /\ frames' = Tail(frames) /\ flag' = Top.saved
  /\ UNCHANGED <<pc, idt, offset, mask, devices, ticks, waiting, since>>

-----------------------------------------------------------------------------
MainLine ==
  \/ pic_remap \/ pit_set_frequency \/ init_idt_entries \/ Unmask \/ Sti
  \/ (\E ms \in Delays : wait(ms)) \/ Check \/ Hlt
Handlers == timer_handler \/ keyboard_handler \/ generic_handler \/ EndOfInterrupt \/ Iret
Next ==
  \/ MainLine \/ Handlers
  \/ TimerPulse \/ KeyPress
  \/ \E l \in Unmasked : Deliver(l)
  \/ DeliverSpurious
  \/ \E v \in Faults : Fault(v)

Spec == Init /\ [][Next]_vars

(* The processor runs, the timer pulses, and does not always withdraw its  *)
(* pulse before the processor answers.                                     *)
FairSpec ==
  /\ Spec /\ WF_vars(MainLine) /\ WF_vars(Handlers) /\ SF_vars(TimerPulse)
  /\ WF_vars(Deliver(Keyboard)) /\ SF_vars(Deliver(Timer)) /\ WF_vars(DeliverSpurious)

-----------------------------------------------------------------------------
TypeOK ==
  /\ flag \in BOOLEAN /\ full \in BOOLEAN
  /\ irr \subseteq Lines /\ isr \subseteq Lines /\ mask \subseteq Lines
  /\ ticks \in 0..(Word - 1) /\ start \in 0..(Word - 1)

(* A line is in service only while its own handler has still to            *)
(* acknowledge it, entered through its own vector and stub: nothing is     *)
(* left in service when interrupts are on again, whatever the order of     *)
(* interrupts, spurious ones and exceptions, and no acknowledgement is     *)
(* another line's.                                                         *)
InServiceHandled ==
  /\ \A l \in isr : \E i \in 1..Len(frames) :
       /\ frames[i].vector = 32 + l /\ frames[i].step # "iret"
       /\ frames[i].target = IF l = Timer THEN "timer_handler" ELSE "keyboard_handler"
  /\ flag => frames = <<>>

(* The stubs do not drop the error code of an exception, so a handler of   *)
(* one must never return: iret would take the error code for an address.   *)
IretClean == frames # <<>> /\ Top.step = "iret" => Top.vector \notin WithErrorCode

(* wait(ms) returns no earlier than ms - 1 pulses of the timer after the   *)
(* call: one pulse may have been pending when it began.  Ticks wrap.       *)
WaitNotEarly == [][pc = "check" /\ pc' = "run" => elapsed >= asked - 1]_vars

(* wait ends, unless an exception stops the machine: the lost wake-up      *)
(* between the test and the hlt, lost pulses and spurious interrupts delay *)
(* it, and the next pulse repairs that.                                    *)
WaitEnds == pc \in {"check", "hlt", "asleep"} ~> (pc = "run" \/ Hung)

(* A key is read, however busy the timer is: a scancode left in the        *)
(* controller would silence the keyboard for ever.                         *)
KeysServed == full ~> (~full \/ Hung)

=============================================================================
