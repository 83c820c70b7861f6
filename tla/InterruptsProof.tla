--------------------------- MODULE InterruptsProof ---------------------------
(***************************************************************************)
(* Proofs about Interrupts, for every size of the tick counter, every      *)
(* delay, every set of exceptions, any burst of device events and any      *)
(* depth of nesting: interrupts are acknowledged by their own handler, no  *)
(* handler of an exception with an error code returns, and wait is never   *)
(* early.                                                                  *)
(***************************************************************************)
EXTENDS Interrupts, SequenceTheorems, TLAPS

-----------------------------------------------------------------------------
(* The strengthening.                                                      *)

Booting == {"remap", "pit", "idt", "unmask", "sti"}
Waiting == {"check", "hlt", "asleep"}
Targets == {"generic_handler", "timer_handler", "keyboard_handler"}
Steps   == {"body", "hung", "eoi", "iret"}
Frame   == [vector : 0..255, target : Targets, int_no : 0..255, saved : BOOLEAN, step : Steps]
Bottom == frames[Len(frames)]

(* Only the outermost stub can be an interrupt's: the flag is off in it.   *)
(* Those above it are exceptions', and stay.                               *)
FrameOK(f, outermost) ==
  /\ f.int_no = f.vector
  /\ f.vector \in CpuGates => f.target = "generic_handler" /\ f.step \in {"body", "hung"}
  /\ f.vector \notin CpuGates => outermost /\ f.step \in {"body", "eoi", "iret"}

Stack ==
  /\ frames \in Seq(Frame)
  /\ \A i \in 1..Len(frames) : FrameOK(frames[i], i = Len(frames))

Phase ==
  /\ pc \in Booting \cup Waiting \cup {"run"}
  /\ pc # "remap" => offset = 32
  /\ pc \in Booting => ~flag /\ \A i \in 1..Len(frames) : ~frames[i].saved
  /\ flag => frames = <<>>

(* A line in service is that of the outermost stub.                        *)
Service ==
  \A l \in isr :
    /\ l \in Unmasked /\ frames # <<>>
    /\ Bottom.vector = 32 + l /\ Bottom.step \in {"body", "eoi"}
    /\ Bottom.target = IF l = Timer THEN "timer_handler" ELSE "keyboard_handler"

(* A pulse that is latched, or taken and not yet counted, is one tick to   *)
(* come: with it, the ticks since the call are at most one ahead of the    *)
(* pulses since the call.                                                  *)
Counting == frames # <<>> /\ Bottom.target = "timer_handler" /\ Bottom.step = "body"
ToCome == (IF Timer \in irr THEN 1 ELSE 0) + (IF Counting THEN 1 ELSE 0)
Progress ==
  pc \in Waiting => elapsed >= asked \/ ((ticks - start) % Word) + ToCome <= elapsed + 1

Clocks == asked \in Nat /\ elapsed \in Nat

Inv == TypeOK /\ Clocks /\ Stack /\ Phase /\ Service /\ Progress

-----------------------------------------------------------------------------
(* The stack and the clock.                                                *)

(* Pushing a stub.                                                         *)
LEMMA Push ==
  ASSUME NEW S, NEW f \in S, NEW s \in Seq(S)
  PROVE  LET t == <<f>> \o s IN
         /\ t \in Seq(S) /\ t # <<>> /\ Len(t) = Len(s) + 1 /\ t[1] = f
         /\ \A i \in 2..Len(t) : t[i] = s[i - 1]
         /\ s = <<>> => t[Len(t)] = f
         /\ s # <<>> => t[Len(t)] = s[Len(s)]
  BY LenProperties, EmptySeq, ConcatProperties, SMT

(* Replacing the innermost stub.                                           *)
LEMMA Replace ==
  ASSUME NEW S, NEW f \in S, NEW s \in Seq(S), s # <<>>
  PROVE  LET t == <<f>> \o Tail(s) IN
         /\ t \in Seq(S) /\ t # <<>> /\ Len(t) = Len(s) /\ t[1] = f
         /\ \A i \in 2..Len(t) : t[i] = s[i]
  BY LenProperties, EmptySeq, HeadTailProperties, ConcatProperties, SMT

(* The difference of two tick counts, when the later one advances.         *)
LEMMA NextTick ==
  ASSUME NEW W \in Nat \ {0}, NEW t \in 0..W - 1, NEW s \in 0..W - 1
  PROVE  /\ (t + 1) % W \in 0..W - 1
         /\ (t - s) % W \in 0..W - 1
         /\ (((t + 1) % W) - s) % W <= ((t - s) % W) + 1
  BY SMT

(* The stub behind each of the gates the model enters.                     *)
LEMMA GateKinds ==
  ASSUME NEW v \in 0..255
  PROVE  /\ Gate(v).target \in Targets /\ Gate(v).int_no = v
         /\ v \in CpuGates => Gate(v).target = "generic_handler"
         /\ v = 32 => Gate(v).target = "timer_handler"
         /\ v = 33 => Gate(v).target = "keyboard_handler"
         /\ v = 39 => Gate(v).target = "generic_handler"
  <1>1. /\ v \in CpuGates \/ v \in IrqGates \/ v \in UnusedGates
        /\ v \in IrqGates => v \notin CpuGates
        /\ v \in UnusedGates => v \notin CpuGates /\ v \notin IrqGates
        /\ v \in CpuGates => v # 32 /\ v # 33 /\ v # 39
        /\ v \in UnusedGates => v # 32 /\ v # 33 /\ v # 39
    BY DEF CpuGates, IrqGates, UnusedGates
  <1>2. CASE v \in CpuGates
    <2>1. Gate(v) = CpuStub(v)
      BY <1>1, <1>2, Zenon DEF Gate
    <2> QED
      BY <1>1, <1>2, <2>1 DEF CpuStub, Stub, Targets
  <1>3. CASE v \in IrqGates
    <2>1. Gate(v) = IrqStub(v)
      BY <1>1, <1>3, Zenon DEF Gate
    <2> QED
      BY <1>1, <1>3, <2>1 DEF IrqStub, Stub, Targets
  <1>4. CASE v \in UnusedGates
    <2>1. Gate(v) = UnusedStub(v)
      BY <1>1, <1>4, Zenon DEF Gate
    <2> QED
      BY <1>1, <1>4, <2>1 DEF UnusedStub, Stub, Targets
  <1> QED
    BY <1>1, <1>2, <1>3, <1>4

(* Entering a gate: an exception's, or an interrupt's on an empty stack.   *)
LEMMA EnterStack ==
  ASSUME Stack, flag \in BOOLEAN, NEW v \in 0..255, Enter(v), v \in CpuGates \/ frames = <<>>
  PROVE  /\ Stack' /\ frames' # <<>> /\ ~flag'
         /\ Len(frames') = Len(frames) + 1
         /\ frames'[1].saved = flag
         /\ \A i \in 2..Len(frames') : frames'[i] = frames[i - 1]
         /\ frames = <<>> =>
              Bottom'.vector = v /\ Bottom'.target = Gate(v).target /\ Bottom'.step = "body"
         /\ frames # <<>> => Bottom' = Bottom
  <1> DEFINE f == [vector |-> v, target |-> Gate(v).target, int_no |-> Gate(v).int_no,
                   saved |-> flag, step |-> "body"]
  <1>1. f \in Frame
    <2>1. Gate(v).target \in Targets /\ Gate(v).int_no \in 0..255
      BY GateKinds
    <2>2. "body" \in Steps
      BY DEF Steps
    <2> QED
      BY <2>1, <2>2, Zenon DEF Frame
  <1>2. frames' = <<f>> \o frames /\ ~flag'
    BY DEF Enter
  <1>3. /\ frames' \in Seq(Frame) /\ frames' # <<>> /\ Len(frames') = Len(frames) + 1
        /\ frames'[1] = f /\ \A i \in 2..Len(frames') : frames'[i] = frames[i - 1]
        /\ frames = <<>> => frames'[Len(frames')] = f
        /\ frames # <<>> => frames'[Len(frames')] = frames[Len(frames)]
    <2> HIDE DEF f
    <2>1. frames \in Seq(Frame)
      BY DEF Stack
    <2> QED
      BY <1>1, <1>2, <2>1, Push
  <1>4. Len(frames) \in Nat /\ (frames = <<>> => Len(frames) = 0)
    BY LenProperties, EmptySeq DEF Stack
  <1>5. FrameOK(f, 1 = Len(frames'))
    <2>1. v \notin CpuGates => 1 = Len(frames')
      BY <1>3, <1>4
    <2> QED
      BY <2>1, GateKinds DEF FrameOK
  <1>6. ASSUME NEW i \in 1..Len(frames') PROVE FrameOK(frames'[i], i = Len(frames'))
    <2>1. CASE i = 1
      BY <1>3, <1>5, <2>1
    <2>2. CASE i # 1
      <3>1. i \in 2..Len(frames') /\ i - 1 \in 1..Len(frames)
        BY <1>3, <1>4, <2>2
      <3>2. FrameOK(frames[i - 1], i - 1 = Len(frames))
        BY <3>1 DEF Stack
      <3>3. (i - 1 = Len(frames)) = (i = Len(frames'))
        BY <1>3, <1>4, <3>1
      <3> QED
        BY <1>3, <3>1, <3>2, <3>3
    <2> QED
      BY <2>1, <2>2
  <1> QED
    BY <1>2, <1>3, <1>6 DEF Stack, Bottom

(* A handler's step on the innermost stub.                                 *)
LEMMA StepStack ==
  ASSUME Stack, frames # <<>>, NEW s \in Steps, Step(s), FrameOK([Top EXCEPT !.step = s], 1 = Len(frames))
  PROVE  /\ Stack' /\ frames' # <<>> /\ Len(frames') = Len(frames)
         /\ frames'[1] = [Top EXCEPT !.step = s] /\ Top = frames[1]
         /\ \A i \in 2..Len(frames') : frames'[i] = frames[i]
  <1>1. frames \in Seq(Frame) /\ Top \in Frame /\ Top = frames[1]
    BY HeadTailProperties DEF Stack, Top
  <1> DEFINE f == [Top EXCEPT !.step = s]
  <1>2. f \in Frame
    BY <1>1 DEF Frame
  <1>3. frames' = <<f>> \o Tail(frames)
    BY DEF Step
  <1>4. /\ frames' \in Seq(Frame) /\ frames' # <<>> /\ Len(frames') = Len(frames)
        /\ frames'[1] = f /\ \A i \in 2..Len(frames') : frames'[i] = frames[i]
    <2> HIDE DEF f
    <2> QED
      BY <1>1, <1>2, <1>3, Replace
  <1>5. ASSUME NEW i \in 1..Len(frames') PROVE FrameOK(frames'[i], i = Len(frames'))
    <2>1. CASE i = 1
      BY <1>4, <2>1
    <2>2. CASE i # 1
      <3>1. i \in 2..Len(frames') /\ i \in 1..Len(frames)
        BY <1>4, <2>2
      <3> QED
        BY <1>4, <3>1 DEF Stack
    <2> QED
      BY <2>1, <2>2
  <1> QED
    BY <1>1, <1>4, <1>5 DEF Stack

(* An empty stack, and nothing in service.                                 *)
LEMMA EmptyStack ==
  ASSUME frames' = <<>>, isr' = {}
  PROVE  Stack' /\ Service' /\ Counting' = FALSE
  <1>1. frames' \in Seq(Frame) /\ Len(frames') = 0
    BY EmptySeq
  <1> QED
    BY <1>1 DEF Stack, Service, Counting

(* With an empty stack nothing is in service.                              *)
LEMMA NothingInService ==
  ASSUME Service, frames = <<>>
  PROVE  isr = {}
  BY DEF Service

(* A line is in service only together with the outermost stub.             *)
LEMMA SameStack ==
  ASSUME Stack, Service, frames' = frames, isr' = isr
  PROVE  Stack' /\ Service' /\ Counting' = Counting
  BY DEF Stack, Service, Counting, Bottom

-----------------------------------------------------------------------------
(* The invariant holds at the start and is kept by each action.            *)

LEMMA InitInv ==
  ASSUME Init
  PROVE  Inv
  <1>1. frames \in Seq(Frame) /\ Len(frames) = 0
    BY EmptySeq DEF Init
  <1>2. TypeOK /\ Clocks
    <2>1. irr \subseteq Lines /\ isr \subseteq Lines /\ mask \subseteq Lines
      BY DEF Init, Lines
    <2>2. flag \in BOOLEAN /\ full \in BOOLEAN
      BY DEF Init
    <2>3. 0 \in 0..(Word - 1)
      BY InterruptsAssumption
    <2> QED
      BY <2>1, <2>2, <2>3 DEF Init, TypeOK, Clocks
  <1>3. Stack /\ Phase /\ Service /\ Progress
    BY <1>1 DEF Init, Stack, Phase, Service, Progress, Booting, Waiting
  <1> QED
    BY <1>2, <1>3 DEF Inv

(* The boot code, before it enables interrupts.                            *)
LEMMA BootKeepsInv ==
  ASSUME Inv, pic_remap \/ pit_set_frequency \/ init_idt_entries \/ Unmask
  PROVE  Inv'
  <1>1. /\ frames = <<>> /\ frames' = <<>> /\ pc \in Booting /\ pc' \in Booting \ {"remap"}
        /\ flag' = flag /\ offset' = 32 /\ ticks' = ticks /\ start' = start /\ full' = full
        /\ asked' = asked /\ elapsed' = elapsed
    BY DEF pic_remap, pit_set_frequency, init_idt_entries, Unmask, Main, devices, waiting, Inv, Phase, Booting
  <1>2. isr' = {}
    BY <1>1, NothingInService
       DEF pic_remap, pit_set_frequency, init_idt_entries, Unmask, devices, Inv
  <1>3. TypeOK' /\ Clocks'
    BY <1>1, <1>2 DEF pic_remap, pit_set_frequency, init_idt_entries, Unmask, devices, Inv,
         TypeOK, Clocks, Lines, Timer, Keyboard, Serial, Unmasked
  <1>4. Stack' /\ Service'
    BY <1>1, <1>2, EmptyStack
  <1>5. Phase'
    <2>1. Len(frames') = 0
      BY <1>1
    <2> QED
      BY <1>1, <2>1 DEF Inv, Phase, Booting, Waiting
  <1>6. Progress'
    BY <1>1 DEF Progress, Booting, Waiting
  <1> QED
    BY <1>3, <1>4, <1>5, <1>6 DEF Inv

(* sti, wait, its test and its hlt.                                        *)
LEMMA WaitKeepsInv ==
  ASSUME Inv, Sti \/ (\E ms \in Delays : wait(ms)) \/ Check \/ Hlt
  PROVE  Inv'
  <1>1. /\ frames = <<>> /\ frames' = <<>> /\ pc # "remap" /\ pc' \in Waiting \cup {"run"}
        /\ offset' = offset /\ ticks' = ticks /\ full' = full /\ irr' = irr /\ isr' = isr
        /\ mask' = mask /\ flag' \in BOOLEAN
    BY DEF Sti, wait, Check, Hlt, Main, devices, Inv, TypeOK, Waiting
  <1>2. isr' = {}
    BY <1>1, NothingInService DEF Inv
  <1>3. Stack' /\ Service' /\ Counting' = FALSE
    BY <1>1, <1>2, EmptyStack
  <1>4. Phase'
    <2>1. Len(frames') = 0
      BY <1>1
    <2> QED
      BY <1>1, <2>1 DEF Inv, Phase, Booting, Waiting
  <1>5. Word \in Nat \ {0} /\ ticks \in 0..(Word - 1) /\ start \in 0..(Word - 1) /\ Clocks
    BY InterruptsAssumption DEF Inv, TypeOK
  <1>6. start' \in 0..(Word - 1) /\ Clocks'
    <2>1. CASE \E ms \in Delays : wait(ms)
      BY <1>5, <2>1, InterruptsAssumption DEF wait, Clocks
    <2>2. CASE Sti \/ Check \/ Hlt
      BY <1>5, <2>2 DEF Sti, Check, Hlt, Clocks, waiting
    <2> QED
      BY <2>1, <2>2
  <1>7. TypeOK'
    BY <1>1, <1>2, <1>6 DEF Inv, TypeOK
  <1>8. Progress'
    <2>1. CASE \E ms \in Delays : wait(ms)
      <3>1. start' = ticks' /\ elapsed' = 0
        BY <1>1, <2>1 DEF wait
      <3>2. (ticks' - start') % Word = 0
        BY <1>1, <1>5, <3>1
      <3>3. ToCome' <= 1
        BY <1>3 DEF ToCome
      <3>4. ToCome' \in Nat
        BY DEF ToCome
      <3> QED
        BY <3>1, <3>2, <3>3, <3>4 DEF Progress
    <2>2. CASE Sti \/ Check \/ Hlt
      <3>1. pc' \in Waiting => pc \in Waiting /\ UNCHANGED waiting
        BY <2>2 DEF Sti, Check, Hlt, Main, Waiting
      <3>2. ToCome' = ToCome
        BY <1>1, <1>3 DEF ToCome, Counting
      <3> QED
        BY <1>1, <3>1, <3>2 DEF Inv, Progress, waiting
    <2> QED
      BY <2>1, <2>2
  <1> QED
    BY <1>3, <1>4, <1>6, <1>7, <1>8 DEF Inv

(* The devices.                                                            *)
LEMMA PulseKeepsInv ==
  ASSUME Inv, TimerPulse
  PROVE  Inv'
  <1>1. /\ irr' = irr \cup {Timer}
        /\ UNCHANGED <<pc, flag, idt, offset, mask, isr, full, ticks, frames, start, asked>>
    BY DEF TimerPulse
  <1>2. elapsed' \in Nat /\ (elapsed' = elapsed + 1 \/ elapsed' >= asked)
    <2>1. elapsed' = Min({elapsed + 1, asked}) /\ elapsed \in Nat /\ asked \in Nat
      BY DEF TimerPulse, Inv, Clocks
    <2>2. PICK m \in {elapsed + 1, asked} : \A y \in {elapsed + 1, asked} : m <= y
      BY <2>1
    <2>3. elapsed' \in {elapsed + 1, asked}
      BY <2>1, <2>2 DEF Min
    <2> QED
      BY <2>1, <2>3
  <1>3. TypeOK' /\ Clocks'
    BY <1>1, <1>2 DEF Inv, TypeOK, Clocks, Lines
  <1>4. Stack' /\ Service' /\ Counting' = Counting
    BY <1>1, SameStack DEF Inv
  <1>5. Phase'
    BY <1>1 DEF Inv, Phase
  <1>6. Progress'
    <2>1. ToCome' <= ToCome + 1 /\ ToCome \in Nat /\ ToCome' \in Nat
      BY <1>1, <1>4 DEF ToCome
    <2>2. (ticks - start) % Word \in Nat
      BY NextTick, InterruptsAssumption DEF Inv, TypeOK
    <2> QED
      BY <1>1, <1>2, <2>1, <2>2 DEF Inv, Progress, Clocks
  <1> QED
    BY <1>3, <1>4, <1>5, <1>6 DEF Inv

LEMMA KeyKeepsInv ==
  ASSUME Inv, KeyPress
  PROVE  Inv'
  <1>1. /\ irr' = irr \cup {Keyboard} /\ full' = TRUE
        /\ UNCHANGED <<pc, flag, idt, offset, mask, isr, ticks, frames, start, asked, elapsed>>
    BY DEF KeyPress, waiting
  <1>2. TypeOK' /\ Clocks'
    BY <1>1 DEF Inv, TypeOK, Clocks, Lines
  <1>3. Stack' /\ Service' /\ Counting' = Counting
    BY <1>1, SameStack DEF Inv
  <1>4. Phase'
    BY <1>1 DEF Inv, Phase
  <1>5. ToCome' = ToCome
    BY <1>1, <1>3 DEF ToCome, Timer, Keyboard
  <1>6. Progress'
    BY <1>1, <1>5 DEF Inv, Progress
  <1> QED
    BY <1>2, <1>3, <1>4, <1>6 DEF Inv

(* Taking an interrupt: a line's, or a spurious one.  Only where the flag  *)
(* is on, so on an empty stack with nothing in service.                    *)
LEMMA AcceptKeepsInv ==
  ASSUME Inv, NEW l \in {Timer, Keyboard, Spurious}, Accept(offset + l),
         \/ l \in irr /\ irr' = irr \ {l} /\ isr' = isr \cup {l} /\ l # Spurious
         \/ l = Spurious /\ Timer \in irr /\ irr' = irr \ {Timer} /\ isr' = isr
  PROVE  Inv'
  <1>1. /\ flag /\ Enter(offset + l) /\ pc' = (IF pc = "asleep" THEN "check" ELSE pc)
        /\ UNCHANGED <<idt, offset, mask, full, ticks, start, asked, elapsed>>
    BY DEF Accept, waiting
  <1>2. /\ frames = <<>> /\ pc \in Waiting \cup {"run"} /\ offset = 32
        /\ offset + l \in 0..255 /\ offset + l \notin CpuGates
    <2>1. frames = <<>> /\ pc \in Waiting \cup {"run"} /\ offset = 32
      BY <1>1 DEF Inv, Phase, Booting, Waiting
    <2>2. l \in {0, 1, 7}
      BY DEF Timer, Keyboard, Spurious
    <2> QED
      BY <2>1, <2>2 DEF CpuGates
  <1>3. isr = {}
    BY <1>2, NothingInService DEF Inv
  <1>4. /\ Stack' /\ frames' # <<>> /\ ~flag'
        /\ Bottom'.vector = 32 + l /\ Bottom'.target = Gate(32 + l).target /\ Bottom'.step = "body"
    BY <1>1, <1>2, EnterStack DEF Inv, TypeOK
  <1>5. Bottom'.target = IF l = Timer THEN "timer_handler"
                         ELSE IF l = Keyboard THEN "keyboard_handler" ELSE "generic_handler"
    <2>1. /\ 32 \in 0..255 /\ 33 \in 0..255 /\ 39 \in 0..255
          /\ 32 + Timer = 32 /\ 32 + Keyboard = 33 /\ 32 + Spurious = 39 /\ Keyboard # Timer
          /\ Spurious # Timer /\ Spurious # Keyboard
      BY DEF Timer, Keyboard, Spurious
    <2>2. CASE l = Timer
      BY <1>4, <2>1, <2>2, GateKinds
    <2>3. CASE l = Keyboard
      BY <1>4, <2>1, <2>3, GateKinds
    <2>4. CASE l = Spurious
      BY <1>4, <2>1, <2>4, GateKinds
    <2> QED
      BY <2>2, <2>3, <2>4
  <1>6. Service'
    BY <1>3, <1>4, <1>5 DEF Service, Unmasked, Timer, Keyboard, Spurious
  <1>7. Phase'
    BY <1>1, <1>2, <1>4 DEF Inv, Phase, Booting, Waiting
  <1>8. TypeOK' /\ Clocks'
    <2>1. irr' \subseteq Lines /\ isr' \subseteq Lines
      BY <1>3 DEF Inv, TypeOK, Lines, Timer, Keyboard, Spurious
    <2>2. flag' \in BOOLEAN
      BY <1>1 DEF Enter
    <2> QED
      BY <1>1, <2>1, <2>2 DEF Inv, TypeOK, Clocks
  <1>9. Progress'
    <2>1. Counting = FALSE
      BY <1>2 DEF Counting
    <2>2. Counting' <=> l = Timer
      BY <1>4, <1>5 DEF Counting, Timer, Keyboard, Spurious
    <2>3. ToCome' <= ToCome /\ ToCome \in Nat /\ ToCome' \in Nat
      BY <2>1, <2>2 DEF ToCome, Timer, Keyboard, Spurious
    <2>4. (ticks - start) % Word \in Nat
      BY NextTick, InterruptsAssumption DEF Inv, TypeOK
    <2>5. pc' \in Waiting => pc \in Waiting
      BY <1>1 DEF Waiting
    <2> QED
      BY <1>1, <2>3, <2>4, <2>5 DEF Inv, Progress, Clocks
  <1> QED
    BY <1>4, <1>6, <1>7, <1>8, <1>9 DEF Inv

(* An exception, on any stack.                                             *)
LEMMA FaultKeepsInv ==
  ASSUME Inv, NEW v \in Faults, Fault(v)
  PROVE  Inv'
  <1>1. /\ Enter(v) /\ UNCHANGED <<pc, idt, offset, mask, full, irr, isr, ticks, start, asked, elapsed>>
    BY DEF Fault, devices, waiting
  <1>2. v \in CpuGates /\ v \in 0..255
    BY InterruptsAssumption DEF CpuGates
  <1>3. /\ Stack' /\ frames' # <<>> /\ ~flag' /\ Len(frames') = Len(frames) + 1
        /\ frames'[1].saved = flag
        /\ \A i \in 2..Len(frames') : frames'[i] = frames[i - 1]
        /\ frames = <<>> => Bottom'.target = Gate(v).target
        /\ frames # <<>> => Bottom' = Bottom
    BY <1>1, <1>2, EnterStack DEF Inv, TypeOK
  <1>4. Service'
    BY <1>1, <1>3 DEF Inv, Service
  <1>5. Phase'
    <2>1. Len(frames) \in Nat
      BY LenProperties DEF Inv, Stack
    <2>2. ASSUME pc \in Booting, NEW i \in 1..Len(frames') PROVE ~frames'[i].saved
      <3>1. CASE i = 1
        BY <1>3, <2>2, <3>1 DEF Inv, Phase
      <3>2. CASE i # 1
        <4>1. i \in 2..Len(frames') /\ i - 1 \in 1..Len(frames)
          BY <1>3, <2>1, <3>2
        <4> QED
          BY <1>3, <2>2, <4>1 DEF Inv, Phase
      <3> QED
        BY <3>1, <3>2
    <2> QED
      BY <1>1, <1>3, <2>2 DEF Inv, Phase
  <1>6. TypeOK' /\ Clocks'
    <2>1. flag' \in BOOLEAN
      BY <1>1 DEF Enter
    <2> QED
      BY <1>1, <2>1 DEF Inv, TypeOK, Clocks
  <1>7. Progress'
    <2>1. Gate(v).target = "generic_handler"
      BY <1>2, GateKinds
    <2>2. Counting' <=> Counting
      BY <1>3, <2>1 DEF Counting
    <2>3. ToCome' = ToCome
      BY <1>1, <2>2 DEF ToCome
    <2> QED
      BY <1>1, <2>3 DEF Inv, Progress
  <1> QED
    BY <1>3, <1>4, <1>5, <1>6, <1>7 DEF Inv

(* A step of a handler that changes neither the processor's flag nor what  *)
(* is saved of it.                                                         *)
LEMMA StepPhase ==
  ASSUME Inv, frames # <<>>, NEW s \in Steps, Step(s), Stack', UNCHANGED <<pc, flag, offset>>,
         Len(frames') = Len(frames), frames'[1] = [Top EXCEPT !.step = s], Top = frames[1],
         \A i \in 2..Len(frames') : frames'[i] = frames[i]
  PROVE  Phase'
  <1>1. ~flag
    BY DEF Inv, Phase
  <1>2. Len(frames) \in Nat /\ Len(frames) > 0
    BY LenProperties, EmptySeq DEF Inv, Stack
  <1>3. frames[1] \in Frame
    BY <1>2, ElementOfSeq DEF Inv, Stack
  <1>4. frames'[1].saved = frames[1].saved
    BY <1>3 DEF Frame
  <1>5. ASSUME pc \in Booting, NEW i \in 1..Len(frames') PROVE ~frames'[i].saved
    <2>1. frames'[i].saved = frames[i].saved
      <3>1. CASE i = 1
        BY <1>4, <3>1
      <3>2. CASE i # 1
        <4>1. i \in 2..Len(frames')
          BY <3>2
        <4> QED
          BY <4>1
      <3> QED
        BY <3>1, <3>2
    <2> QED
      BY <1>5, <2>1 DEF Inv, Phase
  <1> QED
    BY <1>1, <1>5 DEF Inv, Phase

(* The innermost stub.                                                     *)
LEMMA TopStub ==
  ASSUME Inv, frames # <<>>
  PROVE  /\ frames \in Seq(Frame) /\ Len(frames) \in Nat /\ Len(frames) > 0
         /\ Top \in Frame /\ Top = frames[1] /\ FrameOK(Top, 1 = Len(frames))
  <1>1. frames \in Seq(Frame)
    BY DEF Inv, Stack
  <1>2. Len(frames) \in Nat /\ Len(frames) > 0
    BY <1>1, LenProperties, EmptySeq
  <1>3. Top \in Frame /\ Top = frames[1]
    BY <1>1, HeadTailProperties DEF Top
  <1>4. 1 \in 1..Len(frames)
    BY <1>2
  <1>5. FrameOK(frames[1], 1 = Len(frames))
    BY <1>4, Zenon DEF Inv, Stack
  <1> QED
    BY <1>1, <1>2, <1>3, <1>5

(* The bodies of the two handlers of lines: they run in the outermost stub.*)
LEMMA BodyKeepsInv ==
  ASSUME Inv, timer_handler \/ keyboard_handler
  PROVE  Inv'
  <1>1. /\ frames # <<>> /\ Step("eoi") /\ Top.step = "body"
        /\ Top.target \in {"timer_handler", "keyboard_handler"}
        /\ UNCHANGED <<pc, flag, idt, offset, mask, irr, isr, start, asked, elapsed>>
    BY DEF timer_handler, keyboard_handler, AtStep, waiting, devices
  <1>2. /\ Len(frames) \in Nat /\ Len(frames) > 0 /\ Top = frames[1] /\ Top \in Frame
        /\ FrameOK(Top, 1 = Len(frames))
    BY <1>1, TopStub
  <1>3. Top.vector \notin CpuGates /\ Len(frames) = 1 /\ Bottom = Top
    BY <1>1, <1>2 DEF FrameOK, Bottom
  <1> DEFINE f == [Top EXCEPT !.step = "eoi"]
  <1>4. /\ f.vector = Top.vector /\ f.target = Top.target /\ f.int_no = Top.int_no /\ f.step = "eoi"
    BY <1>2 DEF Frame
  <1>5. FrameOK(f, 1 = Len(frames))
    BY <1>2, <1>3, <1>4 DEF FrameOK
  <1>6. "eoi" \in Steps
    BY DEF Steps
  <1>7. /\ Stack' /\ frames' # <<>> /\ Len(frames') = Len(frames) /\ frames'[1] = f
        /\ \A i \in 2..Len(frames') : frames'[i] = frames[i]
    BY <1>1, <1>2, <1>5, <1>6, StepStack DEF Inv
  <1>8. Bottom' = f
    BY <1>3, <1>7 DEF Bottom
  <1>9. Service'
    BY <1>1, <1>3, <1>4, <1>7, <1>8 DEF Inv, Service
  <1>10. Phase'
    BY <1>1, <1>2, <1>6, <1>7, StepPhase
  <1>11. Word \in Nat \ {0} /\ ticks \in 0..(Word - 1) /\ start \in 0..(Word - 1) /\ Clocks
    BY InterruptsAssumption DEF Inv, TypeOK
  <1>12. CASE timer_handler
    <2>1. ticks' = (ticks + 1) % Word /\ full' = full /\ Top.target = "timer_handler"
      BY <1>12 DEF timer_handler, Bump, devices, AtStep
    <2>2. ticks' \in 0..(Word - 1)
      BY <1>11, <2>1, NextTick
    <2>3. TypeOK' /\ Clocks'
      BY <1>1, <2>1, <2>2 DEF Inv, TypeOK, Clocks
    <2>4. Counting /\ Counting' = FALSE
      BY <1>1, <1>3, <1>4, <1>8, <2>1 DEF Counting
    <2>5. ToCome = ToCome' + 1 /\ ToCome' \in Nat
      BY <1>1, <2>4 DEF ToCome
    <2>6. (ticks' - start) % Word <= ((ticks - start) % Word) + 1
      BY <1>11, <2>1, NextTick
    <2>7. (ticks - start) % Word \in Nat /\ (ticks' - start) % Word \in Nat
      <3>1. (ticks - start) % Word \in 0..(Word - 1)
        BY <1>11, NextTick
      <3>2. (ticks' - start) % Word \in 0..(Word - 1)
        BY <1>11, <2>2, NextTick
      <3> QED
        BY <1>11, <3>1, <3>2
    <2>8. Progress'
      BY <1>1, <1>11, <2>5, <2>6, <2>7 DEF Inv, Progress, Clocks
    <2> QED
      BY <1>7, <1>9, <1>10, <2>3, <2>8 DEF Inv
  <1>13. CASE keyboard_handler
    <2>1. ticks' = ticks /\ full' = FALSE /\ Top.target = "keyboard_handler"
      BY <1>13 DEF keyboard_handler, AtStep
    <2>2. TypeOK' /\ Clocks'
      BY <1>1, <2>1 DEF Inv, TypeOK, Clocks
    <2>3. Counting = FALSE /\ Counting' = FALSE
      BY <1>3, <1>4, <1>8, <2>1 DEF Counting
    <2>4. Progress'
      BY <1>1, <2>1, <2>3 DEF Inv, Progress, ToCome
    <2> QED
      BY <1>7, <1>9, <1>10, <2>2, <2>4 DEF Inv
  <1> QED
    BY <1>12, <1>13

(* generic_handler stops the machine for an exception, and otherwise goes  *)
(* on to the end of interrupt, where nothing is in service.                *)
LEMMA GenericKeepsInv ==
  ASSUME Inv, generic_handler
  PROVE  Inv'
  <1> DEFINE s == IF Hangs(Top.int_no) THEN "hung" ELSE "eoi"
             f == [Top EXCEPT !.step = s]
  <1>1. /\ frames # <<>> /\ Step(s) /\ Top.step = "body" /\ Top.target = "generic_handler"
        /\ UNCHANGED <<pc, flag, idt, offset, mask, full, irr, isr, ticks, start, asked, elapsed>>
    BY DEF generic_handler, AtStep, waiting, devices
  <1>2. /\ Len(frames) \in Nat /\ Len(frames) > 0 /\ Top = frames[1] /\ Top \in Frame
        /\ FrameOK(Top, 1 = Len(frames))
    BY <1>1, TopStub
  <1>3. /\ f.vector = Top.vector /\ f.target = Top.target /\ f.int_no = Top.int_no /\ f.step = s
    BY <1>2 DEF Frame
  <1>4. s \in Steps
    BY DEF Steps
  <1>5. FrameOK(f, 1 = Len(frames))
    <2>1. Top.int_no = Top.vector /\ Top.vector \in 0..255
      BY <1>2 DEF FrameOK, Frame
    <2>2. CASE Top.vector \in CpuGates
      <3>1. s = "hung"
        BY <2>1, <2>2 DEF Hangs, CpuGates
      <3> QED
        BY <1>2, <1>3, <2>2, <3>1 DEF FrameOK
    <2>3. CASE Top.vector \notin CpuGates
      <3>1. s = "eoi"
        BY <2>1, <2>3 DEF Hangs, CpuGates
      <3> QED
        BY <1>2, <1>3, <2>3, <3>1 DEF FrameOK
    <2> QED
      BY <2>2, <2>3
  <1>6. /\ Stack' /\ frames' # <<>> /\ Len(frames') = Len(frames) /\ frames'[1] = f
        /\ \A i \in 2..Len(frames') : frames'[i] = frames[i]
    <2> HIDE DEF s
    <2> QED
      BY <1>1, <1>4, <1>5, StepStack DEF Inv
  <1>7. Phase'
    <2> HIDE DEF s
    <2> QED
      BY <1>1, <1>2, <1>4, <1>6, StepPhase
  <1>8. Service' /\ Counting' = Counting
    <2>1. CASE Len(frames) = 1
      <3>1. Bottom = Top /\ Bottom' = f
        BY <1>2, <1>6, <2>1 DEF Bottom
      <3>2. isr = {}
        BY <1>1, <3>1 DEF Inv, Service
      <3> QED
        BY <1>1, <1>3, <3>1, <3>2 DEF Service, Counting
    <2>2. CASE Len(frames) # 1
      <3>1. Len(frames) \in 2..Len(frames')
        BY <1>2, <1>6, <2>2
      <3>2. Bottom' = Bottom
        BY <1>6, <3>1 DEF Bottom
      <3> QED
        BY <1>1, <1>6, <3>2 DEF Inv, Service, Counting
    <2> QED
      BY <2>1, <2>2
  <1>9. TypeOK' /\ Clocks' /\ Progress'
    BY <1>1, <1>8 DEF Inv, TypeOK, Clocks, Progress, ToCome
  <1> QED
    BY <1>6, <1>7, <1>8, <1>9 DEF Inv

(* The end of interrupt ends the only line in service.                     *)
LEMMA AcknowledgeKeepsInv ==
  ASSUME Inv, EndOfInterrupt
  PROVE  Inv'
  <1> DEFINE f == [Top EXCEPT !.step = "iret"]
  <1>1. /\ frames # <<>> /\ Step("iret") /\ Top.step = "eoi" /\ isr' = Acknowledge(isr)
        /\ UNCHANGED <<pc, flag, idt, offset, mask, full, irr, ticks, start, asked, elapsed>>
    BY DEF EndOfInterrupt, waiting
  <1>2. /\ Len(frames) \in Nat /\ Len(frames) > 0 /\ Top = frames[1] /\ Top \in Frame
        /\ FrameOK(Top, 1 = Len(frames))
    BY <1>1, TopStub
  <1>3. Top.vector \notin CpuGates /\ Len(frames) = 1 /\ Bottom = Top
    BY <1>1, <1>2 DEF FrameOK, Bottom
  <1>4. /\ f.vector = Top.vector /\ f.target = Top.target /\ f.int_no = Top.int_no /\ f.step = "iret"
    BY <1>2 DEF Frame
  <1>5. FrameOK(f, 1 = Len(frames)) /\ "iret" \in Steps
    BY <1>2, <1>3, <1>4 DEF FrameOK, Steps
  <1>6. /\ Stack' /\ frames' # <<>> /\ Len(frames') = Len(frames) /\ frames'[1] = f
        /\ \A i \in 2..Len(frames') : frames'[i] = frames[i]
    BY <1>1, <1>5, StepStack DEF Inv
  <1>7. Phase'
    BY <1>1, <1>2, <1>5, <1>6, StepPhase
  <1>8. isr' = {}
    <2>1. CASE isr = {}
      BY <1>1, <2>1 DEF Acknowledge
    <2>2. CASE isr # {}
      <3>1. PICK l \in isr : TRUE
        BY <2>2
      <3>2. \A k \in isr : k \in Unmasked /\ Bottom.vector = 32 + k
        BY DEF Inv, Service
      <3>3. \A k \in isr : k = l
        BY <3>1, <3>2 DEF Unmasked, Timer, Keyboard
      <3>4. Min(isr) = l
        <4>1. l \in Nat
          BY <3>1, <3>2 DEF Unmasked, Timer, Keyboard
        <4>2. \E k \in isr : \A j \in isr : k <= j
          BY <3>1, <3>3, <4>1
        <4> QED
          BY <3>3, <4>2 DEF Min
      <3> QED
        BY <1>1, <2>2, <3>3, <3>4 DEF Acknowledge
    <2> QED
      BY <2>1, <2>2
  <1>9. Service' /\ Counting = FALSE /\ Counting' = FALSE
    <2>1. Bottom' = f
      BY <1>3, <1>6 DEF Bottom
    <2> QED
      BY <1>1, <1>3, <1>4, <1>8, <2>1 DEF Service, Counting
  <1>10. TypeOK' /\ Clocks'
    BY <1>1, <1>8 DEF Inv, TypeOK, Clocks
  <1>11. Progress'
    BY <1>1, <1>9 DEF Inv, Progress, ToCome
  <1> QED
    BY <1>6, <1>7, <1>9, <1>10, <1>11 DEF Inv

(* The return restores the flag on an empty stack.                         *)
LEMMA ReturnKeepsInv ==
  ASSUME Inv, Iret
  PROVE  Inv'
  <1>1. /\ frames # <<>> /\ Top.step = "iret" /\ frames' = Tail(frames) /\ flag' = Top.saved
        /\ UNCHANGED <<pc, idt, offset, mask, full, irr, isr, ticks, start, asked, elapsed>>
    BY DEF Iret, waiting, devices
  <1>2. /\ Len(frames) \in Nat /\ Len(frames) > 0 /\ Top = frames[1] /\ Top \in Frame
        /\ FrameOK(Top, 1 = Len(frames)) /\ frames \in Seq(Frame)
    BY <1>1, TopStub
  <1>3. Top.vector \notin CpuGates /\ Len(frames) = 1 /\ Bottom = Top
    BY <1>1, <1>2 DEF FrameOK, Bottom
  <1>4. frames' = <<>>
    <2>1. frames' \in Seq(Frame) /\ Len(frames') = 0
      BY <1>1, <1>2, <1>3, HeadTailProperties
    <2> QED
      BY <2>1, EmptySeq
  <1>5. isr' = {}
    BY <1>1, <1>3 DEF Inv, Service
  <1>6. Stack' /\ Service' /\ Counting' = FALSE
    BY <1>4, <1>5, EmptyStack
  <1>7. Phase'
    <2>1. Len(frames') = 0 /\ 1 \in 1..Len(frames)
      BY <1>2, <1>4
    <2>2. pc \in Booting => ~flag'
      BY <1>1, <1>2, <2>1 DEF Inv, Phase
    <2> QED
      BY <1>1, <1>4, <2>1, <2>2 DEF Inv, Phase
  <1>8. TypeOK' /\ Clocks'
    <2>1. flag' \in BOOLEAN
      BY <1>1, <1>2 DEF Frame
    <2> QED
      BY <1>1, <2>1 DEF Inv, TypeOK, Clocks
  <1>9. Progress'
    <2>1. Counting = FALSE
      BY <1>1, <1>3 DEF Counting
    <2> QED
      BY <1>1, <1>6, <2>1 DEF Inv, Progress, ToCome
  <1> QED
    BY <1>6, <1>7, <1>8, <1>9 DEF Inv

LEMMA StutterKeepsInv ==
  ASSUME Inv, UNCHANGED vars
  PROVE  Inv'
  <1>1. UNCHANGED <<pc, flag, offset, mask, irr, isr, full, ticks, frames, start, asked, elapsed>>
    BY DEF vars
  <1>2. Stack' /\ Service' /\ Counting' = Counting
    BY <1>1, SameStack DEF Inv
  <1> QED
    BY <1>1, <1>2 DEF Inv, TypeOK, Clocks, Phase, Progress, ToCome

LEMMA NextKeepsInv ==
  ASSUME Inv, [Next]_vars
  PROVE  Inv'
  <1>1. CASE MainLine
    BY <1>1, BootKeepsInv, WaitKeepsInv DEF MainLine
  <1>2. CASE Handlers
    BY <1>2, BodyKeepsInv, GenericKeepsInv, AcknowledgeKeepsInv, ReturnKeepsInv DEF Handlers
  <1>3. CASE TimerPulse
    BY <1>3, PulseKeepsInv
  <1>4. CASE KeyPress
    BY <1>4, KeyKeepsInv
  <1>5. ASSUME NEW l \in Unmasked, Deliver(l) PROVE Inv'
    <2>1. l \in {Timer, Keyboard, Spurious} /\ l # Spurious
      BY DEF Unmasked, Timer, Keyboard, Spurious
    <2>2. l \in irr
      <3>1. l = Min(Pending) /\ Pending # {} /\ \A k \in Pending : k \in irr /\ k \in Nat
        BY <1>5 DEF Deliver, Pending, Inv, TypeOK, Lines, Timer, Keyboard, Serial
      <3>2. \E k \in Pending : \A j \in Pending : k <= j
        <4>1. Pending \subseteq {0, 1, 4}
          BY DEF Pending, Inv, TypeOK, Lines, Timer, Keyboard, Serial
        <4>2. CASE 0 \in Pending
          BY <4>1, <4>2
        <4>3. CASE 0 \notin Pending /\ 1 \in Pending
          BY <4>1, <4>3
        <4>4. CASE 0 \notin Pending /\ 1 \notin Pending
          <5>1. \A j \in Pending : j = 4
            BY <4>1, <4>4
          <5> QED
            BY <3>1, <5>1
        <4> QED
          BY <4>2, <4>3, <4>4
      <3> QED
        BY <3>1, <3>2 DEF Min
    <2> QED
      BY <1>5, <2>1, <2>2, AcceptKeepsInv DEF Deliver
  <1>6. CASE DeliverSpurious
    BY <1>6, AcceptKeepsInv DEF DeliverSpurious, Pending
  <1>7. ASSUME NEW v \in Faults, Fault(v) PROVE Inv'
    BY <1>7, FaultKeepsInv
  <1>8. CASE UNCHANGED vars
    BY <1>8, StutterKeepsInv
  <1> QED
    BY <1>1, <1>2, <1>3, <1>4, <1>5, <1>6, <1>7, <1>8 DEF Next

-----------------------------------------------------------------------------
(* The theorems.                                                           *)

LEMMA Invariance == Spec => []Inv
  <1>1. Init => Inv
    BY InitInv
  <1>2. Inv /\ [Next]_vars => Inv'
    BY NextKeepsInv
  <1> QED
    BY <1>1, <1>2, PTL DEF Spec

(* The variables keep their types; ticks stays below Word.                 *)
THEOREM Typing == Spec => []TypeOK
  <1>1. Inv => TypeOK
    BY DEF Inv
  <1> QED
    BY <1>1, Invariance, PTL

(* Whatever interrupts, spurious interrupts and exceptions strike, a line  *)
(* in service is acknowledged by its own handler, and nothing is left in   *)
(* service when interrupts are on.                                         *)
THEOREM Handled == Spec => []InServiceHandled
  <1>1. ASSUME Inv PROVE InServiceHandled
    <2>1. ASSUME NEW l \in isr
          PROVE  \E i \in 1..Len(frames) :
                   /\ frames[i].vector = 32 + l /\ frames[i].step # "iret"
                   /\ frames[i].target = IF l = Timer THEN "timer_handler" ELSE "keyboard_handler"
      <3>1. /\ frames # <<>> /\ Bottom.vector = 32 + l /\ Bottom.step \in {"body", "eoi"}
            /\ Bottom.target = IF l = Timer THEN "timer_handler" ELSE "keyboard_handler"
        BY <1>1 DEF Inv, Service
      <3>2. Len(frames) \in 1..Len(frames)
        BY <1>1, <3>1, TopStub
      <3> QED
        BY <3>1, <3>2 DEF Bottom
    <2>2. flag => frames = <<>>
      BY <1>1 DEF Inv, Phase
    <2> QED
      BY <2>1, <2>2 DEF InServiceHandled
  <1> QED
    BY <1>1, Invariance, PTL

(* No handler of an exception with an error code gets to its iret.         *)
THEOREM Clean == Spec => []IretClean
  <1>1. ASSUME Inv PROVE IretClean
    <2>1. SUFFICES ASSUME frames # <<>>, Top.step = "iret" PROVE Top.vector \notin WithErrorCode
      BY DEF IretClean
    <2>2. FrameOK(Top, 1 = Len(frames))
      BY <1>1, <2>1, TopStub
    <2>3. Top.vector \notin CpuGates
      BY <2>1, <2>2 DEF FrameOK
    <2> QED
      BY <2>3 DEF WithErrorCode, CpuGates
  <1> QED
    BY <1>1, Invariance, PTL

(* wait(ms) never returns before ms - 1 pulses, also when ticks wraps.     *)
THEOREM NotEarly == Spec => WaitNotEarly
  <1>1. ASSUME Inv, [Next]_vars PROVE [pc = "check" /\ pc' = "run" => elapsed >= asked - 1]_vars
    <2>1. SUFFICES ASSUME Next, pc = "check", pc' = "run" PROVE elapsed >= asked - 1
      BY <1>1
    <2>2. Check
      BY <2>1 DEF Next, MainLine, Handlers, pic_remap, pit_set_frequency, init_idt_entries, Unmask,
           Sti, wait, Hlt, Main, TimerPulse, KeyPress, Deliver, DeliverSpurious, Accept, Fault,
           timer_handler, keyboard_handler, generic_handler, EndOfInterrupt, Iret
    <2>3. (ticks - start) % Word >= asked
      BY <2>1, <2>2 DEF Check, Expired, Main
    <2>4. (ticks - start) % Word \in 0..(Word - 1) /\ Word \in Nat
      BY <1>1, NextTick, InterruptsAssumption DEF Inv, TypeOK
    <2>5. ToCome \in Nat
      BY DEF ToCome
    <2> QED
      BY <1>1, <2>1, <2>3, <2>4, <2>5 DEF Inv, Progress, Waiting, Clocks
  <1> QED
    BY <1>1, Invariance, PTL DEF Spec, WaitNotEarly

=============================================================================
