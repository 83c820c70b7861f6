-------------------------------- MODULE Ehci --------------------------------
(***************************************************************************)
(* The EHCI driver (drivers/USB_EHCI): bind_device_pci resets the          *)
(* controller, gives it its two schedules, asks the BIOS for it, starts it *)
(* and looks at its ports.  Registers are sets of bit numbers.  The driver *)
(* uses bit numbers for masks: USBCMD_ASE | USBCMD_PSE is 5 | 4, which is  *)
(* bits 0 and 2.  The controller is external: it obeys the command         *)
(* register in its own time.  There is no paging: a null allocation is the *)
(* memory at address 0, the same for all of them.                          *)
(***************************************************************************)
EXTENDS Integers, FiniteSets

CONSTANTS
  NumPorts,     \* ports of the controller
  PowerControl, \* hcsparams says that it switches their power
  Stores,       \* what the words of low memory may hold: sets of bits
  Legacies      \* what the dword the driver takes for USBLEGSUP may hold,
                \* and whether the BIOS has the controller and answers

VARIABLES
  step, port,        \* where bind_device_pci is, the port it looks at
  usbcmd, halted,    \* the controller: its command register, and its state
  mastering,         \* the PCI command word lets it reach memory
  periodiclistbase, asynclistaddr,   \* the blocks it was given
  configflag,
  pointers,          \* where the three allocations are
  memory,            \* what these blocks hold
  legacy,            \* the dword at eecp + USBLEGSUP, who has the controller
  stores,            \* the words the driver takes for the port registers
  powered            \* the ports it reports as powered on

ehci == <<step, port, usbcmd, halted, mastering, periodiclistbase, asynclistaddr, configflag,
          pointers, memory, legacy, stores, powered>>

\* usbcmd
RUN == 0
HCRESET == 1
FrameListBit == 2
PSE == 4
ASE == 5

MaskOfBits == {PSE, ASE}

(* USBCMD_ASE | USBCMD_PSE, and USBCMD_RUN, which is 0, as masks.          *)
ScheduleMask == {RUN, FrameListBit}
RunMask == {}

Blocks == {"periodic_list", "async_qh", "periodic_qh"}
Ports == 0..NumPorts - 1

Absentee == [capable |-> FALSE, dword |-> {}, writable |-> {}, settles |-> FALSE, bios |-> FALSE]
EhciInit ==
  /\ step = "absent" /\ port = 0 /\ usbcmd = {} /\ halted = TRUE /\ mastering = FALSE
  /\ periodiclistbase = "none" /\ asynclistaddr = "none" /\ configflag = FALSE
  /\ pointers = [b \in Blocks |-> b] /\ memory = [a \in Blocks \cup {"zero"} |-> "other"]
  /\ legacy = Absentee /\ stores = [i \in Ports |-> {}] /\ powered = {}

(* init_devices finds a controller of class 0C03 as the BIOS left it.      *)
Found ==
  /\ step = "absent" /\ step' = "probe"
  /\ usbcmd' \in {{}, {RUN, PSE, ASE}} /\ halted' = (RUN \notin usbcmd') /\ mastering' \in BOOLEAN
  /\ \E nulls \in SUBSET Blocks : pointers' = [b \in Blocks |-> IF b \in nulls THEN "zero" ELSE b]
  /\ legacy' \in Legacies /\ stores' \in [Ports -> Stores]
  /\ UNCHANGED <<port, periodiclistbase, asynclistaddr, configflag, memory, powered>>

Go(from, to) == step = from /\ step' = to
controller == <<usbcmd, halted, mastering, configflag>>
lists == <<periodiclistbase, asynclistaddr, memory>>
ports == <<port, stores, powered>>

-----------------------------------------------------------------------------
(* progif is not EHCI's.                                                   *)
Decline ==
  /\ Go("probe", "declined") /\ UNCHANGED <<controller, lists, legacy, ports>>

(* cmd |= 0b110: memory space and bus master.                              *)
Probed ==
  /\ Go("probe", "reset") /\ mastering' = TRUE
  /\ UNCHANGED <<usbcmd, halted, configflag, lists, legacy, ports>>

(* The reset stops the controller too: the mask it clears holds bit 0.     *)
Reset ==
  /\ Go("reset", "resetting") /\ usbcmd' = (usbcmd \ ScheduleMask) \cup {HCRESET}
  /\ UNCHANGED <<halted, mastering, configflag, lists, legacy, ports>>

ResetSeenEarly == halted

ResetSeen == HCRESET \notin usbcmd

AwaitReset ==
  /\ Go("resetting", "halting") /\ ResetSeen /\ UNCHANGED <<controller, lists, legacy, ports>>
AwaitHalt ==
  /\ Go("halting", "allocate") /\ halted /\ UNCHANGED <<controller, lists, legacy, ports>>

(* The blocks are not tested: a null one is written to all the same.       *)
Fill(b, content) == memory' = [memory EXCEPT ![pointers[b]] = content]
AllocatePeriodic ==
  /\ Go("allocate", "async") /\ periodiclistbase' = pointers["periodic_list"]
  /\ UNCHANGED <<asynclistaddr, memory, controller, legacy, ports>>
AllocateAsync ==
  /\ Go("async", "periodic") /\ Fill("async_qh", "async_qh") /\ asynclistaddr' = pointers["async_qh"]
  /\ UNCHANGED <<periodiclistbase, controller, legacy, ports>>

ListUnfilled(m) == m

(* Each of the 1024 words of the list points to the queue head.            *)
ListFilled(m) == [m EXCEPT ![pointers["periodic_list"]] = "periodic_list"]
FillPeriodic ==
  /\ Go("periodic", "legacy")
  /\ memory' = ListFilled([memory EXCEPT ![pointers["periodic_qh"]] = "periodic_qh"])
  /\ UNCHANGED <<periodiclistbase, asynclistaddr, controller, legacy, ports>>

(* USBLEGSUP is 0x8E0 and the offset a byte: what is read and written is   *)
(* the dword 0x20 below the controller's USBLEGSUP, whatever that is.      *)
(* capable: hccparams has an eecp above 0x40.                              *)
HC_BIOS == 16
HC_OS == 24
SkipLegacy ==
  /\ Go("legacy", "start")
  /\ ~legacy.capable \/ HC_BIOS \notin legacy.dword
  /\ UNCHANGED <<controller, lists, legacy, ports>>
AskBios ==
  /\ Go("legacy", "handoff") /\ legacy.capable /\ HC_BIOS \in legacy.dword
  /\ legacy' = [legacy EXCEPT !.dword = @ \cup (legacy.writable \cap {HC_OS})]
  /\ UNCHANGED <<controller, lists, ports>>
AwaitBios ==
  /\ Go("handoff", "start") /\ HC_BIOS \notin legacy.dword /\ HC_OS \in legacy.dword
  /\ UNCHANGED <<controller, lists, legacy, ports>>

Start ==
  /\ Go("start", "starting") /\ usbcmd' = ScheduleMask \cup RunMask
  /\ UNCHANGED <<halted, mastering, configflag, lists, legacy, ports>>
AwaitStart ==
  /\ Go("starting", "configure") /\ ~halted /\ UNCHANGED <<controller, lists, legacy, ports>>
Configure ==
  /\ Go("configure", "ports") /\ configflag' = TRUE /\ UNCHANGED <<usbcmd, halted, mastering, lists, legacy, ports>>

(* op_regs declares ports a pointer where the registers are: the driver    *)
(* reads PORTSC of port 0 and takes it for an address in low memory.       *)
PORT_CONNECTED == 0
PORT_ENABLED == 2
PORT_POWER == 12

(* A port without power reads 0: the words are those a null block is in.   *)
MayHitZero ==
  /\ memory' \in {memory, [memory EXCEPT !["zero"] = "other"]}
  /\ UNCHANGED <<periodiclistbase, asynclistaddr>>
PowerPorts ==
  /\ Go("ports", "port")
  /\ IF PowerControl
       THEN stores' = [i \in Ports |-> stores[i] \cup {PORT_POWER}] /\ MayHitZero
       ELSE UNCHANGED <<stores, lists>>
  /\ UNCHANGED <<controller, legacy, port, powered>>

(* & ~0x2A, | 0x1540, then the reset bit on and off.  In memory the bits   *)
(* stay, the ten polls see the same word.                                  *)
ResetPort(w) == ((w \ {1, 3, 5}) \cup {6, 8, 10, 12}) \ {8}
LookAtPort ==
  /\ step = "port" /\ port \in Ports /\ port' = port + 1
  /\ IF PORT_CONNECTED \in stores[port]
       THEN /\ stores' = [stores EXCEPT ![port] = ResetPort(@)]
            /\ powered' = IF PORT_ENABLED \in ResetPort(stores[port]) THEN powered \cup {port} ELSE powered
            /\ MayHitZero
       ELSE UNCHANGED <<stores, powered, lists>>
  /\ UNCHANGED <<step, controller, legacy>>
PortsDone ==
  /\ Go("port", "bound") /\ port \notin Ports /\ UNCHANGED <<controller, lists, legacy, ports>>

bind_device_pci ==
  /\ \/ Decline \/ Probed \/ Reset \/ AwaitReset \/ AwaitHalt
     \/ AllocatePeriodic \/ AllocateAsync \/ FillPeriodic
     \/ SkipLegacy \/ AskBios \/ AwaitBios \/ Start \/ AwaitStart \/ Configure
     \/ PowerPorts \/ LookAtPort \/ PortsDone
  /\ UNCHANGED pointers

-----------------------------------------------------------------------------
(* The controller: it obeys RUN, and resets to a stopped, cleared state.   *)
driver == <<step, port, pointers, memory, stores, powered>>
Obey ==
  /\ HCRESET \notin usbcmd /\ halted = (RUN \in usbcmd) /\ halted' = ~halted
  /\ UNCHANGED <<driver, usbcmd, mastering, periodiclistbase, asynclistaddr, configflag, legacy>>
FinishReset ==
  /\ HCRESET \in usbcmd /\ usbcmd' = {} /\ halted' = TRUE
  /\ periodiclistbase' = "none" /\ asynclistaddr' = "none" /\ configflag' = FALSE
  /\ UNCHANGED <<driver, mastering, legacy>>

(* That dword may be a register that clears its bit 16 by itself.          *)
Settle ==
  /\ legacy.settles /\ {HC_BIOS, HC_OS} \subseteq legacy.dword
  /\ legacy' = [legacy EXCEPT !.dword = @ \ {HC_BIOS}]
  /\ UNCHANGED <<driver, controller, periodiclistbase, asynclistaddr>>

EhciNext == Found \/ bind_device_pci \/ Obey \/ FinishReset \/ Settle

-----------------------------------------------------------------------------
Started == step \in {"starting", "configure", "ports", "port", "bound"}
Nulls == {b \in Blocks : pointers[b] = "zero"}

(* Once the driver has started the controller, it may reach memory, its    *)
(* reset is over and has not wiped the addresses given to it, and it is    *)
(* marked configured only while it runs.  Each block it was given holds    *)
(* what the driver made of it: if one allocation failed, until the driver  *)
(* comes to the ports, where it may write over the block at address 0.     *)
RunsPrepared ==
  Started =>
    /\ mastering /\ RUN \in usbcmd /\ HCRESET \notin usbcmd
    /\ periodiclistbase = pointers["periodic_list"] /\ asynclistaddr = pointers["async_qh"]
    /\ Nulls = {} \/ (Cardinality(Nulls) = 1 /\ step \notin {"port", "bound"}) =>
         \A b \in Blocks : memory[pointers[b]] = b
    /\ configflag => ~halted

(* The bind returns, however slow the controller is, unless it waits for a *)
(* dword that is not the BIOS's semaphore and never changes.               *)
BindReturns ==
  step = "reset" ~> [](step = "bound") \/ [](step = "handoff" /\ ~(legacy.settles /\ HC_OS \in legacy.dword))

(* The BIOS no longer has a controller that the driver starts.  This does  *)
(* not hold: the register asked is not the semaphore.  It is not checked.  *)
OwnedBeforeRun == Started => ~legacy.bios

=============================================================================
