-------------------------------- MODULE Ide ---------------------------------
(***************************************************************************)
(* The IDE driver's probe (drivers/IDE): init asks the two drives of each  *)
(* of two channels to identify themselves, through the ports that          *)
(* ide_write and ide_read compute, and keeps an entry of ide_devices for   *)
(* each drive that does.  The drives are external: each is of a kind that  *)
(* says how it answers IDENTIFY                                            *)
(*   absent    the status reads 0                                          *)
(*   floating  no drive on the channel: every register reads 0xFF          *)
(*   ata       busy, then data                                             *)
(*   atapi     busy, then an error and the packet signature; it has data   *)
(*             for IDENTIFY PACKET                                         *)
(*   broken    busy, then an error without that signature                  *)
(*   mute      busy, then ready without data or error                      *)
(* and takes any time over it.                                             *)
(***************************************************************************)
EXTENDS Integers, FiniteSets

CONSTANTS
  Drives,     \* what may be attached: functions from Sites to kinds
  NullSets,   \* which entries' allocations may fail
  LowEntries  \* what the memory at address 0 may read as, taken for an entry

VARIABLES
  pc, site,      \* init_internal, the site it probes
  drives,        \* the kinds attached
  phase,         \* what each drive is doing
  silenced,      \* the channels whose interrupts are off
  ide_buffer,    \* whose answer the buffer holds, {} for noise
  ide_devices, count, type,
  nulls,         \* the entries of ide_devices that are null
  report         \* the entries init prints, by number

ide == <<pc, site, drives, phase, silenced, ide_buffer, ide_devices, count, type, nulls, report>>

Channels == {0, 1}
Sites == 0..3                  \* two to a channel, masters first
Channel(s) == s \div 2
DriveNo(s) == s % 2
ATA == "ata"
ATAPI == "atapi"
DriveKinds == {"absent", "floating", ATA, ATAPI, "broken", "mute"}

ASSUME IdeAssumption ==
  /\ Drives \subseteq [Sites -> DriveKinds] /\ NullSets \subseteq SUBSET (0..3)
  /\ LowEntries \subseteq [reserved : 0..255, channel : 0..255, drive : 0..255, type : {ATA, ATAPI}, identity : {{}}]

(* The ports: below 0x08 from base, 0x0C from ctrl.  ctrl is the control   *)
(* port itself, and ATA_REG_CONTROL lands two ports above it, in the       *)
(* serial port of the primary channel.                                     *)
ATA_REG_CONTROL == 12
Ctrl(c) == IF c = 0 THEN 1014 ELSE 886    \* 0x3F6, 0x376
ControlPort(c, reg) == Ctrl(c) + reg - 10

Empty == [reserved |-> 0, channel |-> 0, drive |-> 0, type |-> ATA, identity |-> {}]

(* A null entry is the memory at address 0, the same for every null, which *)
(* the BIOS has filled; kmalloc clears the others.                         *)
Zero == 4
Entry(i) == IF i \in nulls THEN Zero ELSE i

IdeInit ==
  /\ pc = "start" /\ site = 0 /\ drives \in Drives /\ phase = [s \in Sites |-> "idle"]
  /\ silenced = {} /\ ide_buffer = {}
  /\ \E low \in LowEntries : ide_devices = [i \in 0..Zero |-> IF i = Zero THEN low ELSE Empty]
  /\ count = 0 /\ type = ATA /\ nulls \in NullSets /\ report = <<>>

idle == <<drives, nulls>>

-----------------------------------------------------------------------------
NoMemory == pc = "start" /\ pc' = "failed" /\ UNCHANGED <<site, phase, silenced, ide_buffer, ide_devices, count, type, report>>

Setup ==
  /\ pc = "start" /\ pc' = "select"
  /\ silenced' = {c \in Channels : ControlPort(c, ATA_REG_CONTROL) = Ctrl(c)}
  /\ UNCHANGED <<site, phase, ide_buffer, ide_devices, count, type, report>>

Select ==
  /\ pc = "select" /\ pc' = "identify" /\ type' = ATA
  /\ ide_devices' = [ide_devices EXCEPT ![Entry(count)].reserved = 0]
  /\ UNCHANGED <<site, phase, silenced, ide_buffer, count, report>>

NoDrive(s) == drives[s] \in {"absent", "floating"}
Command(cmd) == phase' = IF NoDrive(site) THEN phase ELSE [phase EXCEPT ![site] = cmd]

Identify ==
  /\ pc = "identify" /\ pc' = "present" /\ Command("identify")
  /\ UNCHANGED <<site, silenced, ide_buffer, ide_devices, count, type, report>>

(* The status register of the site.                                        *)
Status ==
  CASE drives[site] = "absent" -> {}
    [] drives[site] = "floating" -> {"BSY", "DRDY", "DRQ", "ERR"}
    [] OTHER -> CASE phase[site] \in {"identify", "packet"} -> {"BSY"}
                  [] phase[site] = "data" -> {"DRDY", "DRQ"}
                  [] phase[site] = "error" -> {"DRDY", "ERR"}
                  [] OTHER -> {"DRDY"}

NextSite == IF site < 3 THEN site' = site + 1 /\ pc' = "select" ELSE site' = site /\ pc' = "report"

MissingNever(status) == FALSE

Missing(status) == status = {}

Present ==
  /\ pc = "present"
  /\ IF Missing(Status) THEN NextSite ELSE pc' = "poll" /\ UNCHANGED site
  /\ UNCHANGED <<phase, silenced, ide_buffer, ide_devices, count, type, report>>

ReadyEarly(status) == "DRDY" \in status \/ "DRQ" \in status

Ready(status) == "BSY" \notin status /\ "DRQ" \in status

Poll ==
  /\ pc = "poll"
  /\ pc' = IF "ERR" \in Status THEN "signature" ELSE IF Ready(Status) THEN "read" ELSE "poll"
  /\ UNCHANGED <<site, phase, silenced, ide_buffer, ide_devices, count, type, report>>

(* Only a packet device shows the signature in LBA1 and LBA2.  Its         *)
(* IDENTIFY PACKET gets one wait(1), and no poll.                          *)
Signature ==
  /\ pc = "signature"
  /\ \/ /\ drives[site] = ATAPI /\ type' = ATAPI /\ Command("packet") /\ pc' = "read" /\ UNCHANGED site
     \/ drives[site] # ATAPI /\ NextSite /\ UNCHANGED <<type, phase>>
  /\ UNCHANGED <<silenced, ide_buffer, ide_devices, count, report>>

(* insl: without data requested the port gives anything.                   *)
ReadBuffer ==
  /\ pc = "read" /\ pc' = "record"
  /\ ide_buffer' = IF phase[site] = "data" THEN {site} ELSE {}
  /\ phase' = IF phase[site] = "data" THEN [phase EXCEPT ![site] = "idle"] ELSE phase
  /\ UNCHANGED <<site, silenced, ide_devices, count, type, report>>

CountUp == count + 1

RecordDrive ==
  /\ pc = "record" /\ NextSite /\ count' = CountUp
  /\ ide_devices' = [ide_devices EXCEPT ![Entry(count)] =
       [reserved |-> 1, channel |-> Channel(site), drive |-> DriveNo(site), type |-> type, identity |-> ide_buffer]]
  /\ UNCHANGED <<phase, silenced, ide_buffer, type, report>>

Report ==
  /\ pc = "report" /\ pc' = "done"
  /\ report' = [i \in {j \in 0..3 : ide_devices[Entry(j)].reserved = 1} |-> ide_devices[Entry(i)]]
  /\ UNCHANGED <<site, phase, silenced, ide_buffer, ide_devices, count, type>>

Probe ==
  /\ NoMemory \/ Setup \/ Select \/ Identify \/ Present \/ Poll \/ Signature \/ ReadBuffer \/ RecordDrive \/ Report
  /\ UNCHANGED idle

(* A drive finishes its command.                                           *)
Answer(s) ==
  /\ phase[s] \in {"identify", "packet"}
  /\ phase' = [phase EXCEPT ![s] =
       CASE drives[s] = "mute" -> "idle"
         [] drives[s] = "broken" \/ (drives[s] = ATAPI /\ @ = "identify") -> "error"
         [] OTHER -> "data"]
  /\ UNCHANGED <<pc, site, silenced, ide_buffer, ide_devices, count, type, report, idle>>

IdeNext == Probe \/ \E s \in Sites : Answer(s)
IdeFairness == WF_ide(Probe) /\ \A s \in Sites : WF_ide(Answer(s))

-----------------------------------------------------------------------------
(* Every drive that identifies itself is reported once, in the order of    *)
(* the sites, with its own type, and a disk with its own data: not with    *)
(* what an earlier drive left in the buffer or the registers, nor in an    *)
(* entry an absent one gave up; even when one entry is null.  Two things   *)
(* the code does are left out: a packet device's data may be noise, and a  *)
(* null entry no drive was given shows whatever is at address 0.           *)
Attached == {s \in Sites : drives[s] \in {ATA, ATAPI}}
SiteOf(e) == 2 * e.channel + e.drive
Own(e, s) ==
  /\ e.channel = Channel(s) /\ e.drive = DriveNo(s) /\ e.type = drives[s]
  /\ e.identity = {s} \/ (e.type = ATAPI /\ e.identity = {})
Listed == {i \in DOMAIN report : i \in nulls => i < count}
DrivesReported ==
  pc = "done" /\ Cardinality(nulls) <= 1 =>
    /\ {SiteOf(report[i]) : i \in Listed} = Attached
    /\ \A i, j \in Listed : i < j => SiteOf(report[i]) < SiteOf(report[j])
    /\ \A i \in Listed : Own(report[i], SiteOf(report[i]))

(* The probe ends, however slow the drives are, unless one of them is mute *)
(* and is polled for ever.                                                 *)
ProbeEnds == <>[](pc \in {"done", "failed"} \/ (pc = "poll" /\ drives[site] = "mute"))

=============================================================================
