---------------------------- MODULE DriverModel -----------------------------
(***************************************************************************)
(* The driver model (drivers/drivermodel.c) and the part of kernel_main    *)
(* that drives it (main.c): the built-in images are loaded (ElfLoader),    *)
(* registered and, for the video drivers, tried until one starts; then     *)
(* every PCI function found is recorded and offered to the drivers, best   *)
(* priority first, until one binds.  A registered driver keeps its image,  *)
(* where init and bind_device_pci give the results init and binds allow;   *)
(* classes, ids and priority are its exported tables.                      *)
(***************************************************************************)
EXTENDS ElfLoader, FiniteSetsExt

CONSTANTS
  Queues,     \* what kernel_main may have built in: the plain drivers, then
  Plain,      \* from the Plain-th on the video drivers
  Buses,      \* what may be plugged in: slots, and their functions by number
  LastFn      \* the last function number: 7

ASequence(s) == s \in Seq({s[i] : i \in DOMAIN s})
Highest == 65535

ASSUME DriverModelAssumption ==
  /\ Plain \in Nat /\ LastFn \in Nat /\ MaxFailures \in Nat
  /\ \A q \in Queues : /\ ASequence(q) /\ Len(q) > Plain
                       /\ \A i \in DOMAIN q : ASequence(q[i].rels) /\ q[i].priority \in 0..Highest
  /\ \A b \in Buses : ASequence(b)

VARIABLES
  queue, next,        \* the built-in images, the one kernel_main is at
  driver_tree_base,   \* the list of drivers, newest first
  device_tree_base,   \* the list of devices, newest first
  video,              \* the driver the console draws with
  bus,
  stray,              \* the memory of the first driver was not clear
  agenda,             \* the calls of device_from_pci still to make
  offered             \* the device being offered: its driver, who refused it

vars == <<loading, queue, next, driver_tree_base, device_tree_base, video, bus, stray, agenda, offered>>
kept == <<queue, bus, stray>>

drivers == driver_tree_base
devices == device_tree_base
None == 0     \* no driver; a driver is named by its driver_id + 1
NoOffer == [fn |-> Null, driver |-> None, refused |-> {}]

Named(id) == CHOOSE d \in {drivers[i] : i \in DOMAIN drivers} : d.id = id

-----------------------------------------------------------------------------
Call(s, f) == [slot |-> s, fn |-> f, expanded |-> FALSE]

Init ==
  /\ LoadInit /\ queue \in Queues /\ next = 1 /\ image = queue[1]
  /\ drivers = <<>> /\ devices = <<>> /\ video = None /\ offered = NoOffer
  /\ bus \in Buses /\ stray \in BOOLEAN /\ agenda = [s \in DOMAIN bus |-> Call(s, 0)]

(* kernel_main goes on: to the next image, or to init_devices.             *)
NextImage ==
  IF next < Len(queue)
    THEN next' = next + 1 /\ at' = "check" /\ image' = queue[next + 1]
    ELSE at' = "scan" /\ UNCHANGED <<next, image>>
Loaded == loaded' = <<>> /\ rel' = 1

Load == load_driver_bin /\ UNCHANGED <<kept, next, drivers, devices, video, agenda, offered>>

(* register_driver_i returns 0: no init, or no memory for the driver.      *)
NoInit ==
  /\ at = "register" /\ get_elf_symbol(image, "init") = Null /\ at' = "refused" /\ UNCHANGED failures
NoDriver ==
  /\ at = "register" /\ get_elf_symbol(image, "init") # Null /\ OutOfMemory /\ at' = "refused"
NotRegistered ==
  /\ NoInit \/ NoDriver
  /\ Loaded /\ UNCHANGED <<image, low, kept, next, drivers, devices, video, agenda, offered>>

(* A table counts only if the image exports both the table and its length. *)
Table(i, name, content) ==
  IF get_elf_symbol(i, name) = Null \/ get_elf_symbol(i, name \o "_count") = Null THEN {} ELSE content
Driver(i) ==
  [id |-> Len(drivers) + 1, image |-> i, words |-> loaded, init_result |-> i.init,
   classes |-> Table(i, "__driver_classes", i.classes), ids |-> Table(i, "__driver_vidpid", i.ids),
   priority |-> IF get_elf_symbol(i, "__driver_class_priority") = Null THEN 0 ELSE i.priority]

register_driver_i ==
  /\ at = "register" /\ get_elf_symbol(image, "init") # Null
  /\ driver_tree_base' = <<Driver(image)>> \o drivers /\ at' = "registered" /\ Loaded
  /\ UNCHANGED <<image, low, failures, kept, next, devices, video, agenda, offered>>

(* kernel_main looks at the result for video drivers only.  After a        *)
(* refusal it reads init_result from a null pointer: the BIOS's vector,    *)
(* which may be 0 or not, or a passport's pointer, which is not.           *)
VideoSymbols == {"getfbmode", "kgetpixel", "ksetpixel", "kvshift"}
kswitch_graphics_driver(d) ==
  video' = IF \A n \in VideoSymbols : get_elf_symbol(d.image, n) # Null THEN d.id ELSE video

TryNext ==
  /\ \/ at = "registered" /\ (next <= Plain \/ Head(drivers).init_result # 0)
     \/ at = "refused"
  /\ NextImage /\ UNCHANGED <<loaded, rel, low, failures, kept, drivers, devices, video, agenda, offered>>
StartVideo ==
  /\ at = "registered" /\ next > Plain /\ Head(drivers).init_result = 0
  /\ kswitch_graphics_driver(Head(drivers)) /\ at' = "scan"
  /\ UNCHANGED <<image, loaded, rel, low, failures, kept, next, drivers, devices, agenda, offered>>
NullVideo ==
  /\ at = "refused" /\ next > Plain /\ low = "bios" /\ at' = "astray"
  /\ UNCHANGED <<image, loaded, rel, low, failures, kept, next, drivers, devices, video, agenda, offered>>

-----------------------------------------------------------------------------
(* device_from_pci.  What it takes for the header type is the byte at 0xC, *)
(* the cache line size.                                                    *)
Crt == Head(agenda)
Functions(s) == bus[s]
Answers(c) == c.fn \in DOMAIN Functions(c.slot)
Config(c) == Functions(c.slot)[c.fn]
headerType(cfg) == cfg.cacheline
MultiFunction(cfg) == headerType(cfg)

Scanning == at = "scan" /\ agenda # <<>>
Absent ==
  /\ Scanning /\ ~Answers(Crt) /\ agenda' = Tail(agenda) /\ UNCHANGED <<loading, devices, offered>>

ExpandAgain(c) == c.fn = 0 /\ MultiFunction(Config(c))

Expands(c) == c.fn = 0 /\ ~c.expanded /\ MultiFunction(Config(c))
Recurse ==
  /\ Scanning /\ Answers(Crt) /\ Expands(Crt)
  /\ agenda' = [f \in 1..LastFn |-> Call(Crt.slot, f)] \o <<[Crt EXCEPT !.expanded = TRUE]>> \o Tail(agenda)
  /\ UNCHANGED <<loading, devices, offered>>

(* find_driver: the first driver listed with the device's own ids, however *)
(* low the priority asked for; or of those of its class with a priority    *)
(* below it the highest, the last listed of equals.                        *)
MatchesId(d, cfg) == cfg.id \in d.ids
MatchesClass(d, cfg) == cfg.class \in d.classes

BelowOrEqual(d, max) == d.priority <= max

Below(d, max) == d.priority < max
find_driver(cfg, max) ==
  LET exact == {i \in DOMAIN drivers : MatchesId(drivers[i], cfg)}
      class == {i \in DOMAIN drivers : MatchesClass(drivers[i], cfg) /\ Below(drivers[i], max)}
      best  == {i \in class : \A j \in class : drivers[j].priority <= drivers[i].priority}
  IN  IF exact # {} THEN drivers[Min(exact)].id
      ELSE IF class # {} THEN drivers[Max(best)].id ELSE None

(* The first driver's next_drv is never written: the list has no end.      *)
Endless(cfg) == stray /\ drivers # <<>> /\ \A i \in DOMAIN drivers : ~MatchesId(drivers[i], cfg)

Find ==
  /\ Scanning /\ Answers(Crt) /\ ~Expands(Crt)
  /\ IF Endless(Config(Crt))
       THEN at' = "astray" /\ UNCHANGED offered
       ELSE /\ offered' = [fn |-> <<Crt.slot, Crt.fn>>, driver |-> find_driver(Config(Crt), Highest), refused |-> {}]
            /\ at' = "bind"
  /\ UNCHANGED <<image, loaded, rel, low, failures, agenda, devices>>
NoDevice ==
  /\ Scanning /\ Answers(Crt) /\ ~Expands(Crt) /\ OutOfMemory /\ at' = "panic"
  /\ UNCHANGED <<image, loaded, rel, low, agenda, devices, offered>>

(* The device joins the list with the driver it was last offered to.       *)
Record(driver, bound) ==
  /\ device_tree_base' = <<[fn |-> offered.fn, assigned_driver |-> driver, bound |-> bound,
                            refused |-> offered.refused]>> \o devices
  /\ offered' = NoOffer /\ agenda' = Tail(agenda) /\ at' = "scan"
  /\ UNCHANGED <<image, loaded, rel, low, failures>>

Offering == at = "bind"
Crtdriver == Named(offered.driver)
Binds == IF get_elf_symbol(Crtdriver.image, "bind_device_pci") = Null THEN {} ELSE Crtdriver.image.binds

GivesUp(d) == d.priority = 0

Unclaimed == Offering /\ offered.driver = None /\ Record(None, FALSE)
Bound == Offering /\ offered.driver # None /\ "ok" \in Binds /\ Record(offered.driver, TRUE)
RefusedLast ==
  /\ Offering /\ offered.driver # None /\ "fail" \in Binds /\ GivesUp(Crtdriver)
  /\ Record(offered.driver, FALSE)
Refused ==
  /\ Offering /\ offered.driver # None /\ "fail" \in Binds /\ ~GivesUp(Crtdriver)
  /\ offered' = [offered EXCEPT !.driver = find_driver(Config(Crt), Crtdriver.priority), !.refused = @ \cup {offered.driver}]
  /\ UNCHANGED <<loading, agenda, devices>>
(* A driver without bind_device_pci is looked at again, for ever.          *)
Unbindable ==
  /\ Offering /\ offered.driver # None /\ Binds = {} /\ UNCHANGED <<loading, agenda, devices, offered>>

device_from_pci ==
  /\ \/ Absent \/ Recurse \/ Find \/ NoDevice
     \/ Unclaimed \/ Bound \/ RefusedLast \/ Refused \/ Unbindable
  /\ UNCHANGED <<kept, next, drivers, video>>

Done == at = "scan" /\ agenda = <<>>

-----------------------------------------------------------------------------
Next ==
  Load \/ NotRegistered \/ register_driver_i \/ TryNext \/ StartVideo \/ NullVideo \/ device_from_pci
Spec == Init /\ [][Next]_vars
FairSpec == Spec /\ WF_vars(Next)

-----------------------------------------------------------------------------
(* A driver is in the list only with every word of its image relocated as  *)
(* its relocation demands, so that each call it makes reaches the function *)
(* it names; whatever images failed before it, at whatever step.           *)
DriversLinked ==
  \A i \in DOMAIN drivers : LET d == drivers[i] IN
    /\ d.id = Len(drivers) - i + 1
    /\ d.image.elf
    /\ \A k \in DOMAIN d.image.rels : d.words[k] = Owed(d.image.rels[k]) /\ d.words[k] # Null

(* Who a device went to, after any sequence of refusals: a driver that     *)
(* knows its ids if there is one; or else one of its class, and each       *)
(* better priority level has refused it.  One driver of a level is asked,  *)
(* the others of that level never are, and none of the level Highest.      *)
Served(v) ==
  LET cfg == bus[v.fn[1]][v.fn[2]]
      all == {drivers[i] : i \in DOMAIN drivers}
      exact == {d \in all : MatchesId(d, cfg)}
      class == {d \in all : MatchesClass(d, cfg)}
      asked(p) == \E r \in v.refused : Named(r).priority = p
      a == Named(v.assigned_driver)
  IN  CASE exact # {} -> v.assigned_driver \in {d.id : d \in exact}
        [] exact = {} /\ v.assigned_driver = None -> \A d \in class : d.priority < Highest => asked(d.priority)
        [] OTHER -> /\ a \in class /\ v.assigned_driver \notin v.refused
                    /\ v.bound \/ a.priority = 0
                    /\ \A d \in class : a.priority < d.priority /\ d.priority < Highest => asked(d.priority)
DevicesServed == \A i \in DOMAIN devices : Served(devices[i])

(* The recursion visits each function once: functions 1 to LastFn before   *)
(* function 0, and only of a slot whose function 0 answers.                *)
Recorded == {devices[i].fn : i \in DOMAIN devices}
Addresses == (DOMAIN bus) \X (0..LastFn)
Reachable(v) == {0, v[2]} \subseteq DOMAIN bus[v[1]] /\ (v[2] > 0 => MultiFunction(bus[v[1]][0]))
DevicesOnce ==
  /\ Cardinality(Recorded) = Len(devices)
  /\ Done => Recorded = {v \in Addresses : Reachable(v)}

(* Every function that answers is found.  This does not hold: what the     *)
(* code takes for the header type is another byte, so it is not checked.   *)
DevicesFound == Done => Recorded = {v \in Addresses : v[2] \in DOMAIN bus[v[1]]}

(* The boot gets through its drivers and devices, or a null pointer, the   *)
(* end of the list that is none, or a panic stops it, or it offers a       *)
(* device for ever to one driver: one with no bind_device_pci, or one that *)
(* knows the device's ids and refuses it.  None of the three built-in      *)
(* images is such a driver.                                                *)
Stuck ==
  /\ Offering /\ offered.driver # None
  /\ Binds = {} \/ (MatchesId(Crtdriver, Config(Crt)) /\ Binds = {"fail"})
BootEnds == <>[](Done \/ at \in {"astray", "panic"} \/ Stuck)

=============================================================================
