---------------------------- MODULE DriversProof ----------------------------
(***************************************************************************)
(* Proofs about DriverModel and Devices.  Whatever images are built in and *)
(* whatever is plugged in, the drivers listed are linked, each function    *)
(* found is recorded once, and it went to the driver its class and ids     *)
(* call for.  Whatever the hardware, the IDE driver reports the drives     *)
(* there are, and the EHCI driver starts a controller only as prepared.    *)
(***************************************************************************)
EXTENDS DriverModel, Devices, SequenceTheorems, FiniteSetTheorems, Recursion

-----------------------------------------------------------------------------
(* Sequences.                                                              *)
LEMMA Indices == ASSUME NEW s, ASequence(s) PROVE Len(s) \in Nat /\ DOMAIN s = 1..Len(s)
<1>1. PICK S : S = {s[i] : i \in DOMAIN s}  OBVIOUS
<1>2. s \in Seq(S)  BY <1>1 DEF ASequence
<1> QED BY <1>2

LEMMA InSeq == ASSUME NEW S, NEW s \in Seq(S) PROVE ASequence(s)
<1>1. \A i \in 1..Len(s) : s[i] \in {s[j] : j \in DOMAIN s}  OBVIOUS
<1>2. PICK T : T = {s[j] : j \in DOMAIN s}  OBVIOUS
<1>3. s \in Seq(T)  BY <1>1, <1>2, IsASeq
<1> QED BY <1>2, <1>3 DEF ASequence

(* e in front of s.                                                        *)
Front(t, e, s) ==
  /\ ASequence(t) /\ Len(t) = Len(s) + 1 /\ t[1] = e
  /\ \A i \in 1..Len(s) : t[i + 1] = s[i]

LEMMA Prepend == ASSUME NEW s, NEW e, ASequence(s) PROVE Front(<<e>> \o s, e, s)
<1>1. PICK S : S = {s[i] : i \in DOMAIN s} \cup {e}  OBVIOUS
<1>2. s \in Seq(S)
  <2>1. \A i \in 1..Len(s) : s[i] \in S  BY <1>1, Indices
  <2> QED BY <2>1, Indices, IsASeq, <1>1 DEF ASequence
<1>3. <<e>> \in Seq(S) /\ Len(<<e>>) = 1 /\ <<e>>[1] = e  BY <1>1
<1>4. PICK h : h = <<e>>  OBVIOUS
<1>5. /\ h \o s \in Seq(S) /\ Len(h \o s) = 1 + Len(s)
      /\ \A i \in 1..1 + Len(s) : (h \o s)[i] = IF i <= 1 THEN h[i] ELSE s[i - 1]
  BY <1>2, <1>3, <1>4, ConcatProperties
<1>6. PICK t : t = h \o s  OBVIOUS
<1>7. ASequence(t)  BY <1>5, <1>6, InSeq
<1>8. \A i \in 1..Len(s) : t[i + 1] = s[i]  BY <1>5, <1>6, <1>2
<1> QED BY <1>3, <1>4, <1>5, <1>6, <1>7, <1>8, <1>2 DEF Front

-----------------------------------------------------------------------------
(* Loading and registering.                                                *)

(* The words of l up to m hold what the relocations of i demand.           *)
Linked(i, l, m) == \A k \in DOMAIN i.rels : k < m => l[k] = Owed(i.rels[k]) /\ l[k] # Null
Untouched(i, l, m) == \A k \in DOMAIN i.rels : k >= m => l[k] = <<"file", i.rels[k].name>>

Places == {"check", "relocate", "register", "registered", "refused", "scan", "bind", "astray", "panic"}
Running == {"check", "relocate", "register", "registered", "refused"}
BootInv ==
  /\ queue \in Queues /\ bus \in Buses /\ next \in DOMAIN queue /\ image = queue[next] /\ at \in Places
  /\ at = "relocate" => /\ image.elf /\ rel \in 1..Len(image.rels) + 1 /\ DOMAIN loaded = DOMAIN image.rels
                        /\ Linked(image, loaded, rel) /\ Untouched(image, loaded, rel)
  /\ at = "register" => image.elf /\ Linked(image, loaded, Len(image.rels) + 1)
  /\ at = "registered" => drivers # <<>>

Sound(d) == d.image.elf /\ Linked(d.image, d.words, Len(d.image.rels) + 1) /\ d.priority \in 0..Highest /\ ASequence(d.image.rels)
DriversInv ==
  /\ ASequence(drivers)
  /\ \A i \in DOMAIN drivers : drivers[i].id = Len(drivers) - i + 1 /\ Sound(drivers[i])

LEMMA ImageTypes ==
  ASSUME BootInv PROVE ASequence(queue) /\ ASequence(image.rels) /\ image.priority \in 0..Highest /\ ASequence(bus)
  BY DriverModelAssumption DEF BootInv

LEMMA WordOwed ==
  ASSUME NEW r, ~Unresolved(r) PROVE Word(r, <<"file", r.name>>) = Owed(r) /\ Owed(r) # Null
<1>1. r.type \in Kinds  BY DEF Unresolved
<1>2. CASE r.type = R_386_RELATIVE  BY <1>2 DEF Word, Owed, Null, R_386_RELATIVE
<1>3. CASE r.type # R_386_RELATIVE
  <2>1. Address(r) # Null  BY <1>1, <1>3 DEF Unresolved
  <2>2. r.type \in {"GLOB_DAT", "JMP_SLOT"}  BY <1>1, <1>3 DEF Kinds
  <2>3. CASE r.own  BY <2>1, <2>2, <2>3, <1>3 DEF Word, Owed, Address, R_386_RELATIVE
  <2>4. CASE ~r.own
    <3>1. r.name \in KernelNames  BY <2>1, <2>4 DEF Address, resolve_symbol
    <3> QED BY <2>1, <2>2, <2>4, <3>1, <1>3 DEF Word, Owed, Address, resolve_symbol, R_386_RELATIVE
  <2> QED BY <2>3, <2>4
<1> QED BY <1>2, <1>3

LEMMA RelocationStep == ASSUME BootInv, process_relocations, UNCHANGED <<kept, next, drivers>> PROVE BootInv'
<1>1. Len(image.rels) \in Nat /\ DOMAIN image.rels = 1..Len(image.rels)  BY ImageTypes, Indices
<1>2. CASE Unresolved(image.rels[rel]) /\ FailLoad
  BY <1>2 DEF BootInv, process_relocations, FailLoad, kept, Places
<1>3. CASE /\ ~Unresolved(image.rels[rel]) /\ loaded' = [loaded EXCEPT ![rel] = Word(image.rels[rel], @)] /\ rel' = rel + 1
           /\ UNCHANGED <<at, image>>
  <2>0. image.elf /\ rel \in DOMAIN image.rels /\ DOMAIN loaded = DOMAIN image.rels
        /\ Linked(image, loaded, rel) /\ Untouched(image, loaded, rel)
    BY DEF BootInv, process_relocations
  <2>1. PICK r : r = image.rels[rel]  OBVIOUS
  <2>2. loaded[rel] = <<"file", r.name>>  BY <1>1, <2>0, <2>1 DEF Untouched
  <2>3. loaded'[rel] = Owed(r) /\ loaded'[rel] # Null  BY <1>3, <2>0, <2>1, <2>2, WordOwed
  <2>4. \A k \in DOMAIN image.rels : k # rel => loaded'[k] = loaded[k]  BY <1>3, <2>0
  <2>5. Linked(image, loaded', rel + 1)  BY <1>1, <2>0, <2>1, <2>3, <2>4 DEF Linked
  <2>6. Untouched(image, loaded', rel + 1)  BY <1>1, <2>0, <2>4 DEF Untouched
  <2>7. rel + 1 \in 1..Len(image.rels) + 1  BY <1>1, <2>0
  <2>8. DOMAIN loaded' = DOMAIN image.rels  BY <1>3, <2>0
  <2>9. at = "relocate"  BY DEF process_relocations
  <2> QED BY <1>3, <2>0, <2>5, <2>6, <2>7, <2>8, <2>9 DEF BootInv, kept
<1> QED BY <1>2, <1>3 DEF process_relocations

LEMMA LoadStep == ASSUME BootInv, Load PROVE BootInv'
<1>0. Len(image.rels) \in Nat /\ DOMAIN image.rels = 1..Len(image.rels)  BY ImageTypes, Indices
<1>u. UNCHANGED <<queue, bus, next, drivers>>  BY DEF Load, kept
<1>1. CASE CheckHeader \/ NoPlace \/ NullPassport
  BY <1>1, <1>u DEF BootInv, CheckHeader, NoPlace, NullPassport, FailLoad, Places
<1>2. CASE Place
  <2>1. Linked(image, loaded', 1)  BY <1>0 DEF Linked
  <2>2. Untouched(image, loaded', 1)  BY <1>0, <1>2 DEF Untouched, Place
  <2>3. 1 \in 1..Len(image.rels) + 1  BY <1>0
  <2> QED BY <1>2, <1>u, <2>1, <2>2, <2>3 DEF BootInv, Place, Places
<1>3. CASE process_relocations  BY <1>3, RelocationStep DEF Load
<1>4. CASE Passport
  <2>1. rel = Len(image.rels) + 1  BY <1>0, <1>4 DEF Passport, Relocated, BootInv
  <2> QED BY <1>4, <1>u, <2>1 DEF BootInv, Passport, Places
<1> QED BY <1>1, <1>2, <1>3, <1>4 DEF Load, load_driver_bin

LEMMA BootInitial == ASSUME Init PROVE BootInv /\ DriversInv
<1>1. queue \in Queues /\ Len(queue) > Plain /\ Plain \in Nat /\ ASequence(queue)  BY DriverModelAssumption DEF Init
<1>2. 1 \in DOMAIN queue  BY <1>1, Indices
<1>3. BootInv  BY <1>1, <1>2 DEF Init, LoadInit, BootInv, Places
<1>4. ASequence(drivers) /\ DOMAIN drivers = {}
  <2>1. <<>> \in Seq({}) /\ DOMAIN <<>> = {}  OBVIOUS
  <2>2. drivers = <<>>  BY DEF Init
  <2>3. drivers \in Seq({}) /\ DOMAIN drivers = {}  BY <2>1, <2>2
  <2> QED BY <2>3, InSeq
<1> QED BY <1>3, <1>4 DEF DriversInv

LEMMA NextImageStep ==
  ASSUME BootInv, NextImage, UNCHANGED <<kept, drivers>> PROVE BootInv'
<1>1. ASequence(queue)  BY ImageTypes
<1>2. Len(queue) \in Nat /\ DOMAIN queue = 1..Len(queue)  BY <1>1, Indices
<1>3. CASE next < Len(queue)
  <2>1. next + 1 \in DOMAIN queue  BY <1>2, <1>3 DEF BootInv
  <2> QED BY <1>3, <2>1 DEF BootInv, NextImage, kept, Places
<1>4. CASE ~(next < Len(queue))  BY <1>4 DEF BootInv, NextImage, kept, Places
<1> QED BY <1>3, <1>4

LEMMA RegisterStep == ASSUME BootInv, DriversInv, register_driver_i PROVE BootInv' /\ DriversInv'
<1>0. Len(image.rels) \in Nat /\ DOMAIN image.rels = 1..Len(image.rels) /\ image.priority \in 0..Highest
      /\ ASequence(image.rels)
  BY ImageTypes, Indices
<1>1. PICK d : d = Driver(image)  OBVIOUS
<1>2. d.id = Len(drivers) + 1 /\ d.image = image /\ d.words = loaded /\ d.priority \in 0..Highest
  <2>1. d.id = Len(drivers) + 1 /\ d.image = image /\ d.words = loaded  BY <1>1 DEF Driver
  <2>2. d.priority = 0 \/ d.priority = image.priority  BY <1>1 DEF Driver
  <2>3. 0 \in 0..Highest  BY DEF Highest
  <2> QED BY <1>0, <2>1, <2>2, <2>3
<1>3. Sound(d)  BY <1>0, <1>2 DEF Sound, BootInv, register_driver_i
<1>4. Front(drivers', d, drivers)  BY <1>1, Prepend DEF register_driver_i, DriversInv, drivers
<1>5. Len(drivers) \in Nat /\ DOMAIN drivers = 1..Len(drivers)  BY Indices DEF DriversInv
<1>6. Len(drivers') = Len(drivers) + 1 /\ DOMAIN drivers' = 1..Len(drivers) + 1  BY <1>4, Indices DEF Front
<1>7. ASSUME NEW i \in DOMAIN drivers' PROVE drivers'[i].id = Len(drivers') - i + 1 /\ Sound(drivers'[i])
  <2>1. CASE i = 1  BY <2>1, <1>2, <1>3, <1>4, <1>5, <1>6 DEF Front
  <2>2. CASE i # 1
    <3>1. i - 1 \in 1..Len(drivers) /\ (i - 1) + 1 = i  BY <2>2, <1>5, <1>6
    <3>2. drivers'[i] = drivers[i - 1]  BY <3>1, <1>4 DEF Front
    <3> QED BY <3>1, <3>2, <1>5, <1>6 DEF DriversInv
  <2> QED BY <2>1, <2>2
<1>8. \A x : Sound(x)' <=> Sound(x)  BY DEF Sound
<1>9. DriversInv'  BY <1>4, <1>7 DEF DriversInv, Front, Sound
<1>10. drivers' # <<>>  BY <1>5, <1>6
<1>11. BootInv'  BY <1>10 DEF BootInv, register_driver_i, Loaded, kept, Places
<1> QED BY <1>9, <1>11

LEMMA BootStep == ASSUME BootInv, DriversInv, [Next]_vars PROVE BootInv' /\ DriversInv'
<1>1. CASE Load
  <2>1. UNCHANGED drivers  BY <1>1 DEF Load
  <2> QED BY <1>1, <2>1, LoadStep DEF DriversInv
<1>2. CASE NotRegistered
  BY <1>2 DEF NotRegistered, NoInit, NoDriver, Loaded, kept, BootInv, DriversInv, Places
<1>3. CASE register_driver_i  BY <1>3, RegisterStep
<1>4. CASE TryNext
  <2>1. UNCHANGED <<kept, drivers>> /\ NextImage  BY <1>4 DEF TryNext
  <2> QED BY <2>1, NextImageStep DEF DriversInv
<1>5. CASE StartVideo  BY <1>5 DEF StartVideo, kept, BootInv, DriversInv, Places
<1>6. CASE NullVideo  BY <1>6 DEF NullVideo, kept, BootInv, DriversInv, Places
<1>7. CASE device_from_pci
  <2>1. UNCHANGED <<queue, bus, next, drivers, image, loaded, rel>>
    BY <1>7 DEF device_from_pci, kept, Absent, Recurse, Find, NoDevice, Unclaimed, Bound, RefusedLast, Refused, Unbindable,
                Record, loading
  <2>2. at' \in {"scan", "bind", "astray", "panic"}
    BY <1>7 DEF device_from_pci, Scanning, Offering, Absent, Recurse, Find, NoDevice, Unclaimed, Bound, RefusedLast, Refused,
                Unbindable, Record, loading
  <2> QED BY <2>1, <2>2 DEF BootInv, DriversInv, Places
<1>8. CASE UNCHANGED vars  BY <1>8 DEF vars, loading, BootInv, DriversInv, drivers
<1> QED BY <1>1, <1>2, <1>3, <1>4, <1>5, <1>6, <1>7, <1>8 DEF Next

(* Spec => []DriversLinked.  register_driver (drivers/drivermodel.c) lists a driver only with every word that
   load_driver_bin (progman/elf.c) relocated pointing where it should, whatever the images built in.                 *)
THEOREM LinkedAlways == Spec => []DriversLinked
<1>1. Init => BootInv /\ DriversInv  BY BootInitial
<1>2. BootInv /\ DriversInv /\ [Next]_vars => BootInv' /\ DriversInv'  BY BootStep
<1>3. DriversInv => DriversLinked
  <2> SUFFICES ASSUME DriversInv, NEW i \in DOMAIN drivers,  NEW k \in DOMAIN drivers[i].image.rels
               PROVE drivers[i].words[k] = Owed(drivers[i].image.rels[k]) /\ drivers[i].words[k] # Null
    BY DEF DriversLinked, DriversInv, Sound
  <2>1. PICK d : d = drivers[i]  OBVIOUS
  <2>2. k < Len(d.image.rels) + 1  BY <2>1, Indices DEF DriversInv, Sound
  <2> QED BY <2>1, <2>2 DEF DriversInv, Sound, Linked
<1> QED BY <1>1, <1>2, <1>3, PTL DEF Spec

-----------------------------------------------------------------------------
(* find_driver.                                                            *)
LEMMA HighestNat == Highest \in Nat
  BY DEF Highest

LEMMA MinOf == ASSUME NEW S, S \subseteq Nat, S # {} PROVE Min(S) \in S
  BY LeastNat DEF Min

LEMMA MaxOf == ASSUME NEW n \in Nat, NEW S, S \subseteq 0..n, S # {} PROVE Max(S) \in S /\ \A y \in S : y <= Max(S)
<1>1. PICK T : T = {n - x : x \in S}  OBVIOUS
<1>8. \A x \in S : n - x \in Nat  OBVIOUS
<1>2. T \subseteq Nat /\ T # {}  BY <1>1, <1>8, Zenon
<1>3. PICK t \in T : \A y \in T : t <= y  BY <1>2, LeastNat
<1>4. PICK x \in S : t = n - x  BY <1>1, <1>3
<1>5. ASSUME NEW y \in S PROVE x >= y
  <2>1. n - y \in T  BY <1>1
  <2>2. n - x <= n - y  BY <2>1, <1>3, <1>4
  <2> QED BY <2>2, <1>4
<1>6. \E z \in S : \A y \in S : z >= y  BY <1>4, <1>5
<1>7. Max(S) \in S /\ \A y \in S : Max(S) >= y  BY <1>6 DEF Max
<1> QED BY <1>7

(* Each driver has an id of its own.                                       *)
LEMMA NamedIs ==
  ASSUME DriversInv, NEW i \in DOMAIN drivers
  PROVE  Named(drivers[i].id) = drivers[i] /\ drivers[i].id # None /\ drivers[i].priority \in 0..Highest
<1>1. Len(drivers) \in Nat /\ DOMAIN drivers = 1..Len(drivers)  BY Indices DEF DriversInv
<1>2. \A j \in DOMAIN drivers : drivers[j].id = Len(drivers) - j + 1  BY DEF DriversInv
<1>3. \A j \in DOMAIN drivers : drivers[j].id = drivers[i].id => j = i  BY <1>1, <1>2
<1>4. \A d \in {drivers[j] : j \in DOMAIN drivers} : d.id = drivers[i].id => d = drivers[i]  BY <1>3
<1>5. drivers[i] \in {drivers[j] : j \in DOMAIN drivers}  OBVIOUS
<1>6. Named(drivers[i].id) = drivers[i]  BY <1>4, <1>5 DEF Named
<1>7. drivers[i].id # None  BY <1>1, <1>2 DEF None
<1> QED BY <1>6, <1>7 DEF DriversInv, Sound

Exact(cfg) == {i \in DOMAIN drivers : MatchesId(drivers[i], cfg)}
Class(cfg) == {i \in DOMAIN drivers : MatchesClass(drivers[i], cfg)}

LEMMA FoundExact ==
  ASSUME DriversInv, NEW cfg, NEW max, Exact(cfg) # {}
  PROVE  \E i \in Exact(cfg) : find_driver(cfg, max) = drivers[i].id
<1>1. Exact(cfg) \subseteq Nat
  <2>1. DOMAIN drivers = 1..Len(drivers)  BY Indices DEF DriversInv
  <2> QED BY <2>1 DEF Exact
<1>2. Min(Exact(cfg)) \in Exact(cfg)  BY <1>1, MinOf
<1>3. find_driver(cfg, max) = drivers[Min(Exact(cfg))].id  BY DEF find_driver, Exact
<1> QED BY <1>2, <1>3

LEMMA FoundClass ==
  ASSUME DriversInv, NEW cfg, NEW max \in Nat, Exact(cfg) = {}
  PROVE  \/ /\ find_driver(cfg, max) = None
            /\ \A j \in Class(cfg) : drivers[j].priority >= max
         \/ \E i \in Class(cfg) : /\ find_driver(cfg, max) = drivers[i].id /\ drivers[i].priority < max
                                  /\ \A j \in Class(cfg) : drivers[j].priority < max => drivers[j].priority <= drivers[i].priority
<1>1. PICK C : C = {i \in DOMAIN drivers : MatchesClass(drivers[i], cfg) /\ Below(drivers[i], max)}  OBVIOUS
<1>2. PICK B : B = {i \in C : \A j \in C : drivers[j].priority <= drivers[i].priority}  OBVIOUS
<1>3. find_driver(cfg, max) = IF C # {} THEN drivers[Max(B)].id ELSE None  BY <1>1, <1>2 DEF find_driver, Exact
<1>4. C = {i \in Class(cfg) : drivers[i].priority < max}  BY <1>1 DEF Class, Below
<1>5. \A i \in DOMAIN drivers : drivers[i].priority \in 0..Highest  BY NamedIs
<1>6. Len(drivers) \in Nat /\ DOMAIN drivers = 1..Len(drivers)  BY Indices DEF DriversInv
<1>7. CASE C = {}
  <2>1. \A j \in Class(cfg) : ~(drivers[j].priority < max)  BY <1>4, <1>7
  <2>2. \A j \in Class(cfg) : drivers[j].priority >= max  BY <2>1, <1>5, HighestNat DEF Class
  <2> QED BY <1>3, <1>7, <2>2
<1>8. CASE C # {}
  <2>1. PICK P : P = {drivers[i].priority : i \in C}  OBVIOUS
  <2>2. P \subseteq 0..Highest /\ P # {} /\ Highest \in Nat  BY <1>1, <1>5, <1>8, <2>1, HighestNat
  <2>3. Max(P) \in P /\ \A y \in P : y <= Max(P)  BY <2>2, MaxOf
  <2>8. PICK b \in C : drivers[b].priority = Max(P)  BY <2>1, <2>3
  <2>9. \A j \in C : drivers[j].priority \in P  BY <2>1
  <2>10. b \in B  BY <2>3, <2>8, <2>9, <1>2
  <2>11. B \subseteq DOMAIN drivers  BY <1>1, <1>2
  <2>4. B # {} /\ B \subseteq 0..Len(drivers)  BY <2>10, <2>11, <1>6
  <2>5. Max(B) \in B  BY <2>4, <1>6, MaxOf
  <2>6. PICK i : i = Max(B)  OBVIOUS
  <2>7. i \in C /\ \A j \in C : drivers[j].priority <= drivers[i].priority  BY <2>5, <2>6, <1>2
  <2> QED BY <1>3, <1>4, <1>8, <2>6, <2>7
<1> QED BY <1>7, <1>8

-----------------------------------------------------------------------------
(* Offers.                                                                 *)
Asked(p, refused) == \E r \in refused : Named(r).priority = p

(* A driver of the class, above whose priority all have refused.           *)
Choice(cfg, d, refused, i) ==
  /\ d = drivers[i].id
  /\ \A j \in Class(cfg) : drivers[i].priority < drivers[j].priority /\ drivers[j].priority < Highest
                             => Asked(drivers[j].priority, refused)
  /\ \A r \in refused : Named(r).priority \in Nat /\ drivers[i].priority < Named(r).priority
Suits(cfg, d, refused) ==
  IF Exact(cfg) # {} THEN \E i \in Exact(cfg) : d = drivers[i].id
  ELSE \/ /\ d = None
          /\ \A j \in Class(cfg) : drivers[j].priority < Highest => Asked(drivers[j].priority, refused)
       \/ \E i \in Class(cfg) : Choice(cfg, d, refused, i)

Fn(v) == bus[v.fn[1]][v.fn[2]]
OfferInv ==
  /\ at \in Running => devices = <<>>
  /\ at = "bind" => /\ agenda # <<>> /\ DOMAIN offered = {"fn", "driver", "refused"}
                    /\ offered.fn = <<Crt.slot, Crt.fn>> /\ Suits(Config(Crt), offered.driver, offered.refused)

ServedInv == ASequence(devices) /\ \A i \in DOMAIN devices : Served(devices[i])

LEMMA FirstOffer == ASSUME DriversInv, NEW cfg PROVE Suits(cfg, find_driver(cfg, Highest), {})
<1>1. CASE Exact(cfg) # {}  BY <1>1, FoundExact DEF Suits
<1>2. CASE Exact(cfg) = {}
  <2>0. Highest \in Nat  BY HighestNat
  <2>1. \A j \in Class(cfg) : drivers[j].priority \in 0..Highest  BY NamedIs DEF Class
  <2>2. CASE /\ find_driver(cfg, Highest) = None
             /\ \A j \in Class(cfg) : drivers[j].priority >= Highest
    BY <1>2, <2>0, <2>1, <2>2 DEF Suits
  <2>3. ASSUME NEW i \in Class(cfg), find_driver(cfg, Highest) = drivers[i].id,
               \A j \in Class(cfg) : drivers[j].priority < Highest => drivers[j].priority <= drivers[i].priority
        PROVE Suits(cfg, find_driver(cfg, Highest), {})
    <3>1. Choice(cfg, find_driver(cfg, Highest), {}, i)  BY <2>0, <2>1, <2>3 DEF Choice
    <3> QED BY <1>2, <2>3, <3>1 DEF Suits
  <2> QED BY <1>2, <2>0, <2>2, <2>3, FoundClass
<1> QED BY <1>1, <1>2

LEMMA NextOffer ==
  ASSUME DriversInv, NEW cfg, NEW d, NEW refused, d # None, Suits(cfg, d, refused)
  PROVE  Suits(cfg, find_driver(cfg, Named(d).priority), refused \cup {d})
<1> DEFINE found == find_driver(cfg, Named(d).priority)
<1>1. CASE Exact(cfg) # {}  BY <1>1, FoundExact DEF Suits
<1>2. CASE Exact(cfg) = {}
  <2>1. PICK i \in Class(cfg) : Choice(cfg, d, refused, i)  BY <1>2 DEF Suits
  <2>2. Named(d) = drivers[i]  BY <2>1, NamedIs DEF Choice, Class
  <2>3. PICK p : p = drivers[i].priority  OBVIOUS
  <2>4. \A j \in Class(cfg) : drivers[j].priority \in 0..Highest  BY NamedIs DEF Class
  <2>5. p \in Nat  BY <2>3, <2>4, HighestNat
  <2>6. PICK more : more = refused \cup {d}  OBVIOUS
  <2>7. \A q : Asked(q, refused) => Asked(q, more)  BY <2>6 DEF Asked
  <2>8. Asked(p, more)  BY <2>2, <2>3, <2>6 DEF Asked
  <2>9. \A j \in Class(cfg) : drivers[j].priority >= p /\ drivers[j].priority < Highest => Asked(drivers[j].priority, more)
    BY <2>1, <2>3, <2>4, <2>5, <2>7, <2>8, HighestNat DEF Choice
  <2>10. \A r \in more : Named(r).priority \in Nat /\ p <= Named(r).priority
    <3>1. \A r \in refused : Named(r).priority \in Nat /\ p < Named(r).priority  BY <2>1, <2>3 DEF Choice
    <3>2. \A r \in refused : p <= Named(r).priority  BY <3>1, <2>5
    <3> QED BY <3>1, <3>2, <2>2, <2>3, <2>5, <2>6
  <2>11. CASE /\ found = None
              /\ \A j \in Class(cfg) : drivers[j].priority >= p
    BY <1>2, <2>9, <2>6, <2>11 DEF Suits
  <2>12. ASSUME NEW k \in Class(cfg), found = drivers[k].id, drivers[k].priority < p,
                \A j \in Class(cfg) : drivers[j].priority < p => drivers[j].priority <= drivers[k].priority
         PROVE  Suits(cfg, found, more)
    <3>1. \A j \in Class(cfg) : drivers[k].priority < drivers[j].priority => drivers[j].priority >= p
      BY <2>4, <2>5, <2>12, HighestNat
    <3>2. \A r \in more : Named(r).priority \in Nat /\ drivers[k].priority < Named(r).priority
      BY <2>4, <2>5, <2>10, <2>12, HighestNat
    <3>3. Choice(cfg, found, more, k)  BY <2>9, <2>12, <3>1, <3>2 DEF Choice
    <3> QED BY <1>2, <2>12, <3>3 DEF Suits
  <2> QED BY <1>2, <2>2, <2>3, <2>5, <2>6, <2>11, <2>12, FoundClass
<1> QED BY <1>1, <1>2

LEMMA SuitsServed ==
  ASSUME DriversInv, NEW v, Suits(Fn(v), v.assigned_driver, v.refused),
         v.assigned_driver # None => v.bound \/ Named(v.assigned_driver).priority = 0
  PROVE  Served(v)
<1> DEFINE cfg == Fn(v)
           all == {drivers[i] : i \in DOMAIN drivers}
           exact == {d \in all : MatchesId(d, cfg)}
           class == {d \in all : MatchesClass(d, cfg)}
           a == Named(v.assigned_driver)
           served == CASE exact # {} -> v.assigned_driver \in {d.id : d \in exact}
                       [] exact = {} /\ v.assigned_driver = None ->
                            \A d \in class : d.priority < Highest => Asked(d.priority, v.refused)
                       [] OTHER -> /\ a \in class /\ v.assigned_driver \notin v.refused
                                   /\ v.bound \/ a.priority = 0
                                   /\ \A d \in class : a.priority < d.priority /\ d.priority < Highest => Asked(d.priority, v.refused)
<1>1. Served(v) <=> served  BY DEF Served, Fn, Asked
<1>2. \A d \in exact : \E i \in Exact(cfg) : d = drivers[i]  BY DEF Exact
<1>3. \A i \in Exact(cfg) : drivers[i] \in exact  BY DEF Exact
<1>4. \A d \in class : \E i \in Class(cfg) : d = drivers[i]  BY DEF Class
<1>5. \A i \in Class(cfg) : drivers[i] \in class  BY DEF Class
<1> HIDE DEF cfg, exact, class, a
<1>6. CASE Exact(cfg) # {}
  <2>1. PICK i \in Exact(cfg) : v.assigned_driver = drivers[i].id  BY <1>6 DEF Suits, cfg
  <2> QED BY <2>1, <1>1, <1>3
<1>7. CASE Exact(cfg) = {} /\ v.assigned_driver = None
  <2>1. exact = {}  BY <1>2, <1>7
  <2>2. \A j \in Class(cfg) : drivers[j].priority < Highest => Asked(drivers[j].priority, v.refused)
    BY <1>7, NamedIs DEF Suits, Choice, Class, cfg
  <2> QED BY <2>1, <2>2, <1>1, <1>4, <1>7
<1>8. CASE Exact(cfg) = {} /\ v.assigned_driver # None
  <2>1. exact = {}  BY <1>2, <1>8
  <2>2. PICK i \in Class(cfg) : Choice(cfg, v.assigned_driver, v.refused, i)  BY <1>8 DEF Suits, cfg
  <2>3. a = drivers[i] /\ a \in class  BY <2>2, <1>5, NamedIs DEF a, Choice, Class
  <2>4. v.assigned_driver \notin v.refused
    <3>1. ASSUME v.assigned_driver \in v.refused PROVE FALSE
      <4>1. a.priority \in Nat /\ a.priority < a.priority  BY <2>2, <2>3, <3>1 DEF Choice, a
      <4> QED BY <4>1
    <3> QED BY <3>1
  <2>5. v.bound \/ a.priority = 0  BY <1>8 DEF a
  <2>6. \A d \in class : a.priority < d.priority /\ d.priority < Highest => Asked(d.priority, v.refused)
    BY <2>2, <2>3, <1>4 DEF Choice
  <2> QED BY <2>1, <2>3, <2>4, <2>5, <2>6, <1>1, <1>8
<1> QED BY <1>6, <1>7, <1>8

LEMMA RecordServed ==
  ASSUME DriversInv, OfferInv, ServedInv, at = "bind", NEW b \in BOOLEAN, Record(offered.driver, b), UNCHANGED <<drivers, bus>>,
         offered.driver # None => b \/ Named(offered.driver).priority = 0
  PROVE  OfferInv' /\ ServedInv'
<1>1. PICK v : v = [fn |-> offered.fn, assigned_driver |-> offered.driver, bound |-> b, refused |-> offered.refused]
  OBVIOUS
<1>2. Front(devices', v, devices)  BY <1>1, Prepend DEF Record, ServedInv, devices
<1>3. v.fn = <<Crt.slot, Crt.fn>> /\ v.assigned_driver = offered.driver /\ v.refused = offered.refused /\ v.bound = b
  BY <1>1 DEF OfferInv
<1>4. Fn(v) = Config(Crt)  BY <1>3 DEF Fn, Config, Functions
<1>5. Served(v)  BY <1>3, <1>4, SuitsServed DEF OfferInv
<1>6. \A x : Served(x)' <=> Served(x)  BY DEF Served, Named, MatchesId, MatchesClass
<1>7. Len(devices) \in Nat /\ DOMAIN devices = 1..Len(devices)  BY Indices DEF ServedInv
<1>8. Len(devices') = Len(devices) + 1 /\ DOMAIN devices' = 1..Len(devices) + 1  BY <1>2, Indices DEF Front
<1>9. ASSUME NEW i \in DOMAIN devices' PROVE Served(devices'[i])
  <2>1. CASE i = 1  BY <2>1, <1>2, <1>5 DEF Front
  <2>2. CASE i # 1
    <3>1. i - 1 \in 1..Len(devices) /\ (i - 1) + 1 = i  BY <2>2, <1>7, <1>8
    <3>2. devices'[i] = devices[i - 1]  BY <3>1, <1>2 DEF Front
    <3> QED BY <3>1, <3>2, <1>7 DEF ServedInv
  <2> QED BY <2>1, <2>2
<1>10. ServedInv'  BY <1>2, <1>6, <1>9 DEF ServedInv, Front, devices
<1>11. OfferInv'  BY DEF OfferInv, Record, Running
<1> QED BY <1>10, <1>11

LEMMA StillServed == ASSUME ServedInv, UNCHANGED <<devices, drivers, bus>> PROVE ServedInv'
<1>1. \A x : Served(x)' <=> Served(x)  BY DEF Served, Named, MatchesId, MatchesClass
<1> QED BY <1>1 DEF ServedInv

LEMMA OfferStep ==
  ASSUME BootInv, DriversInv, OfferInv, ServedInv, [Next]_vars PROVE OfferInv' /\ ServedInv'
<1>1. CASE Load
  <2>1. at \in {"check", "relocate"} /\ at' \in Running \cup {"astray"} /\ UNCHANGED <<devices, drivers, bus>>
    BY <1>1 DEF Load, kept, load_driver_bin, CheckHeader, NoPlace, Place, process_relocations, Passport, NullPassport, FailLoad, Running
  <2> QED BY <2>1, StillServed DEF OfferInv, Running
<1>2. CASE NotRegistered
  BY <1>2, StillServed DEF NotRegistered, NoInit, NoDriver, kept, OfferInv, Running
<1>3. CASE register_driver_i
  <2>1. devices' = <<>> /\ at' = "registered"  BY <1>3 DEF register_driver_i, OfferInv, Running
  <2>2. <<>> \in Seq({}) /\ DOMAIN <<>> = {}  OBVIOUS
  <2>3. devices' \in Seq({}) /\ DOMAIN devices' = {}  BY <2>1, <2>2
  <2>4. ASequence(devices')  BY <2>3, InSeq
  <2> QED BY <2>1, <2>3, <2>4 DEF OfferInv, ServedInv, ASequence
<1>4. CASE TryNext
  BY <1>4, StillServed DEF TryNext, NextImage, kept, OfferInv, Running
<1>5. CASE StartVideo
  BY <1>5, StillServed DEF StartVideo, kept, OfferInv, Running
<1>6. CASE NullVideo
  BY <1>6, StillServed DEF NullVideo, kept, OfferInv, Running
<1>7. CASE device_from_pci
  <2>0. UNCHANGED <<drivers, bus>>  BY <1>7 DEF device_from_pci, kept
  <2>1. CASE Absent \/ Recurse
    BY <2>1, <2>0, StillServed DEF Absent, Recurse, Scanning, loading, OfferInv, Running
  <2>2. CASE Find
    <3>0. at = "scan" /\ agenda # <<>> /\ UNCHANGED <<agenda, devices>>  BY <2>2 DEF Find, Scanning
    <3>1. CASE at' = "astray" /\ UNCHANGED offered
      BY <3>1, <3>0, <2>0, StillServed DEF OfferInv, Running
    <3>2. CASE /\ offered' = [fn |-> <<Crt.slot, Crt.fn>>, driver |-> find_driver(Config(Crt), Highest), refused |-> {}]
               /\ at' = "bind"
      <4>1. PICK f : f = find_driver(Config(Crt), Highest)  OBVIOUS
      <4>2. Suits(Config(Crt), f, {})  BY <4>1, FirstOffer
      <4>3. Crt' = Crt /\ Config(Crt)' = Config(Crt)  BY <3>0, <2>0 DEF Crt, Config, Functions
      <4>4. \A c, d, r : Suits(c, d, r)' <=> Suits(c, d, r)
        BY <2>0 DEF Suits, Exact, Class, Choice, Asked, Named, MatchesId, MatchesClass
      <4>5. DOMAIN offered' = {"fn", "driver", "refused"} /\ offered'.fn = <<Crt.slot, Crt.fn>>
            /\ offered'.driver = f /\ offered'.refused = {}
        BY <3>2, <4>1
      <4>6. Suits(Config(Crt), offered.driver, offered.refused)'  BY <4>2, <4>3, <4>4, <4>5
      <4> QED BY <3>0, <3>2, <4>3, <4>5, <4>6, <2>0, StillServed DEF OfferInv, Running
    <3> QED BY <2>2, <3>1, <3>2 DEF Find
  <2>3. CASE NoDevice
    BY <2>3, <2>0, StillServed DEF NoDevice, Scanning, OfferInv, Running
  <2>4. CASE Unclaimed
    BY <2>4, <2>0, RecordServed DEF Unclaimed, Offering
  <2>5. CASE Bound
    BY <2>5, <2>0, RecordServed DEF Bound, Offering
  <2>6. CASE RefusedLast
    BY <2>6, <2>0, RecordServed DEF RefusedLast, Offering, GivesUp, Crtdriver
  <2>7. CASE Refused
    <3>0. at = "bind" /\ offered.driver # None /\ UNCHANGED <<at, agenda, devices>>  BY <2>7 DEF Refused, Offering, loading
    <3>1. PICK f : f = find_driver(Config(Crt), Crtdriver.priority)  OBVIOUS
    <3>2. PICK more : more = offered.refused \cup {offered.driver}  OBVIOUS
    <3>3. Suits(Config(Crt), f, more)  BY <3>0, <3>1, <3>2, NextOffer DEF Crtdriver, OfferInv
    <3>4. offered' = [offered EXCEPT !.driver = f, !.refused = more]  BY <2>7, <3>1, <3>2 DEF Refused
    <3>5. Crt' = Crt /\ Config(Crt)' = Config(Crt)  BY <3>0, <2>0 DEF Crt, Config, Functions
    <3>6. \A c, d, r : Suits(c, d, r)' <=> Suits(c, d, r)
      BY <2>0 DEF Suits, Exact, Class, Choice, Asked, Named, MatchesId, MatchesClass
    <3>9. DOMAIN offered = {"fn", "driver", "refused"}  BY <3>0 DEF OfferInv
    <3>7. /\ DOMAIN offered' = {"fn", "driver", "refused"}
          /\ offered'.fn = offered.fn /\ offered'.driver = f /\ offered'.refused = more
      BY <3>4, <3>9
    <3>8. Suits(Config(Crt), offered.driver, offered.refused)'  BY <3>3, <3>5, <3>6, <3>7
    <3> QED BY <3>0, <3>5, <3>7, <3>8, <2>0, StillServed DEF OfferInv, Running
  <2>8. CASE Unbindable
    <3>1. UNCHANGED <<at, agenda, devices, offered, drivers, bus>>  BY <2>8, <2>0 DEF Unbindable, loading
    <3>2. Crt' = Crt /\ Config(Crt)' = Config(Crt)  BY <3>1 DEF Crt, Config, Functions
    <3>3. \A c, d, r : Suits(c, d, r)' <=> Suits(c, d, r)
      BY <2>0 DEF Suits, Exact, Class, Choice, Asked, Named, MatchesId, MatchesClass
    <3> QED BY <3>1, <3>2, <3>3, StillServed DEF OfferInv
  <2> QED BY <1>7, <2>1, <2>2, <2>3, <2>4, <2>5, <2>6, <2>7, <2>8 DEF device_from_pci
<1>8. CASE UNCHANGED vars
  <2>1. UNCHANGED <<at, agenda, devices, offered, drivers, bus>>  BY <1>8 DEF vars, loading, drivers, devices
  <2>2. Crt' = Crt /\ Config(Crt)' = Config(Crt)  BY <2>1 DEF Crt, Config, Functions
  <2>3. \A c, d, r : Suits(c, d, r)' <=> Suits(c, d, r)
    BY <2>1 DEF Suits, Exact, Class, Choice, Asked, Named, MatchesId, MatchesClass
  <2> QED BY <2>1, <2>2, <2>3, StillServed DEF OfferInv
<1> QED BY <1>1, <1>2, <1>3, <1>4, <1>5, <1>6, <1>7, <1>8 DEF Next

LEMMA OfferInitial == ASSUME Init PROVE OfferInv /\ ServedInv
<1>1. <<>> \in Seq({}) /\ DOMAIN <<>> = {}  OBVIOUS
<1>2. devices = <<>> /\ at = "check"  BY DEF Init, LoadInit
<1>3. devices \in Seq({}) /\ DOMAIN devices = {}  BY <1>1, <1>2
<1>4. ASequence(devices)  BY <1>3, InSeq
<1> QED BY <1>2, <1>3, <1>4 DEF OfferInv, ServedInv

(* Spec => []DevicesServed.  The loop of device_from_pci (drivers/drivermodel.c) asks the drivers in the order of their
   priorities, for every set of drivers, whichever of them refuse.                                                    *)
THEOREM ServedAlways == Spec => []DevicesServed
<1> DEFINE Inv == BootInv /\ DriversInv /\ OfferInv /\ ServedInv
<1>1. Init => Inv  BY BootInitial, OfferInitial
<1>2. Inv /\ [Next]_vars => Inv'  BY BootStep, OfferStep
<1>3. Inv => DevicesServed  BY DEF ServedInv, DevicesServed
<1> QED BY <1>1, <1>2, <1>3, PTL DEF Spec

-----------------------------------------------------------------------------
(* Sequences without repetitions.                                          *)
Elems(s) == {s[i] : i \in DOMAIN s}
Simple(s) == ASequence(s) /\ \A i, j \in DOMAIN s : s[i] = s[j] => i = j

LEMMA TailSimple ==
  ASSUME NEW s, Simple(s), s # <<>>
  PROVE  Simple(Tail(s)) /\ Elems(Tail(s)) = Elems(s) \ {Head(s)} /\ Head(s) \in Elems(s)
<1>1. Len(s) \in Nat /\ DOMAIN s = 1..Len(s)  BY Indices DEF Simple
<1>2. PICK S : S = Elems(s)  OBVIOUS
<1>3. s \in Seq(S)  BY <1>2 DEF Simple, ASequence, Elems
<1>4. PICK t : t = Tail(s)  OBVIOUS
<1>5. t \in Seq(S) /\ Len(t) = Len(s) - 1 /\ \A i \in 1..Len(t) : t[i] = s[i + 1]
  BY <1>3, <1>4, HeadTailProperties
<1>6. DOMAIN t = 1..Len(s) - 1 /\ Len(s) >= 1
  <2>1. Len(s) # 0  BY <1>3
  <2> QED BY <1>1, <1>5, <2>1
<1>7. Head(s) = s[1]  BY <1>3
<1>8. \A i \in DOMAIN t : i + 1 \in DOMAIN s /\ t[i] = s[i + 1]  BY <1>1, <1>5, <1>6
<1>9. \A i \in DOMAIN s : i # 1 => i - 1 \in DOMAIN t /\ t[i - 1] = s[i]
  <2> SUFFICES ASSUME NEW i \in DOMAIN s, i # 1 PROVE i - 1 \in DOMAIN t /\ t[i - 1] = s[i]  OBVIOUS
  <2>1. i - 1 \in 1..Len(t) /\ (i - 1) + 1 = i  BY <1>1, <1>5, <1>6
  <2> QED BY <2>1, <1>5, <1>6
<1>10. Simple(t)
  <2>1. ASSUME NEW i \in DOMAIN t, NEW j \in DOMAIN t, t[i] = t[j] PROVE i = j
    <3>1. i + 1 = j + 1  BY <2>1, <1>8 DEF Simple
    <3> QED BY <3>1, <1>6
  <2>2. ASequence(t)  BY <1>5, InSeq
  <2> QED BY <2>1, <2>2 DEF Simple
<1>11. Elems(t) = Elems(s) \ {s[1]}
  <2>1. ASSUME NEW i \in DOMAIN t PROVE t[i] \in Elems(s) /\ t[i] # s[1]
    <3>1. i + 1 # 1  BY <1>6
    <3>2. 1 \in DOMAIN s  BY <1>1, <1>6
    <3> QED BY <3>1, <3>2, <1>8 DEF Simple, Elems
  <2>2. ASSUME NEW x \in Elems(s), x # s[1] PROVE x \in Elems(t)
    <3>1. PICK i \in DOMAIN s : x = s[i]  BY DEF Elems
    <3> QED BY <2>2, <3>1, <1>9 DEF Elems
  <2> QED BY <2>1, <2>2 DEF Elems
<1> QED BY <1>1, <1>4, <1>6, <1>7, <1>10, <1>11 DEF Elems

LEMMA ConcatSimple ==
  ASSUME NEW s, NEW t, Simple(s), Simple(t), Elems(s) \cap Elems(t) = {}
  PROVE  Simple(s \o t) /\ Elems(s \o t) = Elems(s) \cup Elems(t)
<1>1. Len(s) \in Nat /\ DOMAIN s = 1..Len(s) /\ Len(t) \in Nat /\ DOMAIN t = 1..Len(t)  BY Indices DEF Simple
<1>2. PICK S : S = Elems(s) \cup Elems(t)  OBVIOUS
<1>3. s \in Seq(S)
  <2>1. \A i \in 1..Len(s) : s[i] \in S  BY <1>1, <1>2 DEF Elems
  <2>2. s = [i \in 1..Len(s) |-> s[i]]
    <3>1. PICK T : T = Elems(s)  OBVIOUS
    <3>2. s \in Seq(T)  BY <3>1 DEF Simple, ASequence, Elems
    <3> QED BY <3>2
  <2> QED BY <1>1, <2>1, <2>2, IsASeq
<1>4. t \in Seq(S)
  <2>1. \A i \in 1..Len(t) : t[i] \in S  BY <1>1, <1>2 DEF Elems
  <2>2. t = [i \in 1..Len(t) |-> t[i]]
    <3>1. PICK T : T = Elems(t)  OBVIOUS
    <3>2. t \in Seq(T)  BY <3>1 DEF Simple, ASequence, Elems
    <3> QED BY <3>2
  <2> QED BY <1>1, <2>1, <2>2, IsASeq
<1>5. PICK u : u = s \o t  OBVIOUS
<1>6. /\ u \in Seq(S) /\ Len(u) = Len(s) + Len(t)
      /\ \A i \in 1..Len(s) + Len(t) : u[i] = IF i <= Len(s) THEN s[i] ELSE t[i - Len(s)]
  BY <1>3, <1>4, <1>5, ConcatProperties
<1>7. DOMAIN u = 1..Len(s) + Len(t)  BY <1>6
<1>8. \A i \in DOMAIN s : i \in DOMAIN u /\ u[i] = s[i]  BY <1>1, <1>6, <1>7
<1>9. \A i \in DOMAIN t : i + Len(s) \in DOMAIN u /\ u[i + Len(s)] = t[i]
  <2> SUFFICES ASSUME NEW i \in DOMAIN t PROVE i + Len(s) \in DOMAIN u /\ u[i + Len(s)] = t[i]  OBVIOUS
  <2>1. i + Len(s) \in 1..Len(s) + Len(t) /\ ~(i + Len(s) <= Len(s)) /\ (i + Len(s)) - Len(s) = i  BY <1>1
  <2> QED BY <2>1, <1>6, <1>7
<1>10. \A i \in DOMAIN u : (i \in DOMAIN s /\ u[i] = s[i]) \/ (i - Len(s) \in DOMAIN t /\ u[i] = t[i - Len(s)])
  BY <1>1, <1>6, <1>7
<1>11. ASSUME NEW i \in DOMAIN u, NEW j \in DOMAIN u, u[i] = u[j] PROVE i = j
  <2>1. CASE i \in DOMAIN s /\ u[i] = s[i]
    <3>1. u[j] \in Elems(s) /\ u[j] \notin Elems(t)  BY <1>11, <2>1 DEF Elems
    <3>2. j \in DOMAIN s /\ u[j] = s[j]  BY <3>1, <1>10 DEF Elems
    <3> QED BY <1>11, <2>1, <3>2 DEF Simple
  <2>2. CASE i - Len(s) \in DOMAIN t /\ u[i] = t[i - Len(s)]
    <3>1. u[j] \in Elems(t) /\ u[j] \notin Elems(s)  BY <1>11, <2>2 DEF Elems
    <3>2. j - Len(s) \in DOMAIN t /\ u[j] = t[j - Len(s)]  BY <3>1, <1>10 DEF Elems
    <3>3. i - Len(s) = j - Len(s)  BY <1>11, <2>2, <3>2 DEF Simple
    <3> QED BY <3>3, <1>1, <1>7
  <2> QED BY <2>1, <2>2, <1>10
<1>12. Simple(u)
  <2>1. ASequence(u)  BY <1>6, InSeq
  <2> QED BY <2>1, <1>11 DEF Simple
<1>13. Elems(u) = Elems(s) \cup Elems(t)
  <2>1. \A x \in Elems(u) : x \in Elems(s) \cup Elems(t)  BY <1>10 DEF Elems
  <2>2. \A x \in Elems(s) : x \in Elems(u)  BY <1>8 DEF Elems
  <2>3. \A x \in Elems(t) : x \in Elems(u)  BY <1>9 DEF Elems
  <2> QED BY <2>1, <2>2, <2>3
<1> QED BY <1>5, <1>12, <1>13

LEMMA OneSimple == ASSUME NEW e PROVE Simple(<<e>>) /\ Elems(<<e>>) = {e}
<1>1. <<e>> \in Seq({e}) /\ DOMAIN <<e>> = {1} /\ <<e>>[1] = e  OBVIOUS
<1>2. ASequence(<<e>>)  BY <1>1, InSeq
<1> QED BY <1>1, <1>2 DEF Simple, Elems

-----------------------------------------------------------------------------
(* The calls to make, P, and the functions recorded, R.                    *)
Fresh(c) == c.fn = 0 /\ ~c.expanded
Root(s) == 0 \in DOMAIN bus[s] /\ MultiFunction(bus[s][0])
Address2(c) == <<c.slot, c.fn>>

CallOK(c) ==
  /\ DOMAIN c = {"slot", "fn", "expanded"} /\ c.slot \in DOMAIN bus /\ c.fn \in 0..LastFn
  /\ Fresh(c) \/ Root(c.slot)
Coherent(P, R) ==
  /\ \A c \in P : CallOK(c) /\ Address2(c) \notin R
  /\ \A c, d \in P : c.slot = d.slot /\ (c.fn = d.fn \/ Fresh(c)) => c = d
  /\ \A c \in P : Fresh(c) => \A v \in R : v[1] # c.slot
  /\ \A v \in R : v \in Addresses /\ Reachable(v)
  /\ \A v \in Addresses : Reachable(v) => v \in R \/ \E c \in P : c.slot = v[1] /\ (Fresh(c) \/ c.fn = v[2])

LEMMA CoherentAbsent ==
  ASSUME NEW P, NEW R, NEW c \in P, Coherent(P, R), ~Answers(c) PROVE Coherent(P \ {c}, R)
<1>1. ASSUME NEW v \in Addresses, Reachable(v), v \notin R
      PROVE \E d \in P \ {c} : d.slot = v[1] /\ (Fresh(d) \/ d.fn = v[2])
  <2>1. PICK d \in P : d.slot = v[1] /\ (Fresh(d) \/ d.fn = v[2])  BY <1>1 DEF Coherent
  <2>2. d # c  BY <1>1, <2>1 DEF Answers, Functions, Reachable, Fresh
  <2> QED BY <2>1, <2>2
<1> QED BY <1>1 DEF Coherent

LEMMA CoherentRecord ==
  ASSUME NEW P, NEW R, NEW c \in P, Coherent(P, R), Answers(c), ~Expands(c)
  PROVE  Coherent(P \ {c}, R \cup {Address2(c)}) /\ Address2(c) \notin R
<1>1. CallOK(c) /\ Address2(c) \notin R  BY DEF Coherent
<1>2. PICK a : a = Address2(c)  OBVIOUS
<1>3. a[1] = c.slot /\ a[2] = c.fn /\ a \in Addresses  BY <1>1, <1>2 DEF Address2, Addresses, CallOK
<1>4. Reachable(a)
  <2>1. a[2] \in DOMAIN bus[a[1]]  BY <1>3 DEF Answers, Functions
  <2>2. CASE Fresh(c)  BY <2>1, <2>2, <1>3 DEF Fresh, Reachable
  <2>3. CASE Root(c.slot)  BY <2>1, <2>3, <1>3 DEF Root, Reachable
  <2> QED BY <2>2, <2>3, <1>1 DEF CallOK
<1>5. \A d \in P \ {c} : d.slot = c.slot => d.fn # c.fn /\ ~Fresh(d) /\ ~Fresh(c)  BY DEF Coherent
<1>6. \A d \in P \ {c} : Address2(d) # a  BY <1>2, <1>5 DEF Address2
<1>7. ASSUME NEW v \in Addresses, Reachable(v), v \notin R \cup {a}
      PROVE \E d \in P \ {c} : d.slot = v[1] /\ (Fresh(d) \/ d.fn = v[2])
  <2>1. PICK d \in P : d.slot = v[1] /\ (Fresh(d) \/ d.fn = v[2])  BY <1>7 DEF Coherent
  <2>2. d # c
    <3>1. ASSUME d = c PROVE FALSE
      <4>1. v = <<v[1], v[2]>>  BY DEF Addresses
      <4>2. v[2] # c.fn  BY <1>2, <1>7, <2>1, <3>1, <4>1 DEF Address2
      <4>3. Fresh(c) /\ v[2] # 0 /\ v[2] \in 0..LastFn  BY <2>1, <3>1, <4>2 DEF Addresses, Fresh
      <4>4. MultiFunction(bus[c.slot][0])  BY <1>7, <2>1, <3>1, <4>3, DriverModelAssumption DEF Reachable
      <4> QED BY <4>3, <4>4 DEF Expands, Fresh, Config, Functions
    <3> QED BY <3>1
  <2> QED BY <2>1, <2>2
<1>8. \A d \in P \ {c} : Fresh(d) => \A v \in R \cup {a} : v[1] # d.slot  BY <1>3, <1>5 DEF Coherent
<1> QED BY <1>1, <1>2, <1>3, <1>4, <1>6, <1>7, <1>8 DEF Coherent

(* What the call for function 0 of a slot leaves to do: the calls for the other functions, and itself.     *)
Others(c) == {Call(c.slot, f) : f \in 1..LastFn}
Resumed(c) == [c EXCEPT !.expanded = TRUE]
Widened(c, N, x, P, R) ==
  /\ Coherent((N \cup {x}) \cup (P \ {c}), R) /\ x \notin N
  /\ (N \cup {x}) \cap (P \ {c}) = {}

LEMMA CoherentExpand ==
  ASSUME NEW P, NEW R, NEW c \in P, Coherent(P, R), Answers(c), Expands(c),
         NEW N, N = Others(c), NEW x, x = Resumed(c)
  PROVE  Widened(c, N, x, P, R)
<1>1. CallOK(c) /\ Address2(c) \notin R /\ Fresh(c)  BY DEF Coherent, Expands, Fresh
<1>2. x.slot = c.slot /\ x.fn = 0 /\ DOMAIN x = {"slot", "fn", "expanded"} /\ x.expanded
  BY <1>1 DEF CallOK, Fresh, Resumed
<1>3. Root(c.slot)  BY <1>1 DEF Root, Expands, Answers, Config, Functions, Fresh
<1>4. \A n \in N : \E f \in 1..LastFn : n = [slot |-> c.slot, fn |-> f, expanded |-> FALSE]  BY DEF Call, Others
<1>5. \A n \in N : n.slot = c.slot /\ n.fn \in 1..LastFn /\ DOMAIN n = {"slot", "fn", "expanded"} /\ ~n.expanded  BY <1>4
<1>6. \A n \in N : n.fn # 0 /\ n.fn \in 0..LastFn  BY <1>5, DriverModelAssumption
<1>7. PICK Q : Q = N \cup {x}  OBVIOUS
<1>8. \A q \in Q : q.slot = c.slot /\ q.fn \in 0..LastFn /\ DOMAIN q = {"slot", "fn", "expanded"} /\ ~Fresh(q)
  BY <1>2, <1>5, <1>6, <1>7, DriverModelAssumption DEF Fresh
<1>9. \A q \in Q : CallOK(q)  BY <1>1, <1>3, <1>8 DEF CallOK
<1>10. \A q, r \in Q : q.fn = r.fn => q = r
  <2>3. \A n \in N : n = Call(c.slot, n.fn)  BY DEF Call, Others
  <2>1. \A n, m \in N : n.fn = m.fn => n = m  BY <2>3, Zenon
  <2>2. \A n \in N : n.fn # x.fn  BY <1>2, <1>6
  <2> QED BY <2>1, <2>2, <1>7, ZenonT(60)
<1>11. \A d \in P \ {c} : d.slot # c.slot  BY <1>1 DEF Coherent
<1>12. \A v \in R : v[1] # c.slot  BY <1>1 DEF Coherent
<1>13. \A q \in Q : Address2(q) \notin R  BY <1>8, <1>12 DEF Address2
<1>14. Q \cap (P \ {c}) = {}  BY <1>8, <1>11
<1>15. ASSUME NEW v \in Addresses, Reachable(v), v \notin R
       PROVE \E d \in Q \cup (P \ {c}) : d.slot = v[1] /\ (Fresh(d) \/ d.fn = v[2])
  <2>1. PICK d \in P : d.slot = v[1] /\ (Fresh(d) \/ d.fn = v[2])  BY <1>15 DEF Coherent
  <2>2. CASE d # c  BY <2>1, <2>2
  <2>3. CASE d = c
    <3>1. v[2] \in 0..LastFn  BY DEF Addresses
    <3>2. CASE v[2] = 0  BY <2>1, <2>3, <3>2, <1>2, <1>7
    <3>3. CASE v[2] \in 1..LastFn
      <4>1. Call(c.slot, v[2]) \in N  BY <3>3 DEF Others
      <4>2. Call(c.slot, v[2]).slot = c.slot /\ Call(c.slot, v[2]).fn = v[2]  BY DEF Call
      <4> QED BY <2>1, <2>3, <4>1, <4>2, <1>7
    <3> QED BY <3>1, <3>2, <3>3, DriverModelAssumption
  <2> QED BY <2>2, <2>3
<1>16. Coherent(Q \cup (P \ {c}), R)
  <2>1. \A d \in Q \cup (P \ {c}) : CallOK(d) /\ Address2(d) \notin R  BY <1>9, <1>13 DEF Coherent
  <2>2. \A d, e \in Q \cup (P \ {c}) : d.slot = e.slot /\ (d.fn = e.fn \/ Fresh(d)) => d = e
    BY <1>8, <1>10, <1>11 DEF Coherent
  <2>3. \A d \in Q \cup (P \ {c}) : Fresh(d) => \A v \in R : v[1] # d.slot  BY <1>8 DEF Coherent
  <2>4. \A v \in R : v \in Addresses /\ Reachable(v)  BY DEF Coherent
  <2> QED BY <1>15, <2>1, <2>2, <2>3, <2>4 DEF Coherent
<1>17. x \notin N  BY <1>2, <1>6
<1> QED BY <1>7, <1>14, <1>16, <1>17 DEF Widened

AgendaInv ==
  /\ Simple(agenda) /\ Coherent(Elems(agenda), Recorded)
  /\ at = "bind" => Answers(Crt) /\ ~Expands(Crt)
  /\ IsFiniteSet(Recorded) /\ Cardinality(Recorded) = Len(devices)

LEMMA AgendaInitial == ASSUME Init PROVE AgendaInv
<1>1. ASequence(bus) /\ LastFn \in Nat  BY DriverModelAssumption DEF Init
<1>2. Len(bus) \in Nat /\ DOMAIN bus = 1..Len(bus)  BY <1>1, Indices
<1>3. agenda = [s \in 1..Len(bus) |-> Call(s, 0)]  BY <1>2 DEF Init
<1>4. Simple(agenda)
  <2>1. PICK S : S = {Call(s, 0) : s \in 1..Len(bus)}  OBVIOUS
  <2>2. \A s \in 1..Len(bus) : Call(s, 0) \in S  BY <2>1
  <2>3. agenda \in Seq(S)  BY <1>2, <1>3, <2>2, IsASeq
  <2>4. ASequence(agenda)  BY <2>3, InSeq
  <2>5. \A s, t \in 1..Len(bus) : Call(s, 0) = Call(t, 0) => s = t  BY DEF Call
  <2> QED BY <1>3, <2>4, <2>5 DEF Simple
<1>5. devices = <<>> /\ at = "check"  BY DEF Init, LoadInit
<1>6. Recorded = {} /\ Len(devices) = 0  BY <1>5 DEF Recorded
<1>7. \A c \in Elems(agenda) : \E s \in DOMAIN bus : c = [slot |-> s, fn |-> 0, expanded |-> FALSE]
  BY <1>2, <1>3 DEF Elems, Call
<1>8. \A c \in Elems(agenda) : c.slot \in DOMAIN bus /\ c.fn = 0 /\ ~c.expanded /\ DOMAIN c = {"slot", "fn", "expanded"}
  BY <1>7
<1>9. \A c, d \in Elems(agenda) : c.slot = d.slot => c = d
  <2>1. \A c \in Elems(agenda) : c = Call(c.slot, 0)  BY <1>2, <1>3 DEF Elems, Call
  <2> QED BY <2>1, Zenon
<1>10. \A c \in Elems(agenda) : CallOK(c) /\ Fresh(c)  BY <1>1, <1>8 DEF CallOK, Fresh
<1>11. \A s \in DOMAIN bus : \E c \in Elems(agenda) : c.slot = s
  <2> SUFFICES ASSUME NEW s \in DOMAIN bus PROVE \E c \in Elems(agenda) : c.slot = s  OBVIOUS
  <2>1. Call(s, 0) \in Elems(agenda)  BY <1>2, <1>3 DEF Elems
  <2> QED BY <2>1 DEF Call
<1>12. \A v \in Addresses : v[1] \in DOMAIN bus  BY DEF Addresses
<1>13. Coherent(Elems(agenda), {})  BY <1>9, <1>10, <1>11, <1>12 DEF Coherent
<1> QED BY <1>4, <1>5, <1>6, <1>13, FS_EmptySet DEF AgendaInv

(* Recorded after a device joined the list.                                *)
LEMMA RecordedGrows ==
  ASSUME NEW b, ServedInv, Record(offered.driver, b) PROVE Recorded' = Recorded \cup {offered.fn} /\ Len(devices') = Len(devices) + 1
<1>1. PICK v : v = [fn |-> offered.fn, assigned_driver |-> offered.driver, bound |-> b, refused |-> offered.refused]
  OBVIOUS
<1>2. Front(devices', v, devices)  BY <1>1, Prepend DEF Record, ServedInv, devices
<1>3. v.fn = offered.fn  BY <1>1
<1>4. Len(devices) \in Nat /\ DOMAIN devices = 1..Len(devices)  BY Indices DEF ServedInv
<1>5. Len(devices') = Len(devices) + 1 /\ DOMAIN devices' = 1..Len(devices) + 1  BY <1>2, Indices DEF Front
<1>6. ASSUME NEW i \in DOMAIN devices' PROVE devices'[i].fn \in Recorded \cup {offered.fn}
  <2>1. CASE i = 1  BY <2>1, <1>2, <1>3 DEF Front
  <2>2. CASE i # 1
    <3>1. i - 1 \in 1..Len(devices) /\ (i - 1) + 1 = i  BY <2>2, <1>4, <1>5
    <3>2. devices'[i] = devices[i - 1]  BY <3>1, <1>2 DEF Front
    <3> QED BY <3>1, <3>2, <1>4 DEF Recorded
  <2> QED BY <2>1, <2>2
<1>7. \A i \in DOMAIN devices : i + 1 \in DOMAIN devices' /\ devices'[i + 1] = devices[i]  BY <1>2, <1>4, <1>5 DEF Front
<1>8. 1 \in DOMAIN devices' /\ devices'[1].fn = offered.fn  BY <1>2, <1>3, <1>4, <1>5 DEF Front
<1>9. Recorded' = {devices'[i].fn : i \in DOMAIN devices'}  BY DEF Recorded
<1>10. \A a \in Recorded : a \in Recorded'  BY <1>7, <1>9 DEF Recorded
<1>11. \A a \in Recorded' : a \in Recorded \cup {offered.fn}  BY <1>6, <1>9
<1>12. offered.fn \in Recorded'  BY <1>8, <1>9
<1> QED BY <1>5, <1>10, <1>11, <1>12

LEMMA RecordAgenda ==
  ASSUME NEW b, OfferInv, ServedInv, AgendaInv, at = "bind", Record(offered.driver, b), UNCHANGED bus PROVE AgendaInv'
<1>1. PICK c : c = Head(agenda)  OBVIOUS
<1>2. agenda # <<>> /\ offered.fn = Address2(c) /\ Answers(c) /\ ~Expands(c)
  BY <1>1 DEF OfferInv, AgendaInv, Crt, Address2
<1>3. agenda' = Tail(agenda) /\ at' = "scan"  BY DEF Record
<1>4. Simple(agenda') /\ Elems(agenda') = Elems(agenda) \ {c} /\ c \in Elems(agenda)
  BY <1>1, <1>2, <1>3, TailSimple DEF AgendaInv
<1>5. PICK P : P = Elems(agenda)  OBVIOUS
<1>6. PICK R : R = Recorded  OBVIOUS
<1>7. Coherent(P \ {c}, R \cup {Address2(c)}) /\ Address2(c) \notin R
  BY <1>2, <1>4, <1>5, <1>6, CoherentRecord DEF AgendaInv
<1>8. \A Q, S : Coherent(Q, S)' <=> Coherent(Q, S)
  BY DEF Coherent, CallOK, Fresh, Root, Address2, Addresses, Reachable
<1>9. Recorded' = R \cup {Address2(c)} /\ Len(devices') = Len(devices) + 1  BY <1>2, <1>6, RecordedGrows
<1>10. Coherent(Elems(agenda), Recorded)'  BY <1>4, <1>5, <1>7, <1>8, <1>9
<1>11. IsFiniteSet(Recorded') /\ Cardinality(Recorded') = Len(devices')
  <2>1. IsFiniteSet(R) /\ Cardinality(R) = Len(devices)  BY <1>6 DEF AgendaInv
  <2> QED BY <2>1, <1>7, <1>9, FS_AddElement
<1> QED BY <1>3, <1>4, <1>10, <1>11 DEF AgendaInv

LEMMA AgendaSame ==
  ASSUME AgendaInv, UNCHANGED <<agenda, devices, bus>>, at' = "bind" => Answers(Crt) /\ ~Expands(Crt) PROVE AgendaInv'
<1>1. \A Q, S : Coherent(Q, S)' <=> Coherent(Q, S)
  BY DEF Coherent, CallOK, Fresh, Root, Address2, Addresses, Reachable
<1>2. Recorded' = Recorded  BY DEF Recorded
<1>3. Crt' = Crt /\ (Answers(Crt)' <=> Answers(Crt)) /\ (Expands(Crt)' <=> Expands(Crt))
  BY DEF Crt, Answers, Expands, Functions, Config
<1>4. Coherent(Elems(agenda), Recorded)'  BY <1>1, <1>2 DEF AgendaInv
<1> QED BY <1>2, <1>3, <1>4 DEF AgendaInv

LEMMA AgendaStep ==
  ASSUME BootInv, OfferInv, ServedInv, AgendaInv, [Next]_vars PROVE AgendaInv'
<1>1. CASE Load \/ NotRegistered \/ register_driver_i \/ TryNext \/ StartVideo \/ NullVideo
  <2>1. UNCHANGED <<agenda, devices, bus>>
    BY <1>1 DEF Load, NotRegistered, register_driver_i, TryNext, StartVideo, NullVideo, kept
  <2>2. at' # "bind"
    BY <1>1 DEF Load, NotRegistered, register_driver_i, TryNext, StartVideo, NullVideo, NoInit, NoDriver, NextImage,
                load_driver_bin, CheckHeader, NoPlace, Place, process_relocations, Passport, NullPassport, FailLoad
  <2> QED BY <2>1, <2>2, AgendaSame
<1>2. CASE device_from_pci
  <2>0. UNCHANGED bus  BY <1>2 DEF device_from_pci, kept
  <2>1. CASE Absent
    <3>1. PICK c : c = Head(agenda)  OBVIOUS
    <3>2. agenda # <<>> /\ ~Answers(c) /\ agenda' = Tail(agenda) /\ UNCHANGED devices /\ at' = "scan"
      BY <2>1, <3>1 DEF Absent, Scanning, Crt, loading
    <3>3. Simple(agenda') /\ Elems(agenda') = Elems(agenda) \ {c} /\ c \in Elems(agenda)
      BY <3>1, <3>2, TailSimple DEF AgendaInv
    <3>4. PICK P : P = Elems(agenda)  OBVIOUS
    <3>5. PICK R : R = Recorded  OBVIOUS
    <3>6. Coherent(P \ {c}, R)  BY <3>2, <3>3, <3>4, <3>5, CoherentAbsent DEF AgendaInv
    <3>7. \A Q, S : Coherent(Q, S)' <=> Coherent(Q, S)
      BY <2>0 DEF Coherent, CallOK, Fresh, Root, Address2, Addresses, Reachable
    <3>8. Recorded' = Recorded  BY <3>2 DEF Recorded
    <3>9. Coherent(Elems(agenda), Recorded)'  BY <3>3, <3>4, <3>5, <3>6, <3>7, <3>8
    <3> QED BY <3>2, <3>3, <3>8, <3>9 DEF AgendaInv
  <2>2. CASE Recurse
    <3>1. PICK c : c = Head(agenda)  OBVIOUS
    <3>2. agenda # <<>> /\ Answers(c) /\ Expands(c) /\ UNCHANGED devices /\ at' = "scan"
      BY <2>2, <3>1 DEF Recurse, Scanning, Crt, loading
    <3>3. PICK new : new = [f \in 1..LastFn |-> Call(c.slot, f)]  OBVIOUS
    <3>4. PICK x : x = [c EXCEPT !.expanded = TRUE]  OBVIOUS
    <3>5. PICK t : t = Tail(agenda)  OBVIOUS
    <3>6. PICK one : one = <<x>>  OBVIOUS
    <3>7. agenda' = new \o one \o t  BY <2>2, <3>1, <3>3, <3>4, <3>5, <3>6 DEF Recurse, Crt
    <3>8. PICK N : N = {Call(c.slot, f) : f \in 1..LastFn}  OBVIOUS
    <3>9. Simple(t) /\ Elems(t) = Elems(agenda) \ {c} /\ c \in Elems(agenda)
      BY <3>1, <3>2, <3>5, TailSimple DEF AgendaInv
    <3>10. PICK P : P = Elems(agenda)  OBVIOUS
    <3>11. PICK R : R = Recorded  OBVIOUS
    <3>12. Coherent((N \cup {x}) \cup (P \ {c}), R) /\ x \notin N /\ (N \cup {x}) \cap (P \ {c}) = {}
      <4>1. c \in P  BY <3>9, <3>10
      <4>2. Coherent(P, R)  BY <3>10, <3>11 DEF AgendaInv
      <4>3. N = Others(c) /\ x = Resumed(c)  BY <3>4, <3>8 DEF Others, Resumed
      <4>4. Widened(c, N, x, P, R)  BY <4>1, <4>2, <4>3, <3>2, CoherentExpand, Zenon
      <4> QED BY <4>4 DEF Widened
    <3>13. Simple(new) /\ Elems(new) = N
      <4>1. \A f \in 1..LastFn : Call(c.slot, f) \in N  BY <3>8
      <4>2. new \in Seq(N)  BY <4>1, <3>3, DriverModelAssumption, IsASeq
      <4>3. ASequence(new)  BY <4>2, InSeq
      <4>4. \A f, g \in 1..LastFn : Call(c.slot, f) = Call(c.slot, g) => f = g  BY DEF Call
      <4>5. Elems(new) = N  BY <3>3, <3>8 DEF Elems
      <4> QED BY <4>3, <4>4, <4>5, <3>3 DEF Simple
    <3>14. Simple(one) /\ Elems(one) = {x}  BY <3>6, OneSimple
    <3>15. PICK h : h = new \o one  OBVIOUS
    <3>16. Simple(h) /\ Elems(h) = N \cup {x}
      <4>1. Elems(new) \cap Elems(one) = {}  BY <3>12, <3>13, <3>14
      <4> QED BY <4>1, <3>13, <3>14, <3>15, ConcatSimple
    <3>17. Simple(h \o t) /\ Elems(h \o t) = (N \cup {x}) \cup (P \ {c})
      <4>1. Elems(h) \cap Elems(t) = {}  BY <3>9, <3>10, <3>12, <3>16
      <4>2. Simple(h \o t) /\ Elems(h \o t) = Elems(h) \cup Elems(t)  BY <4>1, <3>9, <3>16, ConcatSimple
      <4> QED BY <4>2, <3>9, <3>10, <3>16
    <3>18. agenda' = h \o t  BY <3>7, <3>15
    <3>19. \A Q, S : Coherent(Q, S)' <=> Coherent(Q, S)
      BY <2>0 DEF Coherent, CallOK, Fresh, Root, Address2, Addresses, Reachable
    <3>20. Recorded' = Recorded  BY <3>2 DEF Recorded
    <3>21. Simple(agenda') /\ Elems(agenda') = (N \cup {x}) \cup (P \ {c})  BY <3>17, <3>18
    <3>22. Coherent(Elems(agenda), Recorded)'  BY <3>11, <3>12, <3>19, <3>20, <3>21
    <3> QED BY <3>2, <3>20, <3>21, <3>22 DEF AgendaInv
  <2>3. CASE Find
    BY <2>3, <2>0, AgendaSame DEF Find
  <2>4. CASE NoDevice
    BY <2>4, <2>0, AgendaSame DEF NoDevice
  <2>5. CASE Unclaimed
    <3>1. Record(offered.driver, FALSE) /\ at = "bind"  BY <2>5 DEF Unclaimed, Offering
    <3> QED BY <3>1, <2>0, RecordAgenda
  <2>6. CASE Bound
    <3>1. Record(offered.driver, TRUE) /\ at = "bind"  BY <2>6 DEF Bound, Offering
    <3> QED BY <3>1, <2>0, RecordAgenda
  <2>7. CASE RefusedLast
    <3>1. Record(offered.driver, FALSE) /\ at = "bind"  BY <2>7 DEF RefusedLast, Offering
    <3> QED BY <3>1, <2>0, RecordAgenda
  <2>8. CASE Refused \/ Unbindable
    <3>1. UNCHANGED <<at, agenda, devices>>  BY <2>8 DEF Refused, Unbindable, loading
    <3> QED BY <3>1, <2>0, AgendaSame DEF AgendaInv
  <2> QED BY <1>2, <2>1, <2>2, <2>3, <2>4, <2>5, <2>6, <2>7, <2>8 DEF device_from_pci
<1>3. CASE UNCHANGED vars
  <2>1. UNCHANGED <<at, agenda, devices, bus>>  BY <1>3 DEF vars, loading, devices
  <2> QED BY <2>1, AgendaSame DEF AgendaInv
<1> QED BY <1>1, <1>2, <1>3 DEF Next

(* Spec => []DevicesOnce.  The recursion of device_from_pci (drivers/drivermodel.c) records each function it reaches
   once and misses none of those it can reach, whatever the buses hold.                                               *)
THEOREM OnceAlways == Spec => []DevicesOnce
<1> DEFINE Inv == BootInv /\ DriversInv /\ OfferInv /\ ServedInv /\ AgendaInv
<1>1. Init => Inv  BY BootInitial, OfferInitial, AgendaInitial
<1>2. Inv /\ [Next]_vars => Inv'  BY BootStep, OfferStep, AgendaStep
<1>3. Inv => DevicesOnce
  <2> SUFFICES ASSUME AgendaInv, Done PROVE Recorded = {v \in Addresses : Reachable(v)}
    BY DEF AgendaInv, DevicesOnce
  <2>1. Elems(agenda) = {}  BY DEF Done, Elems
  <2> QED BY <2>1 DEF AgendaInv, Coherent
<1> QED BY <1>1, <1>2, <1>3, PTL DEF Spec


-----------------------------------------------------------------------------
(* A set of at most one element.                                           *)
LEMMA AtMostOne ==
  ASSUME NEW S, IsFiniteSet(S), ~(Cardinality(S) > 1), NEW b \in S, NEW c \in S PROVE b = c
<1> SUFFICES ASSUME b # c PROVE FALSE  OBVIOUS
<1>1. {b, c} \subseteq S  OBVIOUS
<1>2. IsFiniteSet({b}) /\ Cardinality({b}) = 1  BY FS_Singleton
<1>3. c \notin {b}  OBVIOUS
<1>4. Cardinality({b} \cup {c}) = Cardinality({b}) + 1  BY <1>2, <1>3, FS_AddElement, Zenon
<1>5. {b, c} = {b} \cup {c}  OBVIOUS
<1>6. Cardinality({b, c}) <= Cardinality(S)  BY <1>1, FS_Subset
<1>7. Cardinality(S) \in Nat  BY FS_CardinalityType
<1> QED BY <1>2, <1>4, <1>5, <1>6, <1>7

-----------------------------------------------------------------------------
(* The IDE probe.                                                          *)

(* Entry i of ide_devices, wherever it is; the sites decided so far.       *)
Dev(i) == ide_devices[Entry(i)]
Past == IF pc \in {"report", "done"} THEN Sites ELSE {s \in Sites : s < site}
Looping == {"select", "identify", "present", "poll", "signature", "read", "record"}
Listing == [i \in {j \in 0..3 : Dev(j).reserved = 1} |-> Dev(i)]

IdeTypes ==
  /\ pc \in Looping \cup {"start", "failed", "report", "done"} /\ site \in Sites
  /\ drives \in [Sites -> DriveKinds] /\ nulls \subseteq 0..3 /\ DOMAIN phase = Sites
  /\ DOMAIN ide_devices = 0..Zero /\ \A i \in 0..Zero : "reserved" \in DOMAIN ide_devices[i]
  /\ count \in 0..4 /\ (pc \in Looping \cup {"start"} => count <= site)

(* What the drive at the site may be doing, where the probe is with it.    *)
Answered ==
  CASE drives[site] = ATA -> {"identify", "data"}
    [] drives[site] \in {ATAPI, "broken"} -> {"identify", "error"}
    [] OTHER -> {"identify", "idle"}
Addressed ==
  /\ pc \in {"present", "poll", "signature"} /\ drives[site] \notin {"absent", "floating"} => phase[site] \in Answered
  /\ pc \in {"identify", "present", "poll", "signature"} => type = ATA
  /\ pc = "signature" => drives[site] \notin {ATA, "absent"}
  /\ pc \in {"poll", "signature"} => drives[site] # "absent"
  /\ pc \in {"read", "record"} => drives[site] \in {ATA, ATAPI} /\ type = drives[site]
  /\ pc = "read" /\ drives[site] = ATA => phase[site] = "data"
  /\ pc = "record" => ide_buffer = {site} \/ (type = ATAPI /\ ide_buffer = {})

(* The first entries are the drives of the past sites, in their order; the *)
(* others are free, or null.                                               *)
Kept ==
  /\ \A i \in 0..3 : i < count => Dev(i).reserved = 1 /\ \E s \in Past \cap Attached : Own(Dev(i), s)
  /\ \A i \in 0..3 : i >= count => Dev(i).reserved # 1 \/ i \in nulls
  /\ \A s \in Past \cap Attached : \E i \in 0..3 : i < count /\ Own(Dev(i), s)
  /\ \A i, j \in 0..3 : i < j /\ j < count => SiteOf(Dev(i)) < SiteOf(Dev(j))

IdeInv ==
  /\ IdeTypes /\ Addressed
  /\ Cardinality(nulls) > 1 \/ Kept
  /\ pc = "done" => report = Listing

LEMMA IdeInitial == IdeInit => IdeInv
<1> SUFFICES ASSUME IdeInit PROVE IdeInv  OBVIOUS
<1>0. drives \in [Sites -> DriveKinds] /\ nulls \subseteq 0..3  BY IdeAssumption DEF IdeInit
<1>5a. PICK first \in LowEntries : ide_devices = [i \in 0..Zero |-> IF i = Zero THEN first ELSE Empty]  BY DEF IdeInit
<1>6. DOMAIN ide_devices = 0..Zero /\ \A i \in 0..3 : ide_devices[i] = Empty  BY <1>5a DEF Zero
<1>7. \A i \in 0..Zero : "reserved" \in DOMAIN ide_devices[i]
  <2>1. "reserved" \in DOMAIN first  BY IdeAssumption
  <2> QED BY <1>5a, <2>1 DEF Empty
<1>1. IdeTypes  BY <1>0, <1>6, <1>7 DEF IdeInit, IdeTypes, Sites
<1>2. Addressed  BY DEF IdeInit, Addressed
<1>3. Past = {}  BY DEF IdeInit, Past, Sites
<1>4. \A i \in 0..3 : Dev(i).reserved # 1 \/ i \in nulls  BY <1>6 DEF Dev, Entry, Empty
<1>5. Kept  BY <1>3, <1>4 DEF Kept, IdeInit
<1> QED BY <1>1, <1>2, <1>5 DEF IdeInv, IdeInit

(* With at most one null entry, no two entries are in the same place.      *)
LEMMA ApartEntries ==
  ASSUME nulls \subseteq 0..3, ~(Cardinality(nulls) > 1) PROVE \A i, j \in 0..3 : Entry(i) = Entry(j) => i = j
<1>4. 0 \in Int /\ 3 \in Int  OBVIOUS
<1>3. IsFiniteSet(0..3)  BY <1>4, FS_Interval, Zenon
<1>1. IsFiniteSet(nulls)  BY <1>3, FS_Subset
<1>2. \A i, j \in nulls : i = j  BY <1>1, AtMostOne
<1> QED BY <1>2 DEF Entry, Zero

LEMMA SiteOfOwn == ASSUME NEW e, NEW s \in Sites, Own(e, s) PROVE SiteOf(e) = s
<1>1. s \in {0, 1, 2, 3}  BY DEF Sites
<1>3. 0 \div 2 = 0 /\ 1 \div 2 = 0 /\ 2 \div 2 = 1 /\ 3 \div 2 = 1  BY SMT
<1>4. 0 % 2 = 0 /\ 1 % 2 = 1 /\ 2 % 2 = 0 /\ 3 % 2 = 1  BY SMT
<1>2. 2 * Channel(s) + DriveNo(s) = s  BY <1>1, <1>3, <1>4 DEF Channel, DriveNo
<1> QED BY <1>2 DEF Own, SiteOf

(* Nothing the entries depend on changes.                                  *)
LEMMA StillKept ==
  ASSUME UNCHANGED <<ide_devices, nulls, count, drives>>, Past' \cap Attached' = Past \cap Attached, Kept PROVE Kept'
<1>1. \A i : Dev(i)' = Dev(i)  BY DEF Dev, Entry
<1>4. \A i \in 0..3 : \A s : Own(Dev(i), s)' <=> Own(Dev(i), s)  BY <1>1 DEF Own
<1>5. \A i \in 0..3 : SiteOf(Dev(i))' = SiteOf(Dev(i))  BY <1>1 DEF SiteOf
<1> QED BY <1>1, <1>4, <1>5 DEF Kept

LEMMA StaysHere ==
  ASSUME UNCHANGED <<site, drives>>, pc \in Looping, pc' \in Looping PROVE Past' \cap Attached' = Past \cap Attached
  BY DEF Past, Attached, Looping

LEMMA PassesBy ==
  ASSUME IdeTypes, NextSite, UNCHANGED drives, pc \in Looping, drives[site] \notin {ATA, ATAPI}
  PROVE  Past' \cap Attached' = Past \cap Attached
<1>1. Attached' = Attached /\ site \notin Attached  BY DEF Attached
<1>2. Past = {s \in Sites : s < site}  BY DEF Past, Looping
<1>3. Past' = Past \cup {site}
  <2>1. CASE site < 3
    <3>1. Past' = {s \in Sites : s < site + 1}  BY <2>1 DEF NextSite, Past
    <3> QED BY <1>2, <3>1 DEF IdeTypes, Sites
  <2>2. CASE ~(site < 3)
    <3>1. Past' = Sites  BY <2>2 DEF NextSite, Past
    <3> QED BY <1>2, <2>2, <3>1 DEF IdeTypes, Sites
  <2> QED BY <2>1, <2>2
<1> QED BY <1>1, <1>3

-----------------------------------------------------------------------------
LEMMA SetupStep == ASSUME IdeInv, Setup \/ NoMemory, UNCHANGED idle PROVE IdeInv'
<1>1. IdeTypes'  BY DEF IdeInv, IdeTypes, Setup, NoMemory, Looping, idle
<1>2. Addressed'  BY DEF IdeInv, Addressed, Setup, NoMemory
<1>3. Past' \cap Attached' = Past \cap Attached  BY DEF Past, Attached, Setup, NoMemory, idle
<1>4. Kept => Kept'  BY <1>3, StillKept DEF Setup, NoMemory, idle
<1> QED BY <1>1, <1>2, <1>4 DEF IdeInv, Setup, NoMemory, idle

LEMMA IdentifyStep == ASSUME IdeInv, Identify, UNCHANGED idle PROVE IdeInv'
<1>1. IdeTypes'  BY DEF IdeInv, IdeTypes, Identify, Command, Looping, idle
<1>2. Addressed'  BY DEF IdeInv, IdeTypes, Addressed, Answered, Identify, Command, NoDrive, idle
<1>3. Past' \cap Attached' = Past \cap Attached  BY StaysHere DEF Identify, Looping, idle
<1>4. Kept => Kept'  BY <1>3, StillKept DEF Identify, idle
<1> QED BY <1>1, <1>2, <1>4 DEF IdeInv, Identify, idle

LEMMA NextSiteTypes ==
  ASSUME IdeTypes, NextSite, pc \in Looping, UNCHANGED <<idle, count, DOMAIN phase, ide_devices>> PROVE IdeTypes'
  BY DEF IdeTypes, NextSite, Looping, Sites, idle

LEMMA PresentStep == ASSUME IdeInv, Present, UNCHANGED idle PROVE IdeInv'
<1>1. CASE Missing(Status) /\ NextSite
  <2>1. drives[site] = "absent" \/ drives[site] \notin DriveKinds  BY <1>1 DEF Missing, Status
  <2>2. drives[site] \notin {ATA, ATAPI}  BY <2>1 DEF DriveKinds, ATA, ATAPI
  <2>3. Past' \cap Attached' = Past \cap Attached  BY <2>2, <1>1, PassesBy DEF IdeInv, Present, Looping, idle
  <2>4. Kept => Kept'  BY <2>3, StillKept DEF Present, idle
  <2>5. IdeTypes'  BY <1>1, NextSiteTypes DEF IdeInv, Present, Looping
  <2>6. Addressed'  BY <1>1 DEF Addressed, NextSite
  <2> QED BY <1>1, <2>4, <2>5, <2>6 DEF IdeInv, Present, NextSite, idle
<1>2. CASE ~Missing(Status) /\ pc' = "poll" /\ UNCHANGED site
  <2>1. IdeTypes'  BY <1>2 DEF IdeInv, IdeTypes, Present, Looping, idle
  <2>2. drives[site] # "absent"  BY <1>2 DEF Missing, Status
  <2>3. Addressed'  BY <1>2, <2>2 DEF IdeInv, Addressed, Answered, Present, idle
  <2>4. Past' \cap Attached' = Past \cap Attached  BY <1>2, StaysHere DEF Present, Looping, idle
  <2>5. Kept => Kept'  BY <2>4, StillKept DEF Present, idle
  <2> QED BY <1>2, <2>1, <2>3, <2>5 DEF IdeInv, Present, idle
<1> QED BY <1>1, <1>2 DEF Present

LEMMA PollStep == ASSUME IdeInv, Poll, UNCHANGED idle PROVE IdeInv'
<1>1. pc' \in {"signature", "read", "poll"}  BY DEF Poll
<1>2. IdeTypes'  BY <1>1 DEF IdeInv, IdeTypes, Poll, Looping, idle
<1>3. "ERR" \in Status => drives[site] \notin {ATA, "absent"}
  <2>1. CASE drives[site] = "absent"  BY <2>1 DEF Status
  <2>2. CASE drives[site] = ATA
    <3>1. phase[site] \in {"identify", "data"}  BY <2>2 DEF IdeInv, Addressed, Answered, Poll, ATA, ATAPI
    <3>2. Status = {"BSY"} \/ Status = {"DRDY", "DRQ"}  BY <2>2, <3>1 DEF Status, ATA
    <3> QED BY <2>2, <3>2
  <2> QED BY <2>1, <2>2
<1>4. Ready(Status) /\ "ERR" \notin Status => drives[site] = ATA /\ phase[site] = "data"
  BY DEF Status, Ready, IdeInv, IdeTypes, DriveKinds, Addressed, Answered, Poll, ATA, ATAPI
<1>5. Addressed'
  <2>1. pc' = "signature" => "ERR" \in Status  BY DEF Poll
  <2>2. pc' = "read" => Ready(Status) /\ "ERR" \notin Status  BY DEF Poll
  <2> QED BY <1>1, <1>3, <1>4, <2>1, <2>2 DEF IdeInv, Addressed, Answered, Poll, idle
<1>6. Past' \cap Attached' = Past \cap Attached  BY <1>1, StaysHere DEF Poll, Looping, idle
<1>7. Kept => Kept'  BY <1>6, StillKept DEF Poll, idle
<1> QED BY <1>1, <1>2, <1>5, <1>7 DEF IdeInv, Poll, idle

LEMMA SignatureStep == ASSUME IdeInv, Signature, UNCHANGED idle PROVE IdeInv'
<1>1. CASE drives[site] # ATAPI /\ NextSite /\ UNCHANGED <<type, phase>>
  <2>1. drives[site] \notin {ATA, ATAPI}  BY <1>1 DEF IdeInv, Addressed, Signature
  <2>2. Past' \cap Attached' = Past \cap Attached  BY <2>1, <1>1, PassesBy DEF IdeInv, Signature, Looping, idle
  <2>3. Kept => Kept'  BY <2>2, StillKept DEF Signature, idle
  <2>4. IdeTypes'  BY <1>1, NextSiteTypes DEF IdeInv, Signature, Looping
  <2>5. Addressed'  BY <1>1 DEF Addressed, NextSite
  <2> QED BY <1>1, <2>3, <2>4, <2>5 DEF IdeInv, Signature, NextSite, idle
<1>2. CASE drives[site] = ATAPI /\ type' = ATAPI /\ Command("packet") /\ pc' = "read" /\ UNCHANGED site
  <2>1. IdeTypes'  BY <1>2 DEF IdeInv, IdeTypes, Signature, Command, Looping, idle
  <2>2. Addressed'  BY <1>2 DEF IdeInv, Addressed, Signature, idle, ATA, ATAPI
  <2>3. Past' \cap Attached' = Past \cap Attached  BY <1>2, StaysHere DEF Signature, Looping, idle
  <2>4. Kept => Kept'  BY <2>3, StillKept DEF Signature, idle
  <2> QED BY <1>2, <2>1, <2>2, <2>4 DEF IdeInv, Signature, idle
<1> QED BY <1>1, <1>2 DEF Signature

LEMMA ReadBufferStep == ASSUME IdeInv, ReadBuffer, UNCHANGED idle PROVE IdeInv'
<1>1. IdeTypes'  BY DEF IdeInv, IdeTypes, ReadBuffer, Looping, idle
<1>2. Addressed'  BY DEF IdeInv, Addressed, ReadBuffer, idle
<1>3. Past' \cap Attached' = Past \cap Attached  BY StaysHere DEF ReadBuffer, Looping, idle
<1>4. Kept => Kept'  BY <1>3, StillKept DEF ReadBuffer, idle
<1> QED BY <1>1, <1>2, <1>4 DEF IdeInv, ReadBuffer, idle

LEMMA AnswerStep == ASSUME IdeInv, NEW s \in Sites, Answer(s) PROVE IdeInv'
<1>1. IdeTypes'  BY DEF IdeInv, IdeTypes, Answer, idle
<1>2. \A x \in Sites : x # s => phase'[x] = phase[x]  BY DEF Answer, IdeInv, IdeTypes
<1>3. phase[s] = "identify" /\ drives[s] = ATA => phase'[s] = "data"
  BY DEF Answer, IdeInv, IdeTypes, ATA, ATAPI
<1>4. phase[s] = "identify" /\ drives[s] \in {ATAPI, "broken"} => phase'[s] = "error"
  BY DEF Answer, IdeInv, IdeTypes, ATA, ATAPI
<1>5. phase[s] = "identify" /\ drives[s] = "mute" => phase'[s] = "idle"
  BY DEF Answer, IdeInv, IdeTypes, ATA, ATAPI
<1>6. phase[s] \in {"identify", "packet"}  BY DEF Answer
<1>7. UNCHANGED <<pc, site, drives, type, ide_buffer>>  BY DEF Answer, idle
<1>8. pc \in {"present", "poll", "signature"} /\ drives[site] \notin {"absent", "floating"} => phase'[site] \in Answered
  <2>1. CASE s = site  BY <2>1, <1>3, <1>4, <1>5, <1>6 DEF IdeInv, IdeTypes, Addressed, Answered, DriveKinds, ATA, ATAPI
  <2>2. CASE s # site  BY <2>2, <1>2 DEF IdeInv, IdeTypes, Addressed
  <2> QED BY <2>1, <2>2
<1>9. pc = "read" /\ drives[site] = ATA => phase'[site] = "data"  BY <1>2, <1>6 DEF IdeInv, IdeTypes, Addressed
<1>10. Addressed'  BY <1>7, <1>8, <1>9 DEF IdeInv, Addressed, Answered
<1>11. Past' \cap Attached' = Past \cap Attached  BY <1>7 DEF Past, Attached
<1>12. Kept => Kept'  BY <1>11, StillKept DEF Answer, idle
<1> QED BY <1>1, <1>10, <1>12 DEF IdeInv, Answer, idle, Listing, Dev, Entry

LEMMA ReportStep == ASSUME IdeInv, Report, UNCHANGED idle PROVE IdeInv'
<1>1. IdeTypes'  BY DEF IdeInv, IdeTypes, Report, Looping, idle
<1>2. Addressed'  BY DEF IdeInv, Addressed, Report, idle
<1>3. Past' \cap Attached' = Past \cap Attached  BY DEF Past, Attached, Report, idle
<1>4. Kept => Kept'  BY <1>3, StillKept DEF Report, idle
<1>5. report' = Listing  BY DEF Report, Listing, Dev
<1>6. Listing' = Listing  BY DEF Report, Listing, Dev, Entry, idle
<1> QED BY <1>1, <1>2, <1>4, <1>5, <1>6 DEF IdeInv, Report, idle

LEMMA SelectStep == ASSUME IdeInv, Select, UNCHANGED idle PROVE IdeInv'
<1>0. count \in 0..3  BY DEF IdeInv, IdeTypes, Select, Looping, Sites
<1>5. Entry(count) \in 0..Zero  BY <1>0 DEF Entry, Zero
<1>6. \A i \in 0..Zero : "reserved" \in DOMAIN ide_devices'[i]
  <2> SUFFICES ASSUME NEW i \in 0..Zero PROVE "reserved" \in DOMAIN ide_devices'[i]  OBVIOUS
  <2>1. DOMAIN ide_devices = 0..Zero /\ "reserved" \in DOMAIN ide_devices[i]  BY DEF IdeInv, IdeTypes
  <2>2. CASE i = Entry(count)  BY <2>1, <2>2 DEF Select
  <2>3. CASE i # Entry(count)  BY <2>1, <2>3 DEF Select
  <2> QED BY <2>2, <2>3
<1>1. IdeTypes'  BY <1>6 DEF IdeInv, IdeTypes, Select, Looping, idle
<1>2. Addressed'  BY DEF IdeInv, Addressed, Select, idle
<1>3. Past' = Past /\ Attached' = Attached  BY DEF Past, Attached, Select, idle
<1>4. Kept => Cardinality(nulls) > 1 \/ Kept'
  <2> SUFFICES ASSUME Kept, ~(Cardinality(nulls) > 1) PROVE Kept'  OBVIOUS
  <2>1. \A i, j \in 0..3 : Entry(i) = Entry(j) => i = j  BY ApartEntries DEF IdeInv, IdeTypes
  <2>2. \A i \in 0..3 : Entry(i) \in DOMAIN ide_devices /\ Entry(i)' = Entry(i)
    BY DEF IdeInv, IdeTypes, Entry, Zero, idle
  <2>3. \A i \in 0..3 : i # count => Dev(i)' = Dev(i)  BY <1>0, <2>1, <2>2 DEF Select, Dev
  <2>4. Dev(count)'.reserved = 0
    <3>1. Dev(count)' = [Dev(count) EXCEPT !.reserved = 0]  BY <1>0, <2>2 DEF Select, Dev
    <3>2. "reserved" \in DOMAIN Dev(count)  BY <1>0 DEF Dev, Entry, Zero, IdeInv, IdeTypes
    <3> QED BY <3>1, <3>2
  <2>5. \A i \in 0..3 : i # count => Dev(i)'.reserved = Dev(i).reserved /\ \A s : Own(Dev(i), s)' <=> Own(Dev(i), s)
    BY <2>3 DEF Own, Select, idle
  <2>6. \A i \in 0..3 : i # count => SiteOf(Dev(i))' = SiteOf(Dev(i))  BY <2>3 DEF SiteOf
  <2>7. count' = count /\ nulls' = nulls  BY DEF Select, idle
  <2>8. \A i \in 0..3 : i < count => Dev(i)'.reserved = 1 /\ \E s \in Past \cap Attached : Own(Dev(i), s)'
    BY <1>0, <2>5 DEF Kept
  <2>9. \A i \in 0..3 : i >= count => Dev(i)'.reserved # 1 \/ i \in nulls
    <3> SUFFICES ASSUME NEW i \in 0..3, i >= count PROVE Dev(i)'.reserved # 1 \/ i \in nulls  OBVIOUS
    <3>1. CASE i = count  BY <3>1, <2>4, <2>7 DEF Dev
    <3>2. CASE i # count  BY <3>2, <2>5 DEF Kept
    <3> QED BY <3>1, <3>2
  <2>10. \A s \in Past \cap Attached : \E i \in 0..3 : i < count /\ Own(Dev(i), s)'
    BY <1>0, <2>5 DEF Kept
  <2>11. \A i, j \in 0..3 : i < j /\ j < count => SiteOf(Dev(i))' < SiteOf(Dev(j))'
    <3> SUFFICES ASSUME NEW i \in 0..3, NEW j \in 0..3, i < j, j < count PROVE SiteOf(Dev(i))' < SiteOf(Dev(j))'  OBVIOUS
    <3>1. i # count /\ j # count  BY <1>0
    <3> QED BY <2>6, <3>1 DEF Kept
  <2> QED BY <1>3, <2>7, <2>8, <2>9, <2>10, <2>11 DEF Kept
<1> QED BY <1>1, <1>2, <1>4 DEF IdeInv, Select, idle

LEMMA RecordStep == ASSUME IdeInv, RecordDrive, UNCHANGED idle PROVE IdeInv'
<1>0. count \in 0..3 /\ count <= site /\ site \in Sites /\ site \in Attached /\ count' = count + 1 /\ type = drives[site]
  BY DEF IdeInv, IdeTypes, RecordDrive, Looping, Sites, Addressed, Attached, CountUp
<1>7. \A i \in 0..Zero : "reserved" \in DOMAIN ide_devices'[i]
  <2> SUFFICES ASSUME NEW i \in 0..Zero PROVE "reserved" \in DOMAIN ide_devices'[i]  OBVIOUS
  <2>1. DOMAIN ide_devices = 0..Zero /\ "reserved" \in DOMAIN ide_devices[i]  BY DEF IdeInv, IdeTypes
  <2>2. CASE i = Entry(count)  BY <2>1, <2>2 DEF RecordDrive
  <2>3. CASE i # Entry(count)  BY <2>1, <2>3 DEF RecordDrive
  <2> QED BY <2>2, <2>3
<1>1. IdeTypes'  BY <1>0, <1>7 DEF IdeInv, IdeTypes, RecordDrive, NextSite, Looping, idle, Sites, CountUp
<1>2. Addressed'  BY DEF Addressed, RecordDrive, NextSite
<1>3. Attached' = Attached  BY DEF Attached, idle
<1>4. Past = {s \in Sites : s < site}  BY DEF Past, RecordDrive
<1>5. Past' = Past \cup {site}
  <2>1. CASE site < 3
    <3>1. Past' = {s \in Sites : s < site + 1}  BY <2>1 DEF RecordDrive, NextSite, Past
    <3> QED BY <1>0, <1>4, <3>1 DEF Sites
  <2>2. CASE ~(site < 3)
    <3>1. Past' = Sites  BY <2>2 DEF RecordDrive, NextSite, Past
    <3> QED BY <1>0, <1>4, <2>2, <3>1 DEF Sites
  <2> QED BY <2>1, <2>2
<1>6. Kept => Cardinality(nulls) > 1 \/ Kept'
  <2> SUFFICES ASSUME Kept, ~(Cardinality(nulls) > 1) PROVE Kept'  OBVIOUS
  <2>1. \A i, j \in 0..3 : Entry(i) = Entry(j) => i = j  BY ApartEntries DEF IdeInv, IdeTypes
  <2>2. \A i \in 0..3 : Entry(i) \in DOMAIN ide_devices /\ Entry(i)' = Entry(i)
    BY DEF IdeInv, IdeTypes, Entry, Zero, idle
  <2>a. PICK n \in 0..3 : n = count  BY <1>0
  <2>b. PICK h \in Sites : h = site  BY <1>0
  <2>3. \A i \in 0..3 : i # n => Dev(i)' = Dev(i)  BY <2>a, <2>1, <2>2 DEF RecordDrive, Dev
  <2>c. PICK e : e = [reserved |-> 1, channel |-> Channel(h), drive |-> DriveNo(h), type |-> type, identity |-> ide_buffer]
    OBVIOUS
  <2>4. Dev(n)' = e  BY <2>a, <2>b, <2>c, <2>2 DEF RecordDrive, Dev
  <2>5. Own(e, h)  BY <1>0, <2>b, <2>c DEF Own, IdeInv, Addressed, RecordDrive
  <2>6. SiteOf(e) = h /\ e.reserved = 1  BY <2>c, <2>5, SiteOfOwn
  <2>9. \A i \in 0..3 : i < n => SiteOf(Dev(i)) < h
    <3>1. \A i \in 0..3 : i < n => \E s \in Past : Own(Dev(i), s)  BY <2>a DEF Kept
    <3> QED BY <3>1, <1>4, <2>b, SiteOfOwn
  <2>10. count' = n + 1 /\ \A i \in 0..3 : i < n + 1 <=> i < n \/ i = n  BY <1>0, <2>a
  <2>p. Past' \cap Attached' = (Past \cap Attached) \cup {h}  BY <1>0, <1>3, <1>5, <2>b
  <2>11. (\A i \in 0..3 : i < count => Dev(i).reserved = 1 /\ \E s \in Past \cap Attached : Own(Dev(i), s))'
    <3>1. ASSUME NEW i \in 0..3, i < n + 1
          PROVE Dev(i)'.reserved = 1 /\ \E s \in (Past \cap Attached) \cup {h} : Own(Dev(i), s)'
      <4>1. CASE i = n  BY <4>1, <2>4, <2>5, <2>6 DEF Own, idle
      <4>2. CASE i < n
        <5>1. Dev(i)' = Dev(i) /\ Dev(i).reserved = 1  BY <4>2, <2>a, <2>3 DEF Kept
        <5>2. PICK s \in Past \cap Attached : Own(Dev(i), s)  BY <4>2, <2>a DEF Kept
        <5>3. Own(Dev(i), s)'  BY <5>1, <5>2 DEF Own, idle
        <5> QED BY <5>1, <5>3
      <4> QED BY <3>1, <4>1, <4>2, <2>10
    <3> QED BY <3>1, <2>10, <2>p
  <2>12. (\A i \in 0..3 : i >= count => Dev(i).reserved # 1 \/ i \in nulls)'  BY <2>a, <2>3, <2>10 DEF Kept, idle
  <2>13. (\A s \in Past \cap Attached : \E i \in 0..3 : i < count /\ Own(Dev(i), s))'
    <3>1. ASSUME NEW s \in (Past \cap Attached) \cup {h} PROVE \E i \in 0..3 : i < n + 1 /\ Own(Dev(i), s)'
      <4>1. CASE s = h  BY <4>1, <2>4, <2>5, <2>10 DEF Own, idle
      <4>2. CASE s \in Past \cap Attached
        <5>1. PICK i \in 0..3 : i < n /\ Own(Dev(i), s)  BY <4>2, <2>a DEF Kept
        <5>2. Own(Dev(i), s)'  BY <5>1, <2>3, <2>a DEF Own, idle
        <5> QED BY <5>1, <5>2, <2>10
      <4> QED BY <3>1, <4>1, <4>2
    <3> QED BY <3>1, <2>10, <2>p
  <2>14. (\A i, j \in 0..3 : i < j /\ j < count => SiteOf(Dev(i)) < SiteOf(Dev(j)))'
    <3>1. ASSUME NEW i \in 0..3, NEW j \in 0..3, i < j, j < n + 1 PROVE SiteOf(Dev(i))' < SiteOf(Dev(j))'
      <4>1. i < n /\ SiteOf(Dev(i))' = SiteOf(Dev(i))  BY <3>1, <2>a, <2>3 DEF SiteOf
      <4>2. CASE j = n
        <5>1. SiteOf(Dev(j))' = h  BY <4>2, <2>4, <2>6 DEF SiteOf
        <5> QED BY <4>1, <5>1, <2>9
      <4>3. CASE j < n
        <5>1. SiteOf(Dev(j))' = SiteOf(Dev(j))  BY <4>3, <2>a, <2>3 DEF SiteOf
        <5> QED BY <3>1, <4>1, <4>3, <5>1, <2>a DEF Kept
      <4> QED BY <3>1, <4>2, <4>3, <2>10
    <3> QED BY <3>1, <2>10
  <2> QED BY <2>11, <2>12, <2>13, <2>14 DEF Kept
<1> QED BY <1>1, <1>2, <1>6 DEF IdeInv, RecordDrive, NextSite, idle

LEMMA IdeStep == ASSUME IdeInv, IdeNext PROVE IdeInv'
<1>1. CASE (NoMemory \/ Setup) /\ UNCHANGED idle  BY <1>1, SetupStep
<1>2. CASE Select /\ UNCHANGED idle  BY <1>2, SelectStep
<1>3. CASE Identify /\ UNCHANGED idle  BY <1>3, IdentifyStep
<1>4. CASE Present /\ UNCHANGED idle  BY <1>4, PresentStep
<1>5. CASE Poll /\ UNCHANGED idle  BY <1>5, PollStep
<1>6. CASE Signature /\ UNCHANGED idle  BY <1>6, SignatureStep
<1>7. CASE ReadBuffer /\ UNCHANGED idle  BY <1>7, ReadBufferStep
<1>8. CASE RecordDrive /\ UNCHANGED idle  BY <1>8, RecordStep
<1>9. CASE Report /\ UNCHANGED idle  BY <1>9, ReportStep
<1>10. CASE \E s \in Sites : Answer(s)  BY <1>10, AnswerStep
<1> QED BY <1>1, <1>2, <1>3, <1>4, <1>5, <1>6, <1>7, <1>8, <1>9, <1>10 DEF IdeNext, Probe

LEMMA DrivesReportedHolds == ASSUME IdeInv PROVE DrivesReported
<1> SUFFICES ASSUME pc = "done", Cardinality(nulls) <= 1 PROVE DrivesReported  BY DEF DrivesReported
<1>1. Kept
  <2>1. IsFiniteSet(0..3)
    <3>1. 0 \in Int /\ 3 \in Int  OBVIOUS
    <3> QED BY <3>1, FS_Interval, Zenon
  <2>2. Cardinality(nulls) \in Nat  BY <2>1, FS_Subset, FS_CardinalityType DEF IdeInv, IdeTypes
  <2> QED BY <2>2 DEF IdeInv
<1>2. Past = Sites /\ report = Listing  BY DEF Past, IdeInv
<1>3. \A i \in 0..3 : i \in Listed <=> i < count  BY <1>1, <1>2 DEF Listed, Listing, Kept, IdeInv, IdeTypes
<1>4. Listed \subseteq 0..3 /\ Listed \subseteq DOMAIN report  BY <1>2 DEF Listed, Listing
<1>5. \A i \in Listed : report[i] = Dev(i)  BY <1>2 DEF Listed, Listing
<1>6. Sites \cap Attached = Attached  BY DEF Attached
<1>7. \A i \in Listed : \E s \in Attached : Own(report[i], s) /\ SiteOf(report[i]) = s
  <2> SUFFICES ASSUME NEW i \in Listed PROVE \E s \in Attached : Own(report[i], s) /\ SiteOf(report[i]) = s  OBVIOUS
  <2>1. PICK s \in Attached : Own(Dev(i), s)  BY <1>1, <1>2, <1>3, <1>4, <1>6 DEF Kept
  <2> QED BY <2>1, <1>5, SiteOfOwn DEF Attached
<1>8. \A s \in Attached : \E i \in Listed : SiteOf(report[i]) = s
  <2> SUFFICES ASSUME NEW s \in Attached PROVE \E i \in Listed : SiteOf(report[i]) = s  OBVIOUS
  <2>1. PICK i \in 0..3 : i < count /\ Own(Dev(i), s)  BY <1>1, <1>2, <1>6 DEF Kept
  <2> QED BY <2>1, <1>3, <1>5, SiteOfOwn DEF Attached
<1>9. \A i, j \in Listed : i < j => SiteOf(report[i]) < SiteOf(report[j])  BY <1>1, <1>3, <1>4, <1>5 DEF Kept
<1>10. {SiteOf(report[i]) : i \in Listed} = Attached  BY <1>7, <1>8
<1>11. \A i \in Listed : Own(report[i], SiteOf(report[i]))  BY <1>7
<1> QED BY <1>9, <1>10, <1>11 DEF DrivesReported

-----------------------------------------------------------------------------
(* The EHCI bind.                                                          *)

(* How far bind_device_pci is: the steps from each one on.                 *)
Going == {"configure", "ports", "port", "bound"}
Starting == Going \cup {"starting"}
Filled == Starting \cup {"legacy", "handoff", "start"}
Async == Filled \cup {"periodic"}
Given == Async \cup {"async"}
Stopped == {"allocate", "async", "periodic", "legacy", "handoff", "start"}
Resting == Stopped \cup {"resetting", "halting"}
Mastered == Given \cup Resting \cup {"reset"}

(* Only the steps of a reset hold HCRESET, the controller stands still     *)
(* from the halt the driver awaited to the start, and the lists keep what  *)
(* the driver gave them, as no reset can finish once it is over.           *)
Prepared ==
  /\ step \in Mastered => mastering
  /\ step # "resetting" => HCRESET \notin usbcmd
  /\ step \in Resting => RUN \notin usbcmd
  /\ step \in Stopped => halted
  /\ step \in Starting => RUN \in usbcmd
  /\ step \in Going => ~halted
  /\ configflag => step \in Going
  /\ step \in Given => periodiclistbase = pointers["periodic_list"]
  /\ step \in Async => asynclistaddr = pointers["async_qh"]

(* Where the three blocks are, and what they hold.                         *)
Placed == pointers \in [Blocks -> Blocks \cup {"zero"}] /\ \A b \in Blocks : pointers[b] \in {b, "zero"}
Written ==
  /\ DOMAIN memory = Blocks \cup {"zero"}
  /\ step = "periodic" => memory[pointers["async_qh"]] = "async_qh" \/ Cardinality(Nulls) > 1
  /\ step \in Filled => \/ \A b \in Blocks : memory[pointers[b]] = b
                        \/ Cardinality(Nulls) > 1
                        \/ step \in {"port", "bound"} /\ Nulls # {}

EInv == Prepared /\ Placed /\ Written

-----------------------------------------------------------------------------
LEMMA EhciInitial == EhciInit => EInv
  BY DEF EhciInit, EInv, Prepared, Placed, Written, Mastered, Given, Async, Filled, Starting, Going, Resting, Stopped,
    Blocks, HCRESET, RUN

LEMMA NullsFinite == IsFiniteSet(Nulls) /\ Cardinality(Nulls) \in Nat
<1>1. IsFiniteSet(Blocks)
  <2>1. Blocks = ({} \cup {"periodic_list"} \cup {"async_qh"}) \cup {"periodic_qh"}  BY DEF Blocks
  <2> QED BY <2>1, FS_EmptySet, FS_AddElement
<1>2. IsFiniteSet(Nulls)  BY <1>1, FS_Subset DEF Nulls
<1> QED BY <1>2, FS_CardinalityType

(* With at most one null block, no two blocks are in the same place.       *)
LEMMA ApartBlocks ==
  ASSUME Placed, ~(Cardinality(Nulls) > 1) PROVE \A b, c \in Blocks : pointers[b] = pointers[c] => b = c
<1>1. \A b, c \in Nulls : b = c  BY NullsFinite, AtMostOne
<1> QED BY <1>1 DEF Placed, Nulls, Blocks

LEMMA EhciNextIs ==
  EhciNext => \/ Found \/ Obey \/ FinishReset \/ Settle
              \/ /\ Decline \/ Probed \/ Reset \/ AwaitReset \/ AwaitHalt \/ AllocatePeriodic \/ AllocateAsync
                    \/ FillPeriodic \/ SkipLegacy \/ AskBios \/ AwaitBios \/ Start \/ AwaitStart \/ Configure
                    \/ PowerPorts \/ LookAtPort \/ PortsDone
                 /\ UNCHANGED pointers
  BY DEF EhciNext, bind_device_pci

LEMMA EhciStep == ASSUME EInv, EhciNext PROVE EInv'
<1> USE DEF EInv, Prepared, Placed, Written, Mastered, Given, Async, Filled, Starting, Going, Resting, Stopped
<1>1. CASE Found
  BY <1>1 DEF Found, Nulls, HCRESET, RUN, PSE, ASE, Blocks
<1>2. CASE Decline /\ UNCHANGED pointers
  BY <1>2 DEF Decline, Go, controller, lists, ports, Nulls
<1>3. CASE Probed /\ UNCHANGED pointers
  BY <1>3 DEF Probed, Go, controller, lists, ports, Nulls
<1>4. CASE Reset /\ UNCHANGED pointers
  BY <1>4 DEF Reset, ScheduleMask, RUN, HCRESET, FrameListBit, Go, controller, lists, ports, Nulls
<1>5. CASE AwaitReset /\ UNCHANGED pointers
  BY <1>5 DEF AwaitReset, ResetSeen, Go, controller, lists, ports, Nulls
<1>6. CASE AwaitHalt /\ UNCHANGED pointers
  BY <1>6 DEF AwaitHalt, Go, controller, lists, ports, Nulls
<1>7. CASE AllocatePeriodic /\ UNCHANGED pointers
  BY <1>7 DEF AllocatePeriodic, Go, controller, ports, Nulls
<1>8. CASE AllocateAsync /\ UNCHANGED pointers
  BY <1>8 DEF AllocateAsync, Fill, Go, controller, ports, Nulls, Blocks
<1>9. CASE FillPeriodic /\ UNCHANGED pointers
  <2>1. Cardinality(Nulls)' = Cardinality(Nulls)  BY <1>9 DEF Nulls
  <2>2. ASSUME ~(Cardinality(Nulls) > 1) PROVE \A b \in Blocks : memory'[pointers[b]] = b
    <3>1. \A b, c \in Blocks : pointers[b] = pointers[c] => b = c  BY <2>2, ApartBlocks
    <3> QED BY <1>9, <2>2, <3>1 DEF FillPeriodic, ListFilled, Go, Blocks
  <2> QED BY <1>9, <2>1, <2>2 DEF FillPeriodic, ListFilled, Go, controller, ports, Blocks
<1>10. CASE SkipLegacy /\ UNCHANGED pointers
  BY <1>10 DEF SkipLegacy, Go, controller, lists, ports, Nulls
<1>11. CASE AskBios /\ UNCHANGED pointers
  BY <1>11 DEF AskBios, Go, controller, lists, ports, Nulls
<1>12. CASE AwaitBios /\ UNCHANGED pointers
  BY <1>12 DEF AwaitBios, Go, controller, lists, ports, Nulls
<1>13. CASE Start /\ UNCHANGED pointers
  BY <1>13 DEF Start, ScheduleMask, RunMask, RUN, HCRESET, FrameListBit, Go, lists, ports, Nulls
<1>14. CASE AwaitStart /\ UNCHANGED pointers
  BY <1>14 DEF AwaitStart, Go, controller, lists, ports, Nulls
<1>15. CASE Configure /\ UNCHANGED pointers
  BY <1>15 DEF Configure, Go, lists, ports, Nulls
<1>16. CASE PowerPorts /\ UNCHANGED pointers
  BY <1>16 DEF PowerPorts, MayHitZero, Go, controller, lists, Nulls, Blocks
<1>17. CASE LookAtPort /\ UNCHANGED pointers
  BY <1>17 DEF LookAtPort, MayHitZero, controller, lists, Nulls, Blocks
<1>18. CASE PortsDone /\ UNCHANGED pointers
  BY <1>18 DEF PortsDone, Go, controller, lists, ports, Nulls
<1>19. CASE Obey
  BY <1>19 DEF Obey, driver, Nulls
<1>20. CASE FinishReset
  BY <1>20 DEF FinishReset, driver, Nulls
<1>21. CASE Settle
  BY <1>21 DEF Settle, driver, controller, Nulls
<1> QED BY <1>1, <1>2, <1>3, <1>4, <1>5, <1>6, <1>7, <1>8, <1>9, <1>10, <1>11, <1>12, <1>13, <1>14, <1>15, <1>16, <1>17,
          <1>18, <1>19, <1>20, <1>21, EhciNextIs

(* What runs is prepared: the invariant says it step by step.              *)
LEMMA RunsPreparedHolds == EInv => RunsPrepared
<1> SUFFICES ASSUME EInv, Started PROVE RunsPrepared  BY DEF RunsPrepared
<1>1. step \in Starting /\ step \in Filled /\ step \in Async /\ step \in Given /\ step \in Mastered
  BY DEF Started, Starting, Going, Filled, Async, Given, Mastered
<1>2. ASSUME Nulls = {} PROVE \A b \in Blocks : memory[pointers[b]] = b
  <2>1. Cardinality(Nulls) = 0  BY <1>2, FS_EmptySet
  <2> QED BY <1>1, <1>2, <2>1 DEF EInv, Written
<1>3. ASSUME Cardinality(Nulls) = 1, step \notin {"port", "bound"} PROVE \A b \in Blocks : memory[pointers[b]] = b
  BY <1>1, <1>3 DEF EInv, Written
<1>4. mastering /\ RUN \in usbcmd /\ HCRESET \notin usbcmd /\ (configflag => ~halted)
  BY <1>1 DEF EInv, Prepared, Stopped, Resting, Starting, Going, Started
<1>5. periodiclistbase = pointers["periodic_list"] /\ asynclistaddr = pointers["async_qh"]
  BY <1>1 DEF EInv, Prepared
<1> QED BY <1>2, <1>3, <1>4, <1>5 DEF RunsPrepared

(* DevicesSpec => []DrivesReported.  The probe (drivers/IDE) reports each drive that identifies itself once, in order, with
   its own type, and a disk with its own data (a packet device's may be noise), whichever drives are attached to the four
   sites, however slowly they answer, whichever single entry could not be allocated and whatever is at address 0.        *)
THEOREM ProbeReports == DevicesSpec => []DrivesReported
<1>1. DevicesInit => IdeInv  BY IdeInitial DEF DevicesInit
<1>2. IdeInv /\ [DevicesNext]_<<ide, ehci>> => IdeInv'
  <2> SUFFICES ASSUME IdeInv, [DevicesNext]_<<ide, ehci>> PROVE IdeInv'  OBVIOUS
  <2>1. CASE IdeNext  BY <2>1, IdeStep
  <2>2. CASE UNCHANGED ide
    <3>1. UNCHANGED <<pc, site, drives, phase, ide_buffer, ide_devices, count, type, nulls, report>>  BY <2>2 DEF ide
    <3>2. Past' \cap Attached' = Past \cap Attached  BY <3>1 DEF Past, Attached
    <3>3. Kept => Kept'  BY <3>1, <3>2, StillKept
    <3>4. IdeTypes' /\ Addressed'  BY <3>1 DEF IdeInv, IdeTypes, Addressed, Answered
    <3>5. Listing' = Listing  BY <3>1 DEF Listing, Dev, Entry
    <3> QED BY <3>1, <3>3, <3>4, <3>5 DEF IdeInv
  <2> QED BY <2>1, <2>2 DEF DevicesNext, init, init_devices
<1> QED BY <1>1, <1>2, DrivesReportedHolds, PTL DEF DevicesSpec

(* DevicesSpec => []RunsPrepared.  bind_device_pci (drivers/USB_EHCI) never starts a controller that cannot reach memory,
   that is being reset, or whose lists are not the blocks it has filled; the blocks stay filled if no allocation failed,
   and up to the ports if one did; for every number of ports, every content of the registers it misreads, and every
   order in which the controller and the BIOS answer.                                                                *)
THEOREM ControllerPrepared == DevicesSpec => []RunsPrepared
<1>1. DevicesInit => EInv  BY EhciInitial DEF DevicesInit
<1>2. EInv /\ [DevicesNext]_<<ide, ehci>> => EInv'
  <2> SUFFICES ASSUME EInv, [DevicesNext]_<<ide, ehci>> PROVE EInv'  OBVIOUS
  <2>1. CASE EhciNext  BY <2>1, EhciStep
  <2>2. CASE UNCHANGED ehci
    BY <2>2 DEF ehci, EInv, Prepared, Placed, Written, Nulls
  <2> QED BY <2>1, <2>2 DEF DevicesNext, init, init_devices
<1> QED BY <1>1, <1>2, RunsPreparedHolds, PTL DEF DevicesSpec
=============================================================================
