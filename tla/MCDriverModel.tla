--------------------------- MODULE MCDriverModel ----------------------------
(* Images and buses for model checking DriverModel.  usb, ide and fb are   *)
(* the three images the kernel has built in; the others stand in for them. *)
EXTENDS DriverModel, TLC

Rel(type, name, own) == [type |-> type, name |-> name, own |-> own]
Good == <<Rel("RELATIVE", "__driver_name", FALSE), Rel("JMP_SLOT", "print", FALSE), Rel("GLOB_DAT", "ide_buffer", TRUE)>>
Tables == {"__driver_classes", "__driver_classes_count", "__driver_class_priority"}
Image(exports, classes, ids, priority, init, binds) ==
  [elf |-> TRUE, parts |-> Parts, rels |-> Good, exports |-> exports, classes |-> classes, ids |-> ids,
   priority |-> priority, init |-> init, binds |-> binds]
Bindable == {"init", "bind_device_pci"} \cup Tables

usb == Image(Bindable, {"usb"}, {}, 100, 0, {"ok", "fail"})
ide == Image(Bindable, {"ide"}, {}, 100, 0, {"fail"})
both == Image(Bindable, {"ide", "usb"}, {}, 50, 0, {"ok", "fail"})
zero == Image(Bindable \ {"__driver_class_priority"}, {"usb"}, {}, 50, 0, {"fail"})
exact == Image(Bindable \cup {"__driver_vidpid", "__driver_vidpid_count"}, {"usb"}, {"id1"}, 20, 0, {"ok"})
stern == [exact EXCEPT !.binds = {"fail"}]
unbound == [both EXCEPT !.exports = @ \ {"bind_device_pci"}]
fb == Image({"init", "__driver_class_priority"} \cup VideoSymbols, {}, {}, 100, 0, {})
dark == [fb EXCEPT !.init = 1]
half == [fb EXCEPT !.exports = @ \ {"kvshift"}]
noElf == [usb EXCEPT !.elf = FALSE]
noRel == [usb EXCEPT !.parts = {".dynsym", ".dynstr"}]
noName == [usb EXCEPT !.rels = <<Rel("JMP_SLOT", "print", FALSE), Rel("JMP_SLOT", "panic", FALSE)>>]
noType == [usb EXCEPT !.rels = <<Rel("32", "ide_buffer", TRUE)>>]
noInit == [usb EXCEPT !.exports = @ \ {"init"}]

MCQueues ==
  {<<a, b, c>> : a \in {usb, both, noElf, noRel, noName}, b \in {usb, ide, both, zero, exact, stern, unbound, noType, noInit},
                 c \in {fb, dark, half, noInit}}

Fn(class, id, cacheline) == [class |-> class, id |-> id, cacheline |-> cacheline]
Slots ==
  {<<>>} \cup {(0 :> Fn(c, i, FALSE)) : c \in {"usb", "ide"}, i \in {"id1", "id2"}}
         \cup {(0 :> Fn("ide", "id2", m)) @@ (2 :> Fn("usb", i, FALSE)) : m \in BOOLEAN, i \in {"id1", "id2"}}
MCBuses == {<<s, t>> : s \in Slots, t \in {<<>>, (0 :> Fn("usb", "id2", FALSE))}}
=============================================================================
