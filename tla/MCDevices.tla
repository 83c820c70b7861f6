----------------------------- MODULE MCDevices ------------------------------
(* Attached drives, failed allocations, controllers.                       *)
EXTENDS Devices

Sited(t) == [s \in Sites |-> t[s + 1]]
MCDrives ==
  {<<"ata", "absent", "ata", "atapi">>, <<"broken", "atapi", "ata", "absent">>, <<"atapi", "ata", "absent", "ata">>,
   <<"atapi", "atapi", "ata", "ata">>, <<"floating", "floating", "ata", "atapi">>, <<"atapi", "mute", "ata", "absent">>}
DriveSets == {Sited(t) : t \in MCDrives}
NullEntries == {{}, {3}, {2, 3}}
MCLowEntries == {[Empty EXCEPT !.reserved = r, !.channel = 1, !.drive = 1] : r \in {1, 83}}

MCStores == {{}, {0}, {0, 1, 2, 3}}
Legacy(capable, dword, writable, settles, bios) ==
  [capable |-> capable, dword |-> dword, writable |-> writable, settles |-> settles, bios |-> bios]
MCLegacies ==
  {Legacy(FALSE, {16}, {}, FALSE, FALSE), Legacy(TRUE, {}, {24}, FALSE, TRUE), Legacy(TRUE, {16}, {24}, TRUE, TRUE),
   Legacy(TRUE, {16}, {24}, FALSE, TRUE), Legacy(TRUE, {16}, {}, TRUE, FALSE)}
=============================================================================
