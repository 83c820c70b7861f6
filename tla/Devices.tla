------------------------------ MODULE Devices -------------------------------
(***************************************************************************)
(* The device drivers in the order kernel_main runs them (main.c): the IDE *)
(* driver probes when it is registered, the EHCI driver is bound when      *)
(* init_devices finds its controller.  A probe that never ends keeps the   *)
(* kernel from its controllers.                                            *)
(***************************************************************************)
EXTENDS Ide, Ehci

DevicesInit == IdeInit /\ EhciInit
ProbeOver == pc \in {"done", "failed"}

init == IdeNext /\ UNCHANGED ehci
init_devices == ProbeOver /\ EhciNext /\ UNCHANGED ide

DevicesNext == init \/ init_devices
DevicesSpec == DevicesInit /\ [][DevicesNext]_<<ide, ehci>>
DevicesFairSpec ==
  /\ DevicesSpec /\ IdeFairness /\ WF_ehci(ProbeOver /\ (Found \/ bind_device_pci)) /\ WF_ehci(ProbeOver /\ Obey)
  /\ WF_ehci(ProbeOver /\ FinishReset) /\ WF_ehci(ProbeOver /\ Settle)

=============================================================================
