---------------------------- MODULE RebootChain ------------------------------
(***************************************************************************)
(* What may end in a reboot of the device: the watchdog's resource handlers*)
(* (Resources), and the GPU journal that feral-sys-monitord reads for them *)
(* (GpuMonitor).  The two daemons share the bus.                           *)
(***************************************************************************)
EXTENDS Resources

CONSTANTS MaxLines, JournalDies

VARIABLE gpu      \* GpuMonitor's state

Journal == INSTANCE GpuMonitor

own_vars == <<ram, disk, timer, gate, cmd, world, now>>
chain_vars == <<gpu, machine_vars>>

ChainInit == MachineInit /\ Journal!GpuInit
JournalStep == ~cmd.rebooted /\ Journal!GpuNext /\ UNCHANGED own_vars
WatchdogStep == MachineNext /\ UNCHANGED gpu
ChainNext == JournalStep \/ WatchdogStep
ChainSpec == ChainInit /\ [][ChainNext]_chain_vars

(* A GPU that has recovered is not rebooted: when every line of the journal*)
(* has gone its way, the send of the last one did not fail and no signal   *)
(* was handled after a newer one, no timer is left armed (gpu.go 76-110,   *)
(* event.go 59-77).                                                        *)
RecoveredIsSpared ==
  Journal!Quiet /\ ~gpu.hung /\ Len(gpu.log) \notin gpu.lost /\ world.heard = world.newest
    => timer.st # "armed"
(* What the watchdog may reboot for: memory above its limit again after a  *)
(* restart, a disk still full after a cleanup; never during an update      *)
(* (ram.go, disk.go, commands.go).                                         *)
RebootsEarned == UpdateSpared /\ RamRebootEarned /\ DiskRebootEarned /\ RecoveredIsSpared
=============================================================================
