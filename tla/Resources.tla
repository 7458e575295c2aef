------------------------------ MODULE Resources ------------------------------
(***************************************************************************)
(* The resource handlers of feral-watchdog: memory, disk and GPU           *)
(* (ram.go, disk.go, gpu.go), fed by the metrics and the GPU signals of    *)
(* feral-sys-monitord (mediator.go), and the commands they share: every    *)
(* reboot asks the update gate first (commands.go, update_gate.go).        *)
(* Time is counted in metrics.                                             *)
(***************************************************************************)
EXTENDS Naturals, Sequences, FiniteSets

CONSTANTS
  RamMonitor,   \* RAM_MONITOR_DURATION_THRESHOLD
  RamCooldown,  \* RAM_RESTART_KIOSK_COOLDOWN
  RamReboot,    \* RAM_REBOOT_DURATION_THRESHOLD
  DiskCooldown, \* DISK_MONITOR_COOLDOWN
  GpuDelay,     \* REBOOT_DELAY
  MaxHold,      \* UPDATE_GATE_MAX_HOLD
  Updates,      \* updates that may run
  Levels,       \* what may happen: "ram", "disk", "fallback", and "fail" for the reboot command
  LongAgo       \* a time.Time that was never set

VARIABLES
  ram, disk,  \* MemoryHandler, DiskHandler
  timer,      \* GPUHandler: rebootScheduled, and the timer
  gate,       \* updateGate: the holder it times and since when
  cmd,        \* the reboots on their way and the kiosk
  world,      \* updates, usage, and what the properties remember
  now,        \* ages of the times kept, in metrics
  bus         \* GPU signals on the bus, each with the number of its journal line
machine_vars == <<ram, disk, timer, gate, cmd, world, now, bus>>

Forever == MaxHold + RamReboot + 1

(* Ages stop counting above every budget they are compared with.           *)
ASSUME MachineAssumption ==
  /\ {RamMonitor, RamCooldown, RamReboot, DiskCooldown, MaxHold} \subseteq Nat
  /\ DiskCooldown <= Forever /\ LongAgo \in Nat /\ LongAgo > Forever

Older(a) == IF a = LongAgo \/ a >= Forever THEN a ELSE a + 1
Since(a) == IF a = LongAgo THEN Forever ELSE a

MachineInit ==
  /\ ram = [monitoring |-> FALSE, start |-> LongAgo, cool |-> 0, restart |-> LongAgo]
  /\ disk = [cool |-> 0, cleaned |-> FALSE]
  /\ timer = [scheduled |-> FALSE, st |-> "none", left |-> 0]
  /\ gate = [holder |-> 0, since |-> LongAgo]
  /\ cmd = [reboots |-> {}, fallback |-> FALSE, rebooted |-> FALSE]
  /\ world = [update |-> 0, updates |-> 0, ram |-> "ok", disk |-> "ok", restarted |-> LongAgo, cleaned |-> LongAgo, high |-> 0,
              heard |-> 0, newest |-> 0]
  /\ now = 0 /\ bus = {}

(* updateGate.active: a hold is timed from when its holder is first seen,  *)
(* and one that lasts too long counts no more.                             *)
Seen == IF world.update = 0 THEN [holder |-> 0, since |-> LongAgo]
        ELSE IF gate.holder = world.update THEN gate ELSE [holder |-> world.update, since |-> 0]
Holds(g) == g.holder # 0 /\ g.since < MaxHold

(* rebootSystem asks the gate and reboots a little later; saw is the       *)
(* update that runs when it asks.                                          *)
Request(why, since) == [why |-> why, saw |-> world.update, since |-> since,
                        restarted |-> Since(world.restarted), cleaned |-> world.cleaned, high |-> world.high]
Reboot(c, g, why) == IF Holds(g) THEN c ELSE [c EXCEPT !.reboots = @ \cup {Request(why, Since(g.since))}]

(***************************** Memory **************************************)

Unmonitored(r) == [r EXCEPT !.monitoring = FALSE, !.start = LongAgo]
WouldReboot == Since(ram.restart) < RamReboot
CoolingDown(h) == h.cool > 0
(* A restart that the kiosk refuses, as on the fallback screen, counts as  *)
(* one that happened.                                                      *)
MemoryCheck(g) ==
  IF CoolingDown(ram) THEN UNCHANGED <<ram, gate, cmd, world>>
  ELSE IF world.ram = "ok" THEN ram' = Unmonitored(ram) /\ world' = [world EXCEPT !.high = 0] /\ UNCHANGED <<gate, cmd>>
  ELSE IF ~ram.monitoring THEN ram' = [ram EXCEPT !.monitoring = TRUE, !.start = 0] /\ UNCHANGED <<gate, cmd, world>>
  ELSE IF ram.start < RamMonitor THEN UNCHANGED <<ram, gate, cmd, world>>
  ELSE IF WouldReboot THEN gate' = g /\ cmd' = Reboot(cmd, g, "ram") /\ UNCHANGED <<ram, world>>
  ELSE /\ ram' = [Unmonitored(ram) EXCEPT !.restart = 0, !.cool = RamCooldown]
       /\ world' = [world EXCEPT !.restarted = IF cmd.fallback THEN @ ELSE 0, !.high = 0]
       /\ UNCHANGED <<gate, cmd>>

(******************************* Disk **************************************)

DiskCheck(g) ==
  IF CoolingDown(disk) THEN UNCHANGED <<disk, gate, cmd, world>>
  ELSE /\ gate' = g
       /\ IF Holds(g) THEN UNCHANGED <<disk, cmd, world>>
          ELSE IF world.disk = "full" /\ disk.cleaned THEN cmd' = Reboot(cmd, g, "disk") /\ UNCHANGED <<disk, world>>
          ELSE IF world.disk \in {"full", "high"}
          THEN disk' = [cleaned |-> TRUE, cool |-> DiskCooldown] /\ world' = [world EXCEPT !.cleaned = 0] /\ UNCHANGED cmd
          ELSE disk' = [disk EXCEPT !.cleaned = FALSE] /\ UNCHANGED <<cmd, world>>

(* ProcessMetrics handles one report at a time, and memory before disk.    *)
Metrics ==
  /\ cmd.reboots = {} /\ now = 1 /\ now' = 2
  /\ MemoryCheck(Seen)
  /\ UNCHANGED <<disk, timer, bus>>
MetricsDisk ==
  /\ cmd.reboots = {} /\ now = 2 /\ now' = 0
  /\ DiskCheck(Seen)
  /\ UNCHANGED <<ram, timer, bus>>

(******************************** GPU **************************************)

Scheduled == [scheduled |-> TRUE, st |-> "armed", left |-> GpuDelay]
Schedule == IF timer.scheduled THEN timer ELSE Scheduled
(* cancelReboot: a timer that has fired cannot be stopped.                 *)
DisarmedTwice == IF timer.st = "armed" THEN [timer EXCEPT !.st = "none"] ELSE timer \* mutant: still scheduled
Disarmed == IF timer.st = "armed" THEN [timer EXCEPT !.scheduled = FALSE, !.st = "none"] ELSE timer
(* handleGPURecovery                                                       *)
Recovery == IF timer.scheduled THEN Disarmed ELSE timer
(* Every signal has a goroutine of its own, and they come in any order;    *)
(* heard is the line handled last, newest the newest one handled.          *)
Signal(e) ==
  /\ e \in bus /\ bus' = bus \ {e}
  /\ timer' = IF e.says = "hang" THEN Schedule ELSE Recovery
  /\ world' = [world EXCEPT !.heard = e.no, !.newest = IF e.no > @ THEN e.no ELSE @]
  /\ UNCHANGED <<ram, disk, gate, cmd, now>>
Fires == timer.st = "armed" /\ timer.left = 0 /\ timer' = [timer EXCEPT !.st = "fired"]
         /\ UNCHANGED <<ram, disk, gate, cmd, world, now, bus>>
Fired ==
  /\ timer.st = "fired" /\ timer' = [timer EXCEPT !.scheduled = FALSE, !.st = "none"]
  /\ gate' = Seen /\ cmd' = Reboot(cmd, Seen, "gpu")
  /\ UNCHANGED <<ram, disk, world, now, bus>>

(***************************** The machine *********************************)

Executes(r) ==
  /\ r \in cmd.reboots
  /\ \E ok \in IF "fail" \in Levels THEN BOOLEAN ELSE {TRUE} :
       cmd' = [cmd EXCEPT !.reboots = @ \ {r}, !.rebooted = ok]
  /\ UNCHANGED <<ram, disk, timer, gate, world, now, bus>>
(* The time between two metrics.                                           *)
Tick ==
  /\ cmd.reboots = {} /\ now = 0 /\ now' = 1
  /\ timer.st = "armed" => timer.left > 0
  /\ timer' = IF timer.st = "armed" THEN [timer EXCEPT !.left = @ - 1] ELSE timer
  /\ ram' = [ram EXCEPT !.start = Older(@), !.restart = Older(@), !.cool = IF @ > 0 THEN @ - 1 ELSE 0]
  /\ disk' = [disk EXCEPT !.cool = IF @ > 0 THEN @ - 1 ELSE 0]
  /\ gate' = [gate EXCEPT !.since = Older(@)]
  /\ \E m \in IF "ram" \in Levels THEN {"ok", "high"} ELSE {"ok"}, d \in IF "disk" \in Levels THEN {"ok", "high", "full"} ELSE {"ok"} :
       world' = [world EXCEPT !.ram = m, !.disk = d, !.restarted = Older(@), !.cleaned = Older(@), !.high = Older(@)]
  /\ UNCHANGED <<cmd, bus>>
UpdateStarts ==
  /\ world.update = 0 /\ world.updates < Updates
  /\ world' = [world EXCEPT !.update = world.updates + 1, !.updates = @ + 1]
  /\ UNCHANGED <<ram, disk, timer, gate, cmd, now, bus>>
UpdateEnds ==
  /\ world.update # 0 /\ world' = [world EXCEPT !.update = 0]
  /\ UNCHANGED <<ram, disk, timer, gate, cmd, now, bus>>
Fallback ==
  /\ "fallback" \in Levels /\ cmd' = [cmd EXCEPT !.fallback = ~@]
  /\ UNCHANGED <<ram, disk, timer, gate, world, now, bus>>

Clock == Tick \/ Metrics \/ MetricsDisk
Rebooting == \E r \in cmd.reboots : Executes(r)
Signals == \E e \in bus : Signal(e)
Handlers == Clock \/ Signals \/ Fires \/ Fired \/ Rebooting
Around == UpdateStarts \/ UpdateEnds \/ Fallback
MachineNext == ~cmd.rebooted /\ (Handlers \/ Around)
MachineSpec == MachineInit /\ [][MachineNext]_machine_vars

(****************************** Properties *********************************)

(* A reboot never interrupts an update that ran when the gate was asked,   *)
(* unless the gate had seen it hold its lock past the ceiling; one that    *)
(* begins between the question and the reboot may be interrupted.          *)
UpdateSpared == \A r \in cmd.reboots : r.saw # 0 => r.since >= MaxHold
(* Memory reboots only after a restart of the kiosk, and after the usage   *)
(* has been critical for the whole monitoring time since.                  *)
RamRebootEarned == \A r \in cmd.reboots : r.why = "ram" => r.restarted < RamReboot /\ r.high >= RamMonitor
(* The disk reboots only when a cleanup was made and had its time.         *)
DiskRebootEarned == \A r \in cmd.reboots : r.why = "disk" => r.cleaned # LongAgo /\ r.cleaned >= DiskCooldown
=============================================================================
