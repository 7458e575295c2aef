------------------------------ MODULE MCHealth -------------------------------
(***************************************************************************)
(* Scenes of the device's health: the connectivity watcher alone; a GPU    *)
(* whose hangs go through the journal, feral-sys-monitord and D-Bus to the *)
(* watchdog; memory, disk and updates that strain the watchdog; the kiosk  *)
(* ladder over a long time; feral-controld's CDP health reporter.  The cfg *)
(* gives the constants of the strain.                                      *)
(***************************************************************************)
EXTENDS CdpHealth, Connectivity, RebootChain

VARIABLES scene,
  due, pc, loc, mon, op, shown, kgate, file, kiosk, screen, display, vt, updater, seen
kiosk_vars == <<due, pc, loc, mon, op, shown, kgate, file, kiosk, screen, display, vt, updater, seen>>
mcvars == <<scene, net_vars, chain_vars, kiosk_vars, hvars>>

Chain == INSTANCE RebootChain WITH Updates <- 0, Levels <- {}
Deferred == INSTANCE RebootChain WITH Levels <- {}
Ladder == INSTANCE KioskLadder WITH
  Hang <- 1, Grace <- 2, HistorySize <- 2, MaxRestarts <- 2, Window <- 3,
  HoldTime <- 4, MaxReboots <- 1, MaxHold <- 5, Pids <- {1}, gate <- kgate,
  Events <- {"hang", "update", "restart", "operator", "report"}

MCInit ==
  /\ scene \in {"net", "chain", "strain", "deferred", "ladder", "report"}
  /\ NetInit /\ ChainInit /\ Ladder!Init /\ Init
  /\ scene # "net" => net = TRUE

Beside == <<scene, kiosk_vars, hvars>>
MCNext ==
  \/ /\ UNCHANGED Beside
     /\ \/ scene = "net" /\ NetNext /\ UNCHANGED chain_vars
        \/ scene = "chain" /\ Chain!ChainNext /\ UNCHANGED net_vars
        \/ scene = "deferred" /\ Deferred!ChainNext /\ UNCHANGED net_vars
        \/ scene = "strain" /\ WatchdogStep /\ UNCHANGED net_vars
  \/ /\ UNCHANGED <<scene, net_vars, chain_vars>>
     /\ \/ scene = "ladder" /\ Ladder!Next /\ UNCHANGED hvars
        \/ scene = "report" /\ Next /\ UNCHANGED kiosk_vars

InChain == scene = "chain" /\ ~cmd.rebooted /\ UNCHANGED <<Beside, net_vars>>
MCSpec ==
  /\ MCInit /\ [][MCNext]_mcvars
  /\ WF_watch(scene = "net" /\ Watcher) /\ SF_watch(scene = "net" /\ Ends)
  /\ WF_notes(scene = "net" /\ Notified)
  /\ WF_<<gpu, bus>>(InChain /\ Journal!GpuWatcher)
  /\ WF_now(InChain /\ Chain!Clock)
  /\ WF_bus(InChain /\ Chain!Signals)
  /\ WF_timer(InChain /\ (Chain!Fires \/ Chain!Fired))
  /\ WF_cmd(InChain /\ Chain!Rebooting)
  /\ WF_due(scene = "ladder" /\ Ladder!Tick) /\ WF_polled(scene = "report" /\ Interval)
  /\ WF_kiosk_vars(scene = "ladder" /\ Ladder!Check)
  /\ WF_polled(scene = "report" /\ Poll)
  /\ \A w \in Words : WF_hvars(scene = "report" /\ Deliver(w))
  /\ SF_hvars(scene = "report" /\ Send)

(* A signal from before the present hang was handled after one of it.      *)
Overtaken == world.newest >= gpu.began /\ world.heard < gpu.began
(* A hang that is not recovered from ends in a reboot, unless the sends of *)
(* all its lines failed or a signal of an earlier hang came late.          *)
HangIsAnswered ==
  scene = "chain" => [](gpu.hung => <>(~gpu.hung \/ cmd.rebooted \/ Journal!Unheard \/ Overtaken))

(* A stopped watcher ends; a GPU that hangs is recovered or rebooted if one *)
(* line of it reached the watchdog and no older signal after it; and the   *)
(* listener hears of a page target that stays away.                        *)
NewsArrives ==
  /\ scene = "net" => WatchersEnd
  /\ HangIsAnswered
  /\ scene = "report" => ListenerLearns

(* A silent kiosk ends parked and one that answers again is forgiven, even *)
(* behind an updater that never releases its lock.                         *)
LadderSettles ==
  scene = "ladder" => Ladder!ParksInTheEnd /\ Ladder!RecoversInTheEnd
=============================================================================
