---------------------------- MODULE KioskLadder -----------------------------
(***************************************************************************)
(* feral-watchdog's recovery ladder for the Chromium kiosk (chromium.go)   *)
(* with the kiosk commands it shares with the RAM and GPU handlers         *)
(* (commands.go), the update gate (update_gate.go) and the reboot count it *)
(* keeps on disk (fallback_state.go).                                      *)
(*                                                                         *)
(* Time is counted in check intervals.  Every time.Time of the code is an  *)
(* age here, saturated one past the budget it is compared with, so no      *)
(* clock is needed and no behaviour is cut.  A check is a sequence of      *)
(* steps: what the code reads outside m.mu is read in a step of its own,   *)
(* and the machine, the RAM and GPU handlers and feral-controld's reports  *)
(* move between any two of them.  A check takes less than an interval.     *)
(***************************************************************************)
EXTENDS Integers, Sequences

CONSTANTS
  Hang, Grace,        \* CHROMIUM_HANG_THRESHOLD, CHROMIUM_STARTUP_GRACE
  HistorySize, MaxRestarts, Window,  \* the restart budget
  HoldTime,           \* CHROMIUM_FALLBACK_HOLD
  MaxReboots,         \* CHROMIUM_MAX_FALLBACK_REBOOTS
  MaxHold,            \* UPDATE_GATE_MAX_HOLD
  Pids,               \* process ids an updater may have
  Events              \* what the machine does in this instance

EventKinds == {"hang", "exit", "operator", "display", "console", "update",
               "report", "others", "restart", "power", "refusal", "disk",
               "cut"}

ASSUME LadderAssumption ==
  /\ Hang \in Nat /\ Grace \in Nat /\ Window \in Nat /\ HoldTime \in Nat
  /\ HistorySize \in Nat \ {0} /\ MaxRestarts \in 1 .. HistorySize
  /\ MaxReboots \in Nat /\ MaxHold \in Nat
  /\ Events \subseteq EventKinds
  /\ Pids \subseteq Nat \ {0}

VARIABLES
  due,      \* this interval's check has not run yet
  pc,       \* the step of ChromiumMonitor.check
  loc,      \* what that check has read
  mon,      \* ChromiumMonitor's fields
  op,       \* who CommandHandler.kioskOpInFlight is set for, or "none"
  shown,    \* CommandHandler.fallbackShown
  gate,     \* updateGate: the holder being timed and the age of its hold
  file,     \* consecutive_reboots on disk, 0 when there is no file
  kiosk,    \* chromium-kiosk.service; "up" when /json/version answers
  screen,   \* feral-kiosk-fallback.service is up
  display, vt,   \* a connector reads connected; tty1 is active
  updater,  \* the process holding the updater lock, 0 for none
  seen      \* what happened, for the properties only

unit == <<kiosk, screen>>
around == <<display, vt, updater>>
vars == <<due, pc, loc, mon, op, shown, gate, file, unit, around, seen>>

NoHold == -1
NoGate == [holder |-> 0, age |-> 0]
Older(a, cap) == IF a < cap THEN a + 1 ELSE cap
GatesOpen(l) == l.display /\ l.vt /\ ~l.updating
NoRead == [display |-> TRUE, vt |-> TRUE, updating |-> FALSE,
           recovered |-> FALSE, clear |-> FALSE, elapsed |-> FALSE]

(* NewChromiumMonitor: pre-connect, with the count read from disk.         *)
Fresh(count) ==
  [ever |-> FALSE, start |-> 0, last |-> Hang + 1, hist |-> <<>>,
   headless |-> FALSE, console |-> FALSE, updating |-> FALSE,
   hold |-> NoHold, parked |-> FALSE, reboots |-> count,
   stuck |-> FALSE, report |-> FALSE, healthy |-> FALSE]

Init ==
  /\ due = FALSE /\ pc = "idle" /\ loc = NoRead
  /\ mon = Fresh(0) /\ op = "none" /\ shown = FALSE /\ gate = NoGate
  /\ file = 0 /\ kiosk = "silent" /\ screen = FALSE
  /\ display = TRUE /\ vt = TRUE /\ updater = 0
  /\ seen = [cold |-> 0, answered |-> FALSE, reboots |-> 0]

(* A check interval passes.                                                *)
Tick ==
  /\ pc = "idle" /\ ~due /\ due' = TRUE
  /\ mon' = [mon EXCEPT
       !.start = Older(@, Grace + 1), !.last = Older(@, Hang + 1),
       !.hist = [i \in DOMAIN @ |-> Older(@[i], Window + 1)],
       !.hold = IF @ = NoHold THEN @ ELSE Older(@, HoldTime)]
  /\ gate' = [gate EXCEPT !.age = IF gate.holder = 0 THEN 0
                                  ELSE Older(@, MaxHold)]
  /\ seen' = [seen EXCEPT !.cold = Older(@, Grace + 1)]
  /\ UNCHANGED <<pc, loc, op, shown, file, unit, around>>

-----------------------------------------------------------------------------
(* updateGate.active: a hold is timed from when its holder is first seen.  *)
GateReadRestamps ==
  IF updater = 0 THEN NoGate ELSE [holder |-> updater, age |-> 0]

GateRead == IF updater = 0 THEN NoGate
            ELSE IF updater = gate.holder THEN gate
            ELSE [holder |-> updater, age |-> 0]

Updating(g) == g.holder # 0 /\ g.age < MaxHold

Finish == pc' = "idle" /\ due' = FALSE /\ loc' = NoRead

(* A check that answered 200: the latches are cleared, a fallback hold is  *)
(* over, and the reboot count is forgiven only on a word from controld or  *)
(* when the kiosk came back under the error screen.                        *)
Recovered == mon.hold # NoHold
Suppressed == mon.headless \/ mon.console \/ mon.updating \/ Recovered
MayForgetOnSuccess == TRUE
MayForgetUnlessStuck == Recovered \/ (mon.report /\ ~mon.stuck)
MayForget == Recovered \/ (mon.report /\ mon.healthy)

CheckOk ==
  /\ pc = "idle" /\ due /\ kiosk = "up"
  /\ pc' = "answered"
  /\ loc' = [loc EXCEPT !.recovered = Recovered,
                        !.clear = MayForget /\ mon.reboots > 0]
  /\ mon' = [mon EXCEPT
       !.last = 0, !.ever = TRUE,
       !.headless = FALSE, !.console = FALSE, !.updating = FALSE,
       !.stuck = @ /\ ~Suppressed /\ mon.ever,
       !.hold = NoHold, !.parked = @ /\ ~Recovered,
       !.hist = IF Recovered THEN <<>> ELSE @,
       !.reboots = IF MayForget THEN 0 ELSE @]
  /\ seen' = [seen EXCEPT !.answered = TRUE,
       !.reboots = IF Recovered \/ mon.healthy THEN 0 ELSE @]
  /\ UNCHANGED <<due, op, shown, gate, file, unit, around>>

(* ... the rest of it, outside m.mu.  A removal that fails, or that a power*)
(* cut undoes, leaves the file.                                            *)
Answered ==
  /\ pc = "answered" /\ pc' = "escalate"
  /\ shown' = (shown /\ ~loc.recovered)
  /\ file' \in IF loc.clear THEN {0, file} ELSE {file}
  /\ UNCHANGED <<due, loc, mon, op, gate, unit, around, seen>>

(* A 200 whose body cannot be read counts neither way.                     *)
CheckCut ==
  /\ "cut" \in Events /\ pc = "idle" /\ due /\ kiosk = "up" /\ Finish
  /\ UNCHANGED <<mon, op, shown, gate, file, unit, around, seen>>

(* escalateCDPStuck: the gates are read but not latched.                   *)
EscalateCDPStuck ==
  /\ pc = "escalate"
  /\ gate' = IF mon.stuck /\ display /\ vt THEN GateRead ELSE gate
  /\ IF mon.stuck /\ display /\ vt /\ ~Updating(GateRead)
                  /\ kiosk # "activating"
     THEN pc' = "restart" /\ UNCHANGED <<due, loc>>
     ELSE Finish
  /\ UNCHANGED <<mon, op, shown, file, unit, around, seen>>

(* A check that failed: checkHangState reads the gates before m.mu.        *)
CheckFail ==
  /\ pc = "idle" /\ due /\ kiosk # "up"
  /\ pc' = "failed" /\ gate' = GateRead
  /\ loc' = [loc EXCEPT !.display = display, !.vt = vt,
                        !.updating = Updating(GateRead)]
  /\ seen' = IF GatesOpen(loc') THEN seen
             ELSE [seen EXCEPT !.cold = 0, !.answered = FALSE]
  /\ UNCHANGED <<due, mon, op, shown, file, unit, around>>

(* A closed gate outside a hold: latched, nothing escalates.               *)
Suppress ==
  /\ pc = "failed" /\ mon.hold = NoHold /\ ~GatesOpen(loc)
  /\ mon' = [mon EXCEPT !.headless = @ \/ ~loc.display,
                        !.console = @ \/ (loc.display /\ ~loc.vt),
                        !.updating = @ \/ (loc.display /\ loc.vt)]
  /\ Finish
  /\ UNCHANGED <<op, shown, gate, file, unit, around, seen>>

(* With the gates open again the cold start has a fresh grace; otherwise   *)
(* the budget that applies may be over.                                    *)
RearmedLatches ==
  [mon EXCEPT !.headless = FALSE, !.console = FALSE, !.updating = FALSE]

Rearmed ==
  IF mon.headless \/ mon.console \/ mon.updating
  THEN [mon EXCEPT !.headless = FALSE, !.console = FALSE, !.updating = FALSE,
                   !.ever = FALSE, !.start = 0, !.last = Hang + 1,
                   !.stuck = FALSE]
  ELSE mon

ShouldRestart(m) == IF m.ever THEN m.last > Hang \/ m.stuck
                    ELSE m.start > Grace

CheckHangState ==
  /\ pc = "failed" /\ mon.hold = NoHold /\ GatesOpen(loc)
  /\ mon' = Rearmed
  /\ IF ShouldRestart(Rearmed)
     THEN pc' = "confirm" /\ UNCHANGED <<due, loc>>
     ELSE Finish
  /\ UNCHANGED <<op, shown, gate, file, unit, around, seen>>

(* isKioskActivating, asked outside m.mu.                                  *)
Confirm ==
  /\ pc = "confirm"
  /\ IF kiosk = "activating" THEN Finish
     ELSE pc' = "restart" /\ UNCHANGED <<due, loc>>
  /\ UNCHANGED <<mon, op, shown, gate, file, unit, around, seen>>

-----------------------------------------------------------------------------
(* restartChromium, under m.mu from here until the check is over: spend    *)
(* the budget, and either restart the kiosk or show the error screen.      *)
Spent(h) == LET grown == Append(h, 0)
            IN  IF Len(grown) > HistorySize THEN Tail(grown) ELSE grown

Exhausted(h) == Len(h) >= MaxRestarts /\ h[1] <= Window

RestartChromium ==
  /\ pc = "restart"
  /\ mon' = [mon EXCEPT !.hist = Spent(@), !.stuck = FALSE]
  /\ pc' = IF Exhausted(mon'.hist) THEN "show" ELSE "kiosk"
  /\ UNCHANGED <<due, loc, op, shown, gate, file, unit, around, seen>>

(* showKioskFallback: another kiosk operation makes it wait for the next   *)
(* check; a refused stop or start reboots at once.                         *)
ShowBusy ==
  /\ pc = "show" /\ op # "none" /\ Finish
  /\ UNCHANGED <<mon, op, shown, gate, file, unit, around, seen>>

ShowBegin ==
  /\ pc = "show" /\ op = "none"
  /\ op' = "monitor" /\ pc' = "stop"
  /\ UNCHANGED <<due, loc, mon, shown, gate, file, unit, around, seen>>

StopKiosk ==
  /\ pc = "stop" /\ kiosk' = "off" /\ pc' = "screen"
  /\ UNCHANGED <<due, loc, mon, op, shown, gate, file, screen, around, seen>>

ShowScreen ==
  /\ pc = "screen" /\ screen' = TRUE /\ shown' = TRUE
  /\ op' = "none" /\ mon' = [mon EXCEPT !.hold = 0] /\ Finish
  /\ UNCHANGED <<gate, file, kiosk, around, seen>>

ShowRefused ==
  /\ "refusal" \in Events /\ pc \in {"stop", "screen"}
  /\ op' = "none" /\ pc' = "gate"
  /\ UNCHANGED <<due, loc, mon, shown, gate, file, unit, around, seen>>

(* Back to pre-connect, whether restartKiosk did anything or not.          *)
PreConnect == [mon EXCEPT !.ever = FALSE, !.start = 0, !.last = Hang + 1]

KioskRefusedInFlight == op # "none"
KioskRefused == op # "none" \/ shown

RestartSkipped ==
  /\ pc = "kiosk" /\ KioskRefused
  /\ mon' = PreConnect /\ Finish
  /\ UNCHANGED <<op, shown, gate, file, unit, around, seen>>

RestartBegin ==
  /\ pc = "kiosk" /\ ~KioskRefused
  /\ op' = "monitor" /\ pc' = "restarting"
  /\ UNCHANGED <<due, loc, mon, shown, gate, file, unit, around, seen>>

(* The unit's ExecStartPre takes the error screen down; a refused restart  *)
(* may leave the unit stopped.                                             *)
Restarted ==
  \/ kiosk' = "silent" /\ screen' = FALSE
  \/ "refusal" \in Events /\ kiosk' \in {kiosk, "off"} /\ UNCHANGED screen

RestartEnd ==
  /\ pc = "restarting" /\ Restarted
  /\ op' = "none" /\ mon' = PreConnect /\ Finish
  /\ seen' = [seen EXCEPT !.cold = 0, !.answered = FALSE]
  /\ UNCHANGED <<shown, gate, file, around>>

-----------------------------------------------------------------------------
(* The fallback hold, on failed checks: a headless device abandons it, a   *)
(* developer or an update starts it over.                                  *)
AbandonHold ==
  /\ pc = "failed" /\ mon.hold # NoHold /\ ~loc.display
  /\ mon' = [mon EXCEPT !.hold = NoHold, !.parked = FALSE, !.hist = <<>>,
                        !.headless = TRUE]
  /\ shown' = FALSE /\ Finish
  /\ UNCHANGED <<op, gate, file, unit, around, seen>>

DeferHold ==
  /\ pc = "failed" /\ mon.hold # NoHold /\ loc.display
  /\ ~loc.vt \/ loc.updating
  /\ mon' = [mon EXCEPT !.hold = 0, !.console = ~loc.vt,
                        !.updating = IF loc.vt THEN TRUE ELSE @]
  /\ Finish
  /\ UNCHANGED <<op, shown, gate, file, unit, around, seen>>

Holding == pc = "failed" /\ mon.hold # NoHold /\ GatesOpen(loc)
Unlatched == [mon EXCEPT !.console = FALSE, !.updating = FALSE]

KeepHolding ==
  /\ Holding /\ mon.hold < HoldTime
  /\ mon' = Unlatched /\ Finish
  /\ UNCHANGED <<op, shown, gate, file, unit, around, seen>>

Park ==
  /\ Holding /\ mon.hold >= HoldTime /\ mon.reboots >= MaxReboots
  /\ mon' = [Unlatched EXCEPT !.parked = TRUE] /\ Finish
  /\ UNCHANGED <<op, shown, gate, file, unit, around, seen>>

HoldElapsed ==
  /\ Holding /\ mon.hold >= HoldTime /\ mon.reboots < MaxReboots
  /\ mon' = [Unlatched EXCEPT !.hold = NoHold, !.reboots = @ + 1]
  /\ pc' = "store" /\ loc' = [loc EXCEPT !.elapsed = TRUE]
  /\ UNCHANGED <<due, op, shown, gate, file, unit, around, seen>>

(* The count is stored before the reboot is asked for; a failed store does *)
(* not stop it.                                                            *)
StoreReboots ==
  /\ pc = "store" /\ pc' = "gate"
  /\ file' \in IF "disk" \in Events THEN {mon.reboots, file}
                                    ELSE {mon.reboots}
  /\ UNCHANGED <<due, loc, mon, op, shown, gate, unit, around, seen>>

(* clearKioskFallback, then rebootSystem: the update gate once more.       *)
RebootGate ==
  /\ pc = "gate" /\ gate' = GateRead
  /\ shown' = (shown /\ ~loc.elapsed)
  /\ IF Updating(GateRead) THEN Finish
     ELSE pc' = "reboot" /\ UNCHANGED <<due, loc>>
  /\ UNCHANGED <<mon, op, file, unit, around, seen>>

(* Everything but the file starts over.                                    *)
Boot ==
  /\ due' = FALSE /\ pc' = "idle" /\ loc' = NoRead
  /\ \E count \in IF "disk" \in Events THEN {file, 0} ELSE {file} :
       mon' = Fresh(count)
  /\ op' = "none" /\ shown' = FALSE /\ gate' = NoGate
  /\ kiosk' = "silent" /\ screen' = FALSE
  /\ vt' = TRUE /\ updater' = 0
  /\ UNCHANGED <<file, display>>

Reboot ==
  /\ pc = "reboot" /\ Boot
  /\ seen' = [cold |-> 0, answered |-> FALSE,
              reboots |-> IF loc.elapsed THEN seen.reboots + 1
                                         ELSE seen.reboots]

RebootRefused ==
  /\ "refusal" \in Events /\ pc = "reboot" /\ Finish
  /\ UNCHANGED <<mon, op, shown, gate, file, unit, around, seen>>

-----------------------------------------------------------------------------
(* The watchdog's other goroutines.  m.mu is held through restartChromium, *)
(* CommandHandler.mu through the reboot command.                           *)
MonitorLocked == pc \in {"show", "stop", "screen", "kiosk", "restarting"}
                 \/ (pc \in {"gate", "reboot"} /\ ~loc.elapsed)

SetCDPStuck(stuck) ==
  /\ ~MonitorLocked
  /\ mon' = [mon EXCEPT !.stuck = stuck, !.report = TRUE, !.healthy = ~stuck]
  /\ UNCHANGED <<due, pc, loc, op, shown, gate, file, unit, around, seen>>

(* restartKiosk asked for by the RAM or the GPU handler.                   *)
OthersRestartBegin ==
  /\ pc # "reboot" /\ ~KioskRefused
  /\ op' = "others"
  /\ UNCHANGED <<due, pc, loc, mon, shown, gate, file, unit, around, seen>>

OthersRestartEnd ==
  /\ op = "others" /\ Restarted
  /\ op' = "none"
  /\ UNCHANGED <<due, pc, loc, mon, shown, gate, file, around, seen>>

(* feral-watchdog.service restarts: only the file and the machine remain.  *)
WatchdogRestart ==
  /\ due' = FALSE /\ pc' = "idle" /\ loc' = NoRead
  /\ \E count \in IF "disk" \in Events THEN {file, 0} ELSE {file} :
       mon' = Fresh(count)
  /\ op' = "none" /\ shown' = FALSE /\ gate' = NoGate
  /\ UNCHANGED <<file, unit, around, seen>>

PowerCut ==
  /\ Boot /\ seen' = [seen EXCEPT !.cold = 0, !.answered = FALSE]

Others ==
  \/ "report" \in Events /\ \E b \in BOOLEAN : SetCDPStuck(b)
  \/ "others" \in Events /\ (OthersRestartBegin \/ OthersRestartEnd)
  \/ "restart" \in Events /\ WatchdogRestart
  \/ "power" \in Events /\ PowerCut

-----------------------------------------------------------------------------
(* The machine.  start-kiosk.sh starts Chromium only on a connected display*)
(* and on tty1; Restart=always brings the unit back after it exits.        *)
KioskAnswers == kiosk = "silent" /\ display /\ vt /\ kiosk' = "up"
                /\ UNCHANGED <<screen, around>>
KioskHangs == kiosk = "up" /\ kiosk' = "silent" /\ UNCHANGED <<screen, around>>
KioskExits == kiosk \in {"up", "silent"} /\ kiosk' = "activating"
              /\ UNCHANGED <<screen, around>>
KioskReturns == kiosk = "activating" /\ kiosk' = "silent" /\ screen' = FALSE
                /\ UNCHANGED around
OperatorStarts == kiosk' = "silent" /\ screen' = FALSE /\ UNCHANGED around
DisplayMoves == display' = ~display /\ UNCHANGED <<unit, vt, updater>>
ConsoleMoves == vt' = ~vt /\ UNCHANGED <<unit, display, updater>>
UpdateStarts == /\ updater = 0
                /\ updater' \in Pids \ {gate.holder}
                /\ UNCHANGED <<unit, display, vt>>
UpdateEnds == updater # 0 /\ updater' = 0 /\ UNCHANGED <<unit, display, vt>>

Machine ==
  /\ \/ KioskAnswers
     \/ "hang" \in Events /\ KioskHangs
     \/ "exit" \in Events /\ (KioskExits \/ KioskReturns)
     \/ "operator" \in Events /\ OperatorStarts
     \/ "display" \in Events /\ DisplayMoves
     \/ "console" \in Events /\ ConsoleMoves
     \/ "update" \in Events /\ (UpdateStarts \/ UpdateEnds)
  /\ UNCHANGED <<due, pc, loc, mon, op, shown, gate, file, seen>>

Check ==
  \/ CheckOk \/ CheckCut \/ Answered \/ EscalateCDPStuck
  \/ CheckFail \/ Suppress \/ CheckHangState \/ Confirm
  \/ RestartChromium \/ ShowBusy \/ ShowBegin \/ StopKiosk \/ ShowScreen
  \/ ShowRefused \/ RestartSkipped \/ RestartBegin \/ RestartEnd
  \/ AbandonHold \/ DeferHold \/ KeepHolding \/ Park \/ HoldElapsed
  \/ StoreReboots \/ RebootGate \/ Reboot \/ RebootRefused

Next == Tick \/ Check \/ Others \/ Machine

Spec == Init /\ [][Next]_vars

(* The watchdog's ticker runs and a check that started goes on.            *)
FairSpec == Spec /\ WF_vars(Tick) /\ WF_vars(Check)

-----------------------------------------------------------------------------
Steps == {"idle", "answered", "escalate", "failed", "confirm", "restart",
          "show", "stop", "screen", "kiosk", "restarting", "store", "gate",
          "reboot"}

Monitors ==
  [ever : BOOLEAN, start : 0 .. Grace + 1, last : 0 .. Hang + 1,
   hist : Seq(0 .. Window + 1),
   headless : BOOLEAN, console : BOOLEAN, updating : BOOLEAN,
   hold : {NoHold} \union 0 .. HoldTime, parked : BOOLEAN,
   reboots : 0 .. MaxReboots,
   stuck : BOOLEAN, report : BOOLEAN, healthy : BOOLEAN]

(* Types; the restart history and the reboot count never outgrow their     *)
(* caps (chromium.go 884-890, 679-693).                                       *)
TypeOK ==
  /\ due \in BOOLEAN /\ pc \in Steps
  /\ loc \in [display : BOOLEAN, vt : BOOLEAN, updating : BOOLEAN,
              recovered : BOOLEAN, clear : BOOLEAN, elapsed : BOOLEAN]
  /\ mon \in Monitors /\ Len(mon.hist) <= HistorySize
  /\ op \in {"none", "monitor", "others"} /\ shown \in BOOLEAN
  /\ gate \in [holder : {0} \union Pids, age : 0 .. MaxHold]
  /\ file \in 0 .. MaxReboots
  /\ kiosk \in {"off", "activating", "silent", "up"} /\ screen \in BOOLEAN
  /\ display \in BOOLEAN /\ vt \in BOOLEAN
  /\ updater \in {0} \union Pids
  /\ seen \in [cold : 0 .. Grace + 1, answered : BOOLEAN, reboots : Nat]

(* As long as nobody else starts the kiosk, a fallback hold means the error*)
(* screen is up, the kiosk is stopped, and restartKiosk refuses: no RAM or *)
(* GPU restart in flight can take the screen down, no step of the fallback *)
(* sequence can lose it (commands.go 95-186).                              *)
HoldShowsScreen == mon.hold # NoHold => screen /\ kiosk = "off" /\ shown

(* Between two words of health from the kiosk's recovery or from controld, *)
(* at most MaxReboots fallback holds end in a reboot, across every boot and*)
(* every restart of the watchdog (ffos-user#254, chromium.go 54-66).        *)
RebootsCapped == seen.reboots <= MaxReboots

(* The ladder decides on a kiosk restart only when Chromium answered since *)
(* the ladder last restarted it, the machine booted or a closed gate was   *)
(* last seen, or when it had the whole startup grace since then: neither a *)
(* fallback hold, nor a restart of the watchdog, nor the end of a latch    *)
(* cuts a cold start short (chromium.go 28-41, 747-834).                   *)
DecidesInGrace ==
  pc # "confirm" /\ pc' = "confirm" /\ ~seen.answered /\ seen.cold <= Grace

GraceGiven == [][~DecidesInGrace]_vars

SettledUpdater == \E p \in {0} \union Pids : <>[](updater = p)

(* A kiosk that stays silent with the gates open ends parked, even behind  *)
(* an updater that never lets its lock go and however often an operator    *)
(* starts it; a kiosk the ladder stopped lies under the error screen.      *)
ParksInTheEnd ==
  /\ <>[](kiosk \in {"silent", "off"} /\ display /\ vt)
  /\ SettledUpdater /\ <>[][~WatchdogRestart]_vars
  => <>[](mon.parked /\ (kiosk = "off" => screen))

(* Once the kiosk answers for good no hold and no refusal is left, and if  *)
(* controld keeps calling it healthy no reboot count either.               *)
RecoversInTheEnd ==
  /\ <>[](kiosk = "up") => <>[](mon.hold = NoHold /\ ~shown)
  /\ <>[](kiosk = "up" /\ mon.healthy) => <>[](mon.reboots = 0)
=============================================================================
