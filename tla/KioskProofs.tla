---------------------------- MODULE KioskProofs -----------------------------
(***************************************************************************)
(* Proofs about KioskLadder: types, the error screen under a fallback hold,*)
(* the grace of a cold start, and the cap on hold reboots, for all budgets *)
(* and all events but those each theorem names; and about KioskWatch: the  *)
(* cap against the truth.                                                  *)
(***************************************************************************)
EXTENDS KioskWatch, SequenceTheorems, TLAPS

LEMMA FreshType ==
  ASSUME NEW count \in 0 .. MaxReboots
  PROVE  /\ Fresh(count) \in Monitors /\ Len(Fresh(count).hist) <= HistorySize
  BY LadderAssumption DEF Fresh, Monitors, NoHold

LEMMA SpentType ==
  ASSUME NEW h \in Seq(0 .. Window + 1), Len(h) <= HistorySize
  PROVE  Spent(h) \in Seq(0 .. Window + 1) /\ Len(Spent(h)) <= HistorySize
  <1> DEFINE grown == Append(h, 0)
  <1>1. grown \in Seq(0 .. Window + 1) /\ Len(grown) = Len(h) + 1
    BY LadderAssumption
  <1>2. CASE Len(grown) > HistorySize
    <2>1. grown # <<>>
      BY <1>1
    <2>2. Tail(grown) \in Seq(0 .. Window + 1) /\ Len(Tail(grown)) = Len(h)
      BY <1>1, <2>1, HeadTailProperties
    <2> QED
      BY <1>2, <2>2, LadderAssumption DEF Spent
  <1>3. CASE ~(Len(grown) > HistorySize)
    BY <1>1, <1>3, LadderAssumption DEF Spent
  <1> QED
    BY <1>2, <1>3

LEMMA GateType ==
  ASSUME TypeOK
  PROVE  GateRead \in [holder : {0} \union Pids, age : 0 .. MaxHold]
  BY LadderAssumption DEF TypeOK, GateRead, NoGate

LEMMA FinishType ==
  ASSUME Finish
  PROVE  /\ due' \in BOOLEAN /\ pc' \in Steps
         /\ loc' \in [display : BOOLEAN, vt : BOOLEAN, updating : BOOLEAN,
                      recovered : BOOLEAN, clear : BOOLEAN,
                      elapsed : BOOLEAN]
  BY DEF Finish, Steps, NoRead

LEMMA TypeInit == Init => TypeOK
  <1> SUFFICES ASSUME Init PROVE TypeOK
    OBVIOUS
  <1>1. mon \in Monitors /\ Len(mon.hist) <= HistorySize
    BY FreshType, LadderAssumption DEF Init
  <1>2. loc \in [display : BOOLEAN, vt : BOOLEAN, updating : BOOLEAN,
                recovered : BOOLEAN, clear : BOOLEAN, elapsed : BOOLEAN]
    BY DEF Init, NoRead
  <1>3. gate \in [holder : {0} \union Pids, age : 0 .. MaxHold]
    BY LadderAssumption DEF Init, NoGate
  <1>4. seen \in [cold : 0 .. Grace + 1, answered : BOOLEAN, reboots : Nat]
    BY LadderAssumption DEF Init
  <1>5. due \in BOOLEAN /\ pc \in Steps
    BY DEF Init, Steps
  <1>6. op \in {"none", "monitor", "others"} /\ shown \in BOOLEAN
    BY DEF Init
  <1>7. file \in 0 .. MaxReboots
    BY LadderAssumption DEF Init
  <1>8. kiosk \in {"off", "activating", "silent", "up"} /\ screen \in BOOLEAN
    BY DEF Init
  <1>9. display \in BOOLEAN /\ vt \in BOOLEAN /\ updater \in {0} \union Pids
    BY DEF Init
  <1> QED
    BY <1>1, <1>2, <1>3, <1>4, <1>5, <1>6, <1>7, <1>8, <1>9 DEF TypeOK

LEMMA TypeTick == TypeOK /\ Tick => TypeOK'
  <1> SUFFICES ASSUME TypeOK, Tick PROVE TypeOK'
    OBVIOUS
  <1>1. mon' \in Monitors /\ Len(mon'.hist) <= HistorySize
    <2> DEFINE h == mon.hist
               g == [i \in DOMAIN h |-> Older(h[i], Window + 1)]
    <2>1. h \in Seq(0 .. Window + 1) /\ Len(h) <= HistorySize
      BY DEF TypeOK, Monitors
    <2>2. DOMAIN h = 1 .. Len(h) /\ Len(h) \in Nat
      BY <2>1
    <2>3. \A i \in 1 .. Len(h) : Older(h[i], Window + 1) \in 0 .. Window + 1
      BY <2>1, LadderAssumption DEF Older
    <2>4. g \in [1 .. Len(h) -> 0 .. Window + 1]
      BY <2>2, <2>3
    <2>5. g \in Seq(0 .. Window + 1) /\ Len(g) = Len(h)
      BY <2>2, <2>4, SeqDef, LenProperties
    <2>6. /\ Older(mon.start, Grace + 1) \in 0 .. Grace + 1
          /\ Older(mon.last, Hang + 1) \in 0 .. Hang + 1
          /\ mon.hold # NoHold => Older(mon.hold, HoldTime) \in 0 .. HoldTime
      BY LadderAssumption DEF TypeOK, Monitors, Older
    <2> QED
      BY <2>1, <2>5, <2>6 DEF Tick, TypeOK, Monitors
  <1>2. gate' \in [holder : {0} \union Pids, age : 0 .. MaxHold]
    <2>1. gate.age \in 0 .. MaxHold /\ gate.holder \in {0} \union Pids
      BY DEF TypeOK
    <2>2. Older(gate.age, MaxHold) \in 0 .. MaxHold
      BY <2>1, LadderAssumption DEF Older
    <2>3. gate' = [gate EXCEPT !.age = IF gate.holder = 0 THEN 0
                                       ELSE Older(gate.age, MaxHold)]
      BY DEF Tick
    <2> QED
      BY <2>2, <2>3, LadderAssumption DEF TypeOK
  <1>3. seen' \in [cold : 0 .. Grace + 1, answered : BOOLEAN, reboots : Nat]
    <2>1. seen.cold \in 0 .. Grace + 1
      BY DEF TypeOK
    <2>2. Older(seen.cold, Grace + 1) \in 0 .. Grace + 1
      BY <2>1, LadderAssumption DEF Older
    <2>3. seen' = [seen EXCEPT !.cold = Older(seen.cold, Grace + 1)]
      BY DEF Tick
    <2> QED
      BY <2>2, <2>3, LadderAssumption DEF TypeOK
  <1> QED
    BY <1>1, <1>2, <1>3 DEF Tick, TypeOK, unit, around

LEMMA TypeCheck == TypeOK /\ Check => TypeOK'
  <1> SUFFICES ASSUME TypeOK, Check PROVE TypeOK'
    OBVIOUS
  <1> DEFINE MonOK == mon \in Monitors /\ Len(mon.hist) <= HistorySize
  <1>a. MonOK
    BY DEF TypeOK
  <1>b. /\ 0 \in 0 .. Hang + 1 /\ Hang + 1 \in 0 .. Hang + 1
        /\ 0 \in 0 .. Grace + 1 /\ 0 \in 0 .. HoldTime
        /\ 0 \in 0 .. MaxReboots /\ 0 <= HistorySize
        /\ <<>> \in Seq(0 .. Window + 1) /\ Len(<<>>) = 0
    BY LadderAssumption
  <1>1. CASE CheckOk
    <2>1. MonOK'
      BY <1>1, <1>a, <1>b DEF CheckOk, Monitors
    <2>2. seen' \in [cold : 0 .. Grace + 1, answered : BOOLEAN, reboots : Nat]
      BY <1>1 DEF CheckOk, TypeOK
    <2>3. loc' \in [display : BOOLEAN, vt : BOOLEAN, updating : BOOLEAN,
                   recovered : BOOLEAN, clear : BOOLEAN, elapsed : BOOLEAN]
      BY <1>1, <1>a DEF CheckOk, TypeOK, Recovered, MayForget, Monitors
    <2> QED
      BY <1>1, <2>1, <2>2, <2>3 DEF CheckOk, Steps, TypeOK, unit, around
  <1>2. CASE CheckCut
    BY <1>2, FinishType DEF CheckCut, TypeOK, unit, around
  <1>3. CASE Answered
    <2>1. file' \in 0 .. MaxReboots
      BY <1>3, <1>b DEF Answered, TypeOK
    <2>2. shown' \in BOOLEAN
      BY <1>3 DEF Answered, TypeOK
    <2> QED
      BY <1>3, <2>1, <2>2 DEF Answered, Steps, TypeOK, unit, around
  <1>4. CASE EscalateCDPStuck
    BY <1>4, FinishType, GateType DEF EscalateCDPStuck, Steps, TypeOK, unit,
       around
  <1>5. CASE CheckFail
    <2>1. seen' \in [cold : 0 .. Grace + 1, answered : BOOLEAN, reboots : Nat]
      BY <1>5, <1>b DEF CheckFail, TypeOK
    <2>2. loc' \in [display : BOOLEAN, vt : BOOLEAN, updating : BOOLEAN,
                   recovered : BOOLEAN, clear : BOOLEAN, elapsed : BOOLEAN]
      BY <1>5, GateType DEF CheckFail, TypeOK, Updating, around
    <2> QED
      BY <1>5, GateType, <2>1, <2>2 DEF CheckFail, Steps, TypeOK, unit, around
  <1>6. CASE Suppress
    <2>1. MonOK'
      BY <1>6, <1>a, <1>b DEF Suppress, Monitors
    <2> QED
      BY <1>6, <2>1, FinishType DEF Suppress, TypeOK, unit, around
  <1>7. CASE CheckHangState
    <2>1. MonOK'
      BY <1>7, <1>a, <1>b DEF CheckHangState, Rearmed, Monitors
    <2> QED
      BY <1>7, <2>1, FinishType DEF CheckHangState, Steps, TypeOK, unit, around
  <1>8. CASE Confirm
    BY <1>8, FinishType DEF Confirm, Steps, TypeOK, unit, around
  <1>9. CASE RestartChromium
    <2>1. MonOK'
      BY <1>9, <1>a, <1>b, SpentType DEF RestartChromium, Monitors
    <2> QED
      BY <1>9, <2>1 DEF RestartChromium, Steps, TypeOK, unit, around
  <1>10. CASE ShowBusy
    BY <1>10, FinishType DEF ShowBusy, TypeOK, unit, around
  <1>11. CASE ShowBegin
    BY <1>11 DEF ShowBegin, Steps, TypeOK, unit, around
  <1>12. CASE StopKiosk
    BY <1>12 DEF StopKiosk, Steps, TypeOK, unit, around
  <1>13. CASE ShowScreen
    <2>1. MonOK'
      BY <1>13, <1>a, <1>b DEF ShowScreen, Monitors
    <2> QED
      BY <1>13, <2>1, FinishType DEF ShowScreen, TypeOK, unit, around
  <1>14. CASE ShowRefused
    BY <1>14 DEF ShowRefused, Steps, TypeOK, unit, around
  <1>15. CASE RestartSkipped
    <2>1. MonOK'
      BY <1>15, <1>a, <1>b DEF RestartSkipped, PreConnect, Monitors
    <2> QED
      BY <1>15, <2>1, FinishType DEF RestartSkipped, TypeOK, unit, around
  <1>16. CASE RestartBegin
    BY <1>16 DEF RestartBegin, Steps, TypeOK, unit, around
  <1>17. CASE RestartEnd
    <2>1. MonOK'
      BY <1>17, <1>a, <1>b DEF RestartEnd, PreConnect, Monitors
    <2>2. seen' \in [cold : 0 .. Grace + 1, answered : BOOLEAN, reboots : Nat]
      BY <1>17, <1>b DEF RestartEnd, Restarted, TypeOK
    <2>3. kiosk' \in {"off", "activating", "silent", "up"} /\ screen' \in BOOLEAN
      BY <1>17 DEF RestartEnd, Restarted, TypeOK
    <2> QED
      BY <1>17, <2>1, <2>2, <2>3, FinishType DEF RestartEnd, TypeOK, around
  <1>18. CASE AbandonHold
    <2>1. MonOK'
      BY <1>18, <1>a, <1>b DEF AbandonHold, NoHold, Monitors
    <2> QED
      BY <1>18, <2>1, FinishType DEF AbandonHold, TypeOK, unit, around
  <1>19. CASE DeferHold
    <2>1. MonOK'
      BY <1>19, <1>a, <1>b DEF DeferHold, Monitors
    <2> QED
      BY <1>19, <2>1, FinishType DEF DeferHold, TypeOK, unit, around
  <1>20. CASE KeepHolding
    <2>1. MonOK'
      BY <1>20, <1>a, <1>b DEF KeepHolding, Unlatched, Monitors
    <2> QED
      BY <1>20, <2>1, FinishType DEF KeepHolding, TypeOK, unit, around, Holding
  <1>21. CASE Park
    <2>1. MonOK'
      BY <1>21, <1>a, <1>b DEF Park, Unlatched, Monitors
    <2> QED
      BY <1>21, <2>1, FinishType DEF Park, TypeOK, unit, around, Holding
  <1>22. CASE HoldElapsed
    <2>0. mon.reboots \in 0 .. MaxReboots /\ mon.reboots < MaxReboots
      BY <1>22, <1>a DEF HoldElapsed, Monitors
    <2>1. mon.reboots + 1 \in 0 .. MaxReboots
      BY <2>0, LadderAssumption
    <2>2. MonOK'
      BY <1>22, <1>a, <2>1 DEF HoldElapsed, Unlatched, Monitors
    <2>3. loc' \in [display : BOOLEAN, vt : BOOLEAN, updating : BOOLEAN,
                   recovered : BOOLEAN, clear : BOOLEAN, elapsed : BOOLEAN]
      BY <1>22 DEF HoldElapsed, TypeOK
    <2>4. pc' \in Steps
      BY <1>22 DEF HoldElapsed, Steps
    <2> HIDE DEF MonOK
    <2>5. UNCHANGED <<due, op, shown, gate, file, unit, around, seen>>
      BY <1>22 DEF HoldElapsed
    <2> QED
      BY <2>2, <2>3, <2>4, <2>5 DEF MonOK, TypeOK, unit, around
  <1>23. CASE StoreReboots
    BY <1>23 DEF StoreReboots, Monitors, Steps, TypeOK, unit, around
  <1>24. CASE RebootGate
    BY <1>24, FinishType, GateType DEF RebootGate, Steps, TypeOK, unit, around
  <1>25. CASE Reboot
    <2>1. PICK count \in 0 .. MaxReboots : mon' = Fresh(count)
      BY <1>25, <1>b DEF Reboot, Boot, TypeOK
    <2>2. MonOK'
      BY <2>1, FreshType
    <2>3. seen.reboots + 1 \in Nat /\ seen.reboots \in Nat
      BY DEF TypeOK
    <2>4. seen' \in [cold : 0 .. Grace + 1, answered : BOOLEAN, reboots : Nat]
      BY <1>25, <2>3, <1>b DEF Reboot
    <2>5. loc' \in [display : BOOLEAN, vt : BOOLEAN, updating : BOOLEAN,
                   recovered : BOOLEAN, clear : BOOLEAN, elapsed : BOOLEAN]
      BY <1>25 DEF Reboot, Boot, NoRead
    <2>6. gate' \in [holder : {0} \union Pids, age : 0 .. MaxHold]
      BY <1>25, LadderAssumption DEF Reboot, Boot, NoGate
    <2> QED
      BY <1>25, <2>2, <2>4, <2>5, <2>6 DEF Reboot, Boot, TypeOK, Steps
  <1>26. CASE RebootRefused
    BY <1>26, FinishType DEF RebootRefused, TypeOK, unit, around
  <1> QED
    BY <1>1, <1>2, <1>3, <1>4, <1>5, <1>6, <1>7, <1>8, <1>9,
       <1>10, <1>11, <1>12, <1>13, <1>14, <1>15, <1>16, <1>17, <1>18,
       <1>19, <1>20, <1>21, <1>22, <1>23, <1>24, <1>25, <1>26 DEF Check

LEMMA TypeOthers == TypeOK /\ (Others \/ Machine) => TypeOK'
  <1> SUFFICES ASSUME TypeOK, Others \/ Machine PROVE TypeOK'
    OBVIOUS
  <1> DEFINE MonOK == mon \in Monitors /\ Len(mon.hist) <= HistorySize
  <1>a. MonOK
    BY DEF TypeOK
  <1>b. 0 \in 0 .. Grace + 1 /\ 0 \in 0 .. MaxReboots /\ 0 \in 0 .. MaxHold
    BY LadderAssumption
  <1>1. ASSUME NEW b \in BOOLEAN, SetCDPStuck(b) PROVE TypeOK'
    <2>1. MonOK'
      BY <1>1, <1>a DEF SetCDPStuck, Monitors
    <2> QED
      BY <1>1, <2>1 DEF SetCDPStuck, TypeOK, unit, around
  <1>2. CASE OthersRestartBegin
    BY <1>2 DEF OthersRestartBegin, TypeOK, unit, around
  <1>3. CASE OthersRestartEnd
    <2>1. seen' \in [cold : 0 .. Grace + 1, answered : BOOLEAN, reboots : Nat]
      BY <1>3, <1>b DEF OthersRestartEnd, Restarted, TypeOK
    <2>2. kiosk' \in {"off", "activating", "silent", "up"} /\ screen' \in BOOLEAN
      BY <1>3 DEF OthersRestartEnd, Restarted, TypeOK
    <2> QED
      BY <1>3, <2>1, <2>2 DEF OthersRestartEnd, TypeOK, around
  <1>4. CASE WatchdogRestart
    <2>1. PICK count \in 0 .. MaxReboots : mon' = Fresh(count)
      BY <1>4, <1>b DEF WatchdogRestart, TypeOK
    <2>2. MonOK'
      BY <2>1, FreshType
    <2>3. loc' \in [display : BOOLEAN, vt : BOOLEAN, updating : BOOLEAN,
                   recovered : BOOLEAN, clear : BOOLEAN, elapsed : BOOLEAN]
      BY <1>4 DEF WatchdogRestart, NoRead
    <2>4. gate' \in [holder : {0} \union Pids, age : 0 .. MaxHold]
      BY <1>4, <1>b DEF WatchdogRestart, NoGate
    <2> QED
      BY <1>4, <2>2, <2>3, <2>4 DEF WatchdogRestart, TypeOK, Steps, unit, around
  <1>5. CASE PowerCut
    <2>1. PICK count \in 0 .. MaxReboots : mon' = Fresh(count)
      BY <1>5, <1>b DEF PowerCut, Boot, TypeOK
    <2>2. MonOK'
      BY <2>1, FreshType
    <2>3. loc' \in [display : BOOLEAN, vt : BOOLEAN, updating : BOOLEAN,
                   recovered : BOOLEAN, clear : BOOLEAN, elapsed : BOOLEAN]
      BY <1>5 DEF PowerCut, Boot, NoRead
    <2>4. gate' \in [holder : {0} \union Pids, age : 0 .. MaxHold]
      BY <1>5, <1>b DEF PowerCut, Boot, NoGate
    <2>5. seen' \in [cold : 0 .. Grace + 1, answered : BOOLEAN, reboots : Nat]
      BY <1>5, <1>b DEF PowerCut, TypeOK
    <2> QED
      BY <1>5, <2>2, <2>3, <2>4, <2>5 DEF PowerCut, Boot, TypeOK, Steps
  <1>6. CASE Machine
    <2>1. /\ kiosk' \in {"off", "activating", "silent", "up"}
          /\ screen' \in BOOLEAN /\ display' \in BOOLEAN /\ vt' \in BOOLEAN
          /\ updater' \in {0} \union Pids
      <3> USE DEF TypeOK, unit, around
      <3>1. CASE KioskAnswers \/ KioskHangs \/ KioskExits \/ KioskReturns
        BY <3>1 DEF KioskAnswers, KioskHangs, KioskExits, KioskReturns
      <3>2. CASE OperatorStarts \/ DisplayMoves \/ ConsoleMoves
        BY <3>2 DEF OperatorStarts, DisplayMoves, ConsoleMoves
      <3>3. CASE UpdateStarts \/ UpdateEnds
        BY <3>3 DEF UpdateStarts, UpdateEnds
      <3> QED
        BY <1>6, <3>1, <3>2, <3>3 DEF Machine
    <2> QED
      BY <1>6, <2>1 DEF Machine, TypeOK
  <1> QED
    BY <1>1, <1>2, <1>3, <1>4, <1>5, <1>6 DEF Others

(* Every variable keeps its type under every step, failure, restart and    *)
(* power cut, and the two histories keep their caps (TypeOK).              *)
THEOREM LadderTypes == Spec => []TypeOK
  <1>1. TypeOK /\ [Next]_vars => TypeOK'
    <2> SUFFICES ASSUME TypeOK, [Next]_vars PROVE TypeOK'
      OBVIOUS
    <2>1. CASE UNCHANGED vars
      BY <2>1 DEF vars, unit, around, TypeOK
    <2> QED
      BY <2>1, TypeTick, TypeCheck, TypeOthers DEF Next
  <1> QED
    BY TypeInit, <1>1, PTL DEF Spec

-----------------------------------------------------------------------------
(* What HoldShowsScreen rests on: while a hold is armed no check is between*)
(* its decision and its end, the monitor and the other handlers never own  *)
(* a kiosk command together, and the others own none while restarts are    *)
(* refused.                                                                *)
HoldInv ==
  /\ mon.hold # NoHold
       => screen /\ kiosk = "off" /\ shown /\ pc \in {"idle", "failed"}
  /\ op = "others" => ~shown
  /\ pc \in {"stop", "screen", "restarting"} => op = "monitor"
  /\ pc = "screen" => kiosk = "off"

LEMMA HoldCheck ==
  ASSUME TypeOK, HoldInv, Check
  PROVE  HoldInv'
  <1>a. HoldInv /\ mon \in Monitors /\ op \in {"none", "monitor", "others"}
    BY DEF TypeOK
  <1>1. CASE CheckOk
    BY <1>1, <1>a DEF CheckOk, HoldInv, Monitors, NoHold, unit, around
  <1>2. CASE CheckCut
    BY <1>2, <1>a DEF CheckCut, Finish, HoldInv, Monitors, NoHold, unit, around
  <1>3. CASE Answered
    BY <1>3, <1>a DEF Answered, HoldInv, Monitors, NoHold, unit, around
  <1>4. CASE EscalateCDPStuck
    BY <1>4, <1>a DEF EscalateCDPStuck, Finish, HoldInv, Monitors, NoHold,
       unit, around
  <1>5. CASE CheckFail
    BY <1>5, <1>a DEF CheckFail, HoldInv, Monitors, NoHold, unit, around
  <1>6. CASE Suppress
    BY <1>6, <1>a DEF Suppress, Finish, HoldInv, Monitors, NoHold, unit, around
  <1>7. CASE CheckHangState
    BY <1>7, <1>a DEF CheckHangState, Rearmed, Finish, HoldInv, Monitors,
       NoHold, unit, around
  <1>8. CASE Confirm
    BY <1>8, <1>a DEF Confirm, Finish, HoldInv, Monitors, NoHold, unit, around
  <1>9. CASE RestartChromium
    BY <1>9, <1>a DEF RestartChromium, HoldInv, Monitors, NoHold, unit, around
  <1>10. CASE ShowBusy
    BY <1>10, <1>a DEF ShowBusy, Finish, HoldInv, Monitors, NoHold, unit, around
  <1>11. CASE ShowBegin
    BY <1>11, <1>a DEF ShowBegin, HoldInv, Monitors, NoHold, unit, around
  <1>12. CASE StopKiosk
    BY <1>12, <1>a DEF StopKiosk, HoldInv, Monitors, NoHold, unit, around
  <1>13. CASE ShowScreen
    BY <1>13, <1>a DEF ShowScreen, Finish, HoldInv, Monitors, NoHold, unit,
       around
  <1>14. CASE ShowRefused
    BY <1>14, <1>a DEF ShowRefused, HoldInv, Monitors, NoHold, unit, around
  <1>15. CASE RestartSkipped
    BY <1>15, <1>a DEF RestartSkipped, PreConnect, Finish, HoldInv, Monitors,
       NoHold, unit, around
  <1>16. CASE RestartBegin
    BY <1>16, <1>a DEF RestartBegin, KioskRefused, HoldInv, Monitors, NoHold,
       unit, around
  <1>17. CASE RestartEnd
    BY <1>17, <1>a DEF RestartEnd, Restarted, PreConnect, Finish, HoldInv,
       Monitors, NoHold, unit, around
  <1>18. CASE AbandonHold
    BY <1>18, <1>a DEF AbandonHold, Finish, HoldInv, Monitors, NoHold, unit,
       around
  <1>19. CASE DeferHold
    BY <1>19, <1>a DEF DeferHold, Finish, HoldInv, Monitors, NoHold, unit,
       around
  <1>20. CASE KeepHolding
    BY <1>20, <1>a DEF KeepHolding, Holding, Unlatched, Finish, HoldInv,
       Monitors, NoHold, unit, around
  <1>21. CASE Park
    BY <1>21, <1>a DEF Park, Holding, Unlatched, Finish, HoldInv, Monitors,
       NoHold, unit, around
  <1>22. CASE HoldElapsed
    BY <1>22, <1>a DEF HoldElapsed, Holding, Unlatched, HoldInv, Monitors,
       NoHold, unit, around
  <1>23. CASE StoreReboots
    BY <1>23, <1>a DEF StoreReboots, HoldInv, Monitors, NoHold, unit, around
  <1>24. CASE RebootGate
    BY <1>24, <1>a DEF RebootGate, Finish, HoldInv, Monitors, NoHold, unit,
       around
  <1>25. CASE Reboot
    BY <1>25, <1>a DEF Reboot, Boot, Fresh, NoRead, HoldInv, Monitors, NoHold,
       unit, around
  <1>26. CASE RebootRefused
    BY <1>26, <1>a DEF RebootRefused, Finish, HoldInv, Monitors, NoHold, unit,
       around
  <1> QED
    BY <1>1, <1>2, <1>3, <1>4, <1>5, <1>6, <1>7, <1>8, <1>9,
       <1>10, <1>11, <1>12, <1>13, <1>14, <1>15, <1>16, <1>17, <1>18,
       <1>19, <1>20, <1>21, <1>22, <1>23, <1>24, <1>25, <1>26 DEF Check

LEMMA HoldOthers ==
  ASSUME TypeOK, HoldInv, Tick \/ Others \/ Machine, "operator" \notin Events
  PROVE  HoldInv'
  <1>a. HoldInv /\ mon \in Monitors /\ op \in {"none", "monitor", "others"}
    BY DEF TypeOK
  <1> USE DEF HoldInv, unit, around
  <1>1. CASE Tick
    BY <1>1, <1>a DEF Tick, Monitors
  <1>2. ASSUME NEW b \in BOOLEAN, SetCDPStuck(b) PROVE HoldInv'
    BY <1>2, <1>a DEF SetCDPStuck, Monitors
  <1>3. CASE OthersRestartBegin
    BY <1>3, <1>a DEF OthersRestartBegin, KioskRefused
  <1>4. CASE OthersRestartEnd
    BY <1>4, <1>a DEF OthersRestartEnd, Restarted
  <1>5. CASE WatchdogRestart
    BY <1>5 DEF WatchdogRestart, Fresh
  <1>6. CASE PowerCut
    BY <1>6 DEF PowerCut, Boot, Fresh
  <1>7. CASE Machine
    BY <1>7, <1>a DEF Machine, KioskAnswers, KioskHangs, KioskExits,
       KioskReturns, DisplayMoves, ConsoleMoves, UpdateStarts, UpdateEnds
  <1> QED
    BY <1>1, <1>2, <1>3, <1>4, <1>5, <1>6, <1>7 DEF Others

(* A hold keeps the error screen up and the kiosk down, and restartKiosk   *)
(* refuses, for all budgets and every interleaving of the handlers, if no  *)
(* operator starts the kiosk himself (commands.go 95-186).                 *)
THEOREM HoldKeepsScreen ==
  ASSUME "operator" \notin Events
  PROVE  Spec => []HoldShowsScreen
  <1>1. Init => HoldInv
    BY DEF Init, HoldInv, Fresh
  <1>2. TypeOK /\ HoldInv /\ [Next]_vars => HoldInv'
    <2> SUFFICES ASSUME TypeOK, HoldInv, [Next]_vars PROVE HoldInv'
      OBVIOUS
    <2>1. CASE UNCHANGED vars
      BY <2>1 DEF vars, unit, around, HoldInv
    <2> QED
      BY <2>1, HoldCheck, HoldOthers DEF Next
  <1>3. HoldInv => HoldShowsScreen
    BY DEF HoldInv, HoldShowsScreen
  <1> QED
    BY LadderTypes, <1>1, <1>2, <1>3, PTL DEF Spec
-----------------------------------------------------------------------------
(* What GraceGiven rests on.  A cold start that had neither an answer nor  *)
(* its grace is one that the monitor still times from before its beginning,*)
(* or a latch or a hold keeps the monitor from timing it at all; and a hold*)
(* is not older than the cold start under it, so the end of a hold finds   *)
(* the grace over.                                                         *)
SeenClosed == pc = "failed" /\ ~GatesOpen(loc)
Latched == mon.headless \/ mon.console \/ mon.updating
HoldIsYounger ==
  mon.hold # NoHold =>
    /\ pc \in {"idle", "failed"}
    /\ SeenClosed \/ mon.hold <= seen.cold \/ seen.cold > Grace
TimedFromBefore ==
  \/ SeenClosed \/ Latched \/ mon.hold # NoHold
  \/ seen.answered \/ seen.cold > Grace
  \/ ~mon.ever /\ mon.start <= seen.cold
GraceInv == HoldIsYounger /\ TimedFromBefore

LEMMA GraceCheck ==
  ASSUME TypeOK, GraceInv, Check, Grace < HoldTime
  PROVE  GraceInv'
  <1>a. /\ GraceInv /\ mon \in Monitors
        /\ mon.hold \in {NoHold} \union 0 .. HoldTime
        /\ mon.start \in 0 .. Grace + 1 /\ seen.cold \in 0 .. Grace + 1
        /\ seen \in [cold : 0 .. Grace + 1, answered : BOOLEAN, reboots : Nat]
        /\ loc \in [display : BOOLEAN, vt : BOOLEAN, updating : BOOLEAN,
                    recovered : BOOLEAN, clear : BOOLEAN, elapsed : BOOLEAN]
        /\ Grace \in Nat /\ HoldTime \in Nat
    BY LadderAssumption DEF TypeOK, Monitors
  <1> USE DEF GraceInv, HoldIsYounger, TimedFromBefore, SeenClosed, Latched, NoHold
  <1>1. CASE CheckOk
    BY <1>1, <1>a DEF CheckOk, Monitors
  <1>2. CASE CheckCut
    BY <1>2, <1>a DEF CheckCut, Monitors, Finish
  <1>3. CASE Answered
    BY <1>3, <1>a DEF Answered, Monitors
  <1>4. CASE EscalateCDPStuck
    BY <1>4, <1>a DEF EscalateCDPStuck, Monitors, Finish
  <1>5. CASE CheckFail
    BY <1>5, <1>a DEF CheckFail, Monitors, GatesOpen
  <1>6. CASE Suppress
    BY <1>6, <1>a DEF Suppress, Monitors, Finish, GatesOpen
  <1>7. CASE CheckHangState
    BY <1>7, <1>a DEF CheckHangState, Monitors, Rearmed, Finish, GatesOpen
  <1>8. CASE Confirm
    BY <1>8, <1>a DEF Confirm, Monitors, Finish
  <1>9. CASE RestartChromium
    BY <1>9, <1>a DEF RestartChromium, Monitors
  <1>10. CASE ShowBusy
    BY <1>10, <1>a DEF ShowBusy, Monitors, Finish
  <1>11. CASE ShowBegin
    BY <1>11, <1>a DEF ShowBegin, Monitors
  <1>12. CASE StopKiosk
    BY <1>12, <1>a DEF StopKiosk, Monitors
  <1>13. CASE ShowScreen
    BY <1>13, <1>a DEF ShowScreen, Monitors, Finish
  <1>14. CASE ShowRefused
    BY <1>14, <1>a DEF ShowRefused, Monitors
  <1>15. CASE RestartSkipped
    BY <1>15, <1>a DEF RestartSkipped, Monitors, PreConnect, Finish
  <1>16. CASE RestartBegin
    BY <1>16, <1>a DEF RestartBegin, Monitors
  <1>17. CASE RestartEnd
    BY <1>17, <1>a DEF RestartEnd, Monitors, PreConnect, Finish
  <1>18. CASE AbandonHold
    BY <1>18, <1>a DEF AbandonHold, Monitors, Finish, GatesOpen
  <1>19. CASE DeferHold
    BY <1>19, <1>a DEF DeferHold, Monitors, Finish, GatesOpen
  <1>20. CASE KeepHolding
    BY <1>20, <1>a DEF KeepHolding, Monitors, Holding, Unlatched, Finish
  <1>21. CASE Park
    BY <1>21, <1>a DEF Park, Monitors, Holding, Unlatched, Finish
  <1>22. CASE HoldElapsed
    BY <1>22, <1>a DEF HoldElapsed, Monitors, Holding, Unlatched
  <1>23. CASE StoreReboots
    BY <1>23, <1>a DEF StoreReboots, Monitors
  <1>24. CASE RebootGate
    BY <1>24, <1>a DEF RebootGate, Monitors, Finish
  <1>25. CASE Reboot
    BY <1>25, <1>a DEF Reboot, Monitors, Boot, Fresh
  <1>26. CASE RebootRefused
    BY <1>26, <1>a DEF RebootRefused, Monitors, Finish
  <1> QED
    BY <1>1, <1>2, <1>3, <1>4, <1>5, <1>6, <1>7, <1>8, <1>9,
       <1>10, <1>11, <1>12, <1>13, <1>14, <1>15, <1>16, <1>17, <1>18,
       <1>19, <1>20, <1>21, <1>22, <1>23, <1>24, <1>25, <1>26 DEF Check

LEMMA GraceOthers ==
  ASSUME TypeOK, GraceInv, Tick \/ Others \/ Machine
  PROVE  GraceInv'
  <1>a. /\ GraceInv /\ mon \in Monitors
        /\ mon.hold \in {NoHold} \union 0 .. HoldTime
        /\ mon.start \in 0 .. Grace + 1 /\ seen.cold \in 0 .. Grace + 1
        /\ seen \in [cold : 0 .. Grace + 1, answered : BOOLEAN, reboots : Nat]
        /\ Grace \in Nat /\ HoldTime \in Nat
    BY LadderAssumption DEF TypeOK, Monitors
  <1> USE DEF GraceInv, HoldIsYounger, TimedFromBefore, SeenClosed, Latched, NoHold
  <1>1. CASE Tick
    BY <1>1, <1>a DEF Tick, Older, Monitors
  <1>2. ASSUME NEW b \in BOOLEAN, SetCDPStuck(b) PROVE GraceInv'
    BY <1>2, <1>a DEF SetCDPStuck, Monitors
  <1>3. CASE OthersRestartBegin
    BY <1>3, <1>a DEF OthersRestartBegin
  <1>4. CASE OthersRestartEnd
    BY <1>4, <1>a DEF OthersRestartEnd
  <1>5. CASE WatchdogRestart
    BY <1>5, <1>a DEF WatchdogRestart, Fresh
  <1>6. CASE PowerCut
    BY <1>6, <1>a DEF PowerCut, Boot, Fresh
  <1>7. CASE Machine
    BY <1>7, <1>a DEF Machine
  <1> QED
    BY <1>1, <1>2, <1>3, <1>4, <1>5, <1>6, <1>7 DEF Others

(* A decision needs the gates open and no hold; the latches it may find    *)
(* give the cold start a grace of its own.                                 *)
LEMMA GraceDecides ==
  ASSUME TypeOK, GraceInv, [Next]_vars
  PROVE  ~DecidesInGrace
  <1> SUFFICES ASSUME DecidesInGrace PROVE FALSE
    OBVIOUS
  <1>1. CheckHangState /\ ShouldRestart(Rearmed)
    <2>1. Next
      BY DEF DecidesInGrace, vars
    <2>2. ~Tick /\ ~Others /\ ~Machine
      BY DEF DecidesInGrace, Tick, Others, Machine, SetCDPStuck, OthersRestartBegin,
         OthersRestartEnd, WatchdogRestart, PowerCut, Boot
    <2>3. Check
      BY <2>1, <2>2 DEF Next
    <2>4. CheckHangState
      BY <2>3 DEF DecidesInGrace, Check, CheckOk, CheckCut, Answered, EscalateCDPStuck,
         CheckFail, Suppress, Confirm, RestartChromium, ShowBusy, ShowBegin, StopKiosk,
         ShowScreen, ShowRefused, RestartSkipped, RestartBegin, RestartEnd, AbandonHold,
         DeferHold, KeepHolding, Park, HoldElapsed, StoreReboots, RebootGate, Reboot,
         Boot, RebootRefused, Finish
    <2> QED
      BY <2>4 DEF CheckHangState, DecidesInGrace, Finish
  <1>2. /\ mon \in Monitors /\ mon.start \in 0 .. Grace + 1
        /\ seen.cold \in 0 .. Grace + 1 /\ Grace \in Nat
    BY LadderAssumption DEF TypeOK, Monitors
  <1>3. ~Latched
    BY <1>1, <1>2 DEF Latched, Rearmed, ShouldRestart, Monitors
  <1>4. ~mon.ever /\ mon.start <= seen.cold
    BY <1>1, <1>2, <1>3 DEF GraceInv, TimedFromBefore, SeenClosed, CheckHangState,
       DecidesInGrace
  <1>5. mon.start > Grace
    BY <1>1, <1>3, <1>4 DEF Latched, Rearmed, ShouldRestart
  <1> QED
    BY <1>2, <1>4, <1>5 DEF DecidesInGrace

(* No cold start is cut short, whatever latches, holds, restarts and       *)
(* reboots come before it, if a hold is longer than the grace, as it is    *)
(* (15 minutes and 90 s, chromium.go 41, 53); without that an abandoned    *)
(* reboot at the end of a short hold leaves a stale budget.                *)
THEOREM ColdStartsHaveGrace ==
  ASSUME Grace < HoldTime
  PROVE  Spec => GraceGiven
  <1>1. Init => GraceInv
    BY LadderAssumption DEF Init, GraceInv, HoldIsYounger, TimedFromBefore, Fresh
  <1>2. TypeOK /\ GraceInv /\ [Next]_vars => GraceInv'
    <2> SUFFICES ASSUME TypeOK, GraceInv, [Next]_vars PROVE GraceInv'
      OBVIOUS
    <2>1. CASE UNCHANGED vars
      BY <2>1 DEF vars, unit, around, GraceInv, HoldIsYounger, TimedFromBefore,
         SeenClosed, Latched, GatesOpen
    <2> QED
      BY <2>1, GraceCheck, GraceOthers DEF Next
  <1>3. TypeOK /\ GraceInv /\ [Next]_vars => [~DecidesInGrace]_vars
    BY GraceDecides
  <1> QED
    BY LadderTypes, <1>1, <1>2, <1>3, PTL DEF Spec, GraceGiven

-----------------------------------------------------------------------------
(* What RebootsCapped rests on: the count in memory and the one on disk    *)
(* both cover the reboots there were, a reboot about to happen included,   *)
(* and a file about to be removed covers none.                             *)
CapInv ==
  /\ seen.reboots <= mon.reboots /\ seen.reboots <= file
  /\ pc = "answered" /\ loc.clear => seen.reboots = 0
  /\ pc = "store" => loc.elapsed /\ seen.reboots < mon.reboots
  /\ pc \in {"gate", "reboot"} /\ loc.elapsed => seen.reboots < file
  /\ pc \notin {"store", "gate", "reboot"} => ~loc.elapsed

LEMMA CapCheck ==
  ASSUME TypeOK, CapInv, Check, "disk" \notin Events
  PROVE  CapInv'
  <1>a. /\ CapInv /\ mon \in Monitors
        /\ mon.reboots \in Nat /\ file \in Nat /\ seen.reboots \in Nat
        /\ seen \in [cold : 0 .. Grace + 1, answered : BOOLEAN, reboots : Nat]
        /\ loc \in [display : BOOLEAN, vt : BOOLEAN, updating : BOOLEAN,
                    recovered : BOOLEAN, clear : BOOLEAN, elapsed : BOOLEAN]
    BY LadderAssumption DEF TypeOK, Monitors
  <1>1. CASE CheckOk
    <2>1. /\ pc' = "answered" /\ file' = file
          /\ mon'.reboots = IF MayForget THEN 0 ELSE mon.reboots
          /\ seen'.reboots = IF Recovered \/ mon.healthy THEN 0
                             ELSE seen.reboots
          /\ loc'.clear = (MayForget /\ mon.reboots > 0)
          /\ loc'.elapsed = loc.elapsed
      BY <1>1, <1>a DEF CheckOk, Monitors
    <2>2. MayForget => seen'.reboots = 0
      BY <2>1 DEF MayForget
    <2>3. seen'.reboots <= seen.reboots /\ seen'.reboots \in Nat
      BY <2>1, <1>a
    <2>4. ~loc.elapsed
      BY <1>1, <1>a DEF CheckOk, CapInv
    <2> QED
      BY <2>1, <2>2, <2>3, <2>4, <1>a DEF CapInv
  <1>2. CASE CheckCut
    BY <1>2, <1>a DEF CheckCut, Finish, NoRead, CapInv, Monitors, unit, around
  <1>3. CASE Answered
    BY <1>3, <1>a DEF Answered, CapInv, Monitors, unit, around
  <1>4. CASE EscalateCDPStuck
    BY <1>4, <1>a DEF EscalateCDPStuck, Finish, NoRead, CapInv, Monitors, unit,
       around
  <1>5. CASE CheckFail
    BY <1>5, <1>a DEF CheckFail, CapInv, Monitors, unit, around
  <1>6. CASE Suppress
    BY <1>6, <1>a DEF Suppress, Finish, NoRead, CapInv, Monitors, unit, around
  <1>7. CASE CheckHangState
    BY <1>7, <1>a DEF CheckHangState, Rearmed, Finish, NoRead, CapInv,
       Monitors, unit, around
  <1>8. CASE Confirm
    BY <1>8, <1>a DEF Confirm, Finish, NoRead, CapInv, Monitors, unit, around
  <1>9. CASE RestartChromium
    BY <1>9, <1>a DEF RestartChromium, CapInv, Monitors, unit, around
  <1>10. CASE ShowBusy
    BY <1>10, <1>a DEF ShowBusy, Finish, NoRead, CapInv, Monitors, unit, around
  <1>11. CASE ShowBegin
    BY <1>11, <1>a DEF ShowBegin, CapInv, Monitors, unit, around
  <1>12. CASE StopKiosk
    BY <1>12, <1>a DEF StopKiosk, CapInv, Monitors, unit, around
  <1>13. CASE ShowScreen
    BY <1>13, <1>a DEF ShowScreen, Finish, NoRead, CapInv, Monitors, unit,
       around
  <1>14. CASE ShowRefused
    BY <1>14, <1>a DEF ShowRefused, CapInv, Monitors, unit, around
  <1>15. CASE RestartSkipped
    BY <1>15, <1>a DEF RestartSkipped, PreConnect, Finish, NoRead, CapInv,
       Monitors, unit, around
  <1>16. CASE RestartBegin
    BY <1>16, <1>a DEF RestartBegin, KioskRefused, CapInv, Monitors, unit,
       around
  <1>17. CASE RestartEnd
    BY <1>17, <1>a DEF RestartEnd, Restarted, PreConnect, Finish, NoRead,
       CapInv, Monitors, unit, around
  <1>18. CASE AbandonHold
    BY <1>18, <1>a DEF AbandonHold, Finish, NoRead, CapInv, Monitors, unit,
       around
  <1>19. CASE DeferHold
    BY <1>19, <1>a DEF DeferHold, Finish, NoRead, CapInv, Monitors, unit, around
  <1>20. CASE KeepHolding
    BY <1>20, <1>a DEF KeepHolding, Holding, Unlatched, Finish, NoRead, CapInv,
       Monitors, unit, around
  <1>21. CASE Park
    BY <1>21, <1>a DEF Park, Holding, Unlatched, Finish, NoRead, CapInv,
       Monitors, unit, around
  <1>22. CASE HoldElapsed
    BY <1>22, <1>a DEF HoldElapsed, Holding, Unlatched, CapInv, Monitors, unit,
       around
  <1>23. CASE StoreReboots
    BY <1>23, <1>a DEF StoreReboots, CapInv, Monitors, unit, around
  <1>24. CASE RebootGate
    BY <1>24, <1>a DEF RebootGate, Finish, NoRead, CapInv, Monitors, unit,
       around
  <1>25. CASE Reboot
    BY <1>25, <1>a DEF Reboot, Boot, Fresh, NoRead, CapInv, Monitors, unit,
       around
  <1>26. CASE RebootRefused
    BY <1>26, <1>a DEF RebootRefused, Finish, NoRead, CapInv, Monitors, unit,
       around
  <1> QED
    BY <1>1, <1>2, <1>3, <1>4, <1>5, <1>6, <1>7, <1>8, <1>9,
       <1>10, <1>11, <1>12, <1>13, <1>14, <1>15, <1>16, <1>17, <1>18,
       <1>19, <1>20, <1>21, <1>22, <1>23, <1>24, <1>25, <1>26 DEF Check

LEMMA CapOthers ==
  ASSUME TypeOK, CapInv, Tick \/ Others \/ Machine, "disk" \notin Events
  PROVE  CapInv'
  <1>a. /\ CapInv /\ mon \in Monitors
        /\ mon.reboots \in Nat /\ file \in Nat /\ seen.reboots \in Nat
        /\ seen \in [cold : 0 .. Grace + 1, answered : BOOLEAN, reboots : Nat]
    BY LadderAssumption DEF TypeOK, Monitors
  <1> USE DEF CapInv, unit, around
  <1>1. CASE Tick
    BY <1>1, <1>a DEF Tick, Monitors
  <1>2. ASSUME NEW b \in BOOLEAN, SetCDPStuck(b) PROVE CapInv'
    BY <1>2, <1>a DEF SetCDPStuck, Monitors
  <1>3. CASE OthersRestartBegin
    BY <1>3, <1>a DEF OthersRestartBegin
  <1>4. CASE OthersRestartEnd
    BY <1>4, <1>a DEF OthersRestartEnd, Restarted
  <1>5. CASE WatchdogRestart
    BY <1>5, <1>a DEF WatchdogRestart, Fresh, NoRead
  <1>6. CASE PowerCut
    BY <1>6, <1>a DEF PowerCut, Boot, Fresh, NoRead
  <1>7. CASE Machine
    BY <1>7, <1>a DEF Machine
  <1> QED
    BY <1>1, <1>2, <1>3, <1>4, <1>5, <1>6, <1>7 DEF Others

(* However many boots and watchdog restarts there are, and whatever the    *)
(* budgets, at most MaxReboots holds end in a reboot between two words of  *)
(* health, if the count reaches the disk (chromium.go 54-66).              *)
THEOREM CapHolds ==
  ASSUME "disk" \notin Events
  PROVE  Spec => []RebootsCapped
  <1>1. Init => CapInv
    BY DEF Init, CapInv, Fresh, NoRead
  <1>2. TypeOK /\ CapInv /\ [Next]_vars => CapInv'
    <2> SUFFICES ASSUME TypeOK, CapInv, [Next]_vars PROVE CapInv'
      OBVIOUS
    <2>1. CASE UNCHANGED vars
      BY <2>1 DEF vars, unit, around, CapInv
    <2> QED
      BY <2>1, CapCheck, CapOthers DEF Next
  <1>3. TypeOK /\ CapInv => RebootsCapped
    BY LadderAssumption DEF TypeOK, Monitors, CapInv, RebootsCapped
  <1> QED
    BY LadderTypes, <1>1, <1>2, <1>3, PTL DEF Spec

-----------------------------------------------------------------------------
(***************************************************************************)
(* The reboot cap against the truth: for all budgets, thresholds and bus   *)
(* depths, and however the two daemons and the machine interleave, at most *)
(* MaxReboots fallback holds end in a reboot between two moments at which  *)
(* the page target or the kiosk was seen to work (chromium.go 404-472).    *)
(*                                                                         *)
(* The ladder forgives its count on a word from the other daemon, and that *)
(* word takes time: WatchInv says that such a word, on the bus or heard,   *)
(* is younger than every reboot that counts, because a reboot empties the  *)
(* bus and both processes with it.                                         *)
(***************************************************************************)

(* The bus: how many signals of each word.                                 *)
BusType == wire \in [Health!Words -> Nat]

(* The count in memory and the one on disk cover the unproven reboots; a   *)
(* word of health, on its way or heard, means that there are none.         *)
WatchInv ==
  /\ proven \in Nat
  /\ wire["clear"] > 0 => proven = 0
  /\ mon.report /\ mon.healthy => proven = 0
  /\ proven <= mon.reboots /\ proven <= file
  /\ pc = "answered" /\ loc.clear => proven = 0
  /\ pc = "store" => loc.elapsed /\ proven < mon.reboots
  /\ pc \in {"gate", "reboot"} /\ loc.elapsed => proven < file
  /\ pc \notin {"store", "gate", "reboot"} => ~loc.elapsed

Watched == TypeOK /\ BusType /\ WatchInv

-----------------------------------------------------------------------------
(* Types.                                                                  *)

LEMMA StuckType ==
  ASSUME TypeOK, NEW b \in BOOLEAN, SetCDPStuck(b) PROVE TypeOK'
  <1>1. mon' \in Monitors /\ Len(mon'.hist) <= HistorySize
    BY DEF SetCDPStuck, TypeOK, Monitors
  <1> QED
    BY <1>1 DEF SetCDPStuck, TypeOK, unit, around

LEMMA StillType == ASSUME TypeOK, UNCHANGED vars PROVE TypeOK'
  BY DEF vars, unit, around, TypeOK

LEMMA WatchTypes == ASSUME TypeOK, WatchNext PROVE TypeOK'
  <1>1. CASE WatchTick
    BY <1>1, TypeTick DEF WatchTick
  <1>2. CASE LadderStep
    BY <1>2, TypeCheck DEF LadderStep
  <1>3. CASE MachineStep
    BY <1>3, TypeOthers DEF MachineStep
  <1>4. CASE PageMoves \/ Poll \/ ControldRestart
    BY <1>4, StillType DEF PageMoves, Poll, ControldRestart
  <1>5. CASE Deliver
    <2>1. PICK w \in Health!Words : SetCDPStuck(w = "stuck")
      BY <1>5 DEF Deliver
    <2> QED
      BY <2>1, StuckType
  <1>6. CASE ListenerRestart
    BY <1>6, TypeOthers DEF ListenerRestart, Others
  <1>7. CASE MachineBoots
    BY <1>7, TypeCheck, TypeOthers DEF MachineBoots, Check, Others
  <1> QED
    BY <1>1, <1>2, <1>3, <1>4, <1>5, <1>6, <1>7 DEF WatchNext

(* Only a poll that reached the page puts a word of health on the bus.     *)
LEMMA BusPoll ==
  ASSUME BusType, Poll
  PROVE  BusType' /\ (wire'["clear"] = wire["clear"] \/ page)
  <1>1. PICK sent \in BOOLEAN :
          \/ page /\ Health!Emit("clear", sent)
          \/ ~page /\ Health!Emit("stuck", sent)
    BY DEF Poll, Health!Poll, Health!TickHealthy, Health!TickUnhealthy
  <1>2. \A w \in Health!Words : wire[w] \in Nat
    BY DEF BusType
  <1>3. \/ wire' = wire
        \/ page /\ wire' = [wire EXCEPT !["clear"] = @ + 1]
        \/ ~page /\ wire' = [wire EXCEPT !["stuck"] = @ + 1]
    BY <1>1 DEF Health!Emit
  <1> QED
    BY <1>2, <1>3 DEF BusType, Health!Words

LEMMA BusDeliver ==
  ASSUME BusType, NEW w \in Health!Words, Health!Deliver(w)
  PROVE  BusType' /\ wire[w] > 0 /\ wire'["clear"] <= wire["clear"]
  <1>1. wire[w] \in Nat /\ wire[w] > 0 /\ wire' = [wire EXCEPT ![w] = @ - 1]
    BY DEF BusType, Health!Deliver
  <1>2. wire["clear"] \in Nat
    BY DEF BusType, Health!Words
  <1> QED
    BY <1>1, <1>2 DEF BusType, Health!Words

LEMMA SilentBus == Health!Silence \in [Health!Words -> Nat] /\ Health!Silence["clear"] = 0
  BY DEF Health!Silence, Health!Words

LEMMA BusTypes == ASSUME BusType, WatchNext PROVE BusType'
  <1>1. CASE WatchTick \/ LadderStep \/ MachineStep \/ PageMoves \/ ControldRestart
    BY <1>1 DEF WatchTick, LadderStep, MachineStep, PageMoves, ControldRestart,
       Health!Interval, Health!PageMoves, Health!ControldRestart, bus, BusType
  <1>2. CASE ListenerRestart \/ MachineBoots
    BY <1>2, SilentBus DEF ListenerRestart, MachineBoots, Health!ListenerRestart, BusType
  <1> QED
    BY <1>1, <1>2, BusPoll, BusDeliver DEF WatchNext, Deliver

-----------------------------------------------------------------------------
(* The invariant.                                                          *)

(* The ladder's part of a check, whatever the count was forgiven for.      *)
LEMMA LadderKeeps ==
  ASSUME TypeOK, BusType, WatchInv, LadderStep, "disk" \notin Events
  PROVE  WatchInv'
  <1>a. /\ WatchInv /\ mon \in Monitors
        /\ mon.reboots \in Nat /\ file \in Nat /\ proven \in Nat
        /\ loc \in [display : BOOLEAN, vt : BOOLEAN, updating : BOOLEAN,
                    recovered : BOOLEAN, clear : BOOLEAN, elapsed : BOOLEAN]
    BY LadderAssumption DEF TypeOK, Monitors, WatchInv
  <1>b. /\ wire' = wire /\ Check /\ ~Reboot
        /\ proven' = IF pc' = "answered" /\ loc'.recovered THEN 0 ELSE proven
    BY DEF LadderStep, bus
  <1>1. CASE CheckOk
    <2>1. /\ pc' = "answered" /\ file' = file
          /\ mon'.reboots = IF MayForget THEN 0 ELSE mon.reboots
          /\ mon'.report = mon.report /\ mon'.healthy = mon.healthy
          /\ loc'.recovered = Recovered
          /\ loc'.clear = (MayForget /\ mon.reboots > 0)
          /\ loc'.elapsed = loc.elapsed
      BY <1>1, <1>a DEF CheckOk, Monitors
    <2>2. MayForget => proven' = 0
      BY <2>1, <1>a, <1>b DEF MayForget, WatchInv
    <2>3. proven' <= proven /\ proven' \in Nat
      BY <1>a, <1>b
    <2>4. ~loc.elapsed
      BY <1>1, <1>a DEF CheckOk, WatchInv
    <2> QED
      BY <2>1, <2>2, <2>3, <2>4, <1>a, <1>b DEF WatchInv
  <1>2. CASE Answered
    BY <1>2, <1>a, <1>b DEF Answered, WatchInv
  <1>3. CASE HoldElapsed
    <2>1. /\ pc' = "store" /\ loc'.elapsed /\ file' = file
          /\ mon'.reboots = mon.reboots + 1
          /\ mon'.report = mon.report /\ mon'.healthy = mon.healthy
      BY <1>3, <1>a DEF HoldElapsed, Unlatched, Monitors
    <2> QED
      BY <2>1, <1>a, <1>b DEF WatchInv
  <1>4. CASE StoreReboots
    BY <1>4, <1>a, <1>b DEF StoreReboots, WatchInv
  <1>5. CASE RebootGate
    BY <1>5, <1>a, <1>b DEF RebootGate, Finish, NoRead, WatchInv
  <1>6. CASE /\ ~CheckOk /\ ~Answered /\ ~HoldElapsed /\ ~StoreReboots /\ ~RebootGate
    <2>1. /\ file' = file
          /\ mon'.reboots = mon.reboots /\ mon'.report = mon.report
          /\ mon'.healthy = mon.healthy
          /\ \/ pc' = "idle" /\ loc' = NoRead
             \/ /\ pc' \notin {"answered", "store", "reboot"} /\ loc'.elapsed = loc.elapsed
                /\ pc \notin {"store", "gate", "reboot"}
      <3>1. CASE CheckCut \/ EscalateCDPStuck \/ CheckFail \/ Suppress \/ Confirm
        BY <3>1, <1>a DEF CheckCut, EscalateCDPStuck, CheckFail, Suppress, Confirm,
           Finish, Monitors
      <3>2. CASE CheckHangState
        BY <3>2, <1>a DEF CheckHangState, Rearmed, Finish, Monitors
      <3>3. CASE RestartChromium \/ ShowBusy \/ ShowBegin \/ StopKiosk \/ ShowScreen
                 \/ ShowRefused
        BY <3>3, <1>a DEF RestartChromium, ShowBusy, ShowBegin, StopKiosk, ShowScreen,
           ShowRefused, Finish, Monitors
      <3>4. CASE RestartSkipped \/ RestartBegin \/ RestartEnd
        BY <3>4, <1>a DEF RestartSkipped, RestartBegin, RestartEnd, PreConnect, Finish,
           Monitors
      <3>5. CASE AbandonHold \/ DeferHold \/ KeepHolding \/ Park \/ RebootRefused
        BY <3>5, <1>a DEF AbandonHold, DeferHold, KeepHolding, Park, RebootRefused,
           Holding, Unlatched, Finish, Monitors
      <3> QED
        BY <1>6, <1>b, <3>1, <3>2, <3>3, <3>4, <3>5 DEF Check
    <2>2. proven' = proven
      BY <2>1, <1>b
    <2> QED
      BY <2>1, <2>2, <1>a, <1>b DEF WatchInv, NoRead
  <1> QED
    BY <1>1, <1>2, <1>3, <1>4, <1>5, <1>6

(* A reboot is counted only here, and nothing said before outlives it.     *)
LEMMA BootKeeps ==
  ASSUME TypeOK, BusType, WatchInv, MachineBoots, "disk" \notin Events
  PROVE  WatchInv'
  <1>1. /\ file \in Nat /\ proven \in Nat
    BY LadderAssumption DEF TypeOK, WatchInv
  <1>2. /\ wire'["clear"] = 0 /\ pc' = "idle" /\ loc' = NoRead
        /\ mon' = Fresh(file) /\ file' = file
        /\ proven' = IF pc = "reboot" /\ loc.elapsed THEN proven + 1 ELSE proven
    BY SilentBus DEF MachineBoots, Reboot, PowerCut, Boot
  <1>3. proven' <= file /\ proven' \in Nat
    BY <1>1, <1>2 DEF WatchInv
  <1> QED
    BY <1>1, <1>2, <1>3 DEF WatchInv, Fresh, NoRead

LEMMA WatchKeeps ==
  ASSUME TypeOK, BusType, WatchInv, WatchNext, "disk" \notin Events
  PROVE  WatchInv'
  <1>a. /\ WatchInv /\ mon \in Monitors
        /\ mon.reboots \in Nat /\ file \in Nat /\ proven \in Nat
        /\ wire["clear"] \in Nat
    BY LadderAssumption DEF TypeOK, Monitors, WatchInv, BusType, Health!Words
  <1>1. CASE WatchTick
    <2>1. /\ UNCHANGED <<pc, loc, file, wire, proven>>
          /\ mon'.reboots = mon.reboots /\ mon'.report = mon.report
          /\ mon'.healthy = mon.healthy
      BY <1>1, <1>a DEF WatchTick, Tick, Health!Interval, Monitors
    <2> QED
      BY <2>1, <1>a DEF WatchInv
  <1>2. CASE MachineStep \/ PageMoves \/ ControldRestart
    <2>1. UNCHANGED <<pc, loc, file, wire, proven, mon>>
      BY <1>2 DEF MachineStep, Machine, PageMoves, ControldRestart, Health!PageMoves,
         Health!ControldRestart, vars, bus
    <2> QED
      BY <2>1, <1>a DEF WatchInv
  <1>3. CASE Poll
    <2>1. UNCHANGED <<pc, loc, file, mon>> /\ proven' = IF page THEN 0 ELSE proven
      BY <1>3 DEF Poll, vars
    <2> QED
      BY <2>1, <1>3, <1>a, BusPoll DEF WatchInv
  <1>4. CASE Deliver
    <2>1. PICK w \in Health!Words : Health!Deliver(w) /\ SetCDPStuck(w = "stuck")
      BY <1>4 DEF Deliver
    <2>2. /\ UNCHANGED <<pc, loc, file, proven>> /\ mon'.reboots = mon.reboots
          /\ mon'.healthy => w # "stuck"
      BY <2>1, <1>4, <1>a DEF SetCDPStuck, Deliver, Monitors
    <2>3. mon'.healthy => wire["clear"] > 0
      BY <2>1, <2>2, BusDeliver DEF Health!Words
    <2>4. wire'["clear"] <= wire["clear"] /\ wire'["clear"] \in Nat
      BY <2>1, BusDeliver DEF BusType, Health!Words
    <2>5. mon'.healthy => proven = 0
      BY <2>3 DEF WatchInv
    <2>6. wire'["clear"] > 0 => proven = 0
      BY <2>4, <1>a DEF WatchInv
    <2> QED
      BY <2>2, <2>5, <2>6, <1>a DEF WatchInv
  <1>5. CASE ListenerRestart
    <2>1. /\ pc' = "idle" /\ loc' = NoRead /\ mon' = Fresh(file)
          /\ UNCHANGED <<file, proven>> /\ wire'["clear"] = 0
      BY <1>5, SilentBus DEF ListenerRestart, WatchdogRestart, Health!ListenerRestart
    <2> QED
      BY <2>1, <1>a DEF WatchInv, Fresh, NoRead
  <1> QED
    BY <1>1, <1>2, <1>3, <1>4, <1>5, LadderKeeps, BootKeeps DEF WatchNext

(* Between two moments at which a poll reached the page target or the kiosk*)
(* came back under the error screen at most MaxReboots holds end in a      *)
(* reboot, for every budget and threshold and any interleaving of the two  *)
(* daemons, restarts and reboots, if the count reaches the disk.           *)
THEOREM CapIsEarned ==
  ASSUME "disk" \notin Events
  PROVE  WatchSpec => []CapNeedsHealth
  <1>1. WatchInit => Watched
    BY TypeInit, SilentBus DEF WatchInit, Init, Health!Init, Watched, BusType, WatchInv,
       Fresh, NoRead
  <1>2. Watched /\ [WatchNext]_wvars => Watched'
    <2> SUFFICES ASSUME Watched, [WatchNext]_wvars PROVE Watched'
      OBVIOUS
    <2>1. CASE UNCHANGED wvars
      BY <2>1, StillType DEF wvars, vars, bus, Watched, BusType, WatchInv
    <2>2. CASE WatchNext
      BY <2>2, WatchTypes, BusTypes, WatchKeeps DEF Watched
    <2> QED
      BY <2>1, <2>2
  <1>3. Watched => CapNeedsHealth
    BY LadderAssumption DEF Watched, TypeOK, Monitors, WatchInv, CapNeedsHealth
  <1> QED
    BY <1>1, <1>2, <1>3, PTL DEF WatchSpec
=============================================================================
