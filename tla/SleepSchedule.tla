---------------------------- MODULE SleepSchedule ----------------------------
(***************************************************************************)
(* devicectl/sleep_schedule.go over the sleepschedule package: the record  *)
(* on disk, the loop that evaluates it every minute, the commands that     *)
(* change it, and the two legs they drive: the player over CDP and the     *)
(* panel over DDC.  Clock times are ticks of a day of Day ticks.           *)
(***************************************************************************)
EXTENDS Naturals, FiniteSets, FiniteSetsExt

CONSTANTS
  Day, Week,     \* ticks of a day, days of a week
  Schedules,     \* [enabled, sleep, wake, days] that commands set
  Rpcs,          \* commands that run at the same time
  Calls,         \* commands in all
  MaxTime, MaxFaults, PanelRetryMax,
  Faults         \* of "send", "reload", "panel", "display", "socket"

VARIABLES
  record, now, resolved,   \* the file; the clock; is the time zone known
  cache, tracker,          \* what the loop wants; what the player was told
  applying,                \* who holds sleepApplyMu over a send
  pc, want, wake, calls,   \* of the loop and of the commands
  page, gen, fresh, cdp,   \* the player
  panel, panelGen, seen, job, working,
  owed, faults
clock_vars == <<record, now, resolved>>
player_vars == <<page, gen, fresh, cdp, owed>>
panel_vars == <<panel, panelGen, seen, job, working>>
vars == <<clock_vars, player_vars, panel_vars, cache, tracker, applying, pc, want, wake, calls, faults>>

States == {"awake", "sleeping"}
NoTime == 0
Threads == Rpcs \cup {"loop"}

(* dayActive, isSleepingAt, scheduleStateAt.                               *)
DayActive(days, t) == days = {} \/ ((t \div Day) % Week) \in days
IsSleepingAt(r, t) ==
  LET c == t % Day IN
  IF r.sleep < r.wake THEN c >= r.sleep /\ c < r.wake ELSE c >= r.sleep \/ c < r.wake
ScheduleStateAt(r, t) == IF ~DayActive(r.days, t) \/ IsSleepingAt(r, t) THEN "sleeping" ELSE "awake"
NextOccurrence(t, c) == Min({u \in (t + 1)..(t + Day) : u % Day = c})
(* Midnight is a candidate as well: the day may turn inactive at it.       *)
Candidates(r) == {0, r.sleep, r.wake}
NextTransitionTo(r, t, target) ==
  LET hits == {u \in (t + 1)..(t + (Week + 2) * Day) : u % Day \in Candidates(r) /\ ScheduleStateAt(r, u) = target} IN
  IF hits = {} THEN NoTime ELSE Min(hits)
Normalize(r, t) == IF r.until = NoTime \/ r.until > t THEN r ELSE [r EXCEPT !.over = "none", !.until = NoTime]
EffectiveStatus(r0, t) ==
  LET r == Normalize(r0, t)
      s == IF r.enabled THEN ScheduleStateAt(r, t) ELSE "awake" IN
  IF r.over # "none" THEN [state |-> r.over, next |-> r.until]
  ELSE [state |-> s, next |-> IF r.enabled THEN NextTransitionTo(r, t, IF s = "awake" THEN "sleeping" ELSE "awake") ELSE NoTime]
ApplyOverride(r0, t, s) ==
  [Normalize(r0, t) EXCEPT !.over = s,
     !.until = IF ~r0.enabled THEN NoTime ELSE NextOccurrence(t, IF s = "sleeping" THEN r0.wake ELSE r0.sleep)]

NoApply == [by |-> "nobody", state |-> "awake", gen |-> 0, was |-> FALSE]
Init ==
  /\ record \in {[enabled |-> s.enabled, sleep |-> s.sleep, wake |-> s.wake, days |-> s.days, over |-> "none", until |-> NoTime] : s \in Schedules}
  /\ now = 0 /\ resolved \in BOOLEAN /\ cache = "none"
  /\ tracker = [st |-> "awake", attempted |-> "none", lastGood |-> "none", atInvalidate |-> "none"]
  /\ applying = NoApply /\ pc = [x \in Threads |-> IF x = "loop" THEN "reads" ELSE "idle"]
  /\ want = [x \in Threads |-> "awake"] /\ wake = FALSE /\ calls = 0
  /\ page = "awake" /\ gen = 0 /\ fresh = "no" /\ cdp = "up"
  /\ panel = "awake" /\ panelGen = 1 /\ seen = [state |-> "none", ok |-> FALSE, gen |-> 0, streak |-> 0]
  /\ job = {} /\ working = {} /\ owed = FALSE /\ faults = 0
-----------------------------------------------------------------------------
Go(x, to) == pc' = [pc EXCEPT ![x] = to]
Free == applying.by = "nobody"
Enqueue(s) == job' = {s}  \* a channel of one that keeps the newest

(* runSleepScheduleLoop.  Nothing is evaluated in an unknown time zone.    *)
LoopReads ==
  /\ pc["loop"] = "reads" /\ UNCHANGED <<now, resolved, cache, tracker, applying, wake, calls, player_vars, panel_vars, faults>>
  /\ IF resolved
     THEN /\ record' = Normalize(record, now) /\ Go("loop", "caches")
          /\ want' = [want EXCEPT !["loop"] = EffectiveStatus(record, now).state]
     ELSE Go("loop", "waits") /\ UNCHANGED <<record, want>>
LoopWakes ==
  /\ pc["loop"] = "waits" /\ Go("loop", "reads") /\ wake' = FALSE
  /\ UNCHANGED <<clock_vars, cache, tracker, applying, want, calls, player_vars, panel_vars, faults>>

(* setSleepSchedule and applyManualSleepOverride: the record is saved      *)
(* under its own lock, the rest follows without it.                        *)
RpcSaves(x) ==
  /\ x \in Rpcs /\ pc[x] = "idle" /\ calls < Calls /\ calls' = calls + 1
  /\ \/ \E s \in Schedules :
          record' = [enabled |-> s.enabled, sleep |-> s.sleep, wake |-> s.wake, days |-> s.days, over |-> "none", until |-> NoTime]
     \/ \E o \in States : record' = ApplyOverride(record, now, o)
  /\ want' = [want EXCEPT ![x] = EffectiveStatus(record', now).state] /\ Go(x, "caches")
  /\ UNCHANGED <<now, resolved, cache, tracker, applying, wake, player_vars, panel_vars, faults>>
Caches(x) ==
  /\ pc[x] = "caches" /\ Free /\ cache' = want[x] /\ Go(x, "applies")
  /\ UNCHANGED <<clock_vars, tracker, applying, want, wake, calls, player_vars, panel_vars, faults>>

(* onAwakeWasSleepingLocked.                                               *)
WasSleepingUnlessRetried == tracker.st = "sleeping" \/ (tracker.st = "failed" /\ tracker.attempted = "sleeping") \* mutant: a wake that failed once is no edge
WasSleeping ==
  CASE tracker.st = "sleeping" -> TRUE
    [] tracker.st = "failed" -> tracker.attempted = "sleeping" \/ tracker.lastGood = "sleeping"
    [] tracker.st = "fresh" -> tracker.atInvalidate = "sleeping"
    [] OTHER -> FALSE
PanelAligned(s) == seen.state = s /\ seen.gen = panelGen /\ (seen.ok \/ seen.streak >= PanelRetryMax)
Sends(x) == applying' = [by |-> x, state |-> want[x], gen |-> gen, was |-> WasSleeping] /\ Go(x, "sent")
(* applySleepTransitionIfChanged: the loop drives what is not aligned.     *)
LoopApplies ==
  /\ pc["loop"] = "applies" /\ Free
  /\ LET s == want["loop"] IN
     \/ tracker.st = s /\ PanelAligned(s) /\ Go("loop", "waits") /\ UNCHANGED <<applying, job>>
     \/ tracker.st = s /\ ~PanelAligned(s) /\ Enqueue(s) /\ Go("loop", "waits") /\ UNCHANGED applying
     \/ tracker.st # s /\ cdp = "down" /\ Go("loop", "waits") /\ UNCHANGED <<applying, job>>
     \/ tracker.st # s /\ cdp = "up" /\ Sends("loop") /\ UNCHANGED job
  /\ UNCHANGED <<clock_vars, cache, tracker, want, wake, calls, player_vars, panel, panelGen, seen, working, faults>>
(* applySleepTransition: a command always sends.                           *)
RpcApplies(x) ==
  /\ x \in Rpcs /\ pc[x] = "applies" /\ Free /\ Sends(x)
  /\ UNCHANGED <<clock_vars, cache, tracker, want, wake, calls, player_vars, panel_vars, faults>>
(* The send reaches the page that is there; an error may be the answer's.  *)
Sent(x) ==
  /\ pc[x] = "sent" /\ page' \in {page, applying.state}
  /\ \E fails \in BOOLEAN :
       /\ fails => cdp = "down" \/ ("send" \in Faults /\ faults < MaxFaults)
       /\ cdp = "down" => fails /\ page' = page
       /\ ~fails => page' = applying.state
       /\ faults' = IF fails /\ cdp = "up" THEN faults + 1 ELSE faults
       /\ Go(x, IF fails THEN "failed" ELSE "answered")
  /\ UNCHANGED <<clock_vars, cache, tracker, applying, want, wake, calls, gen, fresh, cdp, owed, panel_vars>>
(* applySleepTransitionLocked: the generation is read again; a send that   *)
(* raced a new page counts as failed.                                      *)
AfterSend(x, next) == IF x = "loop" THEN "waits" ELSE next
Concludes(x) ==
  /\ pc[x] \in {"failed", "answered"} /\ applying.by = x /\ applying' = NoApply
  /\ LET s == applying.state IN
     IF pc[x] = "answered" /\ gen = applying.gen
     THEN /\ tracker' = [tracker EXCEPT !.st = s, !.lastGood = s] /\ Enqueue(s)
          /\ owed' = (owed \/ s = "sleeping")
          /\ Go(x, IF s = "awake" /\ applying.was THEN "hook" ELSE AfterSend(x, "wakes"))
     ELSE /\ tracker' = [tracker EXCEPT !.st = "failed", !.attempted = s] /\ UNCHANGED <<job, owed>>
          /\ Go(x, AfterSend(x, IF pc[x] = "failed" THEN "idle" ELSE "wakes"))
  /\ UNCHANGED <<clock_vars, cache, want, wake, calls, page, gen, fresh, cdp, panel, panelGen, seen, working, faults>>
(* onAwake: the playlist is computed again, outside the lock.              *)
Hook(x) ==
  /\ pc[x] = "hook" /\ owed' = FALSE /\ Go(x, AfterSend(x, "wakes"))
  /\ UNCHANGED <<clock_vars, cache, tracker, applying, want, wake, calls, page, gen, fresh, cdp, panel_vars, faults>>
RpcWakes(x) ==
  /\ x \in Rpcs /\ pc[x] = "wakes" /\ wake' = TRUE /\ Go(x, "idle")
  /\ UNCHANGED <<clock_vars, cache, tracker, applying, want, calls, player_vars, panel_vars, faults>>
Thread(x) ==
  \/ Caches(x) \/ Sent(x) \/ Concludes(x) \/ Hook(x) \/ RpcApplies(x) \/ RpcWakes(x)
  \/ (x = "loop" /\ (LoopReads \/ LoopWakes \/ LoopApplies))

(* invalidatePlayerSleepState, a reconciler of every page generation; the  *)
(* playlist reconciler that follows does what onAwake would.               *)
InvalidatedNever == tracker \* mutant: what the old page was told is believed of the new one
Invalidated == [tracker EXCEPT !.st = "fresh", !.atInvalidate = cache]
Invalidate ==
  /\ fresh = "noticed" /\ Free /\ fresh' = "no" /\ tracker' = Invalidated /\ owed' = FALSE /\ wake' = TRUE
  /\ UNCHANGED <<clock_vars, cache, applying, pc, want, calls, page, gen, cdp, panel_vars, faults>>

(* The panel worker; the display generation is read before the bus is.     *)
WorkerTakes ==
  /\ working = {} /\ job # {} /\ job' = {}
  /\ working' = {[state |-> s, gen |-> panelGen] : s \in job}
  /\ UNCHANGED <<clock_vars, cache, tracker, applying, pc, want, wake, calls, player_vars, panel, panelGen, seen, faults>>
RecordPanelApply(s, ok, g) ==
  seen' = [state |-> s, ok |-> ok, gen |-> g,
           streak |-> IF ok THEN 0 ELSE IF g = seen.gen /\ seen.state = s THEN seen.streak + 1 ELSE 1]
WorkerApplies ==
  /\ working # {} /\ Free /\ working' = {}
  /\ \E j \in working, ok \in BOOLEAN :
       /\ ok \/ ("panel" \in Faults /\ faults < MaxFaults)
       /\ faults' = IF ok THEN faults ELSE faults + 1
       /\ panel' = IF ok THEN j.state ELSE panel
       /\ RecordPanelApply(j.state, ok, j.gen)
  /\ UNCHANGED <<clock_vars, cache, tracker, applying, pc, want, wake, calls, player_vars, panelGen, job>>
-----------------------------------------------------------------------------
(* Time, pages that load awake, displays that are plugged in on.           *)
Outside == UNCHANGED <<record, cache, tracker, applying, pc, want, wake, calls, seen, job, working>>
Fault(f) == f \in Faults /\ faults < MaxFaults /\ faults' = faults + 1 /\ Outside /\ UNCHANGED <<now, resolved>>
Tick == now < MaxTime /\ now' = now + 1 /\ Outside /\ UNCHANGED <<resolved, player_vars, panel, panelGen, faults>>
Resolves == ~resolved /\ resolved' = TRUE /\ Outside /\ UNCHANGED <<now, player_vars, panel, panelGen, faults>>
Reload == Fault("reload") /\ page' = "awake" /\ fresh' = "loaded" /\ UNCHANGED <<gen, cdp, owed, panel, panelGen>>
Notice ==
  /\ fresh = "loaded" /\ cdp = "up" /\ fresh' = "noticed" /\ gen' = gen + 1
  /\ Outside /\ UNCHANGED <<now, resolved, page, cdp, owed, panel, panelGen, faults>>
Disconnect == cdp = "up" /\ Fault("socket") /\ cdp' = "down" /\ UNCHANGED <<page, gen, fresh, owed, panel, panelGen>>
Reconnect ==
  /\ cdp = "down" /\ cdp' = "up" /\ fresh' = "noticed" /\ gen' = gen + 1
  /\ Outside /\ UNCHANGED <<now, resolved, page, owed, panel, panelGen, faults>>
Replug == Fault("display") /\ panel' = "awake" /\ panelGen' = panelGen + 1 /\ UNCHANGED player_vars

Next ==
  \/ \E x \in Threads : Thread(x) \/ RpcSaves(x)
  \/ Invalidate \/ WorkerTakes \/ WorkerApplies
  \/ Tick \/ Resolves \/ Reload \/ Notice \/ Disconnect \/ Reconnect \/ Replug
Runs == (\E x \in Threads : Thread(x)) \/ Invalidate \/ WorkerTakes \/ WorkerApplies
Fairness ==
  /\ \A x \in Threads : WF_vars(Thread(x))
  /\ WF_vars(Invalidate) /\ WF_vars(WorkerTakes \/ WorkerApplies) /\ WF_vars(Notice \/ Reconnect) /\ WF_vars(Resolves)
Spec == Init /\ [][Next]_vars /\ Fairness
-----------------------------------------------------------------------------
(* A player that was put to sleep and is confirmed awake again has had, or *)
(* is about to have, its playlist computed again: exactly the edge counts, *)
(* over failed sends and retries.                                          *)
WakeIsTold == tracker.st = "awake" /\ owed => \E x \in DOMAIN pc : pc[x] = "hook"

(* The announced transition is the first: until then nothing changes, and  *)
(* without an override something does at it.                               *)
AnnouncedIsFirst ==
  LET a == EffectiveStatus(record, now)
      At(t) == EffectiveStatus(record, t).state
      till == IF a.next = NoTime THEN now + (Week + 1) * Day ELSE a.next - 1 IN
  /\ \A t \in now..till : At(t) = a.state
  /\ (a.next # NoTime /\ Normalize(record, now).over = "none") => At(a.next) # a.state

(* Whatever commands, sends, reloads and displays did, in the end player,  *)
(* gate and panel follow the record; a panel that refused PanelRetryMax    *)
(* times is left alone.                                                    *)
Follows ==
  LET s == EffectiveStatus(record, now).state IN
  page = s /\ cache = s /\ tracker.st = s /\ (panel = s \/ seen.streak >= PanelRetryMax)
SleepFollows == []<>Follows
=============================================================================
