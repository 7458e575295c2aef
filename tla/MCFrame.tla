------------------------------- MODULE MCFrame -------------------------------
(***************************************************************************)
(* Scenes of what the panel of a frame shows and of when it does: who may  *)
(* claim it (ClaimScreen), what setup narrates (Narration), updates        *)
(* (OtaGate), sleep (SleepSchedule).  ClaimScreen and OtaGate come by      *)
(* EXTENDS, with the constants of the cfg; a variable that two modules have*)
(* is shared, for one scene at a time uses it, and 0 stands for what a     *)
(* scene has no use for.                                                   *)
(***************************************************************************)
EXTENDS ClaimScreen, OtaGate, Sequences

VARIABLES scene,
  cur, queue, busy, narrated, hiddenIntent, support, ext, url, page, player, manifest, cdp, missed,
  resync, sweep, refresh, rebuild, shows, faults,
  record, now, resolved, cache, tracker, applying, want, wake, calls, gen, fresh, panel, panelGen,
  seen, job, working, owed

ofNarration == <<cur, queue, busy, narrated, hiddenIntent, support, ext, url, player, manifest,
                 missed, resync, sweep, refresh, rebuild, shows>>
ofOta == <<flight, got, t0, latch, latches, latched, done, inFlight, checks, bootLadders, stretched,
           unit, settled, window, verdict, ctx, turns, asked>>
ofSleep == <<record, now, resolved, cache, tracker, applying, want, wake, calls, gen, fresh, panel,
             panelGen, seen, job, working, owed>>
screens == <<screen, watchdog>>
pages == <<page, cdp, faults>>
fvars == <<scene, claim_vars, ofNarration, ofOta, ofSleep, screens, pages, pc>>

-----------------------------------------------------------------------------
Once(ps) == [p \in Procs |-> IF p \in ps THEN 1 ELSE 0]
Twice(ps) == [p \in Procs |-> IF p \in ps THEN 2 ELSE 0]
Pairs == INSTANCE ClaimScreen WITH MaxRuns <- Once({"cmd", "hide", "hook", "rel"}),
           MaxInv <- 2, MaxOthers <- 1, Names <- {1}, Faults <- {"save"}
ResetRuns == Once({"cmd", "reset", "conn", "rename"})
Renames == INSTANCE ClaimScreen WITH MaxRuns <- Twice({"reset", "rename"}),
           MaxInv <- 2, MaxOthers <- 0, Names <- {1, 2}, Faults <- {"save", "unit"}
Assigns == INSTANCE ClaimScreen WITH MaxRuns <- Once({"auto", "link", "conn"}),
           MaxInv <- 2, MaxOthers <- 0, Names <- {1}, Faults <- {"gate", "save"}
Joins == {"pairs", "resets", "renames", "lands"}

LeftOver == [st |-> "claim_qr", url |-> 0]
Swaps == INSTANCE Narration WITH Narrations <- {"recheck", "scanning"},
           MaxShows <- 3, MaxFaults <- 2, MaxDeliveries <- 2, Faults <- {"swap", "torn", "reload", "foreign"}
Drops == INSTANCE Narration WITH Narrations <- {"claim_qr", "connecting"},
           MaxShows <- 3, MaxFaults <- 1, MaxDeliveries <- 2, Faults <- {"drop", "reload"}
Fills == INSTANCE Narration WITH Narrations <- {"claim_qr", "scanning"},
           MaxShows <- 3, MaxFaults <- 1, MaxDeliveries <- 2, Faults <- {"drop"}
Narrates == {"swaps", "drops", "fills"}

Round == INSTANCE OtaGate WITH Boots <- {}, Users <- 1, Rounds <- 2, Tries <- 2, Checks <- 2,
          Grace <- 1, Verdicts <- {"available", "required", "tooold"}, MaxTurns <- 1
Updates == {"boot", "round"}

Record(e, s, w, d) == [enabled |-> e, sleep |-> s, wake |-> w, days |-> d]
Day == 3
Week == 2
PanelRetryMax == 2
Night == INSTANCE SleepSchedule WITH Schedules <- {Record(TRUE, 1, 2, {0})}, Rpcs <- {}, Calls <- 0,
           MaxTime <- 2, MaxFaults <- 2, Faults <- {"send", "reload", "socket"}
Owner == INSTANCE SleepSchedule WITH Rpcs <- {"r"}, Calls <- 1, MaxTime <- 2, MaxFaults <- 0, Faults <- {},
           Schedules <- {Record(TRUE, 1, 2, {}), Record(TRUE, 2, 0, {1})}
Panel == INSTANCE SleepSchedule WITH Schedules <- {Record(TRUE, 1, 2, {})}, Rpcs <- {}, Calls <- 0,
           MaxTime <- 2, MaxFaults <- 3, Faults <- {"panel", "display"}
Sleeps == {"night", "owner", "panel"}
-----------------------------------------------------------------------------
NoNarration ==
  /\ cur = 0 /\ queue = 0 /\ busy = 0 /\ narrated = 0 /\ hiddenIntent = 0
  /\ support = 0 /\ ext = 0 /\ url = 0 /\ player = 0 /\ manifest = 0 /\ missed = 0
  /\ resync = 0 /\ sweep = 0 /\ refresh = 0 /\ rebuild = 0 /\ shows = 0
NoOta ==
  /\ flight = 0 /\ got = 0 /\ t0 = 0 /\ latch = 0 /\ latches = 0 /\ latched = 0
  /\ done = 0 /\ inFlight = 0 /\ checks = 0 /\ bootLadders = 0 /\ stretched = "none"
  /\ unit = 0 /\ settled = 0 /\ window = 0 /\ verdict = 0 /\ ctx = 0 /\ turns = 0
  /\ asked = 0
NoSleep ==
  /\ record = 0 /\ now = 0 /\ resolved = 0 /\ cache = 0 /\ tracker = 0
  /\ applying = 0 /\ want = 0 /\ wake = 0 /\ calls = 0 /\ gen = 0 /\ fresh = 0
  /\ panel = 0 /\ panelGen = 0 /\ seen = 0 /\ job = 0 /\ working = 0 /\ owed = 0
NoPages ==
  /\ page = 0 /\ cdp = 0 /\ faults = 0
NoScreens ==
  /\ screen = 0 /\ watchdog = 0

FrameInit ==
  \/ /\ scene \in Joins /\ NoNarration /\ NoOta /\ NoSleep /\ NoPages /\ NoScreens /\ pc = 0
     /\ ClaimInit
  \/ /\ scene \in Narrates /\ ClaimInit /\ NoOta /\ NoSleep /\ NoScreens /\ pc = 0
     /\ Swaps!Init
  \/ /\ scene \in Updates /\ ClaimInit /\ NoNarration /\ NoSleep /\ NoPages
     /\ \/ scene = "boot" /\ UpdateInit
        \/ scene = "round" /\ Round!UpdateInit
  \/ /\ scene \in Sleeps /\ ClaimInit /\ NoNarration /\ NoOta /\ NoScreens
     /\ \/ scene = "night" /\ Night!Init
        \/ scene = "owner" /\ Owner!Init
        \/ scene = "panel" /\ Panel!Init

FrameNext ==
  /\ UNCHANGED scene
  /\ \/ /\ UNCHANGED <<ofNarration, ofOta, ofSleep, screens, pages, pc>>
        /\ \/ scene = "pairs" /\ Pairs!ClaimNext
           \/ scene = "resets" /\ ClaimNext
           \/ scene = "renames" /\ Renames!ClaimNext
           \/ scene = "lands" /\ Assigns!ClaimNext
     \/ /\ UNCHANGED <<claim_vars, ofOta, ofSleep, screens, pc>>
        /\ \/ scene = "swaps" /\ Swaps!Next
           \/ scene = "drops" /\ Drops!Next
           \/ scene = "fills" /\ Fills!Next
     \/ /\ UNCHANGED <<claim_vars, ofNarration, ofSleep, pages>>
        /\ \/ scene = "boot" /\ UpdateNext
           \/ scene = "round" /\ Round!UpdateNext
     \/ /\ UNCHANGED <<claim_vars, ofNarration, ofOta, screens>>
        /\ \/ scene = "night" /\ Night!Next
           \/ scene = "owner" /\ Owner!Next
           \/ scene = "panel" /\ Panel!Next

(* The fairness of OtaGate and SleepSchedule, scene by scene.              *)
Sleeping(x) ==
  \/ scene = "night" /\ x = "loop" /\ Night!Thread(x)
  \/ scene = "owner" /\ Owner!Thread(x)
  \/ scene = "panel" /\ x = "loop" /\ Panel!Thread(x)
Flights == (scene = "boot" /\ Flight) \/ (scene = "round" /\ Round!Flight)
ofPlayer == <<ofSleep, pages, pc>>
FrameFairness ==
  /\ WF_flight(Flights) /\ WF_unit(scene \in Updates /\ UnitEnds)
  /\ WF_watchdog(scene \in Updates /\ NoReboot)
  /\ WF_ofPlayer(Sleeping("loop")) /\ WF_ofPlayer(Sleeping("r"))
  /\ WF_ofPlayer(scene \in Sleeps /\ Night!Invalidate)
  /\ WF_ofPlayer(scene \in Sleeps /\ (Night!WorkerTakes \/ Panel!WorkerApplies))
  /\ WF_ofPlayer(scene \in Sleeps /\ (Night!Notice \/ Night!Reconnect))
  /\ WF_resolved(scene \in Sleeps /\ Night!Resolves)
FrameSpec == FrameInit /\ [][FrameNext]_fvars /\ FrameFairness

(* What setup decided last is what the page and the report show, once it   *)
(* is delivered; neither a sweep nor a late refresh of the claim QR takes  *)
(* a narration of this life off the screen (controller.go 399; setupui.go  *)
(* 491, 690, 717, 801, 967).                                               *)
NarrationAgrees ==
  /\ [](scene \in Narrates => Swaps!ScreenIsDecision /\ Swaps!HiddenIsNothingShown)
  /\ [][(scene \in Narrates) => Swaps!SweepSpares /\ Swaps!RefreshIsPolite]_cur

(* A player that was put to sleep and is awake again has had its playlist  *)
(* computed, and the announced transition is the first (sleep_schedule.go  *)
(* 578; schedule.go nextTransitionTo).                                     *)
WakesAreTold == scene \in Sleeps => Night!WakeIsTold /\ Night!AnnouncedIsFirst

(* "updating" comes off the screen of a frame that lives on; player, gate  *)
(* and panel follow the sleep record.                                      *)
FrameSettles ==
  /\ []<>(scene \notin Updates \/ screen # "updating" \/ ctx # "live")
  /\ []<>(scene \notin Sleeps \/ Night!Follows)
=============================================================================
