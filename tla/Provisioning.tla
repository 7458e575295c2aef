---------------------------- MODULE Provisioning ----------------------------
(***************************************************************************)
(* The setup state machine (provisioning/provisioning.go, session.go): one *)
(* goroutine drains connectivity, portal and user events and ticks; each   *)
(* handler is a function of the machine's fields m and of the device it    *)
(* finds, dev.  The setup hotspot and the Wi-Fi station share one radio.   *)
(* Times are counted in ticks (CheckInterval).                             *)
(***************************************************************************)
EXTENDS Naturals, Sequences

CONSTANTS
  AtBoot,         \* BootAssessment: this start follows a boot
  Failing,        \* what may fail: "up", "portal", "down", "probe", "conn", "auto", "url",
                  \* and of a recheck blink "scan" (or listing, or budget) and "activate"
  Worlds,         \* what may change: "link", "flap", "inet", "near", "wire", "claim"
  People,          \* what people do: "join", "rescan", "setup", "portal", "crash", "panic"
  Profile,        \* a Wi-Fi profile is saved at the start
  Window,         \* offlineWindowSamples
  Confirms,       \* relocConfirmScans
  ArmTries,          \* relocArmTries
  Tolerance,      \* relocUnknownTolerance
  Streak,         \* setupErrorFailStreak
  EpisodeWindow,  \* episodeWindowSamples
  Cycles,         \* EpisodeRaiseCycles
  Deferrals,      \* DeferralCycleBudget
  Short,          \* RecheckApPhaseLadder: its phases,
  Rungs,          \* and how many there are
  Phase,          \* an AP phase (last rung, episode, user), without activity
  Ceiling,        \* PortalDeferralCeiling
  Cap,            \* SessionAbsoluteCap
  MaxRequests     \* bound: joins, rescans, user setups, crashes, panics

ASSUME ProvisioningAssumption == Window \in Nat \ {0}

VARIABLES m, dev, events, requests

setup_vars == <<m, dev, events, requests>>

Least(a, b) == IF a < b THEN a ELSE b
DecNever(n) == n \* mutant: the fresh readings after a pause are never counted
Dec(n) == IF n = 0 THEN 0 ELSE n - 1
NoTimer == Cap + Phase + Ceiling + 1   \* sessionPhaseStart.IsZero
Ok(f) == f \notin dev.broken

Machine ==
  [st |-> "starting", why |-> "", up |-> FALSE, pend |-> FALSE, connUnknown |-> FALSE, online |-> FALSE,
   narration |-> "", confirms |-> 0, tries |-> 0, unknowns |-> 0,
   absent |-> 0, pause |-> 0, fresh |-> 0,
   policy |-> "unbounded", sreason |-> "", phase |-> NoTimer, first |-> 0, recheck |-> 0,
   samples |-> 0, epause |-> 0, efresh |-> 0, target |-> 0, cycle |-> 0, settled |-> FALSE, deferred |-> 0,
   raiseFails |-> 0, releaseFails |-> 0, latch |-> "", restore |-> TRUE,
   status |-> "idle", gen |-> 0, seen |-> FALSE, attach |-> FALSE,
   shown |-> <<"starting", "">>, quiet |-> 0, raises |-> 0, auto |-> TRUE, radio |-> FALSE, link |-> "absent"]
(* The last fields are not the machine's: shown is what the notifier last  *)
(* told the screen, quiet and raises are histories that only properties    *)
(* read, and auto, radio and link are the radio as the handlers leave it.  *)

SetupInit ==
  /\ m = Machine
  /\ \E inet, near, claimed \in BOOLEAN :
       /\ claimed => "claim" \in Worlds
       /\ dev = [broken |-> {}, inet |-> inet, near |-> near, wired |-> FALSE, profile |-> Profile,
                 claimed |-> claimed, busy |-> FALSE]
  /\ events = << >> /\ requests = 0

(***************************** The radio ***********************************)

Online == dev.inet /\ (m.link = "wifi" \/ dev.wired)
OnlineOf(x) == dev.inet /\ (x.link = "wifi" \/ dev.wired)
(* probeLink: the device's own hotspot is no link.                         *)
Probe(x) == IF x.up THEN "absent"
            ELSE IF ~Ok("probe") THEN "unknown"
            ELSE IF x.link = "wifi" \/ dev.wired THEN "present" ELSE "absent"
Notify(x, s, r) == [x EXCEPT !.shown = <<s, r>>]

(* noteAPReleaseFailure, clearAPReleaseFailures and their AP-raise twins:  *)
(* the error screen is painted once per streak and latched.                *)
ReleaseFailed(x) ==
  LET y == [x EXCEPT !.releaseFails = Least(Streak + 1, @ + 1)] IN
  IF y.releaseFails = Streak /\ y.latch = ""
  THEN Notify([y EXCEPT !.latch = "release"], y.st, "setup-error") ELSE y
ReleaseCleared(x) ==
  LET y == [x EXCEPT !.releaseFails = 0] IN
  IF y.latch # "release" THEN y
  ELSE IF y.st = "ap" THEN [y EXCEPT !.latch = ""]
  ELSE Notify([y EXCEPT !.latch = ""], y.st, "setup-error-cleared")
RaiseFailed(x) ==
  LET y == [x EXCEPT !.raiseFails = Least(Streak + 1, @ + 1)] IN
  IF y.raiseFails = Streak /\ y.latch = ""
  THEN Notify([y EXCEPT !.latch = "start"], y.st, "setup-error") ELSE y
Raised(x) == [x EXCEPT !.raiseFails = 0, !.latch = IF @ = "start" THEN "" ELSE @]

(* clearAttachLatchLocked: the phone of the last raise is forgotten.       *)
Unlatched(x) == [x EXCEPT !.seen = FALSE, !.attach = FALSE]

(* ensureAPDown: the teardown that failed is owed, and tried again.        *)
Owes(x) == ~Ok("down")
TornDown(x) == [x EXCEPT !.up = FALSE, !.pend = Owes(x), !.radio = @ /\ ~Ok("down")]
Accounted(x) == IF Ok("down") THEN ReleaseCleared(x) ELSE ReleaseFailed(x)
EnsureAPDown(x) == IF ~x.up /\ ~x.pend THEN x ELSE Accounted(TornDown(Unlatched(x)))

Bound(x) == CASE x.policy = "unbounded" -> 0
              [] x.policy = "recheck" /\ x.recheck < Rungs -> Short
              [] OTHER -> Phase
ArmTimer(x) == IF Bound(x) > 0 THEN [x EXCEPT !.phase = 0] ELSE x

(* ensureAPUp: scan, softap.Up, a new raise generation, the portal, and    *)
(* the QR screen.                                                          *)
NextGen(n) == (n + 1) % 3
Scanned(x) == IF x.latch = "" THEN Notify(x, "ap", "scanning") ELSE x
OnAir(x) == [Unlatched(x) EXCEPT !.gen = NextGen(@), !.link = "absent", !.up = TRUE, !.radio = TRUE]
Served(x) == IF Ok("portal") THEN Notify(ArmTimer(Raised(x)), "ap", "ap-active") ELSE RaiseFailed(TornDown(x))
RaiseAP(x) ==
  IF x.pend THEN x ELSE IF Ok("up") THEN Served(OnAir(Scanned(x))) ELSE RaiseFailed(Scanned(x))
EnsureAPUp(x) == IF x.up THEN x ELSE RaiseAP(EnsureAPDown(x))

Reconcile(x) ==
  CASE x.st = "ap" -> EnsureAPUp(x)
    [] x.st = "joining" -> x
    [] OTHER -> EnsureAPDown(x)

(*************************** Transitions ***********************************)

Narrated == {"boot-offline", "boot-no-internet", "boot-link-unknown", "joined-no-internet",
             "joined-conn-unknown", "ap-session-ended", "ap-recheck", "setup-incomplete-settled"}
Silent == {"offline", "link-present"}

(* latchSessionPolicy: only the reasons that begin a session have a policy.*)
Latched(x, why) ==
  LET p == CASE why = "unprovisioned" -> "unbounded"
             [] why \in {"sustained-offline", "relocated"} -> "recheck"
             [] why = "setup-incomplete" -> "episode"
             [] why = "user-requested" -> "user"
             [] OTHER -> "" IN
  IF p = "" THEN x ELSE [x EXCEPT !.policy = p, !.sreason = why, !.first = 0]

ChangedReason(x, target, why) == x.why # why \* mutant: only a new reason is shown
Changed(x, target, why) ==
  \/ x.st # target
  \/ target = "unprovisioned" /\ x.why # why
  \/ target = "retry" /\ why \in Narrated /\ x.why # why

(* The old state x decides what the screen is told of the new one, y.      *)
Enter(x, target, why) ==
  [x EXCEPT !.st = target, !.why = why, !.narration = IF target = "retry" THEN @ ELSE ""]
Hushed(x, y) ==
  IF y.st = "retry" /\ x.st = "retry" /\ x.why \in Narrated /\ y.why \in Silent
  THEN Notify([y EXCEPT !.narration = ""], "retry", "ap-session-ended-silent") ELSE y
Announced(x, y) ==
  IF Changed(x, y.st, y.why)
  THEN Notify([y EXCEPT !.narration = IF y.st = "retry" /\ y.why \in Narrated THEN y.why ELSE @], y.st, y.why)
  ELSE y
Latching(x, target, why) == IF target = "ap" THEN Latched(x, why) ELSE x
Transition(x, target, why) ==
  Reconcile(Announced(x, Hushed(x, Enter(Latching(x, target, why), target, why))))

(* clearOffline: the window, the relocation burst, the raise escalation.   *)
Disarm(x) == [x EXCEPT !.confirms = 0, !.tries = 0, !.unknowns = 0]
ResetWindow(x) == [x EXCEPT !.absent = 0, !.pause = 0, !.fresh = 0]
ResetEscalation(x) ==
  LET y == [x EXCEPT !.raiseFails = 0] IN
  IF y.latch = "start" THEN Notify([y EXCEPT !.latch = ""], y.st, "setup-error-cleared") ELSE y
ClearOffline(x) == [ResetEscalation(Disarm(ResetWindow(x))) EXCEPT !.recheck = 0, !.quiet = 0]
ResetJoinStatus(x) == IF x.st = "ap" THEN x ELSE [x EXCEPT !.status = "idle"]

RecordAbsent(x) ==
  [x EXCEPT !.pause = 0, !.absent = Least(Window + 1, @ + 1), !.fresh = Dec(@), !.quiet = Least(Window, @ + 1)]
ArmWindow(x) == IF x.absent = 0 THEN RecordAbsent(x) ELSE x
WindowExpired(x) == x.absent >= Window /\ x.fresh = 0
PauseWindow(x) ==
  IF x.absent = 0 THEN x
  ELSE IF x.pause + 1 > Window THEN ResetWindow(x)
  ELSE [x EXCEPT !.pause = @ + 1, !.fresh = 2]
RelocUnknown(x) ==
  IF x.confirms = 0 /\ x.tries = 0 THEN x
  ELSE IF x.unknowns + 1 > Tolerance THEN Disarm(x) ELSE [x EXCEPT !.unknowns = @ + 1]

(* relocationScanStep: a conclusive burst of scans without a saved network.*)
ScanStep(x) ==
  IF x.confirms = 0 /\ x.tries = 0 THEN x
  ELSE IF ~Ok("probe") THEN IF x.confirms > 0 THEN Disarm(x) ELSE [x EXCEPT !.tries = Dec(@)]
  ELSE IF dev.near \/ ~dev.profile THEN Disarm(x)
  ELSE [x EXCEPT !.confirms = Least(Confirms, @ + 1), !.tries = 0]
Relocated(x) == x.confirms >= Confirms

CancelEpisode(x) ==
  [x EXCEPT !.samples = 0, !.epause = 0, !.efresh = 0, !.target = 0, !.cycle = 0,
            !.settled = FALSE, !.deferred = 0, !.raises = 0]

(*************************** Connectivity **********************************)

BootReason(probe) == CASE probe = "present" -> "boot-no-internet"
                       [] probe = "unknown" -> "boot-link-unknown"
                       [] OTHER -> "boot-offline"

WithoutProfile(x, assumed) ==
  LET p == Probe(x) IN
  CASE p = "present" ->
         IF x.st = "ap" /\ x.policy = "unbounded" THEN Reconcile(x)
         ELSE Transition(ClearOffline(x), "unprovisioned", "link-present")
    [] p = "unknown" ->
         IF x.st = "ap" THEN Reconcile(x)
         ELSE Transition(PauseWindow(x), "unprovisioned", "link-unknown")
    [] OTHER ->
         IF x.st \notin {"starting", "ap"} THEN Transition(ArmWindow(x), "unprovisioned", "link-lost")
         ELSE Transition(ResetJoinStatus(ClearOffline(x)), "ap", "unprovisioned")

FirstScan(x) == IF x.connUnknown THEN x ELSE ScanStep(x)
BootOfflineAt(x, p) ==
  IF p # "absent" THEN [Transition(x, "retry", BootReason(p)) EXCEPT !.narration = BootReason(p)]
  ELSE FirstScan([Transition(x, "retry", BootReason(p)) EXCEPT !.narration = BootReason(p), !.tries = ArmTries])
BootOffline(x) == BootOfflineAt(x, Probe(x))

OfflineReason(x, assumed) ==
  CASE x.st = "joining" /\ assumed -> "joined-conn-unknown"
    [] x.st = "joining" /\ ~assumed -> "joined-no-internet"
    [] x.st = "retry" /\ x.narration = "joined-conn-unknown" /\ ~assumed -> "joined-no-internet"
    [] OTHER -> "offline"

Reachable(x) ==
  IF dev.profile THEN Transition(x, "online", "") ELSE Transition(x, "unprovisioned", "unprovisioned")
Unreachable(x, assumed) ==
  CASE ~dev.profile -> WithoutProfile(x, assumed)
    [] dev.profile /\ x.st = "ap" ->
         IF Probe(x) = "present" THEN Transition(ClearOffline(x), "retry", "link-present") ELSE Reconcile(x)
    [] dev.profile /\ x.st = "starting" /\ AtBoot -> BootOffline(x)
    [] OTHER -> Transition(x, "retry", OfflineReason(x, assumed))
Heard(x, online, assumed) ==
  IF online THEN Reachable(CancelEpisode(ClearOffline(x))) ELSE Unreachable(x, assumed)
OnConnectivity(x, online, assumed) ==
  Heard([x EXCEPT !.connUnknown = assumed, !.online = online], online, assumed)
(* The verdict is asked now; one that cannot be read is assumed off.       *)
Assess(x) == OnConnectivity(x, OnlineOf(x) /\ Ok("conn"), ~Ok("conn"))

(******************************** Ticks ************************************)

(* SetDeviceAutoconnect, each call by itself: done; failed but applied     *)
(* ("late"), which no error can tell; or failed and lost.                  *)
Flips == IF "auto" \in Failing THEN {"done", "late", "lost"} ELSE {"done"}
Restore(x, call) == [x EXCEPT !.restore = (call # "done"), !.auto = IF call = "lost" THEN @ ELSE TRUE]
Suppress(x, call) == [x EXCEPT !.auto = IF call = "lost" THEN @ ELSE FALSE]
Repaint(x, probe) ==
  IF x.narration \in {"boot-offline", "boot-no-internet", "boot-link-unknown"} /\ x.narration # BootReason(probe)
  THEN Notify([x EXCEPT !.narration = BootReason(probe)], "retry", BootReason(probe)) ELSE x

(* What an unexpected reading does to the window just before a raise.      *)
Guarded(x, g) == IF g = "present" THEN Repaint(ClearOffline(x), g)
                 ELSE Repaint(RelocUnknown(PauseWindow(x)), g)

PauseEpisode(x) ==
  IF x.samples = 0 /\ x.cycle = 0 THEN x ELSE [x EXCEPT !.epause = 1, !.efresh = 2]

(* episodeSample: an unclaimed device on a network without internet; a     *)
(* sample counts only while no hub talks to it, within a budget.           *)
LastCycle(x) == x.cycle >= Cycles
EpisodeRaise(x) ==
  Transition(ResetJoinStatus(ClearOffline(
    [x EXCEPT !.samples = 0, !.cycle = Least(Cycles + 1, @ + 1), !.raises = Least(Cycles + 1, @ + 1)])),
    "ap", "setup-incomplete")
EpisodeCount(x) == IF x.samples < x.target \/ x.efresh > 0 THEN x ELSE EpisodeRaise(x)
EpisodeSampled(x, target) ==
  EpisodeCount([x EXCEPT !.target = target, !.epause = 0, !.samples = Least(target, @ + 1), !.efresh = Dec(@)])
EpisodeSample(x) ==
  IF dev.claimed \/ x.online THEN x
  ELSE IF x.settled THEN IF Ok("probe") /\ dev.wired THEN CancelEpisode(x) ELSE x
  ELSE IF x.connUnknown \/ ~Ok("probe") THEN PauseEpisode(x)
  ELSE IF dev.wired THEN CancelEpisode(x)
  ELSE IF dev.busy /\ x.deferred < Deferrals THEN PauseEpisode([x EXCEPT !.deferred = @ + 1])
  ELSE EpisodeSampled(x, IF x.target = 0 THEN EpisodeWindow ELSE x.target)

AfterSample(x) == IF x.st = "ap" THEN x ELSE Reconcile(Repaint(x, "present"))
WindowStep(x, g) ==
  IF ~WindowExpired(x) THEN Reconcile(x)
  ELSE IF g # "absent" THEN Reconcile(Guarded(x, g))
  ELSE Transition([ResetJoinStatus(ClearOffline(x)) EXCEPT !.quiet = x.quiet], "ap", "sustained-offline")
AbsentStep(x, g) ==
  IF x.connUnknown \/ ~Relocated(x) THEN WindowStep(RecordAbsent(Repaint(x, "absent")), g)
  ELSE IF g # "absent" THEN Reconcile(Guarded(x, g))
  ELSE Transition(ResetJoinStatus(ClearOffline(Disarm(x))), "ap", "relocated")
RetryTick(x, g) ==
  CASE Probe(x) = "present" -> AfterSample(EpisodeSample(ClearOffline(x)))
    [] Probe(x) = "unknown" -> Reconcile(Repaint(RelocUnknown(PauseWindow(x)), "unknown"))
    [] OTHER -> AbsentStep(FirstScan(CancelEpisode(x)), g)

UnprovisionedAbsent(x) ==
  IF ~WindowExpired(x) THEN Reconcile(x)
  ELSE IF dev.profile THEN Transition(ClearOffline(x), "retry", "offline")
  ELSE Transition(ResetJoinStatus(ClearOffline(x)), "ap", "unprovisioned")
UnprovisionedTick(x) ==
  CASE x.online -> Reconcile(x)
    [] ~x.online /\ Probe(x) = "present" -> Reconcile(ClearOffline(x))
    [] ~x.online /\ Probe(x) = "unknown" -> Reconcile(PauseWindow(x))
    [] OTHER -> UnprovisionedAbsent(RecordAbsent(x))

(* Where a session lands: restingStateForProfile, teardownLandingDetail.   *)
Resting == IF dev.profile THEN "retry" ELSE "unprovisioned"
Landing == IF dev.claimed THEN "ap-session-ended-silent" ELSE "ap-session-ended"
Lowered(x) == [EnsureAPDown(x) EXCEPT !.phase = NoTimer]

(* runRecheckBlink: lower the hotspot, scan, try the saved networks in     *)
(* range, raise it again.  A blink may fail to look: the scan or the list  *)
(* of profiles errs, comes back empty, or the budget is spent; or it looks *)
(* and no activation works.  Only what it measured lengthens the wait.     *)
Blinks ==
  (IF dev.near /\ dev.profile THEN {"joined"} ELSE {"gone"})
    \cup (IF Ok("scan") THEN {} ELSE {"unmeasured"}) \cup (IF Ok("activate") THEN {} ELSE {"gone"})
BlinkEnds(x, reason, found) ==
  CASE found = "joined" -> Assess([x EXCEPT !.link = "wifi", !.phase = NoTimer])
    [] found = "gone" -> Transition([x EXCEPT !.recheck = Least(Rungs, @ + 1)], "ap", reason)
    [] OTHER -> Transition(x, "ap", reason)
Blink(x, reason, found) == IF x.pend THEN ArmTimer(x) ELSE BlinkEnds(Transition(x, "retry", "ap-recheck"), reason, found)
RecheckBlink(x, found) == Blink(EnsureAPDown(x), x.sreason, found)

EndEpisodePhase(x) ==
  IF LastCycle(x) THEN Transition([Lowered(x) EXCEPT !.settled = TRUE], "retry", "setup-incomplete-settled")
  ELSE Transition([Lowered(x) EXCEPT !.samples = 0, !.epause = 0, !.efresh = 0, !.target = EpisodeWindow],
                  "retry", "ap-session-ended")

(* sessionExpiryDue: a phase is prolonged while the portal is in use, up   *)
(* to a ceiling; only a recheck session has no absolute cap.               *)
Capped(x) == x.policy # "recheck" /\ x.first >= Cap
ExpiryDue(x) ==
  /\ Bound(x) > 0 /\ x.phase # NoTimer
  /\ Capped(x) \/ x.phase >= Bound(x) + (IF dev.busy THEN Ceiling ELSE 0)

Expire(x, found) ==
  CASE x.policy = "recheck" -> RecheckBlink(x, found)
    [] x.policy = "episode" -> EndEpisodePhase(x)
    [] x.policy = "user" -> Transition(ClearOffline(Lowered(x)), Resting, Landing)

APTick(x, found) ==
  CASE x.up /\ x.policy # "unbounded" /\ Ok("probe") /\ dev.wired ->
         Transition(ClearOffline(CancelEpisode(Lowered(x))), Resting, Landing)
    [] x.up /\ ~(x.policy # "unbounded" /\ Ok("probe") /\ dev.wired) ->
         IF ExpiryDue(x) THEN Expire(x, found) ELSE Reconcile(x)
    [] ~x.up /\ Probe(x) = "present" -> Transition(ClearOffline(x), Resting, "link-present")
    [] OTHER -> Reconcile(x)

(* applyPortalClientAttached: only the raise the event was queued under is *)
(* painted, and without an address to show the paint is owed to a tick.    *)
Attached(x, gen) ==
  IF ~x.up \/ x.st # "ap" \/ gen # x.gen THEN x
  ELSE IF ~Ok("url") THEN [x EXCEPT !.attach = TRUE]
  ELSE Notify([x EXCEPT !.attach = FALSE], "ap", "ap-client-attached")
RetryPendingAttach(x) == IF x.attach /\ x.up /\ x.st = "ap" THEN Attached(x, x.gen) ELSE x
(* rearmAttachedClientIfIdle and the station polls: the phone left.        *)
ClientLeft(x, gen, why) == IF ~x.up \/ x.st # "ap" \/ ~x.seen \/ gen # x.gen THEN x
                           ELSE Notify(Unlatched(x), "ap", why)

Ticked(x, g, found) ==
  CASE x.st = "retry" -> RetryTick(x, g)
    [] x.st = "unprovisioned" -> UnprovisionedTick(x)
    [] x.st = "ap" -> APTick(x, found)
    [] OTHER -> Reconcile(x)
Rearmed(x) == IF dev.busy THEN x ELSE ClientLeft(x, x.gen, "ap-client-idle")
Reassessed(x) == IF x.connUnknown /\ Ok("conn") THEN Assess(x) ELSE x
Restored(x, on) == IF x.restore THEN Restore(x, on) ELSE x
OnTick(x, g, on, found) == Ticked(Rearmed(RetryPendingAttach(Reassessed(Restored(x, on)))), g, found)

Aged(x) == [x EXCEPT !.phase = IF @ = NoTimer THEN @ ELSE Least(NoTimer - 1, @ + 1),
                     !.first = Least(Cap, @ + 1)]

(***************************** Portal and user *****************************)

(* applyJoin: from the raised hotspot, through a teardown that must work.  *)
Joining(x) == Notify([x EXCEPT !.st = "joining", !.status = "busy", !.phase = NoTimer], "joining", "")
JoinStep(x, joined) ==
  IF x.pend \/ ~joined THEN Transition([x EXCEPT !.status = "failed"], "ap", "join-failed")
  ELSE Assess(CancelEpisode([x EXCEPT !.link = "wifi", !.status = "ok"]))
ApplyJoin(x, joined) == IF x.st # "ap" THEN x ELSE JoinStep(EnsureAPDown(Joining(x)), joined)

(* applyRescan: the hotspot blinks with autoconnect off; the restore is    *)
(* deferred before the suppression, whatever that one returns.             *)
RestoreIfSuppressed(x, off, on) == IF off = "done" THEN Restore(x, on) ELSE x \* mutant
RestoreAfter(x, off, on) == Restore(x, on)
Rescanning(x, off) == Suppress(Notify(ArmTimer([x EXCEPT !.status = "idle"]), "ap", "scanning"), off)
Bounce(x, off) == Reconcile(EnsureAPDown(Rescanning(x, off)))
ApplyRescan(x, off, on) == IF x.st # "ap" THEN x ELSE RestoreAfter(Bounce(x, off), off, on)

ApplyUserSetup(x) ==
  IF x.st \in {"joining", "starting"} THEN x
  ELSE ArmTimer(Transition(ResetJoinStatus(ClearOffline(x)), "ap", "user-requested"))

(******************************* The loop **********************************)

(* loop: a fresh start tears down whatever hotspot a crash left behind.    *)
LoopStart(x) == Assess(TornDown(x))

(* Connectivity's subscription tells every change, also those the machine  *)
(* makes itself, which wait in the channel while the machine ticks.        *)
(* An event keeps the raise it was queued under: Past once another is made.*)
Past == 9
Aging(x, q) == [i \in DOMAIN q |-> IF q[i][1] \in {"attached", "left"} /\ x.gen # m.gen
                                  THEN <<q[i][1], Past>> ELSE q[i]]
Telling(d, x, q) == LET on == d.inet /\ (x.link = "wifi" \/ d.wired) IN
                 IF on # Online THEN Append(Aging(x, q), <<"conn", on>>) ELSE Aging(x, q)

Begin == /\ m.st = "starting"
         /\ m' = LoopStart(m) /\ events' = Telling(dev, m', events) /\ UNCHANGED <<dev, requests>>

Handle(e, joined, off, on) ==
  CASE e[1] = "conn" -> OnConnectivity(m, e[2], FALSE)
    [] e[1] = "join" -> ApplyJoin(m, joined)
    [] e[1] = "rescan" -> ApplyRescan(m, off, on)
    [] e[1] = "setup" -> ApplyUserSetup(m)
    [] e[1] = "claim" -> IF dev.claimed THEN CancelEpisode(m) ELSE m
    [] e[1] = "attached" -> Attached(m, e[2])
    [] e[1] = "left" -> ClientLeft(m, e[2], "ap-client-left")

Event ==
  /\ m.st # "starting" /\ events # << >>
  /\ \E joined \in {FALSE, dev.near}, off, on \in Flips : m' = Handle(Head(events), joined, off, on)
  /\ events' = Telling(dev, m', Tail(events))
  /\ dev' = IF Head(events)[1] = "join" /\ m'.status = "ok" THEN [dev EXCEPT !.profile = TRUE] ELSE dev
  /\ UNCHANGED requests

(* The reading just before a raise may differ from the tick's own.  Bound: *)
(* the loop is never more than three events behind.                        *)
Tick ==
  /\ m.st # "starting" /\ Len(events) <= 2
  /\ \E g \in {"absent"} \cup (IF "flap" \in Worlds THEN {"present", "unknown"} ELSE {}) :
       \E on \in Flips, found \in Blinks : m' = OnTick(Aged(m), g, on, found)
  /\ events' = Telling(dev, m', events) /\ UNCHANGED <<dev, requests>>

(****************************** The world **********************************)

Asked == requests < MaxRequests /\ requests' = requests + 1
Queue(e) == events' = IF Len(events) < 2 THEN Append(events, e) ELSE events

World(d, x) == /\ Telling(d, x, events) # events => Len(events) < 2
               /\ dev' = d /\ m' = x /\ events' = Telling(d, x, events) /\ UNCHANGED requests

Associates ==
  /\ m.link = "absent" /\ ~m.radio /\ m.auto /\ dev.profile /\ dev.near
  /\ World(dev, [m EXCEPT !.link = "wifi"])
LinkChanges ==
  /\ "link" \in Worlds
  /\ \/ m.link = "wifi" /\ World(dev, [m EXCEPT !.link = "absent"])
     \/ Associates
InetChanges == "inet" \in Worlds /\ World([dev EXCEPT !.inet = ~@], m)
WireChanges == "wire" \in Worlds /\ World([dev EXCEPT !.wired = ~@], m)
NearChanges == "near" \in Worlds /\ World([dev EXCEPT !.near = ~@], m)
Breaks == \E f \in Failing \ {"auto"} : World([dev EXCEPT !.broken = IF f \in @ THEN @ \ {f} ELSE @ \cup {f}], m)
Contact == "portal" \in People /\ (dev.busy => events = << >>) /\ World([dev EXCEPT !.busy = ~@], m)

(* SetClaimed tells the machine; a full channel drops the event.           *)
Claims ==
  /\ "claim" \in Worlds
  /\ dev' = [dev EXCEPT !.claimed = ~@] /\ Queue(<<"claim", TRUE>>)
  /\ UNCHANGED <<m, requests>>
Asks(e) == Asked /\ Len(events) < 2 /\ Queue(<<e, TRUE>>) /\ UNCHANGED <<m, dev>>
JoinAsked == "join" \in People /\ m.up /\ Asks("join")
RescanAsked == "rescan" \in People /\ m.up /\ Asks("rescan")
(* StartWifiSetup refuses over a wired link.                               *)
SetupAsked == "setup" \in People /\ m.st \notin {"joining", "starting"} /\ Ok("probe") /\ ~dev.wired /\ Asks("setup")
(* observePortalTraffic: the first phone of a raise restarts the count of  *)
(* station polls, two of which in a row say that it left.                  *)
PhoneComes ==
  /\ "portal" \in People /\ m.up /\ ~m.seen /\ Len(events) < 2
  /\ m' = [m EXCEPT !.seen = TRUE] /\ dev' = [dev EXCEPT !.busy = TRUE]
  /\ events' = Append([i \in DOMAIN events |-> IF events[i][1] = "left" THEN <<"left", Past>> ELSE events[i]],
                      <<"attached", m.gen>>)
  /\ UNCHANGED requests
PhoneLeaves ==
  /\ "portal" \in People /\ m.up /\ m.seen /\ Len(events) < 2
  /\ \A i \in DOMAIN events : events[i] # <<"left", m.gen>>
  /\ Queue(<<"left", m.gen>>) /\ UNCHANGED <<m, dev, requests>>
(* The process dies, perhaps inside a rescan; what it did to the radio     *)
(* stays.  A stop pays the restore that is owed, and the teardown.         *)
Renewed(x) == [Machine EXCEPT !.auto = x.auto, !.radio = x.radio, !.link = x.link]
Bouncing == m.st = "ap" /\ events # << >> /\ Head(events)[1] = "rescan"
Crash ==
  /\ "crash" \in People /\ Asked
  /\ \E off \in Flips : m' \in {Renewed(m)} \cup (IF Bouncing THEN {Renewed(Suppress(m, off))} ELSE {})
  /\ events' = << >> /\ UNCHANGED dev
Stop ==
  /\ "crash" \in People /\ m.st # "starting" /\ Asked
  /\ \E on \in Flips : m' = Renewed(EnsureAPDown(Restored(m, on)))
  /\ events' = << >> /\ UNCHANGED dev

(* supervisor.run: a panic is recovered and the loop starts over with the  *)
(* fields it left.                                                         *)
Panics ==
  /\ "panic" \in People /\ m.st # "starting" /\ Asked
  /\ m' = LoopStart(Unlatched(m)) /\ events' = Telling(dev, m', events) /\ UNCHANGED dev

Loop == Begin \/ Event
Surroundings ==
  \/ LinkChanges \/ InetChanges \/ WireChanges \/ NearChanges \/ Breaks \/ Contact
  \/ Claims \/ JoinAsked \/ RescanAsked \/ SetupAsked \/ PhoneComes \/ PhoneLeaves \/ Crash \/ Stop \/ Panics

SetupNext == Loop \/ Tick \/ Surroundings

(* The loop selects between its events and its ticker, and NetworkManager  *)
(* joins a saved network it sees.                                          *)
SetupSpec == SetupInit /\ [][SetupNext]_setup_vars /\ WF_setup_vars(Loop) /\ WF_setup_vars(Tick) /\ WF_setup_vars(Associates)

(****************************** Properties *********************************)

(* A hotspot on the air is either the one the machine holds or one whose   *)
(* teardown it owes, whatever failed or crashed (apDownPending).           *)
APOwned == m.radio /\ m.st # "starting" => m.up \/ m.pend

(* What a panic leaves: the release error still holds the screen, although *)
(* the sweep of the next run has paid the teardown (setupErrorLatch).      *)
StaleLatch(x) == "panic" \in People /\ x.latch = "release"

(* The screen shows the state the machine is in, and a QR code only while  *)
(* its hotspot is up.                                                      *)
QR == {"ap-active", "ap-client-attached", "ap-client-left", "ap-client-idle"}
ShownTruth ==
  /\ m.shown[1] = m.st
  /\ m.shown[2] \in QR => m.radio \/ StaleLatch(m)
(* The address QR is for the phone of the raise that is up, never for a    *)
(* phone an earlier raise had (apRaiseGen).                                *)
PhoneOfThisRaise == m.shown[2] = "ap-client-attached" => m.seen \/ m.pend \/ StaleLatch(m)
(* The error screen goes with the failure it reports.                      *)
ErrorScreenCleared == m.shown[2] = "setup-error" => m.latch # ""

(* The screen tells the truth: of this state, of this raise, and of no     *)
(* error that is gone (provisioning.go 2412, 609, 3409).                   *)
ScreenTruth == ShownTruth /\ PhoneOfThisRaise /\ ErrorScreenCleared

(* Autoconnect that is off is owed back: by the latch that every tick      *)
(* retries, which a failed restore sets and a new process starts with,     *)
(* also when the suppression applied although its call failed (2286).      *)
AutoconnectOwed == ~m.auto => m.restore

(* A hotspot raised for a lost network was preceded by a whole window of   *)
(* readings without a link, none of them with one between.                 *)
RaisePatiently == m.st # "ap" /\ m'.st = "ap" /\ m'.why = "sustained-offline" => m'.quiet >= Window
PatientRaise == [][RaisePatiently]_setup_vars

(* The radio is borrowed: no raise drops a link that was seen inside its   *)
(* window (provisioning.go 1960), a hotspot is owned or its teardown owed, *)
(* and so is autoconnect (3058, 2330).                                     *)
RadioOwed == PatientRaise /\ [](APOwned /\ AutoconnectOwed)

(* A device on a network without internet is taken down for setup at most  *)
(* EpisodeRaiseCycles times before it settles.                             *)
EpisodeBounded == m.raises <= Cycles

(* A device that stays out of reach of any network offers setup.           *)
OffersSetup ==
  []<>(m.up \/ m.link # "absent" \/ dev.wired \/ dev.broken # {} \/ dev.near)
(* A saved network that comes back and stays is joined, whatever session   *)
(* holds the radio (runRecheckBlink, the phase bounds and the cap), once   *)
(* what fails has stopped failing; blinks that could not look, or whose    *)
(* activation failed, may come first, without bound (session.go 929).      *)
HomeComesBack ==
  []<>(m.link = "wifi" \/ dev.wired \/ dev.broken # {} \/ ~dev.near \/ ~dev.profile)
(* And while they fail the frame keeps trying: a hotspot that waits for a  *)
(* lost network never stands for good, it blinks again and again.          *)
BlinksGoOn == []<>(m.st # "ap" \/ m.policy # "recheck" \/ m.phase = 0)

=============================================================================
