------------------------------- MODULE OtaGate -------------------------------
(***************************************************************************)
(* otagate: one update check at a time for the owner's command, the boot   *)
(* check and the claim flow, the ladder of attempts behind it, the updater *)
(* unit whose log it follows, and what devicectl makes of the outcome.     *)
(***************************************************************************)
EXTENDS Naturals

CONSTANTS
  Boots,      \* goroutines of MaybeRunStartupOTAGateOnOnline
  Users,      \* updateToLatest commands
  Rounds,     \* claim rounds
  Tries,      \* MaxUpdateRetries
  Checks,     \* startupOTAGateMaxCheckAttempts
  Grace,      \* unitDeadGrace, in liveness polls
  Verdicts,   \* of "latest", "available", "required", "tooold", "fail"
  MaxTurns    \* changes of the outside

ASSUME GateAssumption == {"user", "claim"} \cap Boots = {}

VARIABLES
  flight,     \* the run of the singleflight key
  pc, got, t0,
  latch, latches, latched,  \* Failure(), how often it was set, by whom
  done, inFlight, checks,   \* of the boot check
  bootLadders, stretched,
  screen, unit, watchdog,
  settled, window, verdict, ctx, turns, asked
ladder_vars == <<flight, latch, latches, latched, unit, watchdog, bootLadders>>
outside_vars == <<settled, window, verdict, ctx, turns>>
update_vars == <<ladder_vars, pc, got, t0, done, inFlight, checks, stretched, screen, outside_vars, asked>>

Callers == Boots \cup {"user", "claim"}
Other == 1 \* an error that no ladder latched; those of the runs are above it
Land == [run |-> FALSE, id |-> Other, mode |-> "none", boot |-> FALSE, at |-> "none", try |-> 0, dead |-> 0]
NoLatch == [failed |-> FALSE, err |-> 0, at |-> 0]
NoAnswer == [res |-> "none", err |-> 0]

UpdateInit ==
  /\ flight = Land /\ pc = [c \in Callers |-> "idle"] /\ got = [c \in Callers |-> NoAnswer] /\ t0 = 0
  /\ latch = NoLatch /\ latches = 0 /\ latched = {} /\ done = FALSE /\ inFlight = FALSE
  /\ checks = [b \in Boots |-> 0]
  /\ bootLadders = 0 /\ stretched = "none" /\ screen = "none" /\ unit = "none" /\ watchdog = FALSE
  /\ settled \in BOOLEAN /\ window = TRUE /\ verdict \in Verdicts /\ ctx = "live" /\ turns = 0
  /\ asked = [user |-> 0, claim |-> 0]

(* Gate.do: the first caller's function runs, the others wait for it.      *)
Do(c, mode) ==
  flight' = IF flight.run THEN flight
            ELSE [Land EXCEPT !.run = TRUE, !.id = flight.id + 1, !.mode = mode, !.boot = c \in Boots, !.at = "check"]
Waiting == {c \in Callers : pc[c] = "waits"}
(* Everybody who waits gets the one result.                                *)
Lands(res, err) ==
  /\ flight' = [Land EXCEPT !.id = flight.id]
  /\ got' = [c \in Callers |-> IF pc[c] = "waits" THEN [res |-> res, err |-> err] ELSE got[c]]
  /\ pc' = [c \in Callers |-> IF pc[c] = "waits" THEN "returns" ELSE pc[c]]
Callers_vars == <<t0, done, inFlight, checks, stretched, asked>>

(* runLocal.  A failed check leaves the latch as it is.                    *)
Needed(mode) == verdict = "required" \/ (mode = "available" /\ verdict = "available")
Check ==
  /\ flight.at = "check" /\ UNCHANGED <<Callers_vars, outside_vars, screen, unit, watchdog, latches, latched>>
  /\ IF ctx # "live" \/ verdict = "fail" THEN Lands("check_failed", Other) /\ UNCHANGED <<latch, bootLadders>>
     ELSE IF verdict = "tooold" THEN Lands("too_old", 0) /\ UNCHANGED <<latch, bootLadders>>
     ELSE IF ~Needed(flight.mode) THEN Lands("latest", 0) /\ latch' = NoLatch /\ UNCHANGED bootLadders
     ELSE /\ latch' = NoLatch /\ flight' = [flight EXCEPT !.at = "start", !.try = 1]
          /\ bootLadders' = bootLadders + (IF flight.boot THEN 1 ELSE 0)
          /\ UNCHANGED <<pc, got>>
(* systemdRunner.Run and tail: the unit is followed until it reports or is *)
(* seen dead for the grace.                                                *)
StartUpdater ==
  /\ flight.at = "start" /\ flight' = [flight EXCEPT !.at = "tail", !.dead = 0]
  /\ unit' = "active"
  /\ UNCHANGED <<Callers_vars, outside_vars, pc, got, screen, watchdog, latch, latches, latched, bootLadders>>
Progress ==
  /\ flight.at = "tail" /\ unit = "active" /\ screen # "updating" /\ screen' = "updating"
  /\ UNCHANGED <<Callers_vars, ladder_vars, outside_vars, pc, got>>
(* The updater writes its last line, or dies without one.                  *)
UnitEnds ==
  /\ unit = "active" /\ unit' \in {"done", "transient", "permanent", "dead"}
  /\ UNCHANGED <<Callers_vars, outside_vars, pc, got, screen, flight, watchdog, latch, latches, latched, bootLadders>>
Poll ==
  /\ flight.at = "tail" /\ unit = "dead" /\ flight.dead < Grace /\ ctx = "live"
  /\ flight' = [flight EXCEPT !.dead = @ + 1]
  /\ UNCHANGED <<Callers_vars, outside_vars, pc, got, screen, unit, watchdog, latch, latches, latched, bootLadders>>
Failure ==
  IF unit = "permanent" THEN "permanent"
  ELSE IF unit = "transient" \/ (unit = "dead" /\ flight.dead = Grace) THEN "transient" ELSE "none"
Succeeds ==
  /\ flight.at = "tail" /\ unit = "done" /\ ctx = "live"
  /\ latch' = NoLatch /\ watchdog' = TRUE /\ Lands("started", 0)
  /\ UNCHANGED <<Callers_vars, outside_vars, screen, unit, latches, latched, bootLadders>>
Retries ==
  /\ flight.at = "tail" /\ Failure = "transient" /\ flight.try < Tries /\ ctx = "live"
  /\ flight' = [flight EXCEPT !.at = "start", !.try = @ + 1]
  /\ UNCHANGED <<Callers_vars, outside_vars, pc, got, screen, unit, watchdog, latch, latches, latched, bootLadders>>
(* latch, then OnPermanentFailure, then the return.                        *)
Latches ==
  /\ flight.at = "tail" /\ ctx = "live"
  /\ Failure = "permanent" \/ (Failure = "transient" /\ flight.try = Tries)
  /\ latch' = [failed |-> TRUE, err |-> flight.id, at |-> latches + 1] /\ latches' = latches + 1
  /\ latched' = latched \cup {flight.id} /\ flight' = [flight EXCEPT !.at = "tell"]
  /\ UNCHANGED <<Callers_vars, outside_vars, pc, got, screen, unit, watchdog, bootLadders>>
Told == IF ~settled THEN "join_failed" ELSE IF screen = "updating" THEN "none" ELSE screen
Tells ==
  /\ flight.at = "tell" /\ screen' = Told /\ Lands("started", flight.id)
  /\ UNCHANGED <<Callers_vars, outside_vars, unit, watchdog, latch, latches, latched, bootLadders>>
(* A cancelled ladder never latches.                                       *)
Cancelled ==
  /\ flight.at \in {"start", "tail"} /\ ctx # "live" /\ Lands("started", Other)
  /\ UNCHANGED <<Callers_vars, outside_vars, screen, unit, watchdog, latch, latches, latched, bootLadders>>
(* scheduleLadderRebootWatchdog: alive after all, so the panel comes down. *)
NoReboot ==
  /\ watchdog /\ watchdog' = FALSE
  /\ screen' = IF screen = "updating" THEN "none" ELSE screen
  /\ UNCHANGED <<Callers_vars, outside_vars, pc, got, flight, unit, latch, latches, latched, bootLadders>>
Flight == Check \/ StartUpdater \/ Poll \/ Succeeds \/ Retries \/ Latches \/ Tells \/ Cancelled
-----------------------------------------------------------------------------
(* MaybeRunStartupOTAGateOnOnline.                                         *)
MoveTo(c, to) == pc' = [pc EXCEPT ![c] = to]
BootRest == <<got, t0, latch, latches, latched, unit, watchdog, bootLadders, stretched, screen, outside_vars, asked>>
BootPasses == ~done /\ settled /\ window
BootAsks(b) ==
  /\ pc[b] = "idle" /\ BootPasses /\ MoveTo(b, "enter") /\ UNCHANGED <<flight, done, inFlight, checks, BootRest>>
BootEnters(b) ==
  /\ pc[b] = "enter" /\ UNCHANGED <<flight, done, checks, BootRest>>
  /\ IF inFlight THEN MoveTo(b, "over") /\ UNCHANGED inFlight ELSE MoveTo(b, "recheck") /\ inFlight' = TRUE
StillMineTrusted == TRUE \* mutant: what was read before the in-flight flag is trusted
StillMine == ~done /\ settled
BootRechecks(b) ==
  /\ pc[b] = "recheck" /\ UNCHANGED <<done, BootRest>>
  /\ IF StillMine
     THEN Do(b, "required") /\ MoveTo(b, "waits") /\ checks' = [checks EXCEPT ![b] = 1] /\ UNCHANGED inFlight
     ELSE MoveTo(b, "over") /\ inFlight' = FALSE /\ UNCHANGED <<flight, checks>>
BootReturns(b) ==
  /\ pc[b] = "returns" /\ UNCHANGED <<flight, checks, BootRest>>
  /\ IF got[b].res # "check_failed" \/ checks[b] >= Checks
     THEN MoveTo(b, "over") /\ done' = TRUE /\ inFlight' = FALSE
     ELSE MoveTo(b, "backoff") /\ UNCHANGED <<done, inFlight>>
BootRetries(b) ==
  /\ pc[b] = "backoff" /\ UNCHANGED <<done, BootRest>>
  /\ IF ctx = "live" /\ settled
     THEN Do(b, "required") /\ MoveTo(b, "waits") /\ checks' = [checks EXCEPT ![b] = @ + 1] /\ UNCHANGED inFlight
     ELSE MoveTo(b, "over") /\ inFlight' = FALSE /\ UNCHANGED <<flight, checks>>

(* updateToLatest: one at a time, its result is only logged.               *)
UserAsks ==
  /\ pc["user"] = "idle" /\ asked.user < Users /\ asked' = [asked EXCEPT !.user = @ + 1]
  /\ Do("user", "available") /\ MoveTo("user", "waits")
  /\ UNCHANGED <<got, t0, latch, latches, latched, unit, watchdog, bootLadders, done, inFlight, checks, stretched, screen, outside_vars>>
UserReturns ==
  /\ pc["user"] = "returns" /\ MoveTo("user", "idle")
  /\ UNCHANGED <<flight, done, inFlight, checks, BootRest>>

(* A round of the claim flow: t0 is read before the gate, Failure() after  *)
(* it; a failed ladder stretches the cadence.                              *)
ClaimRound ==
  /\ pc["claim"] = "idle" /\ asked.claim < Rounds /\ ~settled /\ asked' = [asked EXCEPT !.claim = @ + 1]
  /\ t0' = latches /\ MoveTo("claim", "asks") /\ stretched' = "none" /\ latched' = {}
  /\ UNCHANGED <<got, latch, latches, unit, watchdog, bootLadders, done, inFlight, checks, screen, outside_vars, flight>>
ClaimAsks ==
  /\ pc["claim"] = "asks" /\ Do("claim", "required") /\ MoveTo("claim", "waits")
  /\ UNCHANGED <<got, t0, latch, latches, latched, unit, watchdog, bootLadders, done, inFlight, checks, stretched, screen, outside_vars, asked>>
LatchedSince ==
  /\ got["claim"].err # 0 /\ latch.failed
  /\ (latch.at > t0 \/ got["claim"].err = latch.err)
ClaimReturns ==
  /\ pc["claim"] = "returns" /\ MoveTo("claim", "idle")
  /\ stretched' = IF LatchedSince THEN "stretched" ELSE "normal"
  /\ UNCHANGED <<got, t0, done, inFlight, checks, screen, outside_vars, asked, ladder_vars>>

(* The outside: the owner, the clock, the distributor, a shutdown.         *)
Outside ==
  /\ turns < MaxTurns /\ turns' = turns + 1
  /\ UNCHANGED <<ladder_vars, pc, got, Callers_vars, screen>>
  /\ \/ settled' = ~settled /\ UNCHANGED <<window, verdict, ctx>>
     \/ window /\ window' = FALSE /\ UNCHANGED <<settled, verdict, ctx>>
     \/ verdict' \in Verdicts \ {verdict} /\ UNCHANGED <<settled, window, ctx>>
     \/ ctx = "live" /\ ctx' = "done" /\ UNCHANGED <<settled, window, verdict>>

Boot(b) == BootAsks(b) \/ BootEnters(b) \/ BootRechecks(b) \/ BootReturns(b) \/ BootRetries(b)
UpdateNext ==
  \/ Flight \/ Progress \/ UnitEnds \/ NoReboot
  \/ \E b \in Boots : Boot(b)
  \/ UserAsks \/ UserReturns \/ ClaimRound \/ ClaimAsks \/ ClaimReturns \/ Outside
UpdateSpec == UpdateInit /\ [][UpdateNext]_update_vars /\ WF_flight(Flight) /\ WF_unit(UnitEnds) /\ WF_watchdog(NoReboot)
-----------------------------------------------------------------------------
(* The boot check springs at most one update on a frame that plays.        *)
OneBootLadder == bootLadders <= 1

(* Only a ladder that was exhausted during the round stretches the claim   *)
(* cadence to hours.                                                       *)
StretchIsEarned == stretched = "stretched" => latched # {} \/ got["claim"].err \notin {0, Other}

(* What the gate springs on a frame (executor.go 1586, 1219).              *)
UpdatesEarned == OneBootLadder /\ StretchIsEarned

(* "updating" comes off the screen of a frame that goes on living.         *)
UpdatingEnds == []<>(screen # "updating" \/ ctx # "live")
=============================================================================
