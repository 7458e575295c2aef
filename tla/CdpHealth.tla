----------------------------- MODULE CdpHealth ------------------------------
(***************************************************************************)
(* feral-controld's CDP health reporter (cdphealth/cdphealth.go): it polls *)
(* whether the page target is connected and tells feral-watchdog over      *)
(* D-Bus, again and again, because a send may fail and a listener may have *)
(* restarted since.  Time is counted in polls; a time.Time is an age,      *)
(* saturated at the threshold.                                             *)
(***************************************************************************)
EXTENDS Integers

CONSTANTS
  Threshold,   \* StuckThreshold, in polls
  MaxWire      \* bound: signals on the bus at once

ASSUME HealthAssumption == Threshold \in Nat \ {0} /\ MaxWire \in Nat \ {0}

VARIABLES
  polled,      \* this interval's poll was made
  page,        \* cdp.Initialized(): the page target is connected
  since,       \* unhealthySince
  reported, lastReported,      \* an episode was reported, and how long ago
  everConfirmed, lastConfirmed,
  wire,        \* EVENT_CDP_STUCK signals sent and not yet handled, by word
  heard,       \* what the listener heard last, "nothing" at first
  apart        \* polls since the page target was last seen connected

reporter == <<since, reported, lastReported, everConfirmed, lastConfirmed>>
hvars == <<polled, page, reporter, wire, heard, apart>>

Never == -1
Words == {"stuck", "clear"}
Silence == [w \in Words |-> 0]
Aged(a) == IF a = Never THEN Never ELSE IF a < Threshold THEN a + 1 ELSE a

(* New: nothing known, nothing said; page and the bus as they are.         *)
Started ==
  /\ since = Never /\ reported = FALSE /\ lastReported = Never
  /\ everConfirmed = FALSE /\ lastConfirmed = Never

Init ==
  /\ polled = TRUE /\ page = FALSE /\ Started
  /\ wire = Silence /\ heard = "nothing" /\ apart = 0

Interval ==
  /\ polled /\ polled' = FALSE
  /\ since' = Aged(since) /\ lastReported' = Aged(lastReported)
  /\ lastConfirmed' = Aged(lastConfirmed) /\ apart' = Aged(apart)
  /\ UNCHANGED <<page, reported, everConfirmed, wire, heard>>

(* emit: the send fails and nothing is recorded, or the signal is out.     *)
Emit(word, sent) ==
  IF sent THEN /\ wire["stuck"] + wire["clear"] < MaxWire
               /\ wire' = [wire EXCEPT ![word] = @ + 1]
          ELSE wire' = wire

(* tick with the page target connected: the episode is over whatever       *)
(* becomes of the send; the confirmation is retried until it is out.       *)
Due(age) == age = Never \/ age >= Threshold
NeedsConfirm == reported \/ ~everConfirmed \/ Due(lastConfirmed)

EpisodeOverWhenTold(sent) == IF NeedsConfirm /\ ~sent THEN since ELSE Never
EpisodeOver(sent) == Never

TickHealthy(sent) ==
  /\ ~polled /\ polled' = TRUE /\ page
  /\ since' = EpisodeOver(sent) /\ apart' = 0
  /\ sent => NeedsConfirm
  /\ Emit("clear", sent)
  /\ IF NeedsConfirm /\ ~sent
     THEN UNCHANGED <<reported, lastReported, everConfirmed, lastConfirmed>>
     ELSE /\ reported' = FALSE /\ lastReported' = Never
          /\ everConfirmed' = TRUE
          /\ lastConfirmed' = IF NeedsConfirm THEN 0 ELSE lastConfirmed
  /\ UNCHANGED <<page, heard>>

(* tick with it disconnected: reported past the threshold and re-affirmed  *)
(* every threshold after.                                                  *)
Apart == IF since = Never THEN 0 ELSE since
NeedsReportOnce == Apart >= Threshold /\ ~reported
NeedsReport == Apart >= Threshold /\ (~reported \/ Due(lastReported))

TickUnhealthy(sent) ==
  /\ ~polled /\ polled' = TRUE /\ ~page
  /\ since' = Apart
  /\ sent => NeedsReport
  /\ Emit("stuck", sent)
  /\ IF sent THEN reported' = TRUE /\ lastReported' = 0
             ELSE UNCHANGED <<reported, lastReported>>
  /\ UNCHANGED <<page, everConfirmed, lastConfirmed, heard, apart>>

(* feral-controld restarts: the reporter starts from nothing.              *)
ControldRestart ==
  /\ since' = Never /\ reported' = FALSE /\ lastReported' = Never
  /\ everConfirmed' = FALSE /\ lastConfirmed' = Never
  /\ page' = FALSE /\ polled' = TRUE
  /\ apart' = 0 /\ UNCHANGED <<wire, heard>>

(* Every signal is handled on a goroutine of its own, so two of them may   *)
(* change places.  A listener that restarts knows nothing, and what was on *)
(* the wire for it is lost.                                                *)
Deliver(word) ==
  /\ wire[word] > 0
  /\ heard' = word /\ wire' = [wire EXCEPT ![word] = @ - 1]
  /\ UNCHANGED <<polled, page, reporter, apart>>

ListenerRestart ==
  /\ heard' = "nothing" /\ wire' = Silence
  /\ UNCHANGED <<polled, page, reporter, apart>>

PageMoves == page' = ~page /\ UNCHANGED <<polled, reporter, wire, heard, apart>>

Poll == \E sent \in BOOLEAN : TickHealthy(sent) \/ TickUnhealthy(sent)
Send == TickHealthy(TRUE) \/ TickUnhealthy(TRUE)

Next == Interval \/ Poll \/ ControldRestart \/ ListenerRestart \/ PageMoves
        \/ \E w \in Words : Deliver(w)

Spec == Init /\ [][Next]_hvars

(* The ticker runs, every poll completes, every signal is handled in the   *)
(* end, and a send that is tried again and again gets out.                 *)
FairSpec == Spec /\ WF_hvars(Interval) /\ WF_hvars(Poll)
                 /\ (\A w \in Words : WF_hvars(Deliver(w))) /\ SF_hvars(Send)
-----------------------------------------------------------------------------
Ages == {Never} \union 0 .. Threshold

(* Types; an open episode has a start (cdphealth.go 73-107).               *)
TypeOK ==
  /\ polled \in BOOLEAN /\ page \in BOOLEAN
  /\ since \in Ages /\ lastReported \in Ages /\ lastConfirmed \in Ages
  /\ reported \in BOOLEAN /\ everConfirmed \in BOOLEAN
  /\ wire \in [Words -> Nat] /\ wire["stuck"] + wire["clear"] <= MaxWire
  /\ heard \in {"nothing"} \union Words
  /\ apart \in 0 .. Threshold

(* Stuck is said only of a page target no poll saw connected for the whole *)
(* threshold, whatever sends failed before (cdphealth.go 145-160).         *)
StuckIsSustained ==
  [][TickUnhealthy(TRUE) => apart >= Threshold]_hvars

(* A listener that keeps running learns the state the page target settles  *)
(* in, even if it started after the report (cdphealth.go 77-107).          *)
ListenerLearns ==
  \A b \in BOOLEAN :
    <>[](page = b) /\ <>[][~ListenerRestart /\ ~ControldRestart]_hvars
      => <>[](heard = IF b THEN "clear" ELSE "stuck")
=============================================================================
