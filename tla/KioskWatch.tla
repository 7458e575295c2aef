---------------------------- MODULE KioskWatch ------------------------------
(***************************************************************************)
(* The watchdog's ladder (KioskLadder) and feral-controld's CDP health     *)
(* reporter (CdpHealth) around one kiosk, joined by the D-Bus signal       *)
(* EVENT_CDP_STUCK.  /json/version may answer while the page target stays  *)
(* out of reach (ffos-user#356): only the reporter can see that, and only  *)
(* the watchdog may act on it.  Check and poll intervals are both five     *)
(* seconds; nothing else orders the two daemons.                           *)
(***************************************************************************)
EXTENDS KioskLadder

CONSTANTS Threshold, MaxWire

VARIABLES
  polled, page, since, reported, lastReported, everConfirmed, lastConfirmed,
  wire, heard, apart,     \* CdpHealth's state
  proven     \* hold reboots since the page or a recovery was last seen

Health == INSTANCE CdpHealth

reporter == <<since, reported, lastReported, everConfirmed, lastConfirmed>>
bus == <<wire, heard>>
wvars == <<vars, polled, page, reporter, bus, apart, proven>>

WatchInit == Init /\ Health!Init /\ proven = 0

WatchTick ==
  /\ Tick /\ Health!Interval
  /\ UNCHANGED proven

(* A kiosk that no longer answers takes its page target with it.           *)
Follows == page' = (page /\ kiosk' = "up")

LadderStep ==
  /\ Check /\ ~Reboot /\ Follows
  /\ proven' = IF pc' = "answered" /\ loc'.recovered THEN 0 ELSE proven
  /\ UNCHANGED <<polled, reporter, bus, apart>>

MachineStep ==
  /\ Machine /\ Follows
  /\ UNCHANGED <<polled, reporter, bus, apart, proven>>

(* controld's dial reaches the page target of a Chromium that answers, and *)
(* loses it.                                                               *)
PageMoves ==
  /\ kiosk = "up" /\ Health!PageMoves
  /\ UNCHANGED <<vars, proven>>

Poll ==
  /\ Health!Poll /\ UNCHANGED vars
  /\ proven' = IF page THEN 0 ELSE proven

(* The mediator's signal handler.                                          *)
Deliver ==
  /\ \E w \in Health!Words : Health!Deliver(w) /\ SetCDPStuck(w = "stuck")
  /\ UNCHANGED proven

ListenerRestart ==
  /\ "restart" \in Events
  /\ WatchdogRestart /\ Health!ListenerRestart
  /\ UNCHANGED proven

ControldRestart ==
  /\ "restart" \in Events
  /\ Health!ControldRestart /\ UNCHANGED <<vars, proven>>

(* Both daemons start over.                                                *)
MachineBoots ==
  /\ Reboot \/ ("power" \in Events /\ PowerCut)
  /\ page' = FALSE /\ polled' = TRUE /\ apart' = 0
  /\ since' = Health!Never /\ reported' = FALSE
  /\ lastReported' = Health!Never
  /\ everConfirmed' = FALSE /\ lastConfirmed' = Health!Never
  /\ wire' = Health!Silence /\ heard' = "nothing"
  /\ proven' = IF pc = "reboot" /\ loc.elapsed THEN proven + 1 ELSE proven

WatchNext ==
  \/ WatchTick \/ LadderStep \/ MachineStep \/ PageMoves \/ Poll \/ Deliver
  \/ ListenerRestart \/ ControldRestart \/ MachineBoots

WatchSpec == WatchInit /\ [][WatchNext]_wvars

Sends == /\ Health!Send /\ UNCHANGED vars
         /\ proven' = IF page THEN 0 ELSE proven

(* Both tickers run, what they started goes on, the bus delivers.          *)
WatchFairSpec ==
  /\ WatchSpec
  /\ WF_wvars(WatchTick) /\ WF_wvars(LadderStep \/ MachineBoots)
  /\ WF_wvars(Poll) /\ WF_wvars(Deliver)
  /\ SF_wvars(Sends)
-----------------------------------------------------------------------------
(* The reboot cap holds against the truth, not against a report: between   *)
(* two moments at which a poll reached the page target or the kiosk came   *)
(* back under the error screen, at most MaxReboots holds end in a reboot   *)
(* (chromium.go 404-472).                                                  *)
CapNeedsHealth == proven <= MaxReboots

(* A kiosk whose /json/version answers while its page target stays out of  *)
(* reach is never left alone (cdphealth.go 1-14).                          *)
BlindSpotClosed ==
  /\ <>[](kiosk = "up" /\ display /\ vt)
  /\ SettledUpdater
  /\ <>[][~ListenerRestart /\ ~ControldRestart]_wvars
  => []<>page
=============================================================================
