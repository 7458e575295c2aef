------------------------------ MODULE Narration ------------------------------
(***************************************************************************)
(* setupui over overlay/controller.go: the narration that setup decides,   *)
(* the deliveries one worker paints in that order, and what the player,    *)
(* whose bundle is replaced under a running daemon, makes of them.         *)
(* Browser pairing is the other owner of the screen.                       *)
(***************************************************************************)
EXTENDS Naturals, Sequences

CONSTANTS
  Narrations,    \* of "claim_qr", "connecting", "recheck", "scanning"
  MaxShows,      \* decisions about the screen
  MaxFaults,     \* reloads, drops of the socket, bundle swaps
  MaxDeliveries,
  Faults,        \* of "drop", "reload", "swap", "torn"
  LeftOver       \* what an earlier life of the daemon left on the page

VARIABLES
  cur,        \* the controller's current overlay
  queue, busy,
  narrated, hiddenIntent, support, ext,
  url,        \* the claim URLs built
  page,       \* what the player shows
  player, manifest, cdp,
  missed,     \* a delivery was lost and nothing has replayed it yet
  resync, sweep, refresh,  \* Resync, SweepStaleOverlay, RefreshClaimQRName
  rebuild,    \* RefreshClaimQRURL: how far it is, and the URL it has built
  shows, faults
screen_vars == <<cur, queue, narrated, hiddenIntent, url>>
player_vars == <<page, player, manifest, cdp, missed, faults>>
vars == <<screen_vars, player_vars, busy, support, ext, resync, sweep, refresh, rebuild, shows>>

Extensions == {"connecting", "scanning", "finalizing", "setup_error", "factory_reset"}
FallsBack == {"connecting", "setup_error"}
Overlay(owner, st, mark, u) == [owner |-> owner, st |-> st, mark |-> mark, url |-> u]
Nothing == Overlay("nobody", "none", FALSE, 0)
Hidden == Overlay("setup", "hidden", FALSE, 0)
Narration(n, u) ==
  IF n = "recheck" THEN Overlay("setup", "connecting", TRUE, 0)
  ELSE Overlay("setup", n, FALSE, IF n = "claim_qr" THEN u ELSE 0)

Idle == [st |-> "idle", url |-> 0]
Init ==
  /\ cur = Nothing /\ queue = << >> /\ busy = << >> /\ narrated = FALSE /\ hiddenIntent = FALSE
  /\ support = "unknown" /\ ext = [e \in {"connecting", "scanning"} |-> "unknown"] /\ url = 0
  /\ page = LeftOver /\ player \in {"old", "new"} /\ manifest = player /\ cdp = "up" /\ missed = FALSE
  /\ resync = "idle" /\ sweep = "idle" /\ refresh = "idle" /\ rebuild = Idle
  /\ shows = 0 /\ faults = 0

(* enqueueLocked.                                                          *)
Enqueue(d) ==
  LET n == Len(queue) IN
  queue' = IF n > 0 /\ queue[n].hide = d.hide /\ queue[n].o.owner = d.o.owner /\ queue[n].o.st = d.o.st
           THEN [queue EXCEPT ![n] = d]
           ELSE Append(IF n >= MaxDeliveries THEN Tail(queue) ELSE queue, d)
Delivery(o, hide) == [o |-> o, hide |-> hide]

(* ShowIf with showOwned's hook, HideIf with hideIf's; each under the      *)
(* controller's lock.                                                      *)
ShowOwned(o) ==
  /\ cur' = o /\ Enqueue(Delivery(o, FALSE))
  /\ IF o.owner = "setup" THEN narrated' = TRUE /\ hiddenIntent' = FALSE
     ELSE UNCHANGED <<narrated, hiddenIntent>>
HideOwned ==
  /\ cur' = Nothing /\ Enqueue(Delivery(cur, TRUE))
  /\ hiddenIntent' = (hiddenIntent \/ cur.owner = "setup") /\ UNCHANGED narrated
AdmitsAutomatic == cur.owner \in {"nobody", "setup"}

Decides == shows < MaxShows /\ shows' = shows + 1
Rest == <<player_vars, busy, support, ext, resync, sweep, refresh, rebuild>>
Show ==
  /\ Decides /\ UNCHANGED Rest
  /\ \E n \in Narrations :
       /\ ShowOwned(Narration(n, url + 1))
       /\ url' = IF n = "claim_qr" THEN url + 1 ELSE url
ShowAutomatic ==
  /\ Decides /\ "claim_qr" \in Narrations /\ AdmitsAutomatic
  /\ ShowOwned(Narration("claim_qr", url + 1)) /\ url' = url + 1 /\ UNCHANGED Rest
ShowIfShowing ==
  /\ Decides /\ "connecting" \in Narrations /\ cur.owner = "setup" /\ cur.st \in Narrations
  /\ ShowOwned(Narration("connecting", 0)) /\ UNCHANGED <<url, Rest>>
Hide == Decides /\ cur.owner = "setup" /\ HideOwned /\ UNCHANGED <<url, Rest>>
HideIfShowing ==
  /\ Decides /\ cur.owner = "setup" /\ cur.st = "scanning" /\ HideOwned /\ UNCHANGED <<url, Rest>>
(* What is current is looked up, the URL is built without the lock, and it *)
(* is committed only if the claim QR is current then.                      *)
RefreshURL ==
  /\ rebuild = Idle /\ Decides /\ cur.owner = "setup" /\ cur.st = "claim_qr"
  /\ rebuild' = [Idle EXCEPT !.st = "builds"]
  /\ UNCHANGED <<screen_vars, player_vars, busy, support, ext, resync, sweep, refresh>>
BuildsURL ==
  /\ rebuild.st = "builds"
  /\ \/ url' = url + 1 /\ rebuild' = [st |-> "commits", url |-> url']
     \/ rebuild' = Idle /\ UNCHANGED url \* nothing was built
  /\ UNCHANGED <<cur, queue, narrated, hiddenIntent, player_vars, busy, support, ext, resync, sweep, refresh, shows>>
StillClaimQR == cur.owner = "setup" /\ cur.st = "claim_qr"
CommitsURL ==
  /\ rebuild.st = "commits" /\ rebuild' = Idle
  /\ IF StillClaimQR THEN ShowOwned(Narration("claim_qr", rebuild.url))
     ELSE UNCHANGED <<cur, queue, narrated, hiddenIntent>>
  /\ UNCHANGED <<url, player_vars, busy, support, ext, resync, sweep, refresh, shows>>
(* The name is resolved without the lock; the url is the one at commit.    *)
RefreshName ==
  /\ refresh = "idle" /\ Decides /\ cur.owner = "setup" /\ cur.st = "claim_qr"
  /\ refresh' = "resolved" /\ UNCHANGED <<screen_vars, player_vars, busy, support, ext, resync, sweep, rebuild>>
RefreshedUrl == cur.url
RefreshCommits ==
  /\ refresh = "resolved" /\ refresh' = "idle"
  /\ IF StillClaimQR THEN ShowOwned(Narration("claim_qr", RefreshedUrl))
     ELSE UNCHANGED <<cur, queue, narrated, hiddenIntent>>
  /\ UNCHANGED <<url, player_vars, busy, support, ext, resync, sweep, rebuild, shows>>
Pairing ==
  /\ Decides /\ UNCHANGED <<url, Rest>>
  /\ ShowOwned(Overlay("mint", "code", FALSE, 0)) \/ (cur.owner = "mint" /\ HideOwned)

(* SweepStaleOverlay: narrated is read first, an empty screen is the       *)
(* condition.                                                              *)
SweepReads ==
  /\ sweep = "idle" /\ sweep' = IF narrated THEN "done" ELSE "sweeps"
  /\ UNCHANGED <<screen_vars, player_vars, busy, support, ext, resync, refresh, rebuild, shows>>
Swept == cur = Nothing
SweepCommits ==
  /\ sweep = "sweeps" /\ sweep' = "done"
  /\ IF Swept THEN ShowOwned(Hidden) ELSE UNCHANGED <<cur, queue, narrated, hiddenIntent>>
  /\ UNCHANGED <<url, player_vars, busy, support, ext, resync, refresh, rebuild, shows>>

(* Resync replays what is current, or the hide that was.                   *)
ResyncReplays ==
  /\ resync = "due" /\ UNCHANGED <<cur, narrated, hiddenIntent, url, page, player, manifest, cdp, faults, busy, support, ext, sweep, refresh, rebuild, shows>>
  /\ IF cur.owner = "setup" THEN Enqueue(Delivery(cur, FALSE)) /\ missed' = FALSE /\ resync' = "idle"
     ELSE resync' = (IF hiddenIntent THEN "hides" ELSE "idle") /\ UNCHANGED <<queue, missed>>
ResyncHides ==
  /\ resync = "hides" /\ resync' = "idle"
  /\ IF cur = Nothing THEN Enqueue(Delivery(Hidden, TRUE)) /\ missed' = FALSE ELSE UNCHANGED <<queue, missed>>
  /\ UNCHANGED <<cur, narrated, hiddenIntent, url, page, player, manifest, cdp, faults, busy, support, ext, sweep, refresh, rebuild, shows>>

(* The worker: narrationSupported, resolveExtensionState, the send.        *)
Take ==
  /\ busy = << >> /\ queue # << >>
  /\ busy' = <<Head(queue)>> /\ queue' = Tail(queue)
  /\ UNCHANGED <<cur, narrated, hiddenIntent, url, player_vars, support, ext, resync, sweep, refresh, rebuild, shows>>
Readable == manifest \in {"old", "new"}
Supported == IF support # "unknown" THEN support ELSE IF Readable THEN "yes" ELSE IF manifest = "foreign" THEN "no" ELSE "unknown"
VerdictLatched(e) == IF ext[e] # "unknown" THEN ext[e] ELSE IF ~Readable THEN "unknown" ELSE IF manifest = "new" THEN "yes" ELSE "no" \* mutant: a verdict is kept for good
Verdict(e) == IF ~Readable THEN ext[e] ELSE IF manifest = "new" THEN "yes" ELSE "no"
Resolved(o, unsupported) ==
  IF ~unsupported THEN o.st ELSE IF o.mark THEN "hidden" ELSE IF o.st \in FallsBack THEN "join_failed" ELSE o.st
Rendered(st, u) ==
  IF st \in {"hidden", "none"} THEN [st |-> "none", url |-> 0]
  ELSE IF st \in Extensions /\ player = "old" THEN page
  ELSE [st |-> st, url |-> u]
Deliver ==
  /\ busy # << >> /\ busy' = << >>
  /\ LET d == busy[1]
         o == IF d.hide THEN [d.o EXCEPT !.st = "hidden", !.mark = FALSE] ELSE d.o
         sup == IF o.owner = "setup" THEN Supported ELSE "yes"
         asks == sup = "yes" /\ o.st \in DOMAIN ext
         v == IF asks THEN Verdict(o.st) ELSE "yes" IN
     /\ support' = IF o.owner = "setup" THEN sup ELSE support
     /\ ext' = IF asks THEN [ext EXCEPT ![o.st] = v] ELSE ext
     /\ IF sup = "yes" /\ cdp = "up"
        THEN page' = Rendered(Resolved(o, v = "no"), o.url) /\ UNCHANGED missed
        ELSE missed' = (missed \/ sup # "no") /\ UNCHANGED page
  /\ UNCHANGED <<screen_vars, player, manifest, cdp, faults, resync, sweep, refresh, rebuild, shows>>
-----------------------------------------------------------------------------
(* The kiosk: a socket that drops, a page that loads again and is resynced *)
(* once its handler is there, a bundle that is replaced.                   *)
Outside == faults < MaxFaults /\ faults' = faults + 1 /\ UNCHANGED <<screen_vars, busy, support, ext, sweep, refresh, rebuild, shows>>
Drop ==
  /\ "drop" \in Faults /\ cdp = "up" /\ Outside
  /\ cdp' = "down" /\ resync' = "idle" /\ UNCHANGED <<page, player, manifest, missed>>
Reload ==
  /\ "reload" \in Faults /\ manifest # "torn" /\ Outside
  /\ page' = [st |-> "none", url |-> 0] /\ player' = (IF Readable THEN manifest ELSE "old")
  /\ missed' = TRUE /\ resync' = "due" /\ cdp' = "up" /\ UNCHANGED manifest
Reconnect ==
  /\ cdp = "down" /\ cdp' = "up" /\ resync' = "due"
  /\ UNCHANGED <<screen_vars, busy, support, ext, sweep, refresh, rebuild, shows, page, player, manifest, missed, faults>>
Swap ==
  /\ Outside /\ \E m \in {"old", "new"} \cup (Faults \cap {"torn", "foreign"}) :
       m # manifest /\ manifest' = m
  /\ "swap" \in Faults /\ missed' = TRUE /\ UNCHANGED <<page, player, cdp, resync>>

Next ==
  \/ Show \/ ShowAutomatic \/ ShowIfShowing \/ Hide \/ HideIfShowing \/ RefreshURL \/ BuildsURL \/ CommitsURL \/ RefreshName \/ RefreshCommits
  \/ Pairing \/ SweepReads \/ SweepCommits \/ ResyncReplays \/ ResyncHides \/ Take \/ Deliver
  \/ Drop \/ Reload \/ Reconnect \/ Swap
Spec == Init /\ [][Next]_vars
-----------------------------------------------------------------------------
(* CurrentNarrationState.                                                  *)
Report ==
  LET unsupported == cur.st \in DOMAIN ext /\ ext[cur.st] = "no"
      st == Resolved(cur, unsupported) IN
  IF cur.owner # "setup" \/ support = "no" \/ st = "hidden" \/ (unsupported /\ st = cur.st) THEN "none" ELSE st

(* Once everything is delivered and nothing was lost since the last        *)
(* replay, page, decision and report agree, the claim URL included.        *)
Delivered == queue = << >> /\ busy = << >> /\ ~missed /\ resync = "idle" /\ cdp = "up" /\ support # "no" /\ manifest = player
ScreenIsDecision ==
  Delivered /\ (cur.owner = "setup" \/ hiddenIntent) /\ cur.owner # "mint"
    => /\ ~(player = "old" /\ cur.st = "scanning") => page.st = Report
       /\ cur.st = "claim_qr" => page.url = cur.url

(* A refresh begun over the claim QR never takes the screen from whoever   *)
(* narrated meanwhile, and one of the name leaves the URL that is current  *)
(* (setupui.go 690, 717).                                                  *)
RefreshIsPolite ==
  /\ RefreshCommits \/ CommitsURL => cur' = cur \/ (cur.st = "claim_qr" /\ cur'.st = "claim_qr")
  /\ RefreshCommits => cur'.url = cur.url

(* A sweep never takes a narration of this life off the screen.            *)
SweepSpares == SweepCommits => cur = Nothing

(* The intent to hide is that of the last decision of setup.               *)
HiddenIsNothingShown == hiddenIntent => cur.owner # "setup"

(* Not so: of two URLs built at once the older may be committed last.      *)
NewestIsShown == Delivered /\ cur.st = "claim_qr" /\ rebuild = Idle => page.url = url
=============================================================================
