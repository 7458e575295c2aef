----------------------------- MODULE ClaimScreen -----------------------------
(***************************************************************************)
(* devicectl/executor.go: who may claim the frame and what its panel says  *)
(* about it.  The automatic claim flow, the relayer's showPairingQRCode,   *)
(* connect, the first owner, a release and the factory reset each run on a *)
(* goroutine of their own over the persisted claim, the control invitation *)
(* and its watch, the device name and the setup overlay.                   *)
(***************************************************************************)
EXTENDS Naturals, FiniteSets

CONSTANTS
  MaxRuns,   \* how often each of Procs may start
  MaxInv,    \* invitations minted
  MaxOthers, \* times another narrator takes the panel
  Names,     \* names an owner gives; 0 is the serial
  Faults     \* of "gate", "retire", "save", "clear", "unit"

VARIABLES
  claim,     \* ConnectedDevice, relayer topic, pairingConfirmed
  owner,     \* the control authority: "legacy", "enrolled", "retired"
  name,      \* on the disk and on the air (mDNS)
  lock,      \* deviceNameMu, held over more than a step by a rename only
  inv, made, \* the redeemable invitation, or 0; how many were minted
  timer,     \* invTimer is armed
  overlay,    \* the current overlay, what a claim QR carries with it
  enrollQR, staged, resetWatch,
  others, runs, pr
claim_vars == <<claim, owner, name, lock, inv, made, timer, overlay, enrollQR, staged,
          resetWatch, others, runs, pr>>

Procs == {"auto", "cmd", "rel", "link", "timer", "conn", "hide", "hook", "reset", "rename"}
Painters == {"auto", "cmd", "rel"}
Setup == {"finalizing", "claim_qr", "ready", "factory_reset", "softap_qr", "join_failed", "updating", "connecting"}

Bare(st) == [st |-> st, inv |-> 0, name |-> 0, topic |-> 0]
Nothing == Bare("none")
QRShowing == overlay.st = "claim_qr"
HideIfShowing(states) == overlay' = IF overlay.st \in states THEN Nothing ELSE overlay
Settled == claim.device \/ claim.confirmed \/ owner = "enrolled"

Idle == [pc |-> "idle", next |-> "idle", job |-> "show", t |-> 0, i |-> 0, before |-> 0, was |-> FALSE]
At(p, pc) == pr[p].pc = pc
Go(p, pc) == pr' = [pr EXCEPT ![p].pc = pc]
End(p) == pr' = [pr EXCEPT ![p] = Idle]
MayStart(p) == At(p, "idle") /\ runs[p] < MaxRuns[p]
Starts(p) == runs' = [runs EXCEPT ![p] = @ + 1]
State == <<claim, owner, name, lock, enrollQR, staged, resetWatch, others, runs>>

ClaimInit ==
  /\ claim = [device |-> FALSE, topic |-> 0, confirmed |-> FALSE]
  /\ owner = "legacy" /\ name = [disk |-> 0, air |-> 0] /\ lock = "free"
  /\ inv = 0 /\ made = 0 /\ timer = FALSE /\ overlay = Nothing
  /\ enrollQR = FALSE /\ staged = FALSE /\ resetWatch = FALSE /\ others = 0
  /\ runs = [p \in Procs |-> 0] /\ pr = [p \in Procs |-> Idle]

(* clearControlInvitation: the watch is stopped first, then the invitation *)
(* is voided; the two have locks of their own.                             *)
Clear(p, next) ==
  /\ timer' = FALSE
  /\ pr' = [pr EXCEPT ![p].pc = "void", ![p].next = next]
Void(p) ==
  /\ At(p, "void") /\ inv' = 0
  /\ IF pr[p].next = "idle" THEN End(p) ELSE Go(p, pr[p].next)
  /\ UNCHANGED <<State, made, timer, overlay>>

(* buildDeviceConnectURL reads the topic, then asks for an invitation: one *)
(* with time left is reused, the watch of it is armed again.               *)
Build(p) ==
  /\ At(p, "build")
  /\ pr' = [pr EXCEPT ![p].t = claim.topic, ![p].pc = "mint"]
  /\ UNCHANGED <<State, inv, made, timer, overlay>>
Reusable(p) == inv # 0 /\ p # "timer"
Mint(p) ==
  /\ At(p, "mint") /\ UNCHANGED <<State, overlay>>
  /\ IF (~claim.device \/ enrollQR) /\ owner = "legacy"
     THEN \E i \in (IF Reusable(p) THEN {inv} ELSE {}) \cup {made + 1} :
            /\ i <= MaxInv /\ inv' = i
            /\ made' = IF i > made THEN i ELSE made
            /\ timer' = TRUE
            /\ pr' = [pr EXCEPT ![p].i = i, ![p].pc = pr[p].job]
     ELSE /\ timer' = FALSE /\ UNCHANGED <<inv, made>>
          /\ pr' = [pr EXCEPT ![p].i = 0, ![p].pc = "void", ![p].next = pr[p].job]

(* paintClaimQRWithInvitation: an invitation that was on the panel before  *)
(* does not return with a repaint, and one whose paint was refused goes.   *)
Paint(p) ==
  /\ p \in Painters /\ At(p, "paint")
  /\ IF QRShowing THEN Go(p, "build") /\ UNCHANGED timer ELSE Clear(p, "build")
  /\ UNCHANGED <<State, inv, made, overlay>>
Covers(p) == p # "auto" \/ overlay.st \in Setup \cup {"none"}
Show(p) ==
  /\ p \in Painters /\ At(p, "show") /\ lock = "free"
  /\ overlay' = IF Covers(p)
               THEN [st |-> "claim_qr", inv |-> pr[p].i, name |-> name.disk, topic |-> pr[p].t]
               ELSE overlay
  /\ Go(p, "after") /\ UNCHANGED <<State, inv, made, timer>>
After(p) ==
  /\ At(p, "after")
  /\ IF ~QRShowing THEN Clear(p, "landed") ELSE Go(p, "landed") /\ UNCHANGED timer
  /\ UNCHANGED <<State, inv, made, overlay>>
(* refreshIfTopicLanded, of the automatic flow only.                       *)
Landed(p) ==
  /\ At(p, "landed")
  /\ IF p = "auto" /\ claim.topic # pr[p].before /\ QRShowing
     THEN pr' = [pr EXCEPT ![p].pc = "build", ![p].job = "push"]
     ELSE End(p)
  /\ UNCHANGED <<State, inv, made, timer, overlay>>
(* RefreshClaimQRURL: only a QR that is still up changes, and its name.    *)
Push(p) ==
  /\ At(p, "push") /\ End(p)
  /\ overlay' = IF QRShowing THEN [overlay EXCEPT !.inv = pr[p].i, !.topic = pr[p].t] ELSE overlay
  /\ UNCHANGED <<State, inv, made, timer>>

(* MaybeShowClaimQROnOnline: one run at a time; a call that finds one only *)
(* shortens its wait.                                                      *)
AutoEnter ==
  /\ ~staged /\ ~Settled /\ overlay' = Bare("finalizing")
  /\ pr' = [pr EXCEPT !["auto"].pc = "route", !["link"] = Idle]
AutoStart ==
  /\ MayStart("auto") /\ At("link", "idle") /\ AutoEnter /\ Starts("auto")
  /\ UNCHANGED <<claim, owner, name, lock, inv, made, timer, enrollQR, staged, resetWatch, others>>
AutoRoute ==
  /\ At("auto", "route") /\ UNCHANGED <<State, inv, made, timer>>
  /\ \/ /\ ~Settled /\ UNCHANGED overlay
        /\ pr' = [pr EXCEPT !["auto"].pc = "gate", !["auto"].before = claim.topic]
     \/ Settled /\ HideIfShowing({"finalizing"}) /\ End("auto")
     \/ /\ claim.topic = 0 /\ End("auto")
        /\ \/ HideIfShowing({"finalizing"})
           \/ overlay' = IF overlay.st = "finalizing" THEN Bare("connecting") ELSE overlay
AutoWakes ==
  /\ At("auto", "parked") /\ UNCHANGED <<State, inv, made, timer>>
  /\ IF Settled THEN HideIfShowing({"finalizing"}) /\ End("auto")
     ELSE /\ UNCHANGED overlay
          /\ pr' = [pr EXCEPT !["auto"].pc = "gate", !["auto"].before = claim.topic]

(* runPreClaimGateAndPaint, once the OTA gate has answered.                *)
GateLatest(p) ==
  IF (p = "auto" /\ Settled) \/ (pr[p].was /\ owner = "enrolled")
  THEN HideIfShowing({"finalizing"}) /\ End(p)
  ELSE Go(p, "paint") /\ UNCHANGED overlay
GateFails(p) ==
  /\ "gate" \in Faults
  /\ IF p = "auto" THEN Go(p, "parked") ELSE End(p)
  /\ \/ UNCHANGED overlay                                          \* the version check
     \/ overlay' = IF Settled THEN Nothing ELSE Bare("join_failed") \* the ladder
Gate(p) ==
  /\ p \in {"auto", "cmd"} /\ At(p, "gate") /\ UNCHANGED <<State, inv, made, timer>>
  /\ \/ GateLatest(p)
     \/ GateFails(p)
     \/ "gate" \in Faults /\ End(p) /\ (overlay' = Bare("updating") \/ HideIfShowing({"finalizing"}))

(* showPairingQRCode, both ways.                                           *)
ShowPairing ==
  /\ MayStart("cmd") /\ ~staged /\ Starts("cmd")
  /\ \E enroll \in BOOLEAN : enrollQR' = enroll
  /\ claim' = [claim EXCEPT !.confirmed = FALSE]
  /\ pr' = [pr EXCEPT !["cmd"].pc = "gate", !["cmd"].was = (owner # "enrolled")]
  /\ UNCHANGED <<owner, name, lock, inv, made, timer, overlay, staged, resetWatch, others>>
ConfirmPairing ==
  /\ MayStart("hide") /\ ~staged /\ Starts("hide")
  /\ enrollQR' = FALSE /\ claim' = [claim EXCEPT !.confirmed = TRUE]
  /\ overlay' = Bare("ready") /\ Go("hide", "hide")
  /\ UNCHANGED <<owner, name, lock, inv, made, timer, staged, resetWatch, others>>
(* Hide and clearControlInvitation end a confirmation and a first claim.   *)
Hide(p) ==
  /\ p \in {"hide", "conn"} /\ At(p, "hide")
  /\ HideIfShowing(Setup) /\ Go(p, "clear")
  /\ UNCHANGED <<State, inv, made, timer>>
ClearAfter(p) ==
  /\ p \in {"hide", "conn", "timer"} /\ At(p, "clear") /\ Clear(p, "idle")
  /\ UNCHANGED <<State, inv, made, overlay>>

(* connect: only an owner claims a protected device.                       *)
Connect ==
  /\ MayStart("conn") /\ ~staged /\ owner # "retired" /\ Starts("conn")
  /\ pr' = [pr EXCEPT !["conn"].pc = "set", !["conn"].was = claim.device]
  /\ UNCHANGED <<claim, owner, name, lock, inv, made, timer, overlay, enrollQR, staged, resetWatch, others>>
SetConnected ==
  /\ At("conn", "set")
  /\ claim' = [claim EXCEPT !.device = TRUE]     \* in memory even when the save fails
  /\ \/ IF pr["conn"].was THEN End("conn") ELSE Go("conn", "hide")
     \/ "save" \in Faults /\ End("conn")
  /\ UNCHANGED <<owner, name, lock, inv, made, timer, overlay, enrollQR, staged, resetWatch, others, runs>>

(* The first owner redeems an invitation; ControlOwnerEnrolled follows on  *)
(* the same goroutine.                                                     *)
Enroll ==
  /\ MayStart("hook") /\ owner = "legacy" /\ inv # 0 /\ Starts("hook")
  /\ owner' = "enrolled" /\ inv' = 0 /\ Go("hook", "stop")
  /\ UNCHANGED <<claim, name, lock, made, timer, overlay, enrollQR, staged, resetWatch, others>>
OwnerEnrolled ==
  /\ At("hook", "stop") /\ timer' = FALSE /\ enrollQR' = FALSE /\ Go("hook", "hide")
  /\ UNCHANGED <<claim, owner, name, lock, inv, made, overlay, staged, resetWatch, others, runs>>
OwnerHides ==
  /\ At("hook", "hide") /\ HideIfShowing({"claim_qr"}) /\ End("hook")
  /\ UNCHANGED <<State, inv, made, timer>>
(* releaseOwnership, and ControlReleased on a goroutine of its own.        *)
Release ==
  /\ MayStart("rel") /\ owner = "enrolled" /\ At("hook", "idle") /\ ~staged
  /\ owner' = "legacy" /\ Starts("rel") /\ Go("rel", "flag")
  /\ UNCHANGED <<claim, name, lock, inv, made, timer, overlay, enrollQR, staged, resetWatch, others>>
Released ==
  /\ At("rel", "flag") /\ enrollQR' = TRUE /\ Go("rel", "paint")
  /\ UNCHANGED <<claim, owner, name, lock, inv, made, timer, overlay, staged, resetWatch, others, runs>>

(* A topic is assigned; RefreshOrRunClaimQR.                               *)
TopicLands ==
  /\ MayStart("link") /\ Starts("link") /\ Go("link", "look")
  /\ claim' = [claim EXCEPT !.topic = runs["link"] + 1]
  /\ UNCHANGED <<owner, name, lock, inv, made, timer, overlay, enrollQR, staged, resetWatch, others>>
RefreshOrRun ==
  /\ At("link", "look") /\ UNCHANGED <<State, inv, made, timer>>
  /\ \/ /\ QRShowing /\ UNCHANGED overlay
        /\ pr' = [pr EXCEPT !["link"].pc = "build", !["link"].job = "push"]
     \/ ~QRShowing /\ At("auto", "idle") /\ AutoEnter
     \/ ~QRShowing /\ (~At("auto", "idle") \/ staged \/ Settled) /\ End("link") /\ UNCHANGED overlay

(* refreshInvitationQR, the callback of the watch.                         *)
InvitationTimer ==
  /\ timer /\ At("timer", "idle") /\ timer' = FALSE
  /\ IF owner = "enrolled" THEN UNCHANGED pr ELSE Go("timer", "look")
  /\ UNCHANGED <<State, inv, made, overlay>>
InvitationLook ==
  /\ At("timer", "look") /\ UNCHANGED <<State, inv, made, overlay>>
  /\ \/ ~QRShowing /\ Go("timer", "clear") /\ UNCHANGED timer
     \/ QRShowing /\ timer' = TRUE /\ End("timer")
     \/ /\ QRShowing /\ UNCHANGED timer
        /\ pr' = [pr EXCEPT !["timer"].pc = "build", !["timer"].job = "push"]
-----------------------------------------------------------------------------
(* factoryReset, in the order of its steps.                                *)
ResetStart ==
  /\ MayStart("reset") /\ ~staged /\ Starts("reset")
  /\ staged' = TRUE /\ timer' = FALSE /\ Go("reset", "retire")
  /\ UNCHANGED <<claim, owner, name, lock, inv, made, overlay, enrollQR, resetWatch, others>>
Retire ==
  /\ At("reset", "retire")
  /\ \/ owner' = "retired" /\ inv' = 0 /\ Go("reset", "topic") /\ UNCHANGED staged
     \/ /\ "retire" \in Faults /\ staged' = FALSE /\ End("reset")
        /\ UNCHANGED <<owner, inv>> \/ (owner' = "retired" /\ inv' = 0)
  /\ UNCHANGED <<claim, name, lock, made, timer, overlay, enrollQR, resetWatch, others, runs>>
InvalidateTopic ==
  /\ At("reset", "topic") /\ claim' = [claim EXCEPT !.topic = 0] /\ Go("reset", "claim")
  /\ UNCHANGED <<owner, name, lock, inv, made, timer, overlay, enrollQR, staged, resetWatch, others, runs>>
ClearClaim ==
  /\ At("reset", "claim") /\ claim' = [claim EXCEPT !.topic = 0, !.device = FALSE] /\ Go("reset", "name")
  /\ UNCHANGED <<owner, name, lock, inv, made, timer, overlay, enrollQR, staged, resetWatch, others, runs>>
ClearName ==
  /\ At("reset", "name") /\ lock = "free" /\ Go("reset", "confirmed")
  /\ \/ name' = [disk |-> 0, air |-> 0]
     \/ "clear" \in Faults /\ name' = [name EXCEPT !.air = 0]
  /\ UNCHANGED <<claim, owner, lock, inv, made, timer, overlay, enrollQR, staged, resetWatch, others, runs>>
ClearConfirmed ==
  /\ At("reset", "confirmed") /\ claim' = [claim EXCEPT !.confirmed = FALSE] /\ Go("reset", "panel")
  /\ UNCHANGED <<owner, name, lock, inv, made, timer, overlay, enrollQR, staged, resetWatch, others, runs>>
ShowReset ==
  /\ At("reset", "panel") /\ overlay' = Bare("factory_reset") /\ Go("reset", "unit")
  /\ UNCHANGED <<State, inv, made, timer>>
StartUnit ==
  /\ At("reset", "unit")
  /\ \/ resetWatch' = TRUE /\ End("reset") /\ UNCHANGED <<staged, overlay>>
     \/ "unit" \in Faults /\ staged' = FALSE /\ HideIfShowing({"factory_reset"}) /\ End("reset") /\ UNCHANGED resetWatch
  /\ UNCHANGED <<claim, owner, name, lock, inv, made, timer, enrollQR, others, runs>>
StuckReset ==
  /\ resetWatch /\ resetWatch' = FALSE
  /\ staged' = FALSE /\ (IF staged THEN HideIfShowing({"factory_reset"}) ELSE UNCHANGED overlay)
  /\ UNCHANGED <<claim, owner, name, lock, inv, made, timer, enrollQR, others, runs, pr>>

(* setDeviceName: the latch is read again under the lock.                  *)
Rename ==
  /\ MayStart("rename") /\ ~staged /\ Starts("rename") /\ Go("rename", "lock")
  /\ UNCHANGED <<claim, owner, name, lock, inv, made, timer, overlay, enrollQR, staged, resetWatch, others>>
AdmittedBefore == TRUE \* mutant: what was admitted is not asked again under the lock
StillAdmitted == ~staged
RenameLocks ==
  /\ At("rename", "lock") /\ lock = "free"
  /\ IF StillAdmitted THEN lock' = "rename" /\ Go("rename", "save") ELSE End("rename") /\ UNCHANGED lock
  /\ UNCHANGED <<claim, owner, name, inv, made, timer, overlay, enrollQR, staged, resetWatch, others, runs>>
RenameSaves ==
  /\ At("rename", "save")
  /\ \/ \E n \in Names : name' = [name EXCEPT !.disk = n] /\ Go("rename", "tell") /\ UNCHANGED lock
     \/ "save" \in Faults /\ lock' = "free" /\ End("rename") /\ UNCHANGED name
  /\ UNCHANGED <<claim, owner, inv, made, timer, overlay, enrollQR, staged, resetWatch, others, runs>>
RenameTells ==
  /\ At("rename", "tell") /\ lock' = "free" /\ End("rename")
  /\ name' = [name EXCEPT !.air = name.disk]
  /\ overlay' = IF QRShowing THEN [overlay EXCEPT !.name = name.disk] ELSE overlay
  /\ UNCHANGED <<claim, owner, inv, made, timer, enrollQR, staged, resetWatch, others, runs>>

(* Provisioning and mint pairing take the panel and give it back.          *)
OthersNarrate ==
  /\ others < MaxOthers /\ others' = others + 1
  /\ \/ \E st \in {"softap_qr", "mint"} : overlay' = Bare(st)
     \/ overlay.st \in {"softap_qr", "mint"} /\ overlay' = Nothing
  /\ UNCHANGED <<claim, owner, name, lock, inv, made, timer, enrollQR, staged, resetWatch, runs, pr>>

Flow(p) ==
  Void(p) \/ Build(p) \/ Mint(p) \/ Paint(p) \/ Show(p) \/ After(p) \/ Landed(p) \/ Push(p)
    \/ Gate(p) \/ Hide(p) \/ ClearAfter(p)
ClaimNext ==
  \/ \E p \in Procs : Flow(p)
  \/ AutoStart \/ AutoRoute \/ AutoWakes \/ ShowPairing \/ ConfirmPairing
  \/ Connect \/ SetConnected \/ Enroll \/ OwnerEnrolled \/ OwnerHides \/ Release \/ Released
  \/ TopicLands \/ RefreshOrRun \/ InvitationTimer \/ InvitationLook
  \/ ResetStart \/ Retire \/ InvalidateTopic \/ ClearClaim \/ ClearName \/ ClearConfirmed
  \/ ShowReset \/ StartUnit \/ StuckReset
  \/ Rename \/ RenameLocks \/ RenameSaves \/ RenameTells \/ OthersNarrate
ClaimSpec == ClaimInit /\ [][ClaimNext]_claim_vars
-----------------------------------------------------------------------------
Busy(p) == ~At(p, "idle")

(* An invitation is never left behind: while nobody is at work on it, its  *)
(* watch is armed, which voids it once its QR is gone (review N4d).        *)
InvitationWatched == inv # 0 => timer \/ \E p \in Procs \ {"rename"} : Busy(p)

(* Disk, mDNS and claim QR show one name whenever no rename is under way.  *)
NamesAgree ==
  lock = "free" /\ "clear" \notin Faults =>
    /\ name.disk = name.air
    /\ QRShowing /\ ~staged => overlay.name = name.disk

(* What the previous owner called the frame does not come back after the   *)
(* reset has cleared it, whatever was admitted before.                     *)
ResetForgetsName ==
  staged /\ pr["reset"].pc \in {"confirmed", "panel", "unit", "idle"} /\ "clear" \notin Faults => name.disk = 0

(* Who claims the frame, and under which name (executor.go 1167;           *)
(* device_name.go 53).                                                     *)
ClaimIsWatched == InvitationWatched /\ NamesAgree /\ ResetForgetsName
=============================================================================
