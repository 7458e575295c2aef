----------------------------- MODULE MintPairing -----------------------------
(***************************************************************************)
(* Mint pairing (mintpairing/service.go, displaygrant.go) with the session *)
(* cleanup of a factory reset (devicectl/executor.go) and the overlay that *)
(* shows the code: handlers take turns under startMu, a worker waits for   *)
(* the browser and the owner's decision, and the relayer session it makes  *)
(* must not outlive the topic it was made under.                           *)
(***************************************************************************)
EXTENDS Naturals, Sequences, FiniteSets, Overlay

CONSTANTS
  Starts,     \* pairings asked for with a code on the screen
  Joins,      \* pairings that join a website's channel
  Pairs,      \* all of them
  Displays,   \* those of them that ask for a display grant
  SameSite,   \* joins carry the same credential
  Faults,     \* "broker", "paint", "create", "revoke", "send", "gone"
  Resets,     \* BOOLEAN: a factory reset may come
  Other       \* another overlay of the controller's

ASSUME PairsAssumption == Pairs = Starts \cup Joins

VARIABLES
  pr,         \* the pairings, their workers and sessions
  lock,       \* startMu
  starting, active,
  topic,      \* TopicGeneration: odd while there is no topic
  reset,      \* the factory reset's progress and whom it waits for
  ov,         \* the overlay controller
  overrides   \* pairings whose OnOverride is still to be called

vars == <<pr, lock, starting, active, topic, reset, ov, overrides>>

Fresh == [pc |-> "free", guard |-> 0, auto |-> FALSE, canceled |-> FALSE, ctx |-> "live", over |-> FALSE,
          asked |-> FALSE, delivering |-> FALSE, accepted |-> "none", ended |-> FALSE, session |-> "none",
          made |-> "no", lost |-> FALSE, faulty |-> FALSE, old |-> Nobody]
Init ==
  /\ pr = [p \in Pairs |-> Fresh]
  /\ lock = Nobody /\ starting = Nobody /\ active = Nobody
  /\ topic = 0 /\ reset = [pc |-> "idle", waits |-> {}, drained |-> FALSE]
  /\ ov = NewController(Pairs \cup {Other}) /\ overrides = {}

TopicReady == topic % 2 = 0
Current(p) == pr[p].guard = topic
Over(p) == pr[p].pc \in {"ending", "done"}
Canceled(q, p) == [q EXCEPT ![p].ctx = IF @ = "live" THEN "canceled" ELSE @]
CancelStarting(q) == IF starting = Nobody THEN q ELSE [q EXCEPT ![starting].canceled = TRUE]
CancelActive(q) == IF active = Nobody THEN q ELSE Canceled(q, active)
Shown(p) == p \in Starts
Goto(p, pc) == [pr EXCEPT ![p].pc = pc]
Fault(f) == f \in Faults

(* showMint, and the OnOverride that follows once the lock is free.        *)
ShowMint(p, kind, automatic, live) ==
  IF Admits(ov, p, automatic, live)
  THEN ov' = Show(ov, p, kind) /\ overrides' = overrides \cup ({ov.cur} \cap (Pairs \ {p}))
  ELSE UNCHANGED <<ov, overrides>>

(***************************** Starting ************************************)

(* The guard is read before the handler's turn; a join first ends a start  *)
(* in flight.                                                              *)
Ask(p) ==
  /\ pr[p].pc = "free" /\ TopicReady
  /\ LET q == IF p \in Joins /\ ~(SameSite /\ starting \in Joins) THEN CancelStarting(pr) ELSE pr IN
     pr' = [q EXCEPT ![p].pc = "queued", ![p].guard = topic]
  /\ starting' = IF p \in Joins /\ ~(SameSite /\ starting \in Joins) THEN Nobody ELSE starting
  /\ UNCHANGED <<lock, active, topic, reset, ov, overrides>>

Expired(a) == a \notin Joins /\ pr[a].ctx = "expired"
(* A start finds a pairing already there, or none; a join replaces it.     *)
StartTurn(p) ==
  /\ p \in Starts /\ pr[p].pc = "queued" /\ lock = Nobody
  /\ IF active # Nobody /\ ~Expired(active)
     THEN /\ pr' = Goto(p, "done")
          /\ IF Shown(active) THEN ShowMint(active, IF pr[active].asked THEN "received" ELSE "code", pr[p].auto, TRUE) ELSE UNCHANGED <<ov, overrides>>
          /\ UNCHANGED <<lock, starting, active>>
     ELSE /\ active' = Nobody /\ lock' = p /\ starting' = p /\ pr' = Goto(p, "broker")
          /\ UNCHANGED <<ov, overrides>>
  /\ UNCHANGED <<topic, reset>>

JoinTurn(p) ==
  /\ p \in Joins /\ pr[p].pc = "queued" /\ lock = Nobody
  /\ IF active \in Joins /\ SameSite
     THEN pr' = Goto(p, "done") /\ UNCHANGED <<lock, active>>
     ELSE /\ pr' = [CancelActive(pr) EXCEPT ![p].pc = "replacing", ![p].old = active]
          /\ lock' = p /\ active' = Nobody
  /\ UNCHANGED <<starting, topic, reset, ov, overrides>>
(* The pairing that is replaced ends, or is left after a while; one that   *)
(* delivers its session is waited for, or the join is refused.             *)
Delivers(o) == pr[o].delivering /\ ~Over(o)
Replace(p) ==
  /\ pr[p].pc = "replacing"
  /\ IF pr[p].old = Nobody \/ ~Delivers(pr[p].old)
     THEN pr' = Goto(p, "broker") /\ starting' = p /\ UNCHANGED lock
     ELSE pr' = Goto(p, "done") /\ lock' = Nobody /\ UNCHANGED starting
  /\ UNCHANGED <<active, topic, reset, ov, overrides>>

(* What the handler leaves behind when it gives up.                        *)
DropQuietly(p) ==
  /\ pr' = [Canceled(pr, p) EXCEPT ![p].pc = "done"] /\ lock' = Nobody
  /\ starting' = (IF starting = p THEN Nobody ELSE starting) /\ active' = (IF active = p THEN Nobody ELSE active)
  /\ UNCHANGED ov \* mutant: the code stays on the screen
Drop(p) ==
  /\ pr' = [Canceled(pr, p) EXCEPT ![p].pc = "done"] /\ lock' = Nobody
  /\ starting' = (IF starting = p THEN Nobody ELSE starting) /\ active' = (IF active = p THEN Nobody ELSE active)
  /\ ov' = HideOwned(ov, p)

BrokerAnswers(p) ==
  /\ pr[p].pc = "broker"
  /\ \/ /\ pr[p].canceled \/ Fault("broker") \/ ~Current(p)
        /\ Drop(p) /\ UNCHANGED overrides
     \/ /\ Current(p) /\ Shown(p) /\ Admits(ov, p, pr[p].auto, ~pr[p].canceled)
        /\ ShowMint(p, "code", pr[p].auto, ~pr[p].canceled)
        /\ pr' = Goto(p, "showing") /\ UNCHANGED <<lock, starting, active>>
     \/ /\ Current(p) /\ Shown(p) /\ ~Admits(ov, p, pr[p].auto, ~pr[p].canceled)
        /\ Drop(p) /\ UNCHANGED overrides
     \/ /\ Current(p) /\ ~Shown(p)
        /\ pr' = Goto(p, "publish") /\ UNCHANGED <<lock, starting, active, ov, overrides>>
  /\ UNCHANGED <<topic, reset>>

CodeShown(p) ==
  /\ pr[p].pc = "showing" /\ ov.told[p] # "none"
  /\ IF ov.told[p] = "ok" /\ Current(p)
     THEN pr' = Goto(p, "publish") /\ UNCHANGED <<lock, starting, active, ov>>
     ELSE Drop(p)
  /\ UNCHANGED <<topic, reset, overrides>>

(* publishUnlessCanceled                                                   *)
Refused(p) == pr[p].canceled \/ pr[p].over
Publish(p) ==
  /\ pr[p].pc = "publish"
  /\ IF Refused(p) THEN Drop(p)
     ELSE /\ active' = p /\ pr' = Goto(p, "polling") /\ lock' = Nobody
          /\ starting' = (IF starting = p THEN Nobody ELSE starting) /\ UNCHANGED ov
  /\ UNCHANGED <<topic, reset, overrides>>

(****************************** The worker *********************************)

(* The deferred end: clearActive and done first, the overlay after.        *)
Ends(p, q) ==
  /\ pr' = [q EXCEPT ![p].pc = "ending"]
  /\ active' = (IF active = p THEN Nobody ELSE active)
Hide(p) ==
  /\ pr[p].pc = "ending"
  /\ pr' = Goto(p, "done") /\ ov' = HideOwned(ov, p)
  /\ UNCHANGED <<lock, starting, active, topic, reset, overrides>>

Request(p) ==
  /\ pr[p].pc = "polling" /\ pr[p].ctx = "live"
  /\ IF ~Current(p) THEN Ends(p, pr) /\ UNCHANGED <<ov, overrides>>
     ELSE /\ pr' = [pr EXCEPT ![p].pc = "asked", ![p].asked = (active = p)]
          /\ UNCHANGED active
          /\ IF Shown(p) THEN ShowMint(p, "received", FALSE, active = p) ELSE UNCHANGED <<ov, overrides>>
  /\ UNCHANGED <<lock, starting, topic, reset>>

(* A code nobody used is replaced by a fresh one.                          *)
DueExpired(p) == pr[p].ctx = "expired" \* mutant: a cancel is not noticed
Due(p) == pr[p].ctx # "live"
PollEnds(p) ==
  /\ pr[p].pc = "polling" /\ Due(p)
  /\ LET next == {n \in Starts : pr[n].pc = "free"} IN
     IF pr[p].ctx = "expired" /\ active = p /\ Shown(p) /\ TopicReady /\ next # {}
     THEN \E n \in next : Ends(p, [pr EXCEPT ![n].pc = "queued", ![n].guard = topic, ![n].auto = TRUE])
     ELSE Ends(p, pr)
  /\ UNCHANGED <<lock, starting, topic, reset, ov, overrides>>

(* HandleApprovalDecision                                                  *)
Decide(p, decision) ==
  /\ pr[p].pc \in {"asked", "admitted", "creating", "created", "delivering"}
  /\ pr[p].accepted = "none" /\ ~pr[p].ended /\ Current(p)
  /\ pr' = [pr EXCEPT ![p].accepted = decision]
  /\ UNCHANGED <<lock, starting, active, topic, reset, ov, overrides>>

(* Without a decision the request ends when the channel is gone, the       *)
(* pairing is cancelled or the time is up.                                 *)
Gone(p) ==
  /\ pr[p].pc = "asked" /\ Fault("gone")
  /\ Ends(p, [pr EXCEPT ![p].ended = TRUE])
  /\ UNCHANGED <<lock, starting, topic, reset, ov, overrides>>
Unanswered(p) ==
  /\ pr[p].pc = "asked"
  /\ pr[p].ctx = "canceled" \/ pr[p].accepted = "none"
  /\ Ends(p, pr)
  /\ UNCHANGED <<lock, starting, topic, reset, ov, overrides>>

(* completeDecisionFor: the create is counted before the checks.           *)
Complete(p) ==
  /\ pr[p].pc = "asked" /\ pr[p].accepted # "none"
  /\ IF pr[p].accepted = "reject" THEN Ends(p, pr) /\ UNCHANGED <<ov, overrides>>
     ELSE /\ pr' = Goto(p, "admitted") /\ UNCHANGED active
          /\ IF Shown(p) THEN ShowMint(p, "creating", FALSE, active = p) ELSE UNCHANGED <<ov, overrides>>
  /\ UNCHANGED <<lock, starting, topic, reset>>
Check(p) ==
  /\ pr[p].pc = "admitted"
  /\ IF Current(p) /\ active = p THEN pr' = Goto(p, "creating") /\ UNCHANGED active ELSE Ends(p, pr)
  /\ UNCHANGED <<lock, starting, topic, reset, ov, overrides>>
(* CreateEphemeralSession: the relayer commits the session some time after *)
(* it was asked, also when the device has given the answer up by then.     *)
Posted(p) == p \notin Displays /\ pr[p].made = "no" /\ (pr[p].pc = "creating" \/ pr[p].lost)
Swept == reset.pc \in {"done", "rebooted"}
RelayerCommits(p) ==
  /\ Posted(p)
  /\ pr' = [pr EXCEPT ![p].session = "live", ![p].made = IF Swept THEN "late" ELSE "yes"]
  /\ UNCHANGED <<lock, starting, active, topic, reset, ov, overrides>>
CreateAnswers(p) ==
  /\ pr[p].pc = "creating" /\ p \notin Displays
  /\ \/ pr[p].made # "no" /\ pr' = Goto(p, "created") /\ UNCHANGED active
     \/ (Fault("create") \/ pr[p].made = "no") /\ Ends(p, [pr EXCEPT ![p].lost = TRUE])
     \/ Fault("create") /\ pr[p].made # "no" /\ Ends(p, [pr EXCEPT ![p].session = "revoked"])
     \/ Fault("create") /\ Fault("revoke") /\ pr[p].made # "no" /\ Ends(p, [pr EXCEPT ![p].faulty = TRUE])
  /\ UNCHANGED <<lock, starting, topic, reset, ov, overrides>>
(* The display grant is issued by the control authority, which a reset has *)
(* retired before it changed the topic.                                    *)
GrantAnswers(p) ==
  /\ pr[p].pc = "creating" /\ p \in Displays
  /\ \/ reset.pc = "idle" /\ pr' = [pr EXCEPT ![p].pc = "created", ![p].session = "live"] /\ UNCHANGED active
     \/ (Fault("create") \/ reset.pc # "idle") /\ Ends(p, pr)
  /\ UNCHANGED <<lock, starting, topic, reset, ov, overrides>>

(* The session is delivered only while its pairing is active and its topic *)
(* current; otherwise it is taken back.                                    *)
Stale(p) == ~Current(p) \/ active # p
Settle(p) ==
  /\ pr[p].pc = "created"
  /\ pr' = IF Stale(p) THEN Goto(p, "revoking")
           ELSE [pr EXCEPT ![p].pc = "delivering", ![p].delivering = TRUE]
  /\ UNCHANGED <<lock, starting, active, topic, reset, ov, overrides>>
Revoke(p) ==
  /\ pr[p].pc = "revoking"
  /\ \/ Ends(p, [pr EXCEPT ![p].session = "revoked"])
     \/ Fault("revoke") /\ Ends(p, [pr EXCEPT ![p].faulty = TRUE])
  /\ UNCHANGED <<lock, starting, topic, reset, ov, overrides>>
(* A send whose fate is unknown keeps the session.                         *)
Deliver(p) ==
  /\ pr[p].pc = "delivering"
  /\ \/ pr' = Goto(p, "sent") /\ UNCHANGED active
     \/ Fault("send") /\ pr' = Goto(p, "revoking") /\ UNCHANGED active
     \/ Fault("send") /\ Ends(p, pr)
  /\ UNCHANGED <<lock, starting, topic, reset, ov, overrides>>
Sent(p) ==
  /\ pr[p].pc = "sent"
  /\ IF Current(p) THEN Ends(p, pr) ELSE pr' = Goto(p, "revoking") /\ UNCHANGED active
  /\ UNCHANGED <<lock, starting, topic, reset, ov, overrides>>

Worker(p) ==
  \/ PollEnds(p) \/ Complete(p) \/ Check(p) \/ CreateAnswers(p) \/ GrantAnswers(p) \/ Settle(p) \/ Revoke(p) \/ Deliver(p) \/ Sent(p) \/ Hide(p)
  \/ pr[p].ctx = "canceled" /\ Unanswered(p)

(************************* Endings from outside ****************************)

Lapse(p) ==
  /\ pr[p].pc \in {"polling", "asked"} /\ pr[p].ctx = "live"
  /\ pr' = [pr EXCEPT ![p].ctx = "expired"]
  /\ UNCHANGED <<lock, starting, active, topic, reset, ov, overrides>>
(* HandleClosePairingSession                                               *)
Close ==
  /\ starting # Nobody \/ active # Nobody
  /\ pr' = CancelActive(CancelStarting(pr)) /\ starting' = Nobody /\ active' = Nobody
  /\ UNCHANGED <<lock, topic, reset, ov, overrides>>

(* OnOverride, called by the one whose overlay covered the pairing's.      *)
Overridden(p) ==
  /\ p \in overrides /\ overrides' = overrides \ {p}
  /\ pr' = IF pr[p].over THEN pr ELSE Canceled([pr EXCEPT ![p].over = TRUE], p)
  /\ active' = (IF active = p /\ ~pr[p].over THEN Nobody ELSE active)
  /\ UNCHANGED <<lock, starting, topic, reset, ov>>

OtherShows ==
  /\ Other # Nobody /\ ov.cur # Other
  /\ ov' = Show(ov, Other, "other") /\ overrides' = overrides \cup ({ov.cur} \cap Pairs)
  /\ UNCHANGED <<pr, lock, starting, active, topic, reset>>
OtherHides ==
  /\ Other # Nobody /\ ov.cur = Other /\ ov' = HideOwned(ov, Other)
  /\ UNCHANGED <<pr, lock, starting, active, topic, reset, overrides>>
Paint ==
  /\ \/ Taking(ov) /\ ov' = Taken(ov)
     \/ Painting(ov) /\ ov' = Painted(ov, TRUE)
     \/ Painting(ov) /\ Fault("paint") /\ ov' = Painted(ov, FALSE)
  /\ UNCHANGED <<pr, lock, starting, active, topic, reset, overrides>>

(*************************** Factory reset *********************************)

(* The creates that were admitted and are not accounted for.               *)
InCreates == {p \in Pairs \ Displays : \/ pr[p].pc \in {"admitted", "creating", "created"}
                                       \/ pr[p].pc = "revoking" /\ ~pr[p].delivering}

(* The control authority retires the display grants before the topic is    *)
(* invalidated; what it refuses after that, no pairing creates.            *)
Retired(p) == IF p \in Displays /\ pr[p].session = "live" THEN [pr[p] EXCEPT !.session = "revoked"] ELSE pr[p]
Invalidate ==
  /\ Resets /\ reset.pc = "idle" /\ TopicReady
  /\ pr' = [p \in Pairs |-> Retired(p)]
  /\ topic' = topic + 1 /\ reset' = [reset EXCEPT !.pc = "closing"]
  /\ UNCHANGED <<lock, starting, active, ov, overrides>>

(* CloseActivePairing goes round until there is nothing left to close; its *)
(* budget, like that of the wait for creates, may run out.                 *)
ClosesOnce == starting # Nobody \/ active # Nobody
ResetCloses ==
  /\ reset.pc = "closing"
  /\ pr' = CancelActive(CancelStarting(pr)) /\ starting' = Nobody /\ active' = Nobody
  /\ reset' = IF ClosesOnce THEN [reset EXCEPT !.pc = "waiting", !.waits = {starting, active} \ {Nobody}]
              ELSE [reset EXCEPT !.pc = "creates"]
  /\ UNCHANGED <<lock, topic, ov, overrides>>
ResetWaits ==
  /\ reset.pc = "waiting"
  /\ reset' = [reset EXCEPT !.pc = IF \A p \in reset.waits : Over(p) THEN "closing" ELSE "creates", !.waits = {}]
  /\ UNCHANGED <<pr, lock, starting, active, topic, ov, overrides>>
Drains == InCreates = {}
CreatesDrained ==
  /\ reset.pc = "creates"
  /\ \/ Drains /\ reset' = [reset EXCEPT !.pc = "sweep", !.drained = TRUE]
     \/ reset' = [reset EXCEPT !.pc = "sweep"] \* the budget is spent
  /\ UNCHANGED <<pr, lock, starting, active, topic, ov, overrides>>
(* RevokeTopicSessions revokes what the relayer lists for the old topic.   *)
OfTopicNow(p) == pr[p].guard = topic \* mutant: the topic is read after it was invalidated
OfOldTopic(p) == pr[p].guard < topic
Sweep ==
  /\ reset.pc = "sweep"
  /\ \E failed \in SUBSET (IF Fault("revoke") THEN Pairs ELSE {}) :
       pr' = [p \in Pairs |-> IF pr[p].session # "live" \/ ~OfOldTopic(p) THEN pr[p]
                              ELSE IF p \in failed THEN [pr[p] EXCEPT !.faulty = TRUE]
                              ELSE [pr[p] EXCEPT !.session = "revoked"]]
  /\ reset' = [reset EXCEPT !.pc = "done"]
  /\ UNCHANGED <<lock, starting, active, topic, ov, overrides>>
NewTopic ==
  /\ reset.pc = "done" /\ ~TopicReady /\ topic' = topic + 1
  /\ UNCHANGED <<pr, lock, starting, active, reset, ov, overrides>>
(* The reset's unit reboots the device, and with it goes whoever was left. *)
Reboot ==
  /\ reset.pc = "done" /\ reset' = [reset EXCEPT !.pc = "rebooted"]
  /\ pr' = [p \in Pairs |-> [Fresh EXCEPT !.pc = "done", !.guard = pr[p].guard, !.session = pr[p].session, !.made = pr[p].made,
                                         !.faulty = pr[p].faulty, !.lost = IF pr[p].pc = "creating" THEN TRUE ELSE pr[p].lost]]
  /\ lock' = Nobody /\ starting' = Nobody /\ active' = Nobody
  /\ ov' = NewController(Pairs \cup {Other}) /\ overrides' = {} /\ UNCHANGED topic
Reset == ResetCloses \/ ResetWaits \/ CreatesDrained \/ Sweep

Handler(p) == StartTurn(p) \/ JoinTurn(p) \/ Replace(p) \/ BrokerAnswers(p) \/ CodeShown(p) \/ Publish(p)

Next ==
  \/ \E p \in Pairs : Ask(p) \/ Handler(p) \/ Worker(p) \/ Request(p) \/ Gone(p) \/ Unanswered(p) \/ Lapse(p) \/ Overridden(p) \/ RelayerCommits(p)
  \/ \E p \in Pairs, d \in {"approve", "reject"} : Decide(p, d)
  \/ Close \/ OtherShows \/ OtherHides \/ Paint \/ Invalidate \/ Reset \/ Reboot \/ NewTopic

Spec == Init /\ [][Next]_vars /\ \A p \in Pairs : WF_vars(Handler(p)) /\ WF_vars(Worker(p))
             /\ WF_vars(Paint) /\ WF_vars(Reset)

(****************************** Properties *********************************)

(* startMu is held exactly by the handler between its turn and its end.    *)
TypeOK ==
  /\ \A p \in Pairs : lock = p <=> pr[p].pc \in {"replacing", "broker", "showing", "publish"}
  /\ active # Nobody => pr[active].pc \in {"polling", "asked", "admitted", "creating", "created", "revoking", "delivering", "sent"}
  /\ Len(ov.queue) <= MaxDeliveries

(* Of the sessions of the old topic a reset leaves those the relayer       *)
(* refused to revoke and those committed after the sweep had listed them:  *)
(* behind a lost answer, or in the hands of a worker that takes them back  *)
(* unless the reboot comes first (topicGuard, RevokeTopicSessions).        *)
OldSessionsRevoked ==
  Swept => \A p \in DOMAIN pr : pr[p].session = "live" /\ pr[p].guard < topic /\ ~pr[p].faulty =>
    /\ pr[p].made = "late"
    /\ pr[p].lost \/ pr[p].pc \in {"creating", "created", "revoking"} \/ reset.pc = "rebooted"

(* A reset that waited until the creates had drained leaves no worker with *)
(* a session: what is committed then is behind a lost answer (createGate). *)
GateIsEnough ==
  Swept /\ reset.drained =>
    \A p \in DOMAIN pr : pr[p].made = "late" /\ pr[p].guard < topic => pr[p].lost /\ Over(p)

(* A start or join that was waiting for the broker during the reset is not *)
(* published over it (publishUnlessCanceled, registerStarting).            *)
ActiveIsCurrent ==
  reset.pc \in {"creates", "sweep", "done", "rebooted"} /\ active # Nobody => Current(active)

(* A pairing that a reset overtakes is neither published nor left alive:   *)
(* what it made at the relayer is revoked by somebody (service.go 233,     *)
(* 2190).                                                                  *)
NothingOutlivesReset == OldSessionsRevoked /\ GateIsEnough /\ ActiveIsCurrent

(* The overlay of a pairing that ended is never left current: a re-show    *)
(* from another handler is judged under the controller's lock.             *)
NoGhostOverlay == \A p \in DOMAIN pr : pr[p].pc = "done" /\ p \notin overrides => ov.cur # p
(* When the deliveries have drained the screen shows the current overlay,  *)
(* unless the last one could not be painted.                               *)
ScreenFollows == Settled(ov) /\ ov.painted => ov.screen = ov.cur
(* What the viewer is left with: no code stays painted that nobody answers *)
(* for, and the last delivery is of the current overlay (service.go 3045,  *)
(* controller.go 399).                                                     *)
OverlayIsCurrent == NoGhostOverlay /\ ScreenFollows

(* The turn to start a pairing comes back whatever the broker, the painter *)
(* and the reset do.                                                       *)
TurnComesBack == []<>(lock = Nobody)
(* A worker whose pairing was cancelled ends.                              *)
WorkersEnd == \A p \in Pairs : pr[p].ctx = "canceled" ~> pr[p].pc = "done"

=============================================================================
