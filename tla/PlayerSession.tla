---------------------------- MODULE PlayerSession ----------------------------
(***************************************************************************)
(* The player page as feral-controld sees it: the CDP client's connect loop*)
(* (cdp/cdp.go), the session's document generations, their readiness       *)
(* workers and reconcilers, recovery navigations (playersession/session.go)*)
(* the status poller's stamp carrier (status/status.go), and the mediator's*)
(* connectivity cache and push worker (mediator/mediator.go), which the    *)
(* session's last reconciler drives. Chromium may restart and the page may *)
(* be replaced by others at any time.                                      *)
(***************************************************************************)
EXTENDS Naturals, FiniteSets, Sequences

CONSTANTS
  Asks,        \* bound on the navigations asked for
  Gates,       \* what may stand in a navigation's way: "overlay", "asleep", "error"
  Edges,       \* bound on the connectivity changes
  MaxDocs,     \* bound on the documents of a run
  MaxGens,     \* bound on the generations of a run, never reached
  Races,       \* bound on the status answers that are looked at late
  Steps,       \* the reconcilers that are registered, of "policy", "content", "push"
  PageFaults       \* "restart" (Chromium), "reload" (by others), "stamp", "nonce", "never" (a page without handler)

None == 0
ASSUME PageAssumption == Asks \in Nat /\ MaxGens \in Nat
VARIABLES
  doc,         \* the page: its number (0: no Chromium), handler, stamps, and what it was told
  link,        \* the CDP client: the Chromium it is connected to, its loop, a pending drop
  gens,        \* generations: navigation nonce, stage cache, stamp, readiness
  workers,     \* readiness workers: what each is at
  nav,         \* the navigations: slot, worker, outcomes
  poll,        \* a status round: "idle" or the stamp it has read
  conn,        \* connectivity: monitord's level, signals on the bus, the cache, the push worker
  chrom        \* the Chromium there is

page_vars == <<doc, link, gens, workers, nav, poll, conn, chrom>>

Ids == 1..MaxGens
Levels == {"on", "off"}
NavStages == {"idle", "gates", "nonce", "navigate", "bump", "verify"}
PushStages == {"idle", "await", "level", "probe", "probed", "send", "next"}
Outcomes == Gates \cup {"superseded", "failed", "verified", "timeout", "unverified", "error"}
Cur == Len(gens)
NewDoc(n) ==
  [id |-> n, handler |-> FALSE, nonce |-> None, stamp |-> None, policy |-> FALSE, content |-> "none", level |-> "none", raced |-> FALSE]

PageInit ==
  /\ doc = NewDoc(1) /\ chrom = 1
  /\ link = [to |-> None, pc |-> "dial", drop |-> FALSE]
  /\ gens = << >> /\ workers = [g \in Ids |-> "off"]
  /\ nav = [busy |-> FALSE, slot |-> None, pc |-> "idle", who |-> None, gen |-> None, from |-> None, marked |-> FALSE, target |-> None,
            done |-> [n \in 1..Asks |-> << >>], asked |-> 0]
  /\ poll = [pc |-> "idle", stamp |-> None, races |-> 0]
  /\ conn = [level |-> "on", bus |-> << >>, known |-> FALSE, cache |-> "off", seq |-> 0, changes |-> 0,
             busy |-> FALSE, more |-> FALSE, pc |-> "idle", at |-> 0, val |-> "off"]

(****************************** The CDP client *****************************)

Initialized == link.to # None
Reaches == link.to # None /\ link.to = chrom
Listens == Reaches /\ doc.handler
(* A send that fails tells the loop to reconnect.                          *)
Failed == IF Initialized /\ ~Reaches THEN [link EXCEPT !.drop = TRUE] ELSE link

(* bump: a new generation cancels the one before it.                       *)
Bump(g, nonce) == Append(g, [nonce |-> nonce, stage |-> FALSE, stamp |-> None, ready |-> "wait"])
Started(w) == [w EXCEPT ![Cur + 1] = "poll"]
Dial ==
  /\ link.pc = "dial" /\ chrom # None
  /\ link' = [link EXCEPT !.to = chrom, !.pc = "connected"]
  /\ UNCHANGED <<doc, gens, workers, nav, poll, conn, chrom>>
OnConnect ==
  /\ link.pc = "connected" /\ Cur < MaxGens
  /\ link' = [link EXCEPT !.pc = "hold"]
  /\ gens' = Bump(gens, None) /\ workers' = Started(workers)
  /\ UNCHANGED <<doc, nav, poll, conn, chrom>>
Teardown ==
  /\ link.pc = "hold" /\ link.drop
  /\ link' = [to |-> None, pc |-> "dial", drop |-> FALSE]
  /\ UNCHANGED <<doc, gens, workers, nav, poll, conn, chrom>>

(*************************** Readiness workers *****************************)

Obsolete(g) == g < Cur
(* The handler probe of the document there is; a navigation's generation   *)
(* is not fooled by the document it leaves.                                *)
AnswersAny(g) == Listens \* mutant: the nonce is not looked at
Answers(g) == Listens /\ (gens[g].nonce = None \/ doc.nonce # gens[g].nonce)
Resolve(g, how) == gens' = [gens EXCEPT ![g].ready = how]
Probe(g) ==
  /\ workers[g] = "poll"
  /\ IF ~Initialized THEN workers' = [workers EXCEPT ![g] = "off"] /\ Resolve(g, "err") /\ UNCHANGED link
     ELSE IF Answers(g)
     THEN workers' = [workers EXCEPT ![g] = "stamp"] /\ gens' = [gens EXCEPT ![g].stage = TRUE] /\ UNCHANGED link
     ELSE /\ link' = Failed
          /\ IF Obsolete(g) THEN workers' = [workers EXCEPT ![g] = "off"] /\ Resolve(g, "err")
             ELSE UNCHANGED <<workers, gens>>
  /\ UNCHANGED <<doc, nav, poll, conn, chrom>>
Order == <<"policy", "content", "push">>
(* The registered reconciler that follows the i-th.                        *)
After(i) == LET later == {j \in (i + 1)..3 : Order[j] \in Steps} IN
            IF later = {} THEN "off" ELSE Order[CHOOSE j \in later : \A k \in later : j <= k]
NextStep(s) == After(CHOOSE i \in 1..3 : Order[i] = s)
Stamp(g) ==
  /\ workers[g] = "stamp" /\ workers' = [workers EXCEPT ![g] = After(0)]
  /\ \/ /\ Reaches /\ doc' = [doc EXCEPT !.stamp = g, !.raced = @ \/ ~doc.handler]
        /\ gens' = [gens EXCEPT ![g].stamp = g, ![g].ready = "ok"] /\ UNCHANGED link
     \/ /\ ~Reaches \/ "stamp" \in PageFaults
        /\ link' = Failed /\ Resolve(g, "ok") /\ UNCHANGED doc
  /\ UNCHANGED <<nav, poll, conn, chrom>>

(* The reconcilers, in the order of their registration, until a newer      *)
(* generation supersedes this one.                                         *)
Told(d) == IF Listens THEN d ELSE doc
Enqueued(c) == IF c.busy THEN [c EXCEPT !.more = TRUE] ELSE [c EXCEPT !.busy = TRUE, !.pc = "await"]
Reconcile(g) ==
  /\ workers[g] \in {"policy", "content", "push"}
  /\ IF Obsolete(g) THEN workers' = [workers EXCEPT ![g] = "off"] /\ UNCHANGED <<doc, conn, link>>
     ELSE /\ workers' = [workers EXCEPT ![g] = NextStep(@)]
          /\ doc' = CASE workers[g] = "policy" -> Told([doc EXCEPT !.policy = TRUE])
                      [] workers[g] = "content" -> Told([doc EXCEPT !.content = IF doc.policy THEN "ok" ELSE "early"])
                      [] OTHER -> doc
          /\ conn' = (IF workers[g] = "push" THEN Enqueued(conn) ELSE conn)
          /\ link' = (IF workers[g] = "push" THEN link ELSE Failed)
  /\ UNCHANGED <<gens, nav, poll, chrom>>

(**************************** Recovery navigation **************************)

(* One navigation at a time: a second one waits in the slot and supersedes *)
(* the one that waits there; an inline one does not wait.                  *)
Outcome(n, o) == [nav.done EXCEPT ![n] = Append(@, o)]
AskNavigation ==
  /\ nav.asked < Asks
  /\ LET n == nav.asked + 1
         q == [nav EXCEPT !.asked = n] IN
     IF ~nav.busy THEN nav' = [q EXCEPT !.busy = TRUE, !.pc = "gates", !.who = n]
     ELSE \/ nav' = [q EXCEPT !.done = Outcome(n, "superseded")]
          \/ nav' = [q EXCEPT !.slot = n, !.done = IF nav.slot = None THEN @ ELSE Outcome(nav.slot, "superseded")]
  /\ UNCHANGED <<doc, link, gens, workers, poll, conn, chrom>>
(* The slot's request follows, or the slot is free.                        *)
FinishesAlone(o) ==
  nav' = [nav EXCEPT !.done = Outcome(nav.who, o), !.target = None, !.gen = None, !.from = None, !.marked = FALSE, !.busy = FALSE, !.pc = "idle", !.who = None] \* mutant: the slot is not looked at
Finishes(o) ==
  LET q == [nav EXCEPT !.done = Outcome(nav.who, o), !.target = None, !.gen = None, !.from = None, !.marked = FALSE] IN
  nav' = IF nav.slot = None THEN [q EXCEPT !.busy = FALSE, !.pc = "idle", !.who = None]
         ELSE [q EXCEPT !.pc = "gates", !.who = nav.slot, !.slot = None]
Gated ==
  /\ nav.pc = "gates"
  /\ \/ \E o \in Gates : Finishes(o)
     \/ nav' = [nav EXCEPT !.pc = "nonce"]
  /\ UNCHANGED <<doc, link, gens, workers, poll, conn, chrom>>
(* The document to be left is marked, so that it is not taken for the new. *)
MarkNonce ==
  /\ nav.pc = "nonce"
  /\ \/ /\ Reaches /\ doc' = [doc EXCEPT !.nonce = Cur + 1]
        /\ nav' = [nav EXCEPT !.pc = "navigate", !.gen = Cur + 1] /\ UNCHANGED link
     \/ /\ ~Reaches \/ "nonce" \in PageFaults
        /\ nav' = [nav EXCEPT !.pc = "navigate", !.gen = None] /\ link' = Failed /\ UNCHANGED doc
  /\ UNCHANGED <<gens, workers, poll, conn, chrom>>
(* Page.navigate is answered while the old document may still be there;    *)
(* marked: the one it leaves carries the nonce.                            *)
Navigate ==
  /\ nav.pc = "navigate" /\ link' = Failed
  /\ IF Reaches THEN nav' = [nav EXCEPT !.pc = "bump", !.from = doc.id, !.marked = doc.nonce # None /\ doc.nonce = nav.gen] ELSE Finishes("failed")
  /\ UNCHANGED <<doc, gens, workers, poll, conn, chrom>>
NavBump ==
  /\ nav.pc = "bump" /\ Cur < MaxGens
  /\ gens' = Bump(gens, nav.gen) /\ workers' = Started(workers)
  /\ nav' = [nav EXCEPT !.pc = "verify", !.target = Cur + 1]
  /\ UNCHANGED <<doc, link, poll, conn, chrom>>
(* The readiness of that generation, then the route; both are given up     *)
(* after a while.                                                          *)
Verify ==
  /\ nav.pc = "verify"
  /\ \/ gens[nav.target].ready = "ok" /\ Finishes("verified")
     \/ gens[nav.target].ready # "ok" /\ Finishes("timeout")
     \/ gens[nav.target].ready = "ok" /\ "route" \in Gates /\ Finishes("unverified")
     \/ "error" \in Gates /\ gens[nav.target].ready = "ok" /\ Finishes("error")
  /\ UNCHANGED <<doc, link, gens, workers, poll, conn, chrom>>

(**************************** The status poller ****************************)

(* ObserveStatusStamp: a stamp that is not this generation's means another *)
(* document.                                                               *)
Mismatch(s) == Cur > 0 /\ gens[Cur].stamp # None /\ gens[Cur].stamp # s
Observed(s) ==
  IF Mismatch(s) THEN Cur < MaxGens /\ gens' = Bump(gens, None) /\ workers' = Started(workers) ELSE UNCHANGED <<gens, workers>>
Poll ==
  /\ poll.pc = "idle"
  /\ IF Listens THEN Observed(doc.stamp) /\ Mismatch(doc.stamp) /\ UNCHANGED link
     ELSE link' = Failed /\ link' # link /\ UNCHANGED <<gens, workers>>
  /\ UNCHANGED <<doc, nav, poll, conn, chrom>>
PollReads ==
  /\ poll.pc = "idle" /\ poll.races < Races /\ Listens
  /\ poll' = [pc |-> "read", stamp |-> doc.stamp, races |-> poll.races + 1]
  /\ UNCHANGED <<doc, link, gens, workers, nav, conn, chrom>>
PollObserves ==
  /\ poll.pc = "read" /\ poll' = [poll EXCEPT !.pc = "idle", !.stamp = None]
  /\ Observed(poll.stamp)
  /\ UNCHANGED <<doc, link, nav, conn, chrom>>

(************************ The mediator's connectivity **********************)

Flipped(l) == IF l = "on" THEN "off" ELSE "on"
LevelChanges ==
  /\ conn.changes < Edges
  /\ conn' = [conn EXCEPT !.level = Flipped(@), !.changes = @ + 1, !.bus = Append(@, Flipped(conn.level))]
  /\ UNCHANGED <<doc, link, gens, workers, nav, poll, chrom>>
(* connectivity_change: the cache, then a push.                            *)
Signal ==
  /\ conn.bus # << >>
  /\ conn' = Enqueued([conn EXCEPT !.bus = Tail(@), !.cache = Head(conn.bus), !.known = TRUE, !.seq = @ + 1])
  /\ UNCHANGED <<doc, link, gens, workers, nav, poll, chrom>>
(* The push worker: the handler, the level, a cold probe where there is    *)
(* none yet, the send.                                                     *)
Ready == Cur > 0 /\ Initialized
AwaitHandler ==
  /\ conn.pc = "await" /\ UNCHANGED <<doc, gens, workers, nav, poll, chrom>>
  /\ \/ ~Ready /\ conn' = [conn EXCEPT !.pc = "next"] /\ UNCHANGED link
     \/ /\ Ready /\ conn' = [conn EXCEPT !.pc = "level", !.at = Cur] /\ UNCHANGED link
AwaitStage ==
  /\ conn.pc = "level" /\ UNCHANGED <<doc, workers, nav, poll, chrom>>
  /\ IF gens[conn.at].stage \/ Answers(conn.at)
     THEN /\ gens' = [gens EXCEPT ![conn.at].stage = TRUE] /\ UNCHANGED link
          /\ conn' = [conn EXCEPT !.pc = IF conn.known THEN "send" ELSE "probe", !.val = conn.cache, !.at = conn.seq]
     ELSE /\ link' = Failed /\ UNCHANGED gens
          /\ conn' = IF ~Initialized \/ Obsolete(conn.at) THEN [conn EXCEPT !.pc = "next", !.at = 0] ELSE conn
ColdProbe ==
  /\ conn.pc = "probe" /\ conn' = [conn EXCEPT !.pc = "probed", !.val = conn.level]
  /\ UNCHANGED <<doc, link, gens, workers, nav, poll, chrom>>
(* The probe's answer is applied only if no edge came meanwhile.           *)
ProbeApplies == ~conn.known /\ conn.seq = conn.at
Probed ==
  /\ conn.pc = "probed"
  /\ conn' = IF ProbeApplies THEN [conn EXCEPT !.pc = "send", !.cache = conn.val, !.known = TRUE]
             ELSE [conn EXCEPT !.pc = "send", !.val = conn.cache]
  /\ UNCHANGED <<doc, link, gens, workers, nav, poll, chrom>>
Push ==
  /\ conn.pc = "send" /\ conn' = [conn EXCEPT !.pc = "next", !.at = 0]
  /\ link' = Failed /\ doc' = Told([doc EXCEPT !.level = conn.val])
  /\ UNCHANGED <<gens, workers, nav, poll, chrom>>
PushNext ==
  /\ conn.pc = "next"
  /\ conn' = [conn EXCEPT !.more = FALSE, !.busy = conn.more, !.pc = IF conn.more THEN "await" ELSE "idle", !.at = 0, !.val = "off"]
  /\ UNCHANGED <<doc, link, gens, workers, nav, poll, chrom>>

(****************************** The page ***********************************)

HandlerInstalled ==
  /\ chrom # None /\ ~doc.handler /\ "never" \notin PageFaults /\ doc' = [doc EXCEPT !.handler = TRUE]
  /\ UNCHANGED <<link, gens, workers, nav, poll, conn, chrom>>
(* The document a navigation asked for replaces the one it left.           *)
Commits ==
  /\ nav.from = doc.id /\ nav.pc \in {"bump", "verify"} /\ chrom # None
  /\ doc' = NewDoc(doc.id + 1)
  /\ UNCHANGED <<link, gens, workers, nav, poll, conn, chrom>>
Reload ==
  /\ "reload" \in PageFaults /\ doc.id < MaxDocs /\ chrom # None /\ doc' = NewDoc(doc.id + 1)
  /\ UNCHANGED <<link, gens, workers, nav, poll, conn, chrom>>
Restart ==
  /\ "restart" \in PageFaults /\ doc.id < MaxDocs
  /\ chrom' = chrom + 1 /\ doc' = NewDoc(doc.id + 1)
  /\ UNCHANGED <<link, gens, workers, nav, poll, conn>>

Readiness(g) == Probe(g) \/ Stamp(g) \/ Reconcile(g)
Client == Dial \/ OnConnect \/ Teardown
NavWorker == Gated \/ MarkNonce \/ Navigate \/ NavBump \/ Verify
Pusher == AwaitHandler \/ AwaitStage \/ ColdProbe \/ Probed \/ Push \/ PushNext
PageNext ==
  \/ Client \/ NavWorker \/ Pusher \/ Poll \/ PollReads \/ PollObserves
  \/ \E g \in Ids : g <= Cur /\ Readiness(g)
  \/ AskNavigation \/ LevelChanges \/ Signal \/ HandlerInstalled \/ Commits \/ Reload \/ Restart
Fairness ==
  /\ WF_page_vars(Client) /\ WF_page_vars(NavWorker) /\ WF_page_vars(Pusher) /\ WF_page_vars(Poll) /\ WF_page_vars(PollObserves)
  /\ \A g \in Ids : WF_page_vars(g <= Cur /\ Readiness(g))
  /\ WF_page_vars(Signal) /\ WF_page_vars(HandlerInstalled) /\ WF_page_vars(Commits)
PageSpec == PageInit /\ [][PageNext]_page_vars /\ Fairness

(***************************** Properties **********************************)

DocTypes ==
  doc \in [id : Nat, handler : BOOLEAN, nonce : Nat, stamp : Nat, policy : BOOLEAN,
           content : {"none", "early", "ok"}, level : {"none"} \cup Levels, raced : BOOLEAN]
GenTypes ==
  gens \in Seq([nonce : Nat, stage : BOOLEAN, stamp : Nat, ready : {"wait", "ok", "err"}])
NavTypes ==
  nav \in [busy : BOOLEAN, slot : 0..Asks, pc : NavStages, who : 0..Asks, gen : Nat, from : Nat,
           marked : BOOLEAN, target : Nat, done : [1..Asks -> Seq(Outcomes)], asked : 0..Asks]
ConnTypes ==
  conn \in [level : Levels, bus : Seq(Levels), known : BOOLEAN, cache : Levels, seq : Nat,
            changes : Nat, busy : BOOLEAN, more : BOOLEAN, pc : PushStages, at : Nat, val : Levels]
PageTypes == DocTypes /\ GenTypes /\ NavTypes /\ ConnTypes

(* A verified navigation showed another document than the one it left (the *)
(* nonce barrier), if that one carried the nonce (a page replaced between  *)
(* the two sends does not, and may be taken for the new one).              *)
VerifiedIsNew ==
  nav.pc = "verify" /\ nav.marked /\ gens[nav.target].ready = "ok" => doc.id # nav.from
(* A cold probe never overwrites what an edge told: once everything is     *)
(* quiet the cache is monitord's level.                                    *)
CacheIsTrue == conn.known /\ conn.bus = << >> => conn.cache = conn.level
(* Every navigation gets one answer, whoever supersedes whom.              *)
OneOutcome == \A n \in DOMAIN nav.done : Len(nav.done[n]) <= 1
(* What a navigation, the page and the cache are known to be (session.go   *)
(* 744, 1007; mediator.go 493).                                            *)
PageIsKnown == VerifiedIsNew /\ CacheIsTrue /\ OneOutcome

NavAnswered == \A n \in 1..Asks : []<>(nav.asked < n \/ nav.done[n] # << >>)

(* A document that stays is told everything in the end, in order: content  *)
(* after the content policy, although it replaced another at any moment.   *)
(* (One that was stamped before its handler was there is the exception the *)
(* code has: its reconcilers may have found nobody listening.)             *)
DocReconciled == []<>(~doc.handler \/ doc.raced \/ doc.content = "ok")
(* ... and the connectivity level there is in the end.                     *)
PlayerHearsLevel == []<>(~doc.handler \/ doc.raced \/ doc.level = conn.level)
=============================================================================
