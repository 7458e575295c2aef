------------------------------- MODULE Replay -------------------------------
(***************************************************************************)
(* Offline replay on the kiosk (offlinecache/replay.go, kioskreplay.go,    *)
(* kiosktargets.go, cdpsession.go): which requests of the page Chromium    *)
(* pauses, who answers them, and what happens to them when the socket      *)
(* breaks, the kiosk restarts or the answers pile up.  A session is the    *)
(* number of its connection; its targets are "root" (session id "") and    *)
(* the iframes Kids.                                                       *)
(***************************************************************************)
EXTENDS Naturals, FiniteSets

CONSTANTS
  Kids,       \* cross-origin iframes the page may create
  Reqs,       \* paused requests under way at a time
  Kinds,      \* what they ask for: "hit", "stale", "miss", "exempt"
  Stores,     \* what may be captured of the displayed items (see store)
  Admission,  \* RequestPausedAdmission
  Overflow,   \* OverflowAdmission
  MaxGen,     \* bound: connections dialed
  MaxFaults   \* bound: kiosk restarts, broken sockets, refused commands

ASSUME ReplayAssumption ==
  /\ MaxGen \in Nat /\ MaxFaults \in Nat /\ "root" \notin Kids
  /\ Stores \subseteq {"none", "some", "auto", "all"}

VARIABLES
  sock,       \* connection -> "none", "up", "broken" (writes fail) or "closed"
  auto,       \* connections on which setAutoAttach is on
  target,     \* targets: target -> connection, 0 when absent
  scope,      \* enabled, mixedScope, and whether resources is non-empty
  asked,      \* history: what the last scope call that took effect asked for
  armed,      \* <<connection, target>> pairs on which Chromium's Fetch is on
  kid,        \* iframe -> "none", "paused" (waitForDebuggerOnStart), "running", "gone"
  ev,         \* goroutines of Target.attachedToTarget / detachedFromTarget
  req,        \* paused requests
  op,         \* the scope call that holds transitionMu
  pc,         \* "sync": SyncPlaylist under LockPlayback; "hook": CDP's onConnect
  want,       \* the scope SyncPlaylist computed
  syncErr,    \* the error the last SyncPlaylist returned
  store,      \* captures of the displayed items: "none", "some", "auto", "all"
  retiring,   \* saturationRetiring's goroutine: "no", "lock", "notify"
  cool,       \* the last re-dial was less than redialCooldown ago
  faults

replay_vars == <<sock, auto, target, scope, asked, armed, kid, ev, req, op, pc, want,
          syncErr, store, retiring, cool, faults>>
page == <<armed, kid, req>>
calls == <<op, pc, want, syncErr, cool>>

Gens == 1..MaxGen
Targets == {"root"} \cup Kids
NoReq == [st |-> "none"]
NoScope == [on |-> FALSE, mixed |-> FALSE, res |-> FALSE]
Free == [by |-> "none"]
Fault == faults < MaxFaults /\ faults' = faults + 1

ReplayInit ==
  /\ sock = [g \in Gens |-> "none"] /\ auto = {}
  /\ target = [t \in Targets |-> 0]
  /\ scope = NoScope /\ asked = "off"
  /\ armed = {} /\ ev = {}
  /\ kid = [k \in Kids |-> "none"]
  /\ req = [r \in Reqs |-> NoReq]
  /\ op = Free
  /\ pc = [sync |-> <<"idle", 0>>, hook |-> <<"dial", 0>>]
  /\ want = "off" /\ syncErr = FALSE
  /\ store \in Stores
  /\ retiring = "no" /\ cool = FALSE /\ faults = 0

(* Chromium lets go of the requests of the interceptions As: a handler may *)
(* still be deciding about one, in vain.                                   *)
LetGo(As) ==
  req' = [r \in Reqs |-> IF req[r] = NoReq \/ <<req[r].g, req[r].t>> \notin As THEN req[r]
                          ELSE IF req[r].st \in {"dropped", "stuck"} THEN NoReq
                          ELSE [req[r] EXCEPT !.free = TRUE]]
(* When the connections Gone end, all they had paused goes on.             *)
Released(Gone) ==
  /\ armed' = {a \in armed : a[1] \notin Gone}
  /\ LetGo(Gone \X Targets)
  /\ kid' = [k \in Kids |-> IF kid[k] = "paused" /\ Gone \cap auto # {}
                            THEN "running" ELSE kid[k]]

(* attachRoot: a generation boundary; the old connection is closed.        *)
AttachRoot(g) ==
  LET old == {h \in Gens : h = target["root"]} IN
  /\ target' = [t \in Targets |-> IF t = "root" THEN g ELSE 0]
  /\ scope' = NoScope /\ asked' = "off"
  /\ sock' = [h \in Gens |-> IF h \in old THEN "closed" ELSE sock[h]]
  /\ Released(old)

(* retireLocked: forget the target; the root's Close ends the connection,  *)
(* a child's only unregisters its handlers.                                *)
Retire(t) ==
  LET gone == {g \in Gens : t = "root" /\ g = target[t]} IN
  /\ target' = [target EXCEPT ![t] = 0]
  /\ sock' = [g \in Gens |-> IF g \in gone THEN "closed" ELSE sock[g]]
  /\ Released(gone)

(*************************** SyncPlaylist and scope ************************)

(* scopeFor: an automatic record is relaxed later, by EnableForPlaylist.   *)
Wanted == CASE store = "none" -> "off" [] store = "some" -> "mixed" [] OTHER -> "strict"

StartSync ==
  /\ pc.sync = <<"idle", 0>>
  /\ pc' = [pc EXCEPT !.sync = <<"apply", 0>>] /\ want' = Wanted
  /\ UNCHANGED <<sock, auto, target, scope, asked, page, ev, op, syncErr, store, retiring, cool, faults>>

Retries == [pc EXCEPT !.sync = <<IF pc.sync[1] = "apply" THEN "check" ELSE "idle", 0>>]

(* EnableForPlaylist's LoadItem: a record evicted since scopeFor is an     *)
(* error and leaves the old scope in force.                                *)
Loadable == store \in IF want = "mixed" THEN {"some", "auto", "all"} ELSE {"auto", "all"}
LoadFails ==
  /\ pc.sync[1] \in {"apply", "reapply"} /\ want # "off" /\ op = Free /\ ~Loadable
  /\ pc' = Retries /\ syncErr' = TRUE
  /\ UNCHANGED <<sock, auto, target, scope, asked, page, ev, op, want, store, retiring, cool, faults>>

Attached == {t \in Targets : target[t] # 0}

(* EnableForPlaylist commits the scope before the first Fetch.enable.      *)
Enable ==
  /\ pc.sync[1] \in {"apply", "reapply"} /\ want # "off" /\ op = Free /\ Loadable
  /\ scope' = [on |-> TRUE, mixed |-> want = "mixed" \/ store = "auto", res |-> TRUE]
  /\ asked' = IF want = "mixed" \/ store = "auto" THEN "mixed" ELSE "strict"
  /\ op' = [by |-> "enable", todo |-> Attached, err |-> Attached = {}]
  /\ UNCHANGED <<sock, auto, target, page, ev, pc, want, syncErr, store, retiring, cool, faults>>

(* Disable without a target clears; otherwise only its end does.           *)
Cleared == scope
Disable ==
  /\ pc.sync[1] \in {"apply", "reapply"} /\ want = "off" /\ op = Free
  /\ scope' = IF Attached = {} THEN NoScope ELSE Cleared
  /\ op' = [by |-> "disable", todo |-> Attached, err |-> FALSE]
  /\ UNCHANGED <<sock, auto, target, asked, page, ev, pc, want, syncErr, store, retiring, cool, faults>>

(* Fetch.enable and Fetch.disable; the latter continues what is paused.    *)
Fetched(g, t) ==
  IF op.by = "enable" THEN armed' = armed \cup {<<g, t>>} /\ UNCHANGED req
  ELSE armed' = armed \ {<<g, t>>} /\ LetGo({<<g, t>>})

(* One Send of the loop: done, an error reply or a timeout (Chromium may   *)
(* have applied it), or a dead socket, whose session is retired.           *)
Send(t) ==
  LET g == target[t] gone == t \in Kids /\ kid[t] # "running" /\ kid[t] # "paused" IN
  /\ op # Free /\ t \in op.todo
  /\ \/ /\ sock[g] = "up" /\ ~gone
        /\ Fetched(g, t)
        /\ op' = [op EXCEPT !.todo = @ \ {t}]
        /\ UNCHANGED <<sock, target, kid, faults>>
     \/ /\ sock[g] = "up"
        /\ \/ gone /\ UNCHANGED <<armed, req, faults>>
           \/ ~gone /\ Fault /\ (Fetched(g, t) \/ UNCHANGED <<armed, req>>)
        /\ op' = [op EXCEPT !.todo = @ \ {t}, !.err = TRUE]
        /\ UNCHANGED <<sock, target, kid>>
     \/ /\ sock[g] # "up"
        /\ Retire(t)
        /\ op' = [op EXCEPT !.todo = @ \ {t}, !.err = TRUE]
        /\ UNCHANGED faults
  /\ UNCHANGED <<auto, scope, asked, ev, pc, want, syncErr, store, retiring, cool>>

(* The scope call returns: a failed Disable relaxes the scope instead.     *)
Return ==
  /\ op # Free /\ op.todo = {}
  /\ op' = Free
  /\ IF op.by = "enable" THEN UNCHANGED <<scope, asked>>
     ELSE /\ scope' = IF op.err THEN [scope EXCEPT !.mixed = TRUE] ELSE NoScope
          /\ asked' = "off"
  /\ syncErr' = op.err
  /\ pc' = IF op.err THEN Retries ELSE [pc EXCEPT !.sync = <<"idle", 0>>]
  /\ UNCHANGED <<sock, auto, target, page, ev, want, store, retiring, cool, faults>>

(* SyncPlaylist after a failure: an attached root means the command was    *)
(* refused; a missing one is re-dialed, at most once per redialCooldown.   *)
RootOfNobody == FALSE \* mutant: the missing root is left to the onConnect hook
RootLost == target["root"] = 0
Redial ==
  /\ pc.sync = <<"check", 0>>
  /\ IF RootLost /\ ~cool
     THEN pc' = [pc EXCEPT !.sync = <<"dial", 0>>] /\ cool' = TRUE
     ELSE pc' = [pc EXCEPT !.sync = <<"idle", 0>>] /\ UNCHANGED cool
  /\ UNCHANGED <<sock, auto, target, scope, asked, page, ev, op, want, syncErr, store, retiring, faults>>

Tick == /\ cool /\ cool' = FALSE
        /\ UNCHANGED <<sock, auto, target, scope, asked, page, ev, op, pc, want, syncErr, store, retiring, faults>>

(* dialAndAttach: DialPageSession, Attach, Target.setAutoAttach.           *)
DialPage(p) ==
  /\ pc[p] = <<"dial", 0>>
  /\ \/ \E g \in Gens : /\ sock[g] = "none" /\ \A h \in Gens : h < g => sock[h] # "none"
                        /\ sock' = [sock EXCEPT ![g] = "up"]
                        /\ pc' = [pc EXCEPT ![p] = <<"attach", g>>]
                        /\ UNCHANGED faults
     \/ Fault /\ pc' = [pc EXCEPT ![p] = <<"idle", 0>>] /\ UNCHANGED sock
  /\ UNCHANGED <<auto, target, scope, asked, page, ev, op, want, syncErr, store, retiring, cool>>

Attach(p, g) ==
  /\ pc[p] = <<"attach", g>> /\ op = Free
  /\ AttachRoot(g)
  /\ pc' = [pc EXCEPT ![p] = <<"auto", g>>]
  /\ UNCHANGED <<auto, ev, op, want, syncErr, store, retiring, cool, faults>>

(* enableChildTargetAutoAttach reports the iframes already there.          *)
AutoAttach(p, g) ==
  /\ pc[p] = <<"auto", g>>
  /\ \/ /\ sock[g] = "up"
        /\ auto' = auto \cup {g}
        /\ ev' = ev \cup {<<"attach", g, k>> : k \in {k \in Kids : kid[k] \in {"paused", "running"}}}
        /\ pc' = [pc EXCEPT ![p] = <<IF p = "sync" THEN "reapply" ELSE "idle", 0>>]
        /\ UNCHANGED faults
     \/ /\ IF sock[g] = "up" THEN Fault ELSE UNCHANGED faults
        /\ pc' = [pc EXCEPT ![p] = <<"idle", 0>>] /\ UNCHANGED <<auto, ev>>
  /\ UNCHANGED <<sock, target, scope, asked, page, op, want, syncErr, store, retiring, cool>>

(****************************** Child targets ******************************)

(* AttachChild: only for the current root, and when a scope is on only     *)
(* once Fetch is armed on the child, unless misses may reach the network.  *)
Unless == scope.mixed
CurrentEver(g) == TRUE \* mutant: plain Attach
Current(g) == target["root"] = g
HandleAttach(g, k) ==
  LET armedNow == kid[k] # "gone" /\ sock[g] = "up"
      resume == ev' = (ev \ {<<"attach", g, k>>}) \cup {<<"resume", g, k>>}
      leave == ev' = ev \ {<<"attach", g, k>>} IN
  /\ <<"attach", g, k>> \in ev /\ op = Free
  /\ \/ ~Current(g) /\ leave /\ UNCHANGED <<target, armed, faults>>
     \/ /\ Current(g) /\ ~scope.on
        /\ target' = [target EXCEPT ![k] = g] /\ resume /\ UNCHANGED <<armed, faults>>
     \/ /\ Current(g) /\ scope.on /\ armedNow
        /\ target' = [target EXCEPT ![k] = g] /\ resume
        /\ armed' = armed \cup {<<g, k>>} /\ UNCHANGED faults
     \/ /\ Current(g) /\ scope.on
        /\ IF armedNow THEN Fault ELSE UNCHANGED faults
        /\ target' = [target EXCEPT ![k] = IF sock[g] = "up" THEN g ELSE 0]
        /\ IF Unless THEN resume ELSE leave
        /\ UNCHANGED armed
  /\ UNCHANGED <<sock, auto, scope, asked, kid, req, op, pc, want, syncErr, store, retiring, cool>>

Resume(g, k) ==
  /\ <<"resume", g, k>> \in ev /\ ev' = ev \ {<<"resume", g, k>>}
  /\ kid' = [kid EXCEPT ![k] = IF @ = "paused" /\ sock[g] = "up" THEN "running" ELSE @]
  /\ UNCHANGED <<sock, auto, target, scope, asked, armed, req, calls, store, retiring, faults>>

(* DetachChild, from a goroutine of its own: it may run before the         *)
(* goroutine of the attach it follows.                                     *)
HandleDetach(g, k) ==
  /\ <<"detach", g, k>> \in ev /\ op = Free /\ ev' = ev \ {<<"detach", g, k>>}
  /\ target' = IF target["root"] = g THEN [target EXCEPT ![k] = 0] ELSE target
  /\ UNCHANGED <<sock, auto, scope, asked, page, calls, store, retiring, faults>>

(**************************** Paused requests ******************************)

Count(st) == Cardinality({r \in Reqs : req[r].st = st \/ (req[r].st = "answer" /\ req[r].path = st)})

(* onRequestPaused on the read pump: the full path, the overflow path, or  *)
(* the retirement of the connection (one goroutine per episode).           *)
Pause(r, g, t, kind) ==
  /\ req[r] = NoReq /\ <<g, t>> \in armed /\ sock[g] = "up"
  /\ t \in Kids => kid[t] = "running"
  /\ LET path == IF Count("full") < Admission THEN "full"
                 ELSE IF Count("over") < Overflow THEN "over" ELSE "stuck" IN
     /\ req' = [req EXCEPT ![r] = [st |-> path, path |-> IF path = "stuck" /\ retiring = "notify" THEN "late" ELSE path, g |-> g, t |-> t, kind |-> kind, free |-> FALSE]]
     /\ retiring' = IF path = "stuck" /\ retiring = "no" THEN "lock" ELSE retiring
  /\ UNCHANGED <<sock, auto, target, scope, asked, armed, kid, ev, calls, store, faults>>

(* processRequestPaused and resolveOverflow: static server and shell go    *)
(* on, a fresh capture is served, a stale one goes on, the rest is a miss. *)
Miss == IF scope.mixed THEN "continue" ELSE "fail"
Answer(path, kind) ==
  CASE kind = "exempt" -> "continue"
    [] kind = "hit" /\ scope.res /\ path = "full" -> "fulfill"
    [] kind = "stale" /\ scope.res /\ path = "full" -> "continue"
    [] OTHER -> Miss

(* Without an answer a request stays paused unless Chromium let it go.     *)
Dropped(r) == IF req[r].free THEN NoReq ELSE [req[r] EXCEPT !.st = "dropped"]

(* The event of a session that is no longer the target's is dropped.       *)
Decide(r) ==
  /\ req[r].st \in {"full", "over"}
  /\ req' = [req EXCEPT ![r] =
       IF target[req[r].t] # req[r].g THEN Dropped(r)
       ELSE [st |-> "answer", path |-> @.path, g |-> @.g, t |-> @.t, kind |-> @.kind, free |-> @.free,
             ans |-> Answer(@.path, @.kind), asked |-> asked]]
  /\ UNCHANGED <<sock, auto, target, scope, asked, armed, kid, ev, calls, store, retiring, faults>>

(* One Fetch call: applied, whatever its caller learns; lost with a dead   *)
(* socket; or refused or timed out, which is only logged.                  *)
Reply(r) ==
  /\ req[r].st = "answer"
  /\ \/ sock[req[r].g] = "up" /\ req' = [req EXCEPT ![r] = NoReq] /\ UNCHANGED faults
     \/ sock[req[r].g] # "up" /\ req' = [req EXCEPT ![r] = Dropped(r)] /\ UNCHANGED faults
     \/ /\ sock[req[r].g] = "up" /\ ~req[r].free /\ Fault
        /\ req' = [req EXCEPT ![r].st = "dropped", ![r].path = "refused"]
  /\ UNCHANGED <<sock, auto, target, scope, asked, armed, kid, ev, calls, store, retiring>>

(* retireOnSaturation's goroutine: whatever root is installed by then; the *)
(* notification makes the refresher sync, which it does periodically too.  *)
RetireRoot ==
  /\ retiring = "lock" /\ op = Free
  /\ retiring' = "notify"
  /\ IF target["root"] # 0 THEN Retire("root") ELSE UNCHANGED <<target, sock, page>>
  /\ UNCHANGED <<auto, scope, asked, ev, calls, store, faults>>
NotifyScopeLost ==
  /\ retiring = "notify" /\ retiring' = "no"
  /\ UNCHANGED <<sock, auto, target, scope, asked, page, ev, calls, store, faults>>

(******************************* Chromium **********************************)

IframeCreated(k) ==
  /\ kid[k] = "none"
  /\ LET on == {g \in auto : sock[g] = "up"} IN
     /\ kid' = [kid EXCEPT ![k] = IF on = {} THEN "running" ELSE "paused"]
     /\ ev' = ev \cup {<<"attach", g, k>> : g \in on}
  /\ UNCHANGED <<sock, auto, target, scope, asked, armed, req, calls, store, retiring, faults>>
IframeGone(k) ==
  /\ kid[k] \in {"paused", "running"}
  /\ kid' = [kid EXCEPT ![k] = "gone"]
  /\ ev' = ev \cup {<<"detach", g, k>> : g \in {g \in auto : sock[g] = "up"}}
  /\ armed' = {a \in armed : a[2] # k}
  /\ LetGo(Gens \X {k})
  /\ UNCHANGED <<sock, auto, target, scope, asked, calls, store, retiring, faults>>
SocketBreaks(g) ==
  /\ sock[g] = "up" /\ Fault
  /\ sock' = [sock EXCEPT ![g] = "broken"]
  /\ UNCHANGED <<auto, target, scope, asked, page, ev, calls, store, retiring>>
(* Every connection ends; CDP's own reconnect runs the onConnect hook.     *)
KioskRestarts ==
  /\ Fault /\ pc.hook = <<"idle", 0>>
  /\ pc' = [pc EXCEPT !.hook = <<"dial", 0>>]
  /\ sock' = [g \in Gens |-> IF sock[g] \in {"up", "broken"} THEN "closed" ELSE sock[g]]
  /\ armed' = {}
  /\ kid' = [k \in Kids |-> "none"]
  /\ LetGo(Gens \X Targets)
  /\ UNCHANGED <<auto, target, scope, asked, ev, op, want, syncErr, store, retiring, cool>>
StoreChanges ==
  /\ store' \in Stores \ {store}
  /\ UNCHANGED <<sock, auto, target, scope, asked, page, ev, calls, retiring, faults>>

DialAndAttach(p) == DialPage(p) \/ \E g \in Gens : Attach(p, g) \/ AutoAttach(p, g)
SyncPlaylist ==
  \/ StartSync \/ LoadFails \/ Enable \/ Disable \/ Return \/ Redial
  \/ \E t \in Targets : Send(t)
Work ==
  \/ SyncPlaylist \/ Tick
  \/ \E p \in DOMAIN pc : DialAndAttach(p)
  \/ \E g \in Gens, k \in Kids : HandleAttach(g, k) \/ Resume(g, k) \/ HandleDetach(g, k)
  \/ \E r \in Reqs : Decide(r) \/ Reply(r)
  \/ RetireRoot \/ NotifyScopeLost

ReplayNext ==
  \/ Work
  \/ \E r \in Reqs, g \in Gens, t \in Targets, kind \in Kinds : Pause(r, g, t, kind)
  \/ \E k \in Kids : IframeCreated(k) \/ IframeGone(k)
  \/ \E g \in Gens : SocketBreaks(g)
  \/ KioskRestarts \/ StoreChanges

(* The refresher syncs again and again, its own re-dial included; a lock   *)
(* that keeps becoming free is taken; goroutines run.                      *)
ReplayFairness ==
  /\ WF_replay_vars(SyncPlaylist \/ DialAndAttach("sync")) /\ SF_replay_vars(DialAndAttach("hook"))
  /\ WF_replay_vars(Tick) /\ SF_replay_vars(RetireRoot) /\ WF_replay_vars(NotifyScopeLost)
  /\ \A r \in Reqs : WF_replay_vars(Decide(r) \/ Reply(r))
  /\ \A k \in Kids, g \in Gens : SF_replay_vars(HandleAttach(g, k)) /\ WF_replay_vars(Resume(g, k))

ReplaySpec == ReplayInit /\ [][ReplayNext]_replay_vars /\ ReplayFairness

(****************************** Properties *********************************)

(* The stages of a connection, a request and an attachment.                *)
Conns == {"none", "up", "broken", "closed"}
Scopes == {"off", "mixed", "strict"}
Verdicts == {"continue", "fulfill", "fail"}
Open == [st : {"full", "over", "stuck", "dropped"}, path : {"full", "over", "stuck", "late"},
         g : Gens, t : Targets, kind : Kinds, free : BOOLEAN]
Decided == [st : {"answer", "dropped"}, path : {"full", "over", "stuck", "late", "refused"},
         g : Gens, t : Targets, kind : Kinds, free : BOOLEAN, ans : Verdicts, asked : Scopes]
Stages == {"idle", "apply", "reapply", "check", "dial", "attach", "auto"}
Events == {"attach", "resume", "detach"}
(* Types, the records of a request included.                               *)
ReplayTypes ==
  /\ sock \in [Gens -> Conns] /\ auto \subseteq Gens /\ target \in [Targets -> {0} \cup Gens]
  /\ scope \in [on : BOOLEAN, mixed : BOOLEAN, res : BOOLEAN] /\ asked \in Scopes
  /\ armed \subseteq Gens \X Targets /\ kid \in [Kids -> {"none", "paused", "running", "gone"}]
  /\ ev \subseteq Events \X Gens \X Kids
  /\ req \in [Reqs -> {NoReq} \cup Open \cup Decided]
  /\ op \in {Free} \cup [by : {"enable", "disable"}, todo : SUBSET Targets, err : BOOLEAN]
  /\ pc \in [{"sync", "hook"} -> Stages \X ({0} \cup Gens)]
  /\ want \in Scopes /\ syncErr \in BOOLEAN /\ store \in Stores
  /\ retiring \in {"no", "lock", "notify"} /\ cool \in BOOLEAN /\ faults \in 0..MaxFaults

(* Children belong to the connection of the installed root, whatever a     *)
(* reconnect overtook (AttachChild's and DetachChild's currency check).    *)
KidsOfTheRoot ==
  \A k \in Kids : target[k] # 0 /\ target["root"] # 0 => target[k] = target["root"]

(* No request of the page is failed once the last scope call that took     *)
(* effect allowed the network: a Disable that failed halfway must not leave *)
(* the strict scope behind (Disable's clear-only-after).                   *)
FailedOnlyWhenStrict ==
  \A r \in Reqs : req[r].st = "answer" /\ req[r].ans = "fail" /\ ~req[r].free => req[r].asked = "strict"

(* Interception of the live root is off when no scope is on: nothing is    *)
(* left armed by a scope that was cleared.                                 *)
OffMeansOff ==
  ~scope.on /\ op = Free => \A t \in Targets : <<target[t], t>> \notin armed

(* Under a strict scope no paused iframe is resumed before Fetch is armed  *)
(* on it, unless the sync that left it unarmed reported an error.          *)
ResumesArmed ==
  \A k \in Kids, g \in Gens : Resume(g, k) /\ kid[k] = "paused" /\ kid'[k] = "running" =>
    \/ <<g, k>> \in armed \/ ~scope.on \/ scope.mixed \/ target["root"] # g
    \/ op # Free \/ syncErr

(* A request dropped at saturation has a retirement coming that will       *)
(* release it (retireOnSaturation), unless it came while the retirement of *)
(* an earlier connection was just notifying: the one gap of the CAS.       *)
StuckIsReleased ==
  \A r \in Reqs : req[r].st = "stuck" => retiring = "lock" \/ req[r].path = "late"

(* An iframe that is gone, and whose events were all handled, is no target.*)
GoneIsForgotten ==
  \A k \in Kids : kid[k] = "gone" /\ {e \in ev : e[3] = k} = {} => target[k] = 0

(* Children belong to the connection of the installed root, a request is   *)
(* failed only in the strict scope, nothing stays armed once no scope is on,*)
(* what was beyond both admissions is let go, and an iframe is resumed only *)
(* inside the interception of the scope (replay.go 486-1100).              *)
ScopeIsKept ==
  /\ [](KidsOfTheRoot /\ FailedOnlyWhenStrict /\ OffMeansOff /\ StuckIsReleased)
  /\ [][ResumesArmed]_replay_vars

=============================================================================
