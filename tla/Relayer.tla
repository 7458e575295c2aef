------------------------------- MODULE Relayer -------------------------------
(***************************************************************************)
(* A relay socket of feral-controld (relayer/relayer.go, v2.go): whoever   *)
(* finds it down dials it, its read loop redials when it breaks, a close   *)
(* ends its generation. On the legacy relay (V2 = FALSE) the mediator's    *)
(* heartbeat and connectivity signals are the callers and a permanent      *)
(* error latches the relay retired until a probe is due; on v2 one loop    *)
(* keeps dialing with a backoff that a connectivity edge wakes.            *)
(***************************************************************************)
EXTENDS Naturals, FiniteSets

CONSTANTS
  V2,          \* BOOLEAN: the device-ID carrier
  Callers,     \* "beat", "edge" (the mediator's signals) and "boot" (main's own retry)
  Readers,     \* read loops there may be at once
  Worlds,      \* what the network does: "ok", "gone" (permanent), "busy", "odd", "down"
  MaxWorld,    \* bound on the changes of the world
  MaxDials,  \* bound on the sockets of a run
  MaxTries,    \* bound on v2's attempts (the delay stops growing), and legacy's tries of unknown errors
  MayStop      \* BOOLEAN: the daemon may be shut down

Actors == Callers \cup Readers
Mediated == {"beat", "edge"}

(* The device-ID relay is dialed by main's own retry only, and waits.      *)
ASSUME LineAssumption ==
  /\ V2 \in BOOLEAN /\ MaxTries \in Nat
  /\ V2 => Callers \cap Mediated = {} /\ MaxTries # 0
  /\ Readers \cap (Mediated \cup {"boot"}) = {}
Idle == "idle"

VARIABLES
  act,         \* who dials or reads: where it is, its generation, its socket, its tries
  conn,        \* the socket of the relayer, 0 if none, the newest ever, and the one known broken
  done,        \* the done channel: its generation and whether it is closed
  ping,        \* pingDoneChan: its number, 0 if nil, and the newest ever
  pingers,     \* ping goroutines
  latch,       \* the retired latch
  redial,      \* v2: attempts, wake token, whether the last session was stable
  busyMed,     \* relayerReconciling
  world,       \* what a dial meets now, changes so far, edges still to be signalled
  ctx          \* the daemon's context: "live" or "done"

line_vars == <<act, conn, done, ping, pingers, latch, redial, busyMed, world, ctx>>

LineInit ==
  /\ act = [a \in Actors |-> [pc |-> IF a = "boot" THEN "gate" ELSE Idle, gen |-> 0, sock |-> 0, tries |-> 0]]
  /\ conn = [cur |-> 0, newest |-> 0, broken |-> {}]
  /\ done = [gen |-> 1, closed |-> FALSE]
  /\ ping = [cur |-> 0, newest |-> 0, closed |-> {}] /\ pingers = {}
  /\ latch = [retired |-> FALSE, since |-> "unset", armed |-> FALSE]
  /\ redial = [attempts |-> 0, wake |-> FALSE, stable |-> FALSE, credit |-> 1]
  /\ busyMed = FALSE /\ ctx = "live"
  /\ world \in {[now |-> w, changes |-> 0, edge |-> FALSE] : w \in Worlds}

Up == conn.cur # 0
Closed(g) == g < done.gen \/ done.closed
Goto(a, pc) == act' = [act EXCEPT ![a].pc = pc]
Rest == <<latch, redial, busyMed, world, ctx>>

(*************************** The mediator **********************************)

(* reconcileRelayer, from the metrics heartbeat; one reconcile at a time.  *)
Beat ==
  /\ "beat" \in Callers /\ act["beat"].pc = Idle /\ ~Up /\ ~busyMed /\ ctx = "live"
  /\ busyMed' = TRUE /\ Goto("beat", "query")
  /\ UNCHANGED <<conn, done, ping, pingers, latch, redial, world, ctx>>
BeatQueried ==
  /\ "beat" \in Callers /\ act["beat"].pc = "query"
  /\ IF world.now = "down" THEN Goto("beat", Idle) /\ busyMed' = FALSE
     ELSE Goto("beat", "gate") /\ UNCHANGED busyMed
  /\ UNCHANGED <<conn, done, ping, pingers, latch, redial, world, ctx>>

(* The connectivity signal: an online edge wakes v2, arms one probe of a   *)
(* retired relay and dials, unless a reconcile is at it.                   *)
WakeV2 == [redial EXCEPT !.attempts = 1, !.wake = @ \/ ~Up, !.credit = IF @ < 3 THEN @ + 1 ELSE @]
Armed == IF latch.retired THEN [latch EXCEPT !.armed = TRUE] ELSE latch
Edge ==
  /\ world.edge /\ world' = [world EXCEPT !.edge = FALSE]
  /\ IF V2
     THEN redial' = WakeV2 /\ UNCHANGED <<act, latch, busyMed>>
     ELSE /\ act["edge"].pc = Idle /\ UNCHANGED redial
          /\ IF Up THEN UNCHANGED <<act, latch, busyMed>>
             ELSE /\ latch' = Armed /\ busyMed' = TRUE
                  /\ IF busyMed THEN UNCHANGED act ELSE Goto("edge", "gate")
  /\ UNCHANGED <<conn, done, ping, pingers, ctx>>

(* A caller is through; a read loop ends with its reconnect.               *)
Leaves(a) == act' = [act EXCEPT ![a] = [pc |-> Idle, gen |-> 0, sock |-> 0, tries |-> 0]]
FreesBeat(a) == a = "beat" \* mutant: only the heartbeat clears it
Frees(a) == a \in Mediated
Ends(a) == Leaves(a) /\ busyMed' = (busyMed /\ ~Frees(a))

(************************** RetryableConnect *******************************)

(* legacyRetiredGate: while latched only an armed edge or a due probe dials.*)
Probe == latch.armed \/ latch.since = "due"
Gate(a) ==
  /\ ~V2 /\ act[a].pc = "gate"
  /\ IF ~latch.retired THEN Goto(a, "dial") /\ UNCHANGED <<latch, busyMed>>
     ELSE IF Probe
          THEN /\ Goto(a, "dial") /\ UNCHANGED busyMed
               /\ latch' = [latch EXCEPT !.since = "waiting", !.armed = FALSE]
          ELSE Ends(a) /\ latch' = [latch EXCEPT !.since = "waiting"]
  /\ UNCHANGED <<conn, done, ping, pingers, redial, world, ctx>>
ProbeDue ==
  /\ latch.since = "waiting" /\ latch' = [latch EXCEPT !.since = "due"]
  /\ UNCHANGED <<act, conn, done, ping, pingers, redial, busyMed, world, ctx>>
SetRetired(l, on) ==
  [retired |-> on, since |-> IF on /\ ~l.retired THEN "unset" ELSE l.since, armed |-> on /\ l.armed]

(* retryV2: the wait before a dial, doubled until a session was stable.    *)
Attempts == IF redial.stable THEN 0 ELSE redial.attempts
Backoff(a) ==
  /\ V2 /\ act[a].pc = "gate"
  /\ IF ctx = "done" THEN Ends(a) /\ UNCHANGED redial
     ELSE /\ act' = [act EXCEPT ![a].pc = IF Attempts = 0 THEN "dial" ELSE "wait", ![a].gen = done.gen]
          /\ redial' = [redial EXCEPT !.attempts = IF Attempts < MaxTries THEN Attempts + 1 ELSE MaxTries, !.stable = FALSE]
          /\ UNCHANGED busyMed
  /\ UNCHANGED <<conn, done, ping, pingers, latch, world, ctx>>
Earned(n) == IF redial.credit < 3 THEN redial.credit + n ELSE redial.credit
GivesUp(a) == ctx = "done" \/ Closed(act[a].gen)
Waited(a) ==
  /\ act[a].pc = "wait"
  /\ \/ GivesUp(a) /\ Ends(a) /\ UNCHANGED redial
     \/ redial.wake /\ Goto(a, "dial") /\ redial' = [redial EXCEPT !.wake = FALSE] /\ UNCHANGED busyMed
     \/ ctx = "live" /\ Goto(a, "dial") /\ redial' = [redial EXCEPT !.credit = Earned(1)] /\ UNCHANGED busyMed
  /\ UNCHANGED <<conn, done, ping, pingers, latch, world, ctx>>

(* Connect, the part under the lock with the dial in it.                   *)
Dialed == redial' = [redial EXCEPT !.credit = IF V2 /\ @ > 0 THEN @ - 1 ELSE @]
Retries(a) == world.now # "odd" \/ act[a].tries < MaxTries
UpUnseen == FALSE \* mutant: a dial does not look whether another has been made
Dialled == Up
Connect(a) ==
  /\ act[a].pc = "dial"
  /\ IF Dialled
     THEN /\ Ends(a) /\ UNCHANGED <<conn, latch>>
          /\ redial' = IF V2 THEN [redial EXCEPT !.wake = FALSE] ELSE redial
     ELSE IF ctx = "done" THEN Ends(a) /\ UNCHANGED <<conn, latch, redial>>
     ELSE IF world.now = "ok"
     THEN /\ conn.newest < MaxDials
          /\ conn' = [conn EXCEPT !.cur = conn.newest + 1, !.newest = @ + 1]
          /\ act' = [act EXCEPT ![a].pc = "start", ![a].sock = conn.newest + 1]
          /\ Dialed /\ UNCHANGED <<latch, busyMed>>
     ELSE /\ Dialed /\ UNCHANGED conn
          /\ IF V2 THEN Goto(a, "gate") /\ UNCHANGED <<latch, busyMed>>
             ELSE IF world.now = "gone" THEN Goto(a, "latch") /\ UNCHANGED <<latch, busyMed>>
             ELSE IF Retries(a)
             THEN act' = [act EXCEPT ![a].tries = IF world.now = "odd" THEN @ + 1 ELSE @] /\ UNCHANGED <<latch, busyMed>>
             ELSE Ends(a) /\ UNCHANGED latch
  /\ UNCHANGED <<done, ping, pingers, world, ctx>>
Latch(a) ==
  /\ act[a].pc = "latch" /\ latch' = SetRetired(latch, TRUE) /\ Ends(a)
  /\ UNCHANGED <<conn, done, ping, pingers, redial, world, ctx>>

(* The part after it: a closed generation is replaced, a pinger and a read *)
(* loop are started for the generation there is now.                       *)
FreshGen == IF done.closed THEN [gen |-> done.gen + 1, closed |-> FALSE] ELSE done
FreshPing == IF ping.cur = 0 THEN [ping EXCEPT !.cur = ping.newest + 1, !.newest = @ + 1] ELSE ping
Start(a) ==
  /\ act[a].pc = "start"
  /\ done' = FreshGen /\ ping' = FreshPing
  /\ pingers' = pingers \cup {[sock |-> act[a].sock, gen |-> done'.gen, ch |-> ping'.cur]}
  /\ \E r \in {x \in Readers : act[x].pc = Idle} :
       act' = [act EXCEPT ![r] = [pc |-> "look", gen |-> done'.gen, sock |-> 0, tries |-> 0],
                          ![a].pc = "clear"]
  /\ UNCHANGED <<conn, Rest>>
(* The success is told: the latch clears, a wake that raced the dial goes. *)
Cleared(a) ==
  /\ act[a].pc = "clear" /\ Ends(a)
  /\ latch' = IF V2 THEN latch ELSE SetRetired(latch, FALSE)
  /\ redial' = IF V2 THEN [redial EXCEPT !.wake = FALSE] ELSE redial
  /\ UNCHANGED <<conn, done, ping, pingers, world, ctx>>

(***************************** The read loop *******************************)

CloseConn == conn' = [conn EXCEPT !.cur = 0, !.broken = @ \cup ({conn.cur} \ {0})]
ClosePing == ping' = IF ping.cur = 0 THEN ping ELSE [ping EXCEPT !.cur = 0, !.closed = @ \cup {ping.cur}]
Look(r) ==
  /\ act[r].pc = "look"
  /\ IF ctx = "done" THEN Goto(r, "close") /\ UNCHANGED busyMed
     ELSE IF Closed(act[r].gen) \/ ~Up THEN Ends(r)
     ELSE act' = [act EXCEPT ![r].pc = "read", ![r].sock = conn.cur] /\ UNCHANGED busyMed
  /\ UNCHANGED <<conn, done, ping, pingers, latch, redial, world, ctx>>
(* A read ends with a message, or an error once the socket is broken.      *)
Message(r) ==
  /\ act[r].pc = "read" /\ act[r].sock \notin conn.broken /\ Goto(r, "look")
  /\ UNCHANGED <<conn, done, ping, pingers, Rest>>
Stops(r) == ctx = "done" \/ Closed(act[r].gen)
ReadFails(r) ==
  /\ act[r].pc = "read" /\ act[r].sock \in conn.broken
  /\ IF Stops(r) THEN Ends(r) ELSE Goto(r, "reconnect") /\ UNCHANGED busyMed
  /\ UNCHANGED <<conn, done, ping, pingers, latch, redial, world, ctx>>
(* reconnect: what is there is torn down, then RetryableConnect.           *)
Reconnect(r) ==
  /\ act[r].pc = "reconnect" /\ CloseConn /\ ClosePing
  /\ act' = [act EXCEPT ![r].pc = "gate", ![r].sock = 0]
  /\ UNCHANGED <<done, pingers, Rest>>

(* Close, from the daemon's shutdown and from a read loop that saw it.     *)
Close == CloseConn /\ ClosePing /\ done' = [done EXCEPT !.closed = TRUE]
ReaderCloses(r) == act[r].pc = "close" /\ Close /\ Ends(r) /\ UNCHANGED <<pingers, latch, redial, world, ctx>>
CloseAtShutdown == ctx = "done" /\ ~done.closed /\ Close /\ UNCHANGED <<act, pingers, Rest>>
Shutdown ==
  /\ MayStop /\ ctx = "live" /\ ctx' = "done"
  /\ UNCHANGED <<act, conn, done, ping, pingers, latch, redial, busyMed, world>>

PingerEnds(p) ==
  /\ p \in pingers /\ (ctx = "done" \/ Closed(p.gen) \/ p.ch \in ping.closed)
  /\ pingers' = pingers \ {p} /\ UNCHANGED <<act, conn, done, ping, Rest>>

(****************************** The world **********************************)

(* The socket breaks, with the network or without it; a broken network is  *)
(* seen by the keepalive. A session lasts a minute.                        *)
Breaks ==
  /\ Up /\ conn.cur \notin conn.broken /\ conn.newest < MaxDials
  /\ conn' = [conn EXCEPT !.broken = @ \cup {conn.cur}]
  /\ UNCHANGED <<act, done, ping, pingers, Rest>>
KeepaliveFails ==
  /\ Up /\ world.now = "down" /\ conn.cur \notin conn.broken /\ conn.newest < MaxDials
  /\ conn' = [conn EXCEPT !.broken = @ \cup {conn.cur}]
  /\ UNCHANGED <<act, done, ping, pingers, Rest>>
SessionStable ==
  /\ V2 /\ Up /\ ~redial.stable
  /\ redial' = [redial EXCEPT !.stable = TRUE, !.credit = Earned(1)]
  /\ UNCHANGED <<act, conn, done, ping, pingers, latch, busyMed, world, ctx>>
WorldChanges ==
  /\ world.changes < MaxWorld
  /\ \E w \in Worlds \ {world.now} :
       world' = [now |-> w, changes |-> world.changes + 1, edge |-> IF world.now = "down" THEN TRUE ELSE IF w = "down" THEN FALSE ELSE world.edge]
  /\ UNCHANGED <<act, conn, done, ping, pingers, latch, redial, busyMed, ctx>>

Dialer(a) == Gate(a) \/ Backoff(a) \/ Waited(a) \/ Connect(a) \/ Latch(a) \/ Start(a) \/ Cleared(a)
Reader(r) == Look(r) \/ Message(r) \/ ReadFails(r) \/ Reconnect(r) \/ ReaderCloses(r)
Mediator == Beat \/ BeatQueried \/ Edge
LineNext ==
  \/ \E a \in Actors : Dialer(a)
  \/ \E r \in Readers : Reader(r)
  \/ Mediator \/ ProbeDue \/ CloseAtShutdown \/ Shutdown
  \/ \E p \in pingers : PingerEnds(p)
  \/ Breaks \/ KeepaliveFails \/ SessionStable \/ WorldChanges

(* Goroutines run, signals come, time passes.                              *)
Fairness ==
  /\ \A a \in Actors : WF_line_vars(Dialer(a))
  /\ \A r \in Readers : WF_line_vars(Reader(r))
  /\ WF_line_vars(Beat) /\ WF_line_vars(BeatQueried) /\ WF_line_vars(Edge) /\ WF_line_vars(ProbeDue) /\ WF_line_vars(KeepaliveFails)
  /\ WF_line_vars(CloseAtShutdown) /\ WF_line_vars(\E p \in pingers : PingerEnds(p))
LineSpec == LineInit /\ [][LineNext]_line_vars /\ Fairness

(***************************** Properties **********************************)

LineTypes ==
  /\ conn.cur \in 0..MaxDials /\ conn.broken \subseteq 1..MaxDials
  /\ redial.attempts \in 0..MaxTries /\ redial.credit \in 0..4
  /\ latch.armed => latch.retired
  /\ \A r \in Readers : act[r].pc = "read" => act[r].sock # 0

Reads(r) == act[r].pc \in {"look", "read"} /\ ~Closed(act[r].gen)
(* "The caller is the sole reader": never two live read loops, although a  *)
(* closed generation is replaced while its goroutines still run.           *)
OneReader == ctx = "live" => Cardinality({r \in Readers : Reads(r)}) <= 1
(* A socket that is up has a reader, or is about to get one: no dial leaves*)
(* a socket nobody reads (the generation note of Connect).                 *)
SocketIsRead ==
  Up => \/ ctx = "done"
        \/ \E a \in DOMAIN act : act[a].pc \in {"start", "reconnect"} \/ Reads(a)
(* A socket is pinged by the goroutine started for it and by no other.     *)
Pings(p) == ctx = "live" /\ ~Closed(p.gen) /\ p.ch \notin ping.closed
OnePinger == Cardinality({p \in pingers : Pings(p)}) <= 1
(* A relay that is down, accepts and closes, or refuses is never dialed in *)
(* a tight loop: a dial of v2 without a wait needs a stable session or a   *)
(* wake (a legacy dial spends no credit).                                  *)
NeverTight == \A a \in DOMAIN act : act[a].pc = "dial" => redial.credit > 0 \/ Up
(* One reconcile at a time: the mediator's two callers never both dial.    *)
OneReconcile ==
  {"beat", "edge"} \subseteq DOMAIN act => act["beat"].pc = Idle \/ act["edge"].pc = Idle

(* A socket has one reader and one pinger of its own, one reconcile runs   *)
(* at a time, and nobody redials in a tight loop (relayer.go 603, v2.go    *)
(* 150, mediator.go 845).                                                  *)
OneOfEach == OneReader /\ SocketIsRead /\ OnePinger /\ NeverTight /\ OneReconcile

Good == world.now = "ok" /\ ctx = "live"
(* A relay that is there is connected in the end: after an outage, after a *)
(* retirement, however the edges and heartbeats fell.                      *)
Connects == []<>(~Good \/ (Up /\ conn.cur \notin conn.broken))
(* After the shutdown nothing is open and no goroutine of the relayer lives.*)
ShutdownEnds == []<>(ctx = "live" \/ (~Up /\ pingers = {} /\ \A a \in Actors : act[a].pc = Idle))
=============================================================================
