------------------------- MODULE MintPairingProofs --------------------------
(***************************************************************************)
(* Mint pairing and its overlay, for any pairings, faults and deliveries:  *)
(* no relayer session of an old topic outlives a factory reset, no pairing *)
(* is published over one, no pairing that ended keeps the overlay, and the *)
(* screen follows the overlay.                                             *)
(*                                                                         *)
(* The argument: whoever waits for the broker or the painter is registered *)
(* as starting or has been cancelled (Turns), so the reset finds everyone; *)
(* a session that the sweep came too early for is in the hands of a worker *)
(* that takes it back (Sessions); the overlay belongs to a pairing between *)
(* its show and its deferred hide (Owns); and the last delivery queued     *)
(* says what is current (Follows).                                         *)
(***************************************************************************)
EXTENDS MintPairing, SequenceTheorems, TLAPS

(* The names differ, and the delivery queue holds something.               *)
Names == Nobody \notin Pairs /\ Other \notin Pairs /\ MaxDeliveries \in Nat \ {0}

IsPair(x) ==
  x \in [pc : {x.pc}, guard : {x.guard}, auto : {x.auto}, canceled : {x.canceled}, ctx : {x.ctx},
         over : {x.over}, asked : {x.asked}, delivering : {x.delivering}, accepted : {x.accepted},
         ended : {x.ended}, session : {x.session}, made : {x.made}, lost : {x.lost}, faulty : {x.faulty}, old : {x.old}]

Handling == {"replacing", "broker", "showing", "publish"}
Working == {"polling", "asked", "admitted", "creating", "created", "revoking", "delivering", "sent"}

Stages == {"idle", "closing", "waiting", "creates", "sweep", "done", "rebooted"}
Shapes == DOMAIN pr = Pairs /\ (\A p \in Pairs : IsPair(pr[p]))
          /\ reset \in [pc : Stages, waits : {reset.waits}, drained : {reset.drained}]

(* startMu and the two registrations.                                      *)
Turns ==
  /\ lock \in Pairs \cup {Nobody} /\ starting \in Pairs \cup {Nobody} /\ active \in Pairs \cup {Nobody}
  /\ \A p \in Pairs :
       /\ pr[p].pc \in {"free", "queued", "ending", "done"} \cup Handling \cup Working
       /\ lock = p <=> pr[p].pc \in Handling
       /\ active = p => pr[p].pc \in Working
       /\ pr[p].pc \in {"broker", "showing", "publish"} => starting = p \/ pr[p].canceled

(* There is one reset; a pairing asked for before it has an old guard.     *)
Guards ==
  /\ topic \in {0, 1, 2} /\ (topic = 0 <=> reset.pc = "idle") /\ (topic = 2 => Swept) /\ (reset.drained => topic # 0)
  /\ \A p \in Pairs : pr[p].guard \in {0, 2} /\ (pr[p].guard = 2 => topic = 2)

(* Where the session of a pairing is, or is to come from.                  *)
Hands == {"creating", "created", "revoking"}
Accounted(p) ==
  /\ p \in Displays => pr[p].made = "no"
  /\ pr[p].session = "live" => pr[p].made # "no" \/ (p \in Displays /\ reset.pc = "idle")
  /\ pr[p].made = "late" => Swept
  /\ pr[p].lost \/ reset.pc = "rebooted" => Over(p)
  /\ reset.drained /\ pr[p].guard = 0 /\ p \notin Displays => pr[p].pc \notin {"creating", "created"}
  /\ reset.drained /\ pr[p].guard = 0 /\ pr[p].made = "late" => pr[p].lost
  /\ Swept /\ pr[p].session = "live" /\ pr[p].guard = 0 /\ ~pr[p].faulty =>
       pr[p].made = "late" /\ (pr[p].lost \/ pr[p].pc \in Hands \/ reset.pc = "rebooted")
Sessions == \A p \in Pairs : Accounted(p)

(* Once the reset has closed what there was, nothing old is published.     *)
Closed == reset.pc \in {"waiting", "creates", "sweep", "done", "rebooted"}
Published ==
  Closed => /\ \A p \in Pairs : pr[p].pc \in {"showing", "publish"} /\ pr[p].guard = 0 => pr[p].canceled
            /\ active # Nobody => pr[active].guard = topic

Owns == \A p \in Pairs : ov.cur = p => pr[p].pc \in {"showing", "publish", "ending"} \cup Working

Deliveries == [owner : Pairs \cup {Other}, kind : {"code", "received", "creating", "other", "x"}, hide : BOOLEAN]
IsController(c) == c \in [cur : {c.cur}, queue : Seq(Deliveries), busy : Seq(Deliveries), screen : {c.screen}, painted : {c.painted}, told : {c.told}]
Says(d, cur) == IF d.hide THEN cur = Nobody ELSE d.owner = cur
Follows ==
  /\ IsController(ov) /\ Len(ov.busy) <= 1
  /\ ov.queue # << >> => Says(ov.queue[Len(ov.queue)], ov.cur)
  /\ ov.queue = << >> /\ ov.busy # << >> => Says(ov.busy[1], ov.cur)
  /\ ov.queue = << >> /\ ov.busy = << >> /\ ov.painted => ov.screen = ov.cur

IInv == Shapes /\ Turns /\ Guards /\ Sessions /\ Published /\ Owns /\ Follows

-----------------------------------------------------------------------------
(* The overlay controller.                                                 *)

SameScreen(c, e) == e.cur = c.cur /\ e.busy = c.busy /\ e.screen = c.screen /\ e.painted = c.painted

LEMMA TellKeeps ==
  ASSUME NEW c, IsController(c), NEW d, NEW v
  PROVE  /\ IsController(Tell(c, d, v)) /\ SameScreen(c, Tell(c, d, v))
         /\ Tell(c, d, v).queue = c.queue
<1>1. CASE Tell(c, d, v) = c
  BY <1>1 DEF SameScreen
<1>2. CASE Tell(c, d, v) = [c EXCEPT !.told[d.owner] = v]
  BY <1>2 DEF IsController, SameScreen
<1>. QED BY <1>1, <1>2 DEF Tell

LEMMA QueueSet ==
  ASSUME NEW c, IsController(c), NEW q \in Seq(Deliveries), NEW e, e = [c EXCEPT !.queue = q]
  PROVE  IsController(e) /\ SameScreen(c, e) /\ e.queue = q
BY DEF IsController, SameScreen

(* What is queued last is what was said last.                              *)
LEMMA EnqueueKeeps ==
  ASSUME Names, NEW c, IsController(c), NEW d \in Deliveries
  PROVE  /\ IsController(Enqueue(c, d)) /\ SameScreen(c, Enqueue(c, d))
         /\ Enqueue(c, d).queue # << >>
         /\ Enqueue(c, d).queue[Len(Enqueue(c, d).queue)] = d
<1>. DEFINE n == Len(c.queue)
            e == Enqueue(c, d)
<1>0. c.queue \in Seq(Deliveries) /\ n \in Nat /\ MaxDeliveries \in Nat \ {0}
  BY DEF IsController, Names
<1>1. CASE n > 0 /\ c.queue[n].hide = d.hide /\ c.queue[n].kind = d.kind
  <2>. DEFINE t == Tell(c, c.queue[n], "err")
              q == [c.queue EXCEPT ![n] = d]
  <2>1. IsController(t) /\ SameScreen(c, t) /\ t.queue = c.queue
    BY TellKeeps
  <2>2. e = [t EXCEPT !.queue[n] = d]
    BY <1>1 DEF Enqueue
  <2>. HIDE DEF t
  <2>3. e = [t EXCEPT !.queue = q]
    BY <2>1, <2>2
  <2>4. q \in Seq(Deliveries) /\ Len(q) = n /\ q[n] = d /\ q # << >>
    BY <1>0, <1>1
  <2>. HIDE DEF q, e
  <2>5. IsController(e) /\ SameScreen(t, e) /\ e.queue = q
    BY <2>1, <2>3, <2>4, QueueSet
  <2>6. SameScreen(c, e)
    BY <2>1, <2>5 DEF SameScreen
  <2>. QED BY <2>4, <2>5, <2>6 DEF e
<1>2. CASE ~(n > 0 /\ c.queue[n].hide = d.hide /\ c.queue[n].kind = d.kind) /\ n >= MaxDeliveries
  <2>. DEFINE t == Tell(c, Head(c.queue), "err")
              q == Append(Tail(c.queue), d)
  <2>1. IsController(t) /\ SameScreen(c, t) /\ t.queue = c.queue
    BY TellKeeps
  <2>2. e = [t EXCEPT !.queue = Append(Tail(@), d)]
    BY <1>2 DEF Enqueue
  <2>. HIDE DEF t
  <2>3. e = [t EXCEPT !.queue = q]
    BY <2>1, <2>2
  <2>4. c.queue # << >>
    BY <1>0, <1>2
  <2>5. q \in Seq(Deliveries) /\ q[Len(q)] = d /\ q # << >>
    BY <1>0, <2>4
  <2>. HIDE DEF q, e
  <2>6. IsController(e) /\ SameScreen(t, e) /\ e.queue = q
    BY <2>1, <2>3, <2>5, QueueSet
  <2>7. SameScreen(c, e)
    BY <2>1, <2>6 DEF SameScreen
  <2>. QED BY <2>5, <2>6, <2>7 DEF e
<1>3. CASE ~(n > 0 /\ c.queue[n].hide = d.hide /\ c.queue[n].kind = d.kind) /\ ~(n >= MaxDeliveries)
  <2>. DEFINE q == Append(c.queue, d)
  <2>1. e = [c EXCEPT !.queue = q]
    BY <1>3 DEF Enqueue
  <2>2. q \in Seq(Deliveries) /\ q[Len(q)] = d /\ q # << >>
    BY <1>0
  <2>. HIDE DEF q, e
  <2>3. IsController(e) /\ SameScreen(c, e) /\ e.queue = q
    BY <2>1, <2>2, QueueSet
  <2>. QED BY <2>2, <2>3 DEF e
<1>. QED BY <1>1, <1>2, <1>3

(* ov' says d last, and d says what is current.                            *)
LEMMA SaysFollows ==
  ASSUME Follows, NEW c, IsController(c), SameScreen(ov, c) \/ c.busy = ov.busy,
         NEW d \in Deliveries, Says(d, c.cur), Names, NEW e, ov' = e,
         IsController(e), SameScreen(c, e), e.queue # << >>, e.queue[Len(e.queue)] = d
  PROVE  Follows'
BY DEF Follows, SameScreen, Says, IsController

LEMMA CurSet ==
  ASSUME NEW c, IsController(c), NEW o
  PROVE  /\ IsController([c EXCEPT !.cur = o]) /\ [c EXCEPT !.cur = o].cur = o
         /\ [c EXCEPT !.cur = o].busy = c.busy
BY DEF IsController

LEMMA ShowKeeps ==
  ASSUME Names, Follows, NEW o \in Pairs \cup {Other},
         NEW k \in {"code", "received", "creating", "other"}, ov' = Show(ov, o, k)
  PROVE  Follows' /\ ov'.cur = o
<1>. DEFINE d == Delivery(o, k, FALSE)
            c == [ov EXCEPT !.cur = o]
            e == Enqueue(c, d)
<1>1. IsController(c) /\ c.cur = o /\ c.busy = ov.busy
  BY CurSet DEF Follows
<1>2. d \in Deliveries /\ ~d.hide /\ d.owner = o
  BY DEF Delivery, Deliveries
<1>. HIDE DEF d, c
<1>3. /\ IsController(e) /\ SameScreen(c, e) /\ e.queue # << >> /\ e.queue[Len(e.queue)] = d
  BY <1>1, <1>2, EnqueueKeeps
<1>4. ov' = Tell(e, d, "none")
  BY DEF Show, d, c
<1>. HIDE DEF e
<1>5. /\ IsController(ov') /\ SameScreen(e, ov') /\ ov'.queue = e.queue
  BY <1>3, <1>4, TellKeeps
<1>6. SameScreen(c, ov') /\ Says(d, c.cur)
  BY <1>1, <1>2, <1>3, <1>5 DEF SameScreen, Says
<1>7. Follows'
  BY <1>1, <1>2, <1>3, <1>5, <1>6, SaysFollows
<1>. QED BY <1>1, <1>6, <1>7 DEF SameScreen

LEMMA HideKeeps ==
  ASSUME Names, Follows, NEW o \in Pairs \cup {Other}, o # Nobody, ov' = HideOwned(ov, o)
  PROVE  Follows' /\ ov'.cur # o /\ ov'.cur \in {ov.cur, Nobody}
<1>1. CASE ov.cur # o
  BY <1>1 DEF HideOwned, Follows
<1>2. CASE ov.cur = o
  <2>. DEFINE d == Delivery(o, "x", TRUE)
              c == [ov EXCEPT !.cur = Nobody]
  <2>1. IsController(c) /\ c.cur = Nobody /\ c.busy = ov.busy
    BY CurSet DEF Follows
  <2>2. d \in Deliveries /\ d.hide
    BY DEF Delivery, Deliveries
  <2>3. ov' = Enqueue(c, d)
    BY <1>2 DEF HideOwned
  <2>. HIDE DEF d, c
  <2>4. /\ IsController(ov') /\ SameScreen(c, ov') /\ ov'.queue # << >>
        /\ ov'.queue[Len(ov'.queue)] = d
    BY <2>1, <2>2, <2>3, EnqueueKeeps
  <2>5. Says(d, c.cur)
    BY <2>1, <2>2 DEF Says
  <2>6. Follows'
    BY <2>1, <2>2, <2>4, <2>5, SaysFollows
  <2>. QED BY <2>1, <2>4, <2>6 DEF SameScreen
<1>. QED BY <1>1, <1>2

LEMMA LastIsHead ==
  ASSUME NEW S, NEW s \in Seq(S), s # << >>, Tail(s) = << >>
  PROVE  Head(s) = s[Len(s)]
<1>1. Len(s) \in Nat /\ Len(s) # 0 /\ Len(Tail(s)) = Len(s) - 1
  BY HeadTailProperties, EmptySeq
<1>2. Len(s) - 1 = 0
  BY <1>1, EmptySeq
<1>3. Len(s) = 1
  BY <1>1, <1>2
<1>. QED BY <1>3

LEMMA PaintFollows == ASSUME Names, Follows, Paint PROVE Follows' /\ ov'.cur = ov.cur
<1>0. /\ IsController(ov) /\ ov.queue \in Seq(Deliveries) /\ ov.busy \in Seq(Deliveries)
      /\ Len(ov.busy) <= 1
  BY DEF Follows, IsController
<1>1. CASE Taking(ov) /\ ov' = Taken(ov)
  <2>2. ov.queue # << >> /\ ov.busy = << >>
    BY <1>1 DEF Taking
  <2>. DEFINE b == <<Head(ov.queue)>>
              q == Tail(ov.queue)
  <2>a. b \in Seq(Deliveries) /\ q \in Seq(Deliveries)
    BY <1>0, <2>2
  <2>b. ov' = [ov EXCEPT !.busy = b, !.queue = q]
    BY <1>1 DEF Taken
  <2>. HIDE DEF b, q
  <2>c. IsController(ov') /\ ov'.cur = ov.cur /\ ov'.busy = b /\ ov'.queue = q
    BY <1>0, <2>a, <2>b DEF IsController
  <2>. USE DEF b, q
  <2>1. /\ IsController(ov') /\ ov'.cur = ov.cur
        /\ ov'.busy = <<Head(ov.queue)>> /\ ov'.queue = Tail(ov.queue)
    BY <2>c
  <2>3. Tail(ov.queue) # << >> => Tail(ov.queue)[Len(Tail(ov.queue))] = ov.queue[Len(ov.queue)]
    BY <1>0, <2>2
  <2>4. Tail(ov.queue) = << >> => Head(ov.queue) = ov.queue[Len(ov.queue)]
    BY <1>0, <2>2, LastIsHead
  <2>5. Len(ov'.busy) = 1 /\ ov'.busy[1] = Head(ov.queue) /\ ov'.busy # << >>
    BY <2>1
  <2>. QED BY <2>1, <2>2, <2>3, <2>4, <2>5 DEF Follows
<1>2. CASE \E ok \in BOOLEAN : Painting(ov) /\ ov' = Painted(ov, ok)
  <2>1. PICK ok \in BOOLEAN : Painting(ov) /\ ov' = Painted(ov, ok)
    BY <1>2
  <2>. DEFINE d == ov.busy[1]
              shows == IF ~ok THEN ov.screen ELSE IF d.hide THEN Nobody ELSE d.owner
              c == [ov EXCEPT !.busy = << >>, !.painted = ok, !.screen = shows]
  <2>2. ov' = Tell(c, d, IF ok THEN "ok" ELSE "err")
    BY <2>1 DEF Painted
  <2>3. /\ IsController(c) /\ c.cur = ov.cur /\ c.queue = ov.queue
        /\ c.busy = << >> /\ c.screen = shows /\ c.painted = ok
    <3>. HIDE DEF shows
    <3>1. << >> \in Seq(Deliveries)
      OBVIOUS
    <3>. QED BY <1>0, <3>1 DEF IsController
  <2>. HIDE DEF c
  <2>4. IsController(ov') /\ SameScreen(c, ov') /\ ov'.queue = c.queue
    BY <2>2, <2>3, TellKeeps
  <2>5. ov.busy # << >>
    BY <2>1 DEF Painting
  <2>. QED BY <2>1, <2>3, <2>4, <2>5 DEF Follows, SameScreen, Says
<1>. QED BY <1>1, <1>2 DEF Paint

-----------------------------------------------------------------------------
(* Steps of one pairing.                                                   *)

Only(p) == DOMAIN pr' = Pairs /\ IsPair(pr'[p]) /\ \A q \in Pairs \ {p} : pr'[q] = pr[q]
(* What a worker leaves as it is.                                          *)
Same(p) == pr'[p].guard = pr[p].guard /\ pr'[p].canceled = pr[p].canceled
Alive(p) == /\ pr'[p].session = pr[p].session /\ pr'[p].faulty = pr[p].faulty
            /\ pr'[p].made = pr[p].made /\ pr'[p].lost = pr[p].lost

LEMMA GotoIs ==
  ASSUME Shapes, NEW p \in Pairs, NEW pc, pr' = Goto(p, pc)
  PROVE  Only(p) /\ Same(p) /\ Alive(p) /\ pr'[p].pc = pc
BY DEF Shapes, Goto, Only, Same, Alive, IsPair

LEMMA EndsIs ==
  ASSUME Shapes, NEW p \in Pairs, Ends(p, pr)
  PROVE  Only(p) /\ Same(p) /\ Alive(p) /\ pr'[p].pc = "ending"
BY DEF Shapes, Ends, Only, Same, Alive, IsPair

LEMMA SameAccounted ==
  ASSUME NEW p \in Pairs, Accounted(p), UNCHANGED reset, pr'[p] = pr[p] PROVE Accounted(p)'
BY DEF Accounted, Swept, Over

(* Moving on keeps the account of a session; the create comes only of a    *)
(* topic that is current.                                                  *)
LEMMA MovesOn ==
  ASSUME IInv, NEW p \in Pairs, UNCHANGED reset, Alive(p), pr'[p].guard = pr[p].guard,
         Over(p) => pr'[p].pc \in {"ending", "done"},
         pr[p].pc \in Hands => pr'[p].pc \in Hands,
         pr'[p].pc \in {"creating", "created"} => pr[p].guard = topic \/ pr[p].pc \in {"creating", "created"}
  PROVE  Accounted(p)'
<1>1. Accounted(p) /\ (reset.drained => topic # 0)
  BY DEF IInv, Sessions, Guards
<1>. QED BY <1>1 DEF Accounted, Swept, Over, Alive, Hands

(* A worker moves on, or ends: its pairing is then no longer active.       *)
LEMMA WorkStep ==
  ASSUME Names, IInv, NEW p \in Pairs, Only(p), Same(p),
         pr[p].pc \in Working, pr'[p].pc \in Working \cup {"ending"},
         UNCHANGED <<lock, starting, topic, reset>>,
         \/ active' = active /\ (active = p => pr'[p].pc \in Working)
         \/ active' = (IF active = p THEN Nobody ELSE active),
         Accounted(p)', Follows', ov'.cur \in {ov.cur, p}
  PROVE  IInv'
<1>. USE DEF IInv, Only, Same
<1>1. Shapes'
  BY DEF Shapes
<1>2. Turns'
  BY DEF Turns, Handling, Working, Names
<1>3. Guards'
  BY DEF Guards, Swept
<1>4. Sessions'
  BY SameAccounted DEF Sessions
<1>5. Published'
  <2>1. active' \in {active, Nobody}
    OBVIOUS
  <2>. QED BY <2>1 DEF Published, Closed, Working, Turns, Names
<1>6. Owns'
  BY DEF Owns
<1>. QED BY <1>1, <1>2, <1>3, <1>4, <1>5, <1>6

LEMMA MintShown ==
  ASSUME Names, IInv, NEW p \in Pairs, NEW k \in {"code", "received", "creating"}, NEW auto, NEW live,
         ShowMint(p, k, auto, live)
  PROVE  Follows' /\ ov'.cur \in {ov.cur, p}
<1>1. CASE ov' = Show(ov, p, k)
  BY <1>1, ShowKeeps DEF IInv
<1>2. CASE ov' = ov
  BY <1>2 DEF IInv, Follows
<1>. QED BY <1>1, <1>2 DEF ShowMint

LEMMA StillFollows == ASSUME IInv, UNCHANGED ov PROVE Follows' /\ ov'.cur = ov.cur
BY DEF IInv, Follows

LEMMA CreateKeeps ==
  ASSUME Names, IInv, NEW p \in Pairs, Check(p) \/ CreateAnswers(p) \/ GrantAnswers(p) \/ Settle(p) PROVE IInv'
<1>0. UNCHANGED <<lock, starting, topic, reset, ov>> /\ pr[p].pc \in Working /\ ~Over(p)
  BY DEF Check, CreateAnswers, GrantAnswers, Settle, Working, Over
<1>1. Shapes /\ Accounted(p) /\ IsPair(pr[p])
  BY DEF IInv, Sessions, Shapes
<1>2. CASE Ends(p, pr) /\ (pr[p].pc = "admitted" \/ p \in Displays)
  <2>1. Only(p) /\ Same(p) /\ Alive(p) /\ pr'[p].pc = "ending" /\ active' = (IF active = p THEN Nobody ELSE active)
    BY <1>1, <1>2, EndsIs DEF Ends
  <2>2. Accounted(p)'
    BY <1>0, <1>1, <1>2, <2>1 DEF Accounted, Alive, Same, Swept, Over, Hands
  <2>. QED BY <1>0, <2>1, <2>2, StillFollows, WorkStep
<1>3. CASE pr' = Goto(p, "creating") /\ pr[p].pc = "admitted" /\ Current(p) /\ active' = active
  <2>1. Only(p) /\ Same(p) /\ Alive(p) /\ pr'[p].pc = "creating"
    BY <1>1, <1>3, GotoIs
  <2>2. Accounted(p)'
    BY <1>0, <1>3, <2>1, MovesOn DEF Same, Hands, Current
  <2>. QED BY <1>0, <1>3, <2>1, <2>2, StillFollows, WorkStep DEF Working
<1>4. CASE CreateAnswers(p) /\ pr' = Goto(p, "created") /\ UNCHANGED active
  <2>1. Only(p) /\ Same(p) /\ Alive(p) /\ pr'[p].pc = "created" /\ pr[p].pc = "creating"
    BY <1>1, <1>4, GotoIs DEF CreateAnswers
  <2>2. Accounted(p)'
    BY <1>0, <2>1, MovesOn DEF Same, Hands
  <2>. QED BY <1>0, <1>4, <2>1, <2>2, StillFollows, WorkStep DEF Working
<1>5. CASE /\ reset.pc = "idle" /\ pr' = [pr EXCEPT ![p].pc = "created", ![p].session = "live"]
           /\ p \in Displays /\ active' = active
  <2>1. /\ Only(p) /\ Same(p) /\ pr'[p].pc = "created"
        /\ pr'[p].made = pr[p].made /\ pr'[p].lost = pr[p].lost /\ pr'[p].faulty = pr[p].faulty
    BY <1>1, <1>5 DEF Shapes, Only, Same, IsPair
  <2>2. topic = 0
    BY <1>5 DEF IInv, Guards
  <2>3. ~reset.drained
    BY <2>2 DEF IInv, Guards
  <2>4. Accounted(p)'
    BY <1>0, <1>1, <1>5, <2>1, <2>3 DEF Accounted, Same, Swept, Over
  <2>. QED BY <1>0, <1>5, <2>1, <2>4, StillFollows, WorkStep DEF Working
<1>6. CASE /\ CreateAnswers(p)
           /\ \/ Ends(p, [pr EXCEPT ![p].lost = TRUE]) \/ Ends(p, [pr EXCEPT ![p].session = "revoked"])
              \/ Ends(p, [pr EXCEPT ![p].faulty = TRUE])
  <2>1. /\ Only(p) /\ Same(p) /\ pr'[p].pc = "ending" /\ active' = (IF active = p THEN Nobody ELSE active)
        /\ pr'[p].made = pr[p].made
        /\ pr'[p].session = "live" => pr[p].session = "live"
        /\ pr'[p].session = "live" => pr'[p].faulty \/ (pr'[p].lost /\ pr'[p].faulty = pr[p].faulty)
        /\ pr[p].lost => pr'[p].lost
    BY <1>1, <1>6 DEF Ends, Shapes, Only, Same, IsPair
  <2>2. Accounted(p)'
    BY <1>0, <1>1, <2>1 DEF Accounted, Same, Swept, Over, Hands
  <2>. QED BY <1>0, <2>1, <2>2, StillFollows, WorkStep
<1>7. CASE Settle(p) /\ Stale(p)
  <2>1. Only(p) /\ Same(p) /\ Alive(p) /\ pr'[p].pc = "revoking" /\ active' = active
    BY <1>1, <1>7, GotoIs DEF Settle
  <2>2. Accounted(p)'
    BY <1>0, <2>1, MovesOn DEF Same, Hands
  <2>. QED BY <1>0, <2>1, <2>2, StillFollows, WorkStep DEF Working
<1>8. CASE Settle(p) /\ ~Stale(p)
  <2>1. Only(p) /\ Same(p) /\ Alive(p) /\ pr'[p].pc = "delivering" /\ active' = active
    BY <1>1, <1>8 DEF Shapes, Only, Same, IsPair, Settle, Alive
  <2>2. ~(Swept /\ pr[p].guard = 0)
    BY <1>8 DEF Stale, Current, IInv, Guards, Swept
  <2>3. Accounted(p)'
    BY <1>0, <1>1, <2>1, <2>2 DEF Accounted, Alive, Same, Swept, Over
  <2>. QED BY <1>0, <2>1, <2>3, StillFollows, WorkStep DEF Working
<1>. QED BY <1>2, <1>3, <1>4, <1>5, <1>6, <1>7, <1>8 DEF Check, CreateAnswers, GrantAnswers, Settle

(* The relayer commits: nothing of the device moves.                       *)
LEMMA CommitKeeps == ASSUME Names, IInv, NEW p \in Pairs, RelayerCommits(p) PROVE IInv'
<1>0. /\ UNCHANGED <<lock, starting, active, topic, reset, ov>>
      /\ p \notin Displays /\ (pr[p].pc = "creating" \/ pr[p].lost)
  BY DEF RelayerCommits, Posted
<1>1. /\ Only(p) /\ Same(p) /\ pr'[p].pc = pr[p].pc /\ pr'[p].session = "live"
      /\ pr'[p].lost = pr[p].lost /\ pr'[p].faulty = pr[p].faulty
      /\ pr'[p].made = IF Swept THEN "late" ELSE "yes"
  BY DEF RelayerCommits, IInv, Shapes, Only, Same, IsPair
<1>. USE <1>0, <1>1 DEF IInv, Only, Same
<1>2. Shapes' /\ Turns' /\ Guards'
  BY DEF Shapes, Turns, Guards, Swept
<1>3. Accounted(p)'
  BY DEF Accounted, Sessions, Swept, Over, Hands
<1>4. Sessions'
  BY <1>3, SameAccounted DEF Sessions
<1>5. Published' /\ Owns'
  BY DEF Published, Closed, Owns, Turns
<1>6. Follows'
  BY StillFollows
<1>. QED BY <1>2, <1>4, <1>5, <1>6

LEMMA DeliverKeeps ==
  ASSUME Names, IInv, NEW p \in Pairs, Revoke(p) \/ Deliver(p) \/ Sent(p) PROVE IInv'
<1>0. UNCHANGED <<lock, starting, topic, reset, ov>> /\ pr[p].pc \in Working
  BY DEF Revoke, Deliver, Sent, Working
<1>1. Shapes
  BY DEF IInv
<1>2. CASE Ends(p, pr) /\ pr[p].pc \in {"delivering", "sent"}
  <2>1. Only(p) /\ Same(p) /\ Alive(p) /\ pr'[p].pc = "ending" /\ active' = (IF active = p THEN Nobody ELSE active)
    BY <1>1, <1>2, EndsIs DEF Ends
  <2>2. Accounted(p)'
    BY <1>0, <1>2, <2>1, MovesOn DEF Same, Hands, Over, Working
  <2>. QED BY <1>0, <2>1, <2>2, StillFollows, WorkStep
<1>3. CASE pr' = Goto(p, "sent") /\ pr[p].pc = "delivering" /\ active' = active
  <2>1. Only(p) /\ Same(p) /\ Alive(p) /\ pr'[p].pc = "sent"
    BY <1>1, <1>3, GotoIs
  <2>2. Accounted(p)'
    BY <1>0, <1>3, <2>1, MovesOn DEF Same, Hands, Over, Working
  <2>. QED BY <1>0, <1>3, <2>1, <2>2, StillFollows, WorkStep DEF Working
<1>4. CASE pr' = Goto(p, "revoking") /\ active' = active
  <2>1. Only(p) /\ Same(p) /\ Alive(p) /\ pr'[p].pc = "revoking"
    BY <1>1, <1>4, GotoIs
  <2>2. Accounted(p)'
    BY <1>0, <2>1, MovesOn DEF Same, Hands, Over, Working
  <2>. QED BY <1>0, <1>4, <2>1, <2>2, StillFollows, WorkStep DEF Working
<1>5. CASE \/ Ends(p, [pr EXCEPT ![p].session = "revoked"])
           \/ Ends(p, [pr EXCEPT ![p].faulty = TRUE])
  <2>1. /\ Only(p) /\ Same(p) /\ pr'[p].pc = "ending" /\ active' = (IF active = p THEN Nobody ELSE active)
        /\ pr'[p].session = "live" => pr[p].session = "live" /\ pr'[p].faulty
        /\ pr'[p].made = pr[p].made /\ pr'[p].lost = pr[p].lost
    BY <1>1, <1>5 DEF Ends, Shapes, Only, Same, IsPair
  <2>2. Accounted(p) /\ ~Over(p)
    BY <1>0 DEF IInv, Sessions, Over, Working
  <2>3. Accounted(p)'
    BY <1>0, <2>1, <2>2 DEF Accounted, Same, Swept, Over, Hands
  <2>. QED BY <1>0, <2>1, <2>3, StillFollows, WorkStep
<1>. QED BY <1>2, <1>3, <1>4, <1>5 DEF Revoke, Deliver, Sent

LEMMA AskedKeeps ==
  ASSUME Names, IInv, NEW p \in Pairs,
         Gone(p) \/ Unanswered(p) \/ Lapse(p) \/ Complete(p) \/ (\E d \in {"approve", "reject"} : Decide(p, d))
  PROVE  IInv'
<1>0. UNCHANGED <<lock, starting, topic, reset>> /\ pr[p].pc \in Working
  BY DEF Gone, Unanswered, Lapse, Complete, Decide, Working
<1>1. Shapes
  BY DEF IInv
<1>2. CASE /\ UNCHANGED ov /\ pr[p].pc = "asked"
           /\ Ends(p, pr) \/ Ends(p, [pr EXCEPT ![p].ended = TRUE])
  <2>1. Only(p) /\ Same(p) /\ Alive(p) /\ pr'[p].pc = "ending" /\ active' = (IF active = p THEN Nobody ELSE active)
    BY <1>1, <1>2 DEF Ends, Shapes, Only, Same, IsPair, Alive
  <2>2. Accounted(p)'
    BY <1>0, <1>2, <2>1, MovesOn DEF Same, Hands, Over, Working
  <2>. QED BY <1>0, <1>2, <2>1, <2>2, StillFollows, WorkStep
<1>3. CASE Lapse(p) \/ (\E d \in {"approve", "reject"} : Decide(p, d))
  <2>1. Only(p) /\ Same(p) /\ Alive(p) /\ pr'[p].pc = pr[p].pc /\ UNCHANGED <<active, ov>>
    BY <1>1, <1>3 DEF Lapse, Decide, Shapes, Only, Same, IsPair, Alive
  <2>2. Accounted(p)'
    BY <1>0, <2>1, MovesOn DEF Same, Hands, Over, Working
  <2>. QED BY <1>0, <2>1, <2>2, StillFollows, WorkStep
<1>4. CASE /\ pr' = Goto(p, "admitted") /\ UNCHANGED active /\ pr[p].pc = "asked"
           /\ ShowMint(p, "creating", FALSE, active = p) \/ UNCHANGED ov
  <2>1. Only(p) /\ Same(p) /\ Alive(p) /\ pr'[p].pc = "admitted"
    BY <1>1, <1>4, GotoIs
  <2>2. Accounted(p)'
    BY <1>0, <1>4, <2>1, MovesOn DEF Same, Hands, Over, Working
  <2>3. Follows' /\ ov'.cur \in {ov.cur, p}
    BY <1>4, MintShown, StillFollows
  <2>. QED BY <1>0, <1>4, <2>1, <2>2, <2>3, WorkStep DEF Working
<1>. QED BY <1>2, <1>3, <1>4 DEF Gone, Unanswered, Complete

LEMMA RequestKeeps == ASSUME Names, IInv, NEW p \in Pairs, Request(p) PROVE IInv'
<1>0. UNCHANGED <<lock, starting, topic, reset>> /\ pr[p].pc \in Working /\ pr[p].pc = "polling"
  BY DEF Request, Working
<1>1. Shapes
  BY DEF IInv
<1>2. CASE ~Current(p)
  <2>1. /\ Only(p) /\ Same(p) /\ Alive(p) /\ pr'[p].pc = "ending" /\ UNCHANGED ov
        /\ active' = (IF active = p THEN Nobody ELSE active)
    BY <1>1, <1>2, EndsIs DEF Request, Ends
  <2>2. Accounted(p)'
    BY <1>0, <1>0, <2>1, MovesOn DEF Same, Hands, Over, Working
  <2>. QED BY <1>0, <2>1, <2>2, StillFollows, WorkStep
<1>3. CASE Current(p)
  <2>1. Only(p) /\ Same(p) /\ Alive(p) /\ pr'[p].pc = "asked" /\ UNCHANGED active
    BY <1>1, <1>3 DEF Request, Shapes, Only, Same, IsPair, Alive
  <2>2. Accounted(p)'
    BY <1>0, <1>0, <2>1, MovesOn DEF Same, Hands, Over, Working
  <2>3. Follows' /\ ov'.cur \in {ov.cur, p}
    BY <1>3, MintShown, StillFollows DEF Request
  <2>. QED BY <1>0, <2>1, <2>2, <2>3, WorkStep DEF Working
<1>. QED BY <1>2, <1>3

LEMMA HideStep == ASSUME Names, IInv, NEW p \in Pairs, Hide(p) PROVE IInv'
<1>1. Only(p) /\ Same(p) /\ Alive(p) /\ pr'[p].pc = "done"
  BY GotoIs DEF IInv, Hide
<1>2. Follows' /\ ov'.cur # p /\ ov'.cur \in {ov.cur, Nobody}
  BY HideKeeps DEF Hide, IInv, Names
<1>3. UNCHANGED <<lock, starting, active, topic, reset>> /\ pr[p].pc = "ending"
  BY DEF Hide
<1>. USE <1>1, <1>3 DEF IInv, Only, Same, Alive
<1>4. Shapes' /\ Guards'
  BY DEF Shapes, Guards, Swept
<1>5. Turns'
  BY DEF Turns, Handling, Working
<1>6. Accounted(p)'
  BY MovesOn DEF Hands
<1>7. Sessions'
  BY <1>6, SameAccounted DEF Sessions
<1>8. Published'
  BY DEF Published, Closed, Turns, Names, Working
<1>9. Owns'
  BY <1>2 DEF Owns, Names
<1>. QED BY <1>2, <1>4, <1>5, <1>7, <1>8, <1>9

LEMMA PollEndsKeeps == ASSUME Names, IInv, NEW p \in Pairs, PollEnds(p) PROVE IInv'
<1>0. /\ UNCHANGED <<lock, starting, topic, reset, ov>>
      /\ pr[p].pc \in Working /\ pr[p].pc = "polling"
  BY DEF PollEnds, Working
<1>1. Shapes
  BY DEF IInv
<1>2. CASE Ends(p, pr)
  <2>1. /\ Only(p) /\ Same(p) /\ Alive(p) /\ pr'[p].pc = "ending"
        /\ active' = (IF active = p THEN Nobody ELSE active)
    BY <1>1, <1>2, EndsIs DEF Ends
  <2>2. Accounted(p)'
    BY <1>0, <1>0, <2>1, MovesOn DEF Same, Hands, Over, Working
  <2>. QED BY <1>0, <2>1, <2>2, StillFollows, WorkStep
<1>3. ASSUME TopicReady, NEW n \in Pairs, pr[n].pc = "free",
             Ends(p, [pr EXCEPT ![n].pc = "queued", ![n].guard = topic, ![n].auto = TRUE])
      PROVE  IInv'
  <2>0. n # p /\ topic \in {0, 2}
    BY <1>0, <1>3 DEF TopicReady, IInv, Guards
  <2>1. /\ DOMAIN pr' = Pairs /\ \A q \in Pairs \ {p, n} : pr'[q] = pr[q]
        /\ pr'[p] = [pr[p] EXCEPT !.pc = "ending"] /\ IsPair(pr[p]) /\ IsPair(pr[n])
        /\ pr'[n] = [pr[n] EXCEPT !.pc = "queued", !.guard = topic, !.auto = TRUE]
        /\ active' = (IF active = p THEN Nobody ELSE active)
    BY <1>1, <1>3, <2>0 DEF Ends, Shapes
  <2>a. IsPair(pr'[p]) /\ Same(p) /\ Alive(p) /\ pr'[p].pc = "ending"
    BY <2>1 DEF IsPair, Same, Alive
  <2>b. IsPair(pr'[n]) /\ Alive(n) /\ pr'[n].pc = "queued" /\ pr'[n].guard = topic
    BY <2>1 DEF IsPair, Alive
  <2>2. /\ DOMAIN pr' = Pairs /\ IsPair(pr'[p]) /\ IsPair(pr'[n])
        /\ \A q \in Pairs \ {p, n} : pr'[q] = pr[q]
        /\ Same(p) /\ Alive(p) /\ pr'[p].pc = "ending"
        /\ Alive(n) /\ pr'[n].pc = "queued" /\ pr'[n].guard = topic
        /\ active' = (IF active = p THEN Nobody ELSE active)
    BY <2>1, <2>a, <2>b
  <2>. USE <1>0, <1>3, <2>0, <2>2 DEF IInv, Same, Alive
  <2>3. Shapes'
    BY DEF Shapes
  <2>4. Turns'
    BY DEF Turns, Handling, Working, Names
  <2>5. Guards'
    BY DEF Guards, Swept
  <2>6. Sessions'
    <3>1. Accounted(p)'
      BY MovesOn DEF Hands, Over
    <3>2. Accounted(n)'
      <4>1. Accounted(n) /\ (Swept => topic = 2)
        BY DEF Sessions, Guards, Swept
      <4>. QED BY <4>1 DEF Accounted, Swept, Over, Hands, Guards
    <3>. QED BY <3>1, <3>2, SameAccounted DEF Sessions
  <2>7. Published'
    <3>1. active' \in {active, Nobody}
      OBVIOUS
    <3>. QED BY <3>1 DEF Published, Closed, Working, Turns, Names
  <2>8. Owns'
    BY DEF Owns, Working
  <2>9. Follows'
    BY StillFollows
  <2>. QED BY <2>3, <2>4, <2>5, <2>6, <2>7, <2>8, <2>9
<1>4. \A n \in Starts : n \in Pairs
  BY PairsAssumption
<1>. QED BY <1>2, <1>3, <1>4 DEF PollEnds

-----------------------------------------------------------------------------
(* Cancellations: they touch a pairing's context and its flags only.       *)

IsPairs(f) == DOMAIN f = Pairs /\ \A p \in Pairs : IsPair(f[p])
Kept(x, y) == /\ y.pc = x.pc /\ y.guard = x.guard /\ y.session = x.session
              /\ y.faulty = x.faulty /\ y.made = x.made /\ y.lost = x.lost /\ (x.canceled => y.canceled)
(* What a handler, too, leaves as it is.                                   *)
Untouched(x, y) == /\ y.guard = x.guard /\ y.session = x.session /\ y.faulty = x.faulty
                   /\ y.canceled = x.canceled /\ y.made = x.made /\ y.lost = x.lost
Quiet(f, g) == \A p \in Pairs : Kept(f[p], g[p])

LEMMA KeptAccounted ==
  ASSUME Sessions, UNCHANGED reset, NEW p \in Pairs, Kept(pr[p], pr'[p]) PROVE Accounted(p)'
<1>1. Accounted(p)
  BY DEF Sessions
<1>. QED BY <1>1 DEF Accounted, Kept, Swept, Over, Hands

LEMMA CanceledIs ==
  ASSUME NEW f, IsPairs(f), NEW o \in Pairs
  PROVE  /\ IsPairs(Canceled(f, o)) /\ Quiet(f, Canceled(f, o))
         /\ \A p \in Pairs : Canceled(f, o)[p].pc = f[p].pc /\ Untouched(f[p], Canceled(f, o)[p])
<1>. DEFINE v == IF f[o].ctx = "live" THEN "canceled" ELSE f[o].ctx
            g == [f EXCEPT ![o].ctx = v]
<1>1. g = Canceled(f, o)
  BY DEF Canceled
<1>. HIDE DEF v
<1>2. DOMAIN g = Pairs /\ \A p \in Pairs \ {o} : g[p] = f[p]
  BY DEF IsPairs
<1>3. g[o] = [f[o] EXCEPT !.ctx = v] /\ IsPair(f[o])
  BY DEF IsPairs
<1>4. IsPair(g[o]) /\ g[o].pc = f[o].pc /\ Untouched(f[o], g[o])
  BY <1>3 DEF IsPair, Untouched
<1>5. IsPairs(g) /\ \A p \in Pairs : g[p].pc = f[p].pc /\ Untouched(f[p], g[p])
  BY <1>2, <1>4 DEF IsPairs, Untouched
<1>. HIDE DEF g
<1>6. Quiet(f, g)
  BY <1>5 DEF Quiet, Kept, Untouched
<1>. QED BY <1>1, <1>5, <1>6

LEMMA CancelActiveIs ==
  ASSUME NEW f, IsPairs(f), active \in Pairs \cup {Nobody}
  PROVE  IsPairs(CancelActive(f)) /\ Quiet(f, CancelActive(f))
<1>1. CASE active = Nobody
  BY <1>1 DEF CancelActive, Quiet, Kept
<1>2. CASE active # Nobody
  BY <1>2, CanceledIs DEF CancelActive
<1>. QED BY <1>1, <1>2

LEMMA CancelStartingIs ==
  ASSUME NEW f, IsPairs(f), starting \in Pairs \cup {Nobody}
  PROVE  /\ IsPairs(CancelStarting(f)) /\ Quiet(f, CancelStarting(f))
         /\ starting # Nobody => CancelStarting(f)[starting].canceled
<1>1. CASE starting = Nobody
  BY <1>1 DEF CancelStarting, Quiet, Kept
<1>2. CASE starting # Nobody
  <2>. DEFINE g == [f EXCEPT ![starting].canceled = TRUE]
  <2>1. g = CancelStarting(f) /\ starting \in Pairs
    BY <1>2 DEF CancelStarting
  <2>2. DOMAIN g = Pairs /\ \A p \in Pairs \ {starting} : g[p] = f[p]
    BY DEF IsPairs
  <2>3. g[starting] = [f[starting] EXCEPT !.canceled = TRUE] /\ IsPair(f[starting])
    BY <2>1 DEF IsPairs
  <2>4. IsPair(g[starting]) /\ g[starting].canceled /\ Kept(f[starting], g[starting])
    BY <2>3 DEF IsPair, Kept
  <2>. HIDE DEF g
  <2>. QED BY <2>1, <2>2, <2>4 DEF IsPairs, Quiet, Kept
<1>. QED BY <1>1, <1>2

(* A registration goes only with its cancellation.                         *)
Unregisters ==
  /\ active' \in {active, Nobody} /\ starting' \in {starting, Nobody}
  /\ starting' # starting => pr'[starting].canceled

LEMMA QuietTurns ==
  ASSUME Names, IInv, Quiet(pr, pr'), Unregisters, lock' = lock PROVE Turns'
<1>1. \A p \in Pairs : Kept(pr[p], pr'[p])
  BY DEF Quiet
<1>2. \A p \in Pairs : pr'[p].pc = pr[p].pc /\ (pr[p].canceled => pr'[p].canceled)
  BY <1>1 DEF Kept
<1>3. Turns
  BY DEF IInv
<1>. QED BY <1>2, <1>3 DEF Turns, Unregisters, Names

LEMMA QuietStep ==
  ASSUME Names, IInv, IsPairs(pr'), Quiet(pr, pr'), Unregisters, UNCHANGED <<lock, topic, reset, ov>>
  PROVE  IInv'
<1>0. \A p \in Pairs : Kept(pr[p], pr'[p])
  BY DEF Quiet
<1>. USE DEF IInv
<1>1. Shapes'
  BY DEF Shapes, IsPairs
<1>2. Turns'
  BY QuietTurns
<1>3. Sessions'
  BY <1>0, KeptAccounted DEF Sessions
<1>6. Guards' /\ Owns'
  BY <1>0 DEF Guards, Owns, Kept, Swept
<1>4. Published'
  BY <1>0 DEF Published, Closed, Kept, Unregisters, Turns
<1>5. Follows'
  BY StillFollows
<1>. QED BY <1>1, <1>2, <1>3, <1>4, <1>5, <1>6

LEMMA BothCanceled ==
  ASSUME Names, IInv, pr' = CancelActive(CancelStarting(pr)), starting' = Nobody, active' = Nobody
  PROVE  IsPairs(pr') /\ Quiet(pr, pr') /\ Unregisters
<1>. DEFINE q == CancelStarting(pr)
<1>1. IsPairs(pr) /\ starting \in Pairs \cup {Nobody} /\ active \in Pairs \cup {Nobody}
  BY DEF IInv, Shapes, Turns, IsPairs
<1>2. IsPairs(q) /\ Quiet(pr, q) /\ (starting # Nobody => q[starting].canceled)
  BY <1>1, CancelStartingIs
<1>. HIDE DEF q
<1>3. IsPairs(CancelActive(q)) /\ Quiet(q, CancelActive(q))
  BY <1>1, <1>2, CancelActiveIs
<1>4. pr' = CancelActive(q)
  BY DEF q
<1>5. Quiet(pr, pr')
  BY <1>2, <1>3, <1>4 DEF Quiet, Kept
<1>6. starting # Nobody => pr'[starting].canceled
  BY <1>1, <1>2, <1>3, <1>4 DEF Quiet, Kept
<1>. QED BY <1>3, <1>4, <1>5, <1>6 DEF Unregisters

LEMMA CloseKeeps == ASSUME Names, IInv, Close PROVE IInv'
BY BothCanceled, QuietStep DEF Close

LEMMA OverriddenKeeps == ASSUME Names, IInv, NEW p \in Pairs, Overridden(p) PROVE IInv'
<1>1. IsPairs(pr)
  BY DEF IInv, Shapes, IsPairs
<1>2. CASE pr[p].over
  BY <1>1, <1>2, QuietStep DEF Overridden, Quiet, Kept, Unregisters
<1>3. CASE ~pr[p].over
  <2>. DEFINE f == [pr EXCEPT ![p].over = TRUE]
  <2>1. IsPairs(f) /\ Quiet(pr, f)
    BY <1>1 DEF IsPairs, IsPair, Quiet, Kept
  <2>2. pr' = Canceled(f, p)
    BY <1>3 DEF Overridden
  <2>. HIDE DEF f
  <2>3. IsPairs(pr') /\ Quiet(f, pr')
    BY <2>1, <2>2, CanceledIs
  <2>4. Quiet(pr, pr')
    BY <2>1, <2>3 DEF Quiet, Kept
  <2>. QED BY <2>3, <2>4, QuietStep DEF Overridden, Unregisters
<1>. QED BY <1>2, <1>3

(* A start or join that waits for its turn has read the topic it is for.   *)
LEMMA AskKeeps == ASSUME Names, IInv, NEW p \in Pairs, Ask(p) PROVE IInv'
<1>. DEFINE ends == p \in Joins /\ ~(SameSite /\ starting \in Joins)
            q == IF ends THEN CancelStarting(pr) ELSE pr
<1>1. IsPairs(pr) /\ starting \in Pairs \cup {Nobody} /\ topic \in {0, 2}
  BY DEF IInv, Shapes, Turns, IsPairs, Guards, Ask, TopicReady
<1>2. IsPairs(q) /\ Quiet(pr, q) /\ (ends /\ starting # Nobody => q[starting].canceled)
  <2>1. Quiet(pr, pr)
    BY DEF Quiet, Kept
  <2>. QED BY <1>1, <2>1, CancelStartingIs
<1>3. /\ pr[p].pc = "free" /\ pr' = [q EXCEPT ![p].pc = "queued", ![p].guard = topic]
      /\ starting' = (IF ends THEN Nobody ELSE starting)
      /\ UNCHANGED <<lock, active, topic, reset, ov>>
  BY DEF Ask
<1>. HIDE DEF q, ends
<1>4. IsPairs(pr') /\ pr'[p].pc = "queued" /\ pr'[p].guard = topic /\ pr'[p].session = q[p].session
      /\ pr'[p].made = q[p].made /\ pr'[p].lost = q[p].lost
  BY <1>2, <1>3 DEF IsPairs, IsPair
<1>5. \A r \in Pairs \ {p} : Kept(pr[r], pr'[r])
  BY <1>2, <1>3 DEF IsPairs, Quiet, Kept
<1>6. /\ pr'[p].session = pr[p].session /\ pr'[p].canceled = q[p].canceled
      /\ pr'[p].made = pr[p].made /\ pr'[p].lost = pr[p].lost
  BY <1>2, <1>3 DEF IsPairs, IsPair, Quiet, Kept
<1>7. starting' # starting => starting \in Pairs /\ pr'[starting].canceled
  <2>1. starting' # starting => starting \in Pairs /\ q[starting].canceled
    BY <1>1, <1>2, <1>3
  <2>2. \A r \in Pairs \ {p} : pr'[r].canceled = q[r].canceled
    BY <1>2, <1>3 DEF IsPairs
  <2>. QED BY <2>1, <2>2, <1>6
<1>8. Shapes'
  BY <1>3, <1>4 DEF IInv, Shapes, IsPairs
<1>9. Turns'
  <2>1. \A r \in Pairs \ {p} : pr'[r].pc = pr[r].pc /\ (pr[r].canceled => pr'[r].canceled)
    BY <1>5 DEF Kept
  <2>2. Turns
    BY DEF IInv
  <2>. QED BY <1>3, <1>4, <1>7, <2>1, <2>2 DEF Turns, Names, Handling, Working
<1>a. \A r \in Pairs \ {p} : /\ pr'[r].pc = pr[r].pc /\ pr'[r].guard = pr[r].guard
                              /\ pr'[r].session = pr[r].session /\ pr'[r].faulty = pr[r].faulty
                              /\ (pr[r].canceled => pr'[r].canceled)
  BY <1>5 DEF Kept
<1>b. Guards'
  BY <1>1, <1>3, <1>4, <1>a DEF IInv, Guards, Swept
<1>c. Sessions'
  <2>1. reset' = reset /\ Guards /\ Sessions
    BY <1>3 DEF IInv
  <2>2. Swept \/ reset.drained => pr'[p].guard # 0
    BY <1>1, <1>4, <2>1 DEF Guards, Swept
  <2>3. Accounted(p)'
    BY <1>3, <1>4, <1>6, <2>1, <2>2 DEF Sessions, Accounted, Swept, Over, Hands
  <2>. QED BY <1>5, <2>1, <2>3, KeptAccounted DEF Sessions
<1>10. Guards' /\ Sessions'
  BY <1>b, <1>c
<1>11. Published'
  <2>1. /\ active # p /\ active \in Pairs \cup {Nobody} /\ Published
        /\ reset' = reset /\ active' = active /\ topic' = topic
    BY <1>3 DEF IInv, Turns, Working
  <2>2. active # Nobody => pr'[active].guard = pr[active].guard
    BY <1>a, <2>1
  <2>. QED BY <1>4, <1>a, <2>1, <2>2 DEF Published, Closed
<1>12. Owns'
  BY <1>3, <1>4, <1>5 DEF IInv, Owns, Kept, Working
<1>13. Follows'
  BY <1>3, StillFollows
<1>. QED BY <1>8, <1>9, <1>10, <1>11, <1>12, <1>13 DEF IInv

-----------------------------------------------------------------------------
(* The factory reset, and the rest of the screen.                          *)

LEMMA ResetClosesKeeps == ASSUME Names, IInv, ResetCloses PROVE IInv'
<1>0. /\ UNCHANGED <<lock, topic, ov>> /\ reset.pc = "closing" /\ starting' = Nobody /\ active' = Nobody
      /\ pr' = CancelActive(CancelStarting(pr)) /\ reset'.pc \in {"waiting", "creates"} /\ reset'.drained = reset.drained
      /\ reset' \in [pc : Stages, waits : {reset'.waits}, drained : {reset'.drained}]
  BY DEF ResetCloses, IInv, Shapes, Stages
<1>1. IsPairs(pr') /\ Quiet(pr, pr') /\ Unregisters
  BY <1>0, BothCanceled
<1>2. \A p \in Pairs : Kept(pr[p], pr'[p])
  BY <1>1 DEF Quiet
<1>. USE DEF IInv
<1>3. Shapes'
  BY <1>0, <1>1 DEF Shapes, IsPairs
<1>4. Turns'
  BY <1>0, <1>1, QuietTurns
<1>5. Guards'
  BY <1>0, <1>2 DEF Guards, Kept, Swept
<1>6. Sessions' /\ Owns'
  <2>1. ASSUME NEW p \in Pairs PROVE Accounted(p)'
    <3>1. Accounted(p) /\ Kept(pr[p], pr'[p])
      BY <1>2 DEF Sessions
    <3>. QED BY <1>0, <3>1 DEF Accounted, Kept, Swept, Over, Hands
  <2>. QED BY <1>0, <1>2, <2>1 DEF Sessions, Owns, Kept
<1>7. Published'
  BY <1>0, <1>1, <1>2 DEF Published, Turns, Unregisters, Kept, Names
<1>8. Follows'
  BY <1>0, StillFollows
<1>. QED BY <1>3, <1>4, <1>5, <1>6, <1>7, <1>8

LEMMA InvalidateKeeps == ASSUME Names, IInv, Invalidate PROVE IInv'
<1>0. /\ UNCHANGED <<lock, starting, active, ov>> /\ topic = 0 /\ topic' = 1
      /\ pr' = [p \in Pairs |-> Retired(p)]
      /\ reset'.pc = "closing" /\ reset'.drained = reset.drained /\ reset.pc = "idle"
      /\ reset' \in [pc : Stages, waits : {reset'.waits}, drained : {reset'.drained}]
  BY DEF Invalidate, IInv, Guards, Shapes, Stages, TopicReady, Swept
<1>1. ASSUME NEW p \in Pairs
      PROVE  /\ IsPair(pr'[p]) /\ pr'[p].pc = pr[p].pc /\ pr'[p].guard = pr[p].guard
             /\ pr'[p].canceled = pr[p].canceled
             /\ pr'[p].made = pr[p].made /\ pr'[p].lost = pr[p].lost /\ pr'[p].faulty = pr[p].faulty
             /\ pr'[p].session = "live" => pr[p].session = "live" /\ p \notin Displays
  BY <1>0 DEF IInv, Shapes, IsPair, Retired
<1>. USE DEF IInv
<1>2. Shapes'
  BY <1>0, <1>1 DEF Shapes
<1>3. Turns'
  BY <1>0, <1>1 DEF Turns
<1>4. Guards' /\ Published'
  BY <1>0, <1>1 DEF Guards, Published, Closed, Swept
<1>7. Sessions'
  <2>1. ASSUME NEW p \in Pairs PROVE Accounted(p)'
    <3>1. Accounted(p) /\ ~reset.drained
      BY <1>0 DEF Sessions, Guards
    <3>. QED BY <1>0, <1>1, <3>1 DEF Accounted, Swept, Over, Hands
  <2>. QED BY <2>1 DEF Sessions
<1>5. Owns'
  BY <1>0, <1>1 DEF Owns
<1>6. Follows'
  BY <1>0, StillFollows
<1>. QED BY <1>2, <1>3, <1>4, <1>5, <1>6, <1>7

LEMMA SweepKeeps == ASSUME Names, IInv, Sweep PROVE IInv'
<1>1. PICK failed \in SUBSET Pairs :
        pr' = [p \in Pairs |-> IF pr[p].session # "live" \/ ~OfOldTopic(p) THEN pr[p]
                               ELSE IF p \in failed THEN [pr[p] EXCEPT !.faulty = TRUE]
                               ELSE [pr[p] EXCEPT !.session = "revoked"]]
  BY DEF Sweep
<1>2. /\ UNCHANGED <<lock, starting, active, topic, ov>> /\ reset.pc = "sweep" /\ reset'.pc = "done"
      /\ topic = 1 /\ reset'.drained = reset.drained
      /\ reset' \in [pc : Stages, waits : {reset'.waits}, drained : {reset'.drained}]
  BY DEF Sweep, IInv, Guards, Shapes, Stages, Swept
<1>3. ASSUME NEW p \in Pairs
      PROVE  /\ IsPair(pr'[p]) /\ pr'[p].pc = pr[p].pc /\ pr'[p].guard = pr[p].guard
             /\ pr'[p].canceled = pr[p].canceled
             /\ pr'[p].made = pr[p].made /\ pr'[p].lost = pr[p].lost
             /\ pr'[p].session = "live" => pr[p].session = "live"
             /\ pr'[p].session = "live" /\ pr'[p].guard = 0 => pr'[p].faulty
  <2>0. IsPair(pr[p])
    BY DEF IInv, Shapes
  <2>1. CASE pr'[p] = pr[p] /\ (pr[p].session # "live" \/ ~(pr[p].guard < 1))
    BY <2>0, <2>1
  <2>2. CASE pr'[p] = [pr[p] EXCEPT !.faulty = TRUE]
    BY <2>0, <2>2 DEF IsPair
  <2>3. CASE pr'[p] = [pr[p] EXCEPT !.session = "revoked"]
    BY <2>0, <2>3 DEF IsPair
  <2>. QED BY <1>1, <1>2, <2>1, <2>2, <2>3 DEF OfOldTopic
<1>. USE DEF IInv
<1>4. Shapes'
  BY <1>1, <1>2, <1>3 DEF Shapes
<1>5. Turns'
  BY <1>2, <1>3 DEF Turns
<1>6. Guards'
  BY <1>2, <1>3 DEF Guards, Swept
<1>a. Sessions'
  <2>1. ASSUME NEW p \in Pairs PROVE Accounted(p)'
    <3>1. Accounted(p)
      BY DEF Sessions
    <3>. QED BY <1>2, <1>3, <3>1 DEF Accounted, Swept, Over, Hands
  <2>. QED BY <2>1 DEF Sessions
<1>7. Published'
  BY <1>2, <1>3 DEF Published, Closed, Turns
<1>8. Owns'
  BY <1>2, <1>3 DEF Owns
<1>9. Follows'
  BY <1>2, StillFollows
<1>. QED BY <1>4, <1>5, <1>6, <1>7, <1>8, <1>9, <1>a

LEMMA ResetMovesOn == ASSUME Names, IInv, ResetWaits \/ CreatesDrained \/ NewTopic PROVE IInv'
<1>1. CASE ResetWaits \/ CreatesDrained
  <2>1. /\ UNCHANGED <<pr, lock, starting, active, topic, ov>>
        /\ reset.pc \in {"waiting", "creates"} /\ reset'.pc \in {"closing", "creates", "sweep"}
        /\ reset' \in [pc : Stages, waits : {reset'.waits}, drained : {reset'.drained}]
        /\ reset'.drained => reset.drained \/ InCreates = {}
    BY <1>1 DEF ResetWaits, CreatesDrained, Drains, IInv, Shapes, Stages
  <2>2. Follows'
    BY <2>1, StillFollows
  <2>3. ASSUME NEW p \in Pairs PROVE Accounted(p)'
    <3>1. Accounted(p) /\ pr[p].made # "late"
      BY <2>1 DEF IInv, Sessions, Accounted, Swept
    <3>2. InCreates = {} /\ p \notin Displays => pr[p].pc \notin {"creating", "created"}
      BY DEF InCreates
    <3>. QED BY <2>1, <3>1, <3>2 DEF Accounted, Swept, Over, Hands
  <2>4. Guards'
    BY <2>1 DEF IInv, Guards, Swept
  <2>. QED BY <2>1, <2>2, <2>3, <2>4 DEF IInv, Shapes, Turns, Sessions, Published, Closed, Owns
<1>2. CASE NewTopic
  <2>1. UNCHANGED <<pr, lock, starting, active, reset, ov>> /\ reset.pc = "done" /\ topic = 1 /\ topic' = 2
    BY <1>2 DEF NewTopic, TopicReady, IInv, Guards
  <2>2. active = Nobody
    BY <2>1 DEF IInv, Published, Closed, Guards, Turns
  <2>3. Follows'
    BY <2>1, StillFollows
  <2>4. Sessions' /\ Guards'
    BY <2>1, SameAccounted DEF IInv, Sessions, Guards, Swept
  <2>. QED BY <2>1, <2>2, <2>3, <2>4 DEF IInv, Shapes, Turns, Published, Closed, Owns
<1>. QED BY <1>1, <1>2

(* The reboot ends every handler and worker; what the relayer holds stays. *)
LEMMA RebootKeeps == ASSUME Names, IInv, Reboot PROVE IInv'
<1>0. /\ UNCHANGED topic /\ topic # 0 /\ lock' = Nobody /\ starting' = Nobody /\ active' = Nobody
      /\ reset.pc = "done" /\ reset'.pc = "rebooted" /\ reset'.drained = reset.drained
      /\ reset' \in [pc : Stages, waits : {reset'.waits}, drained : {reset'.drained}]
      /\ ov' = NewController(Pairs \cup {Other})
  BY DEF Reboot, IInv, Shapes, Guards, Stages
<1>1. ASSUME NEW p \in Pairs
      PROVE  /\ IsPair(pr'[p]) /\ pr'[p].pc = "done" /\ pr'[p].guard = pr[p].guard
             /\ pr'[p].made = pr[p].made /\ pr'[p].session = pr[p].session /\ pr'[p].faulty = pr[p].faulty
             /\ pr[p].lost => pr'[p].lost
  BY DEF Reboot, Fresh, IInv, Shapes, IsPair
<1>. USE DEF IInv
<1>2. Shapes'
  BY <1>0, <1>1 DEF Shapes, Reboot
<1>3. Turns'
  BY <1>0, <1>1 DEF Turns, Names, Handling, Working
<1>4. Guards' /\ Published'
  BY <1>0, <1>1 DEF Guards, Published, Swept, Closed
<1>5. Sessions'
  <2>1. ASSUME NEW p \in Pairs PROVE Accounted(p)'
    <3>1. Accounted(p)
      BY DEF Sessions
    <3>. QED BY <1>0, <1>1, <3>1 DEF Accounted, Swept, Over, Hands
  <2>. QED BY <2>1 DEF Sessions
<1>6. IsController(ov') /\ ov'.cur = Nobody /\ ov'.screen = Nobody /\ ov'.queue = << >> /\ ov'.busy = << >>
  BY <1>0 DEF NewController, IsController
<1>7. Owns' /\ Follows'
  BY <1>6 DEF Owns, Follows, Names
<1>. QED BY <1>2, <1>3, <1>4, <1>5, <1>7

LEMMA ScreenKeeps == ASSUME Names, IInv, OtherShows \/ OtherHides \/ Paint PROVE IInv'
<1>1. UNCHANGED <<pr, lock, starting, active, topic, reset>>
  BY DEF OtherShows, OtherHides, Paint
<1>2. Follows' /\ ov'.cur \in {ov.cur, Other, Nobody}
  BY ShowKeeps, HideKeeps, PaintFollows DEF OtherShows, OtherHides, IInv
<1>3. Owns'
  BY <1>1, <1>2 DEF IInv, Owns, Names
<1>4. Sessions'
  BY <1>1, SameAccounted DEF IInv, Sessions
<1>. QED BY <1>1, <1>2, <1>3, <1>4 DEF IInv, Shapes, Turns, Guards, Published, Closed, Swept

LEMMA StutterKeeps == ASSUME IInv, UNCHANGED vars PROVE IInv'
<1>1. Follows'
  BY StillFollows DEF vars
<1>2. Sessions'
  BY SameAccounted DEF vars, IInv, Sessions
<1>. QED BY <1>1, <1>2 DEF vars, IInv, Shapes, Turns, Guards, Published, Closed, Owns, Swept

-----------------------------------------------------------------------------
(* The handlers.                                                           *)

Handles(p) ==
  /\ IsPairs(pr') /\ \A q \in Pairs : Untouched(pr[q], pr'[q])
  /\ \A q \in Pairs \ {p} : pr'[q].pc = pr[q].pc
Registers(p) ==
  /\ lock \in {p, Nobody} /\ lock' = (IF pr'[p].pc \in Handling THEN p ELSE Nobody)
  /\ starting' \in {starting, p, Nobody}
  /\ pr'[p].pc \in {"broker", "showing", "publish"} => starting' = p \/ pr[p].canceled
  /\ \/ active' \in {active, Nobody}
     \/ active' = p /\ pr[p].pc = "publish" /\ pr'[p].pc = "polling" /\ ~pr[p].canceled
Covers(p) ==
  /\ ov'.cur \in {ov.cur, Nobody, active, p}
  /\ ov'.cur = p => pr'[p].pc \in {"showing", "publish", "polling"}

LEMMA HandlerStep ==
  ASSUME Names, IInv, NEW p \in Pairs, Handles(p), Registers(p), Covers(p), UNCHANGED <<topic, reset>>,
         pr[p].pc \in {"queued"} \cup Handling, pr'[p].pc \in {"done", "polling"} \cup Handling,
         pr'[p].pc \in {"showing", "publish"} => pr[p].guard = topic \/ pr[p].pc \in {"showing", "publish"},
         Follows'
  PROVE  IInv'
<1>0. \A q \in Pairs : Untouched(pr[q], pr'[q])
  BY DEF Handles
<1>. USE DEF IInv
<1>1. Shapes'
  BY DEF Shapes, Handles, IsPairs
<1>2. active # p /\ active \in Pairs \cup {Nobody} /\ (active # Nobody => pr[active].pc \in Working)
  BY DEF Turns, Handling, Working
<1>3. Turns'
  <2>1. lock' \in Pairs \cup {Nobody} /\ starting' \in Pairs \cup {Nobody} /\ active' \in Pairs \cup {Nobody}
    BY DEF Turns, Registers
  <2>2. ASSUME NEW q \in Pairs \ {p}
        PROVE  /\ pr'[q].pc = pr[q].pc /\ pr[q].pc \notin Handling /\ lock' # q
               /\ (active' = q => active = q)
    BY DEF Handles, Turns, Registers, Names
  <2>3. /\ (lock' = p <=> pr'[p].pc \in Handling)
        /\ (active' = p => pr'[p].pc = "polling")
        /\ (pr'[p].pc \in {"broker", "showing", "publish"} => starting' = p \/ pr'[p].canceled)
    BY <1>0, <1>2 DEF Registers, Untouched, Names
  <2>4. \A q \in Pairs \ {p} : /\ pr'[q].pc \in {"free", "queued", "ending", "done"} \cup Handling \cup Working
                               /\ (active' = q => pr'[q].pc \in Working)
    BY <2>2 DEF Turns
  <2>5. \A q \in Pairs \ {p} : pr'[q].pc \notin {"broker", "showing", "publish"}
    BY <2>2 DEF Handling
  <2>6. \A q \in Pairs \ {p} : lock' = q <=> pr'[q].pc \in Handling
    BY <2>2
  <2>. QED BY <2>1, <2>3, <2>4, <2>5, <2>6 DEF Turns, Working
<1>4. Guards'
  BY <1>0 DEF Guards, Untouched, Swept
<1>5. Sessions'
  <2>1. Accounted(p)'
    BY <1>0, MovesOn DEF Alive, Untouched, Over, Hands, Handling
  <2>2. ASSUME NEW q \in Pairs \ {p} PROVE Accounted(q)'
    <3>1. Accounted(q) /\ Untouched(pr[q], pr'[q]) /\ pr'[q].pc = pr[q].pc
      BY <1>0 DEF Sessions, Handles
    <3>. QED BY <3>1 DEF Accounted, Untouched, Swept, Over, Hands
  <2>. QED BY <2>1, <2>2 DEF Sessions
<1>6. Published'
  <2>1. ASSUME Closed, NEW q \in Pairs, pr'[q].pc \in {"showing", "publish"}, pr[q].guard = 0
        PROVE  pr[q].canceled
    <3>1. CASE pr[q].pc \in {"showing", "publish"}
      BY <2>1, <3>1 DEF Published
    <3>2. CASE pr[q].guard = topic
      BY <2>1, <3>2 DEF Guards, Closed
    <3>. QED BY <2>1, <3>1, <3>2 DEF Handles
  <2>2. ASSUME Closed, active' # Nobody PROVE pr[active'].guard = topic
    <3>1. CASE active' = active
      BY <2>2, <3>1 DEF Published
    <3>2. CASE active' = p /\ pr[p].pc = "publish" /\ ~pr[p].canceled
      BY <2>2, <3>2 DEF Published, Guards, Closed
    <3>. QED BY <2>2, <3>1, <3>2 DEF Registers
  <2>3. active' \in Pairs \cup {Nobody} /\ (Closed' <=> Closed)
    BY <1>3 DEF Turns, Closed
  <2>4. active' # Nobody => pr'[active'].guard = pr[active'].guard
    BY <1>0, <2>3 DEF Untouched
  <2>. QED BY <1>0, <2>1, <2>2, <2>3, <2>4 DEF Published, Untouched
<1>7. Owns'
  BY <1>2 DEF Owns, Covers, Handles, Working, Names
<1>. QED BY <1>1, <1>3, <1>4, <1>5, <1>6, <1>7

LEMMA GotoHandles ==
  ASSUME Shapes, NEW p \in Pairs, NEW pc, pr' = Goto(p, pc) PROVE Handles(p) /\ pr'[p].pc = pc
BY GotoIs DEF Shapes, Handles, IsPairs, Untouched, Only, Same, Alive, Goto, IsPair

(* What a handler leaves behind when it gives up.                          *)
LEMMA DropKeeps ==
  ASSUME Names, IInv, NEW p \in Pairs, pr[p].pc \in {"broker", "showing", "publish"}, Drop(p),
         UNCHANGED <<topic, reset>>
  PROVE  IInv'
<1>1. Handles(p) /\ pr'[p].pc = "done"
  BY DEF IInv, Shapes, Drop, Canceled, Handles, IsPairs, IsPair, Untouched
<1>2. lock = p
  BY DEF IInv, Turns, Handling
<1>3. Registers(p)
  BY <1>1, <1>2 DEF Drop, Registers, Handling
<1>4. Follows' /\ ov'.cur # p /\ ov'.cur \in {ov.cur, Nobody}
  BY HideKeeps DEF Drop, IInv, Names
<1>5. Covers(p)
  BY <1>4 DEF Covers
<1>. QED BY <1>1, <1>3, <1>4, <1>5, HandlerStep DEF Handling

LEMMA StartTurnKeeps == ASSUME Names, IInv, NEW p \in Pairs, StartTurn(p) PROVE IInv'
<1>1. UNCHANGED <<topic, reset>> /\ pr[p].pc = "queued" /\ lock = Nobody
  BY DEF StartTurn
<1>2. Shapes /\ active # p /\ active \in Pairs \cup {Nobody} /\ ov.cur # p
  BY <1>1 DEF IInv, Turns, Owns, Working
<1>3. CASE active # Nobody /\ ~Expired(active)
  <2>1. /\ pr' = Goto(p, "done") /\ UNCHANGED <<lock, starting, active>>
        /\ (\E k \in {"code", "received"} : ShowMint(active, k, pr[p].auto, TRUE)) \/ UNCHANGED ov
    BY <1>3 DEF StartTurn
  <2>2. Handles(p) /\ pr'[p].pc = "done"
    BY <1>2, <2>1, GotoHandles
  <2>3. Follows' /\ ov'.cur \in {ov.cur, active}
    BY <1>2, <1>3, <2>1, MintShown, StillFollows
  <2>4. Registers(p) /\ Covers(p)
    BY <1>1, <1>2, <2>1, <2>2, <2>3 DEF Registers, Covers, Handling
  <2>. QED BY <1>1, <2>2, <2>3, <2>4, HandlerStep
<1>4. CASE ~(active # Nobody /\ ~Expired(active))
  <2>1. pr' = Goto(p, "broker") /\ active' = Nobody /\ lock' = p /\ starting' = p /\ UNCHANGED ov
    BY <1>4 DEF StartTurn
  <2>2. Handles(p) /\ pr'[p].pc = "broker"
    BY <1>2, <2>1, GotoHandles
  <2>3. Follows' /\ ov'.cur = ov.cur
    BY <2>1, StillFollows
  <2>4. Registers(p) /\ Covers(p)
    BY <1>1, <1>2, <2>1, <2>2, <2>3 DEF Registers, Covers, Handling
  <2>. QED BY <1>1, <2>2, <2>3, <2>4, HandlerStep DEF Handling
<1>. QED BY <1>3, <1>4

LEMMA JoinTurnKeeps == ASSUME Names, IInv, NEW p \in Pairs, JoinTurn(p) PROVE IInv'
<1>1. UNCHANGED <<starting, topic, reset, ov>> /\ pr[p].pc = "queued" /\ lock = Nobody
  BY DEF JoinTurn
<1>2. Shapes /\ active # p /\ active \in Pairs \cup {Nobody} /\ ov.cur # p
  BY <1>1 DEF IInv, Turns, Owns, Working
<1>3. Follows' /\ ov'.cur = ov.cur
  BY <1>1, StillFollows
<1>4. CASE pr' = Goto(p, "done") /\ UNCHANGED <<lock, active>>
  <2>1. Handles(p) /\ pr'[p].pc = "done"
    BY <1>2, <1>4, GotoHandles
  <2>2. Registers(p) /\ Covers(p)
    BY <1>1, <1>2, <1>3, <1>4, <2>1 DEF Registers, Covers, Handling
  <2>. QED BY <1>1, <1>3, <2>1, <2>2, HandlerStep
<1>5. CASE /\ pr' = [CancelActive(pr) EXCEPT ![p].pc = "replacing", ![p].old = active]
           /\ lock' = p /\ active' = Nobody
  <2>. DEFINE f == CancelActive(pr)
  <2>1. IsPairs(f) /\ \A q \in Pairs : f[q].pc = pr[q].pc /\ Untouched(pr[q], f[q])
    <3>0. IsPairs(pr)
      BY <1>2 DEF Shapes, IsPairs
    <3>1. CASE f = pr
      BY <3>0, <3>1 DEF Untouched
    <3>2. CASE active \in Pairs /\ f = Canceled(pr, active)
      BY <3>0, <3>2, CanceledIs
    <3>. QED BY <1>2, <3>1, <3>2 DEF CancelActive
  <2>2. pr' = [f EXCEPT ![p].pc = "replacing", ![p].old = active]
    BY <1>5
  <2>. HIDE DEF f
  <2>3. Handles(p) /\ pr'[p].pc = "replacing"
    <3>1. DOMAIN pr' = Pairs /\ (\A q \in Pairs \ {p} : pr'[q] = f[q]) /\ IsPair(f[p])
      BY <2>1, <2>2 DEF IsPairs
    <3>2. pr'[p] = [f[p] EXCEPT !.pc = "replacing", !.old = active]
      BY <2>1, <2>2 DEF IsPairs
    <3>3. IsPair(pr'[p]) /\ pr'[p].pc = "replacing" /\ Untouched(f[p], pr'[p])
      BY <3>1, <3>2 DEF IsPair, Untouched
    <3>. QED BY <2>1, <3>1, <3>3 DEF Handles, IsPairs, Untouched
  <2>4. Registers(p) /\ Covers(p)
    BY <1>1, <1>2, <1>3, <1>5, <2>3 DEF Registers, Covers, Handling
  <2>. QED BY <1>1, <1>3, <2>3, <2>4, HandlerStep DEF Handling
<1>. QED BY <1>4, <1>5 DEF JoinTurn

LEMMA ReplaceKeeps == ASSUME Names, IInv, NEW p \in Pairs, Replace(p) PROVE IInv'
<1>1. UNCHANGED <<active, topic, reset, ov>> /\ pr[p].pc = "replacing"
  BY DEF Replace
<1>2. Shapes /\ lock = p /\ ov.cur # p
  BY <1>1 DEF IInv, Turns, Owns, Handling, Working
<1>3. Follows' /\ ov'.cur = ov.cur
  BY <1>1, StillFollows
<1>4. CASE pr' = Goto(p, "broker") /\ starting' = p /\ UNCHANGED lock
  <2>1. Handles(p) /\ pr'[p].pc = "broker"
    BY <1>2, <1>4, GotoHandles
  <2>2. Registers(p) /\ Covers(p)
    BY <1>1, <1>2, <1>3, <1>4, <2>1 DEF Registers, Covers, Handling
  <2>. QED BY <1>1, <1>3, <2>1, <2>2, HandlerStep DEF Handling
<1>5. CASE pr' = Goto(p, "done") /\ lock' = Nobody /\ UNCHANGED starting
  <2>1. Handles(p) /\ pr'[p].pc = "done"
    BY <1>2, <1>5, GotoHandles
  <2>2. Registers(p) /\ Covers(p)
    BY <1>1, <1>2, <1>3, <1>5, <2>1 DEF Registers, Covers, Handling
  <2>. QED BY <1>1, <1>3, <2>1, <2>2, HandlerStep DEF Handling
<1>. QED BY <1>4, <1>5 DEF Replace

(* The handler goes on with its turn: the code is shown, or comes next.    *)
LEMMA OnKeeps ==
  ASSUME Names, IInv, NEW p \in Pairs, NEW pc \in {"showing", "publish"}, pr' = Goto(p, pc),
         pr[p].pc \in {"broker", "showing"}, Current(p), UNCHANGED <<lock, starting, active, topic, reset>>,
         Follows', ov'.cur \in {ov.cur, p}
  PROVE  IInv'
<1>1. Handles(p) /\ pr'[p].pc = pc
  BY GotoHandles DEF IInv
<1>2. lock = p /\ (starting = p \/ pr[p].canceled)
  BY DEF IInv, Turns, Handling
<1>3. Registers(p) /\ Covers(p)
  BY <1>1, <1>2 DEF Registers, Covers, Handling
<1>. QED BY <1>1, <1>3, HandlerStep DEF Handling, Current

LEMMA BrokerKeeps == ASSUME Names, IInv, NEW p \in Pairs, BrokerAnswers(p) \/ CodeShown(p) PROVE IInv'
<1>1. UNCHANGED <<topic, reset>> /\ pr[p].pc \in {"broker", "showing"}
  BY DEF BrokerAnswers, CodeShown
<1>2. CASE Drop(p)
  BY <1>1, <1>2, DropKeeps
<1>3. CASE /\ Current(p) /\ ShowMint(p, "code", pr[p].auto, ~pr[p].canceled)
           /\ pr' = Goto(p, "showing") /\ UNCHANGED <<lock, starting, active>>
  BY <1>1, <1>3, MintShown, OnKeeps
<1>4. CASE Current(p) /\ pr' = Goto(p, "publish") /\ UNCHANGED <<lock, starting, active, ov>>
  BY <1>1, <1>4, StillFollows, OnKeeps
<1>. QED BY <1>2, <1>3, <1>4 DEF BrokerAnswers, CodeShown

LEMMA PublishKeeps == ASSUME Names, IInv, NEW p \in Pairs, Publish(p) PROVE IInv'
<1>1. UNCHANGED <<topic, reset>> /\ pr[p].pc = "publish"
  BY DEF Publish
<1>2. CASE Refused(p)
  BY <1>1, <1>2, DropKeeps DEF Publish
<1>3. CASE ~Refused(p)
  <2>1. /\ active' = p /\ pr' = Goto(p, "polling") /\ lock' = Nobody /\ ~pr[p].canceled
        /\ starting' = (IF starting = p THEN Nobody ELSE starting) /\ UNCHANGED ov
    BY <1>3 DEF Publish, Refused
  <2>2. Handles(p) /\ pr'[p].pc = "polling"
    BY <2>1, GotoHandles DEF IInv
  <2>3. lock = p
    BY <1>1 DEF IInv, Turns, Handling
  <2>4. Follows' /\ ov'.cur = ov.cur
    BY <2>1, StillFollows
  <2>5. Registers(p) /\ Covers(p)
    BY <1>1, <2>1, <2>2, <2>3, <2>4 DEF Registers, Covers, Handling
  <2>. QED BY <1>1, <2>2, <2>4, <2>5, HandlerStep DEF Handling
<1>. QED BY <1>2, <1>3

LEMMA NextKeeps == ASSUME Names, IInv, [Next]_vars PROVE IInv'
<1>1. ASSUME NEW p \in Pairs, Handler(p) PROVE IInv'
  BY <1>1, StartTurnKeeps, JoinTurnKeeps, ReplaceKeeps, BrokerKeeps, PublishKeeps DEF Handler
<1>2. ASSUME NEW p \in Pairs, Worker(p) PROVE IInv'
  BY <1>2, PollEndsKeeps, AskedKeeps, CreateKeeps, DeliverKeeps, HideStep DEF Worker
<1>3. ASSUME NEW p \in Pairs, Ask(p) \/ Request(p) \/ Gone(p) \/ Unanswered(p) \/ Lapse(p) \/ Overridden(p) \/ RelayerCommits(p)
      PROVE  IInv'
  BY <1>3, AskKeeps, RequestKeeps, AskedKeeps, OverriddenKeeps, CommitKeeps
<1>4. ASSUME NEW p \in Pairs, NEW d \in {"approve", "reject"}, Decide(p, d) PROVE IInv'
  BY <1>4, AskedKeeps
<1>5. CASE Reset
  BY <1>5, ResetClosesKeeps, SweepKeeps, ResetMovesOn DEF Reset
<1>. QED BY <1>1, <1>2, <1>3, <1>4, <1>5, CloseKeeps, ScreenKeeps, InvalidateKeeps, ResetMovesOn, RebootKeeps, StutterKeeps DEF Next

LEMMA InitIInv == ASSUME Names, Init PROVE IInv
<1>1. IsController(ov) /\ ov.cur = Nobody /\ ov.screen = Nobody /\ ov.painted /\ ov.queue = << >> /\ ov.busy = << >>
  BY DEF Init, NewController, IsController
<1>2. Shapes /\ Turns
  BY DEF Init, Fresh, Shapes, IsPair, Stages, Turns, Names, Handling, Working
<1>3. Guards /\ Sessions /\ Published
  BY DEF Init, Fresh, Guards, Sessions, Accounted, Swept, Over, Published, Closed
<1>4. Owns /\ Follows
  BY <1>1 DEF Owns, Follows, Names
<1>. QED BY <1>2, <1>3, <1>4 DEF IInv

THEOREM Invariant == ASSUME Names PROVE Spec => []IInv
BY InitIInv, NextKeeps, PTL DEF Spec

(* No session of an old topic outlives a factory reset but one the relayer *)
(* refused to take back, and no pairing of the old topic is published over *)
(* it, however the handlers, the worker and the reset interleave.          *)
THEOREM ResetIsFinal == ASSUME Names PROVE Spec => []NothingOutlivesReset
<1>1. ASSUME IInv PROVE OldSessionsRevoked
  BY <1>1 DEF IInv, Shapes, Guards, Sessions, Accounted, Hands, OldSessionsRevoked
<1>2. ASSUME IInv PROVE GateIsEnough
  BY <1>2 DEF IInv, Shapes, Guards, Sessions, Accounted, GateIsEnough
<1>3. ASSUME IInv PROVE ActiveIsCurrent
  BY <1>3 DEF IInv, Published, Closed, ActiveIsCurrent, Current
<1>. QED BY <1>1, <1>2, <1>3, Invariant, PTL DEF NothingOutlivesReset

(* A pairing that ended never keeps the overlay, and once the deliveries   *)
(* have drained the screen shows what the controller says is current.      *)
THEOREM OverlayFollows == ASSUME Names PROVE Spec => []OverlayIsCurrent
<1>1. ASSUME IInv PROVE OverlayIsCurrent
  BY <1>1 DEF IInv, Shapes, Owns, Follows, Working, Settled, OverlayIsCurrent, NoGhostOverlay, ScreenFollows
<1>. QED BY <1>1, Invariant, PTL

=============================================================================
