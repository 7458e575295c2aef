------------------------------ MODULE PageProofs ------------------------------
(***************************************************************************)
(* The page on the kiosk, seen from both of controld's sessions to it:     *)
(* what it knows of the player page (playersession/session.go) and of the  *)
(* link (mediator.go), for any navigations, generations, documents and     *)
(* faults: PageIsKnown; and which of its requests the offline replay       *)
(* intercepts and fails (offlinecache/replay.go), for any iframes,         *)
(* requests, connections, admissions and faults: ScopeIsKept.              *)
(***************************************************************************)
EXTENDS PlayerSession, Replay, SequenceTheorems, TLAPS

(**************************** The player session ***************************)

(* Whoever is at work or waits in the slot has no answer yet, and they are *)
(* not the same.                                                           *)
Slots ==
  /\ nav.who <= nav.asked /\ nav.slot <= nav.asked
  /\ \A n \in 1..Asks : Len(nav.done[n]) <= 1
  /\ \A n \in 1..Asks : n > nav.asked => nav.done[n] = << >>
  /\ nav.slot # None => nav.slot # nav.who /\ nav.done[nav.slot] = << >>
  /\ nav.pc # "idle" => nav.who # None /\ nav.done[nav.who] = << >>

(* While the document that was marked is the page, the worker of the       *)
(* generation that waits for the next one has found nobody.                *)
Waits(g) == workers[g] \in {"poll", "off"} /\ gens[g].ready # "ok"
Barrier ==
  nav.pc \in {"bump", "verify"} /\ nav.marked = TRUE =>
    /\ nav.gen # None /\ doc.id >= nav.from
    /\ doc.id = nav.from => doc.nonce = nav.gen
    /\ nav.pc = "verify" =>
         /\ nav.target \in 1..Cur /\ gens[nav.target].nonce = nav.gen
         /\ doc.id = nav.from => Waits(nav.target)

(* The last signal on the bus, or else the cache, is the level there is;   *)
(* a probe that has not been applied is of that level or outdated by a     *)
(* signal that is still to come.                                           *)
LevelIsTold ==
  /\ conn.bus # << >> => conn.bus[Len(conn.bus)] = conn.level
  /\ conn.bus = << >> /\ conn.known = TRUE => conn.cache = conn.level
  /\ conn.bus = << >> /\ conn.known = FALSE /\ conn.pc = "probed" => conn.val = conn.level

WorkerTypes == DOMAIN workers = Ids
IInv == PageTypes /\ WorkerTypes /\ Slots /\ Barrier /\ LevelIsTold

-----------------------------------------------------------------------------
LEMMA PageInitInv == PageInit => IInv
<1> SUFFICES ASSUME PageInit PROVE IInv
  OBVIOUS
<1>1. DocTypes
  BY DEF PageInit, NewDoc, None, DocTypes
<1>2. GenTypes /\ WorkerTypes
  BY DEF PageInit, GenTypes, WorkerTypes
<1>3. NavTypes /\ Slots
  BY PageAssumption DEF PageInit, None, NavTypes, NavStages, Slots
<1>4. ConnTypes /\ LevelIsTold
  BY DEF PageInit, ConnTypes, Levels, PushStages, LevelIsTold
<1>5. Barrier
  BY DEF PageInit, Barrier
<1>. QED BY <1>1, <1>2, <1>3, <1>4, <1>5 DEF IInv, PageTypes

-----------------------------------------------------------------------------
(* The bus: what is added is its last element, what is taken its first.    *)
LEMMA BusGrows ==
  ASSUME NEW s \in Seq(Levels), NEW l \in Levels
  PROVE  Append(s, l) \in Seq(Levels) /\ Append(s, l) # << >> /\ Append(s, l)[Len(Append(s, l))] = l
  BY AppendProperties
LEMMA BusShrinks ==
  ASSUME NEW s \in Seq(Levels), s # << >>
  PROVE  /\ Head(s) \in Levels /\ Tail(s) \in Seq(Levels)
         /\ Tail(s) # << >> => Tail(s)[Len(Tail(s))] = s[Len(s)]
         /\ Tail(s) = << >> => Head(s) = s[Len(s)]
<1>1. Len(s) \in Nat /\ Len(s) >= 1 /\ Len(Tail(s)) = Len(s) - 1 /\ Head(s) = s[1] /\ Tail(s) \in Seq(Levels)
  BY HeadTailProperties, EmptySeq, LenProperties
<1>2. Tail(s) = << >> => Len(s) = 1
  BY <1>1
<1>3. \A i \in 1..Len(Tail(s)) : Tail(s)[i] = s[i + 1]
  BY <1>1, HeadTailProperties
<1>4. Tail(s) # << >> => Len(Tail(s)) >= 1 /\ Len(Tail(s)) \in 1..Len(Tail(s))
  BY <1>1, EmptySeq
<1>. QED BY <1>1, <1>2, <1>3, <1>4, ElementOfSeq

(* A request to push touches the worker only.                              *)
LEMMA EnqueuedKeeps ==
  ASSUME NEW c, c \in [level : Levels, bus : Seq(Levels), known : BOOLEAN, cache : Levels, seq : Nat,
            changes : Nat, busy : BOOLEAN, more : BOOLEAN, pc : PushStages, at : Nat, val : Levels]
  PROVE  /\ Enqueued(c) \in [level : {c.level}, bus : {c.bus}, known : {c.known}, cache : {c.cache}, seq : {c.seq},
            changes : {c.changes}, busy : BOOLEAN, more : BOOLEAN, pc : {c.pc, "await"}, at : {c.at}, val : {c.val}]
  BY DEF Enqueued, PushStages

ConnInv == ConnTypes /\ LevelIsTold
(* What the mediator knows of the level, whatever step is taken.           *)
LEMMA ConnStep ==
  ASSUME ConnInv, GenTypes, [PageNext]_page_vars
  PROVE  ConnInv'
<1>1. CASE UNCHANGED conn
  BY <1>1 DEF ConnInv, ConnTypes, LevelIsTold
<1>2. ASSUME NEW g \in Ids, Reconcile(g), conn' = Enqueued(conn) PROVE ConnInv'
  <2>1. /\ conn'.level = conn.level /\ conn'.bus = conn.bus /\ conn'.known = conn.known
        /\ conn'.cache = conn.cache /\ conn'.val = conn.val
        /\ conn'.pc \in {conn.pc, "await"}
    BY <1>2, EnqueuedKeeps DEF ConnInv, ConnTypes
  <2>2. ConnTypes'
    BY <1>2 DEF ConnInv, ConnTypes, Enqueued, PushStages
  <2>. QED BY <2>1, <2>2 DEF ConnInv, LevelIsTold
<1>3. CASE LevelChanges
  <2>1. Flipped(conn.level) \in Levels
    BY DEF Flipped, Levels
  <2>2. conn'.level = Flipped(conn.level) /\ conn'.bus = Append(conn.bus, Flipped(conn.level))
    BY <1>3 DEF LevelChanges, ConnInv, ConnTypes
  <2>3. PICK b \in Seq(Levels), l \in Levels, n \in Nat :
          conn' = [conn EXCEPT !.level = l, !.changes = n, !.bus = b]
    <3>1. Append(conn.bus, Flipped(conn.level)) \in Seq(Levels) /\ conn.changes + 1 \in Nat
      BY <2>1, BusGrows DEF ConnInv, ConnTypes
    <3>. QED BY <1>3, <2>1, <3>1 DEF LevelChanges
  <2>5. ConnTypes'
    BY <2>3 DEF ConnInv, ConnTypes
  <2>4. conn'.bus # << >> /\ conn'.bus[Len(conn'.bus)] = conn'.level
    BY <2>1, <2>2, BusGrows DEF ConnInv, ConnTypes
  <2>. QED BY <2>4, <2>5 DEF ConnInv, LevelIsTold
<1>4. CASE Signal
  <2> DEFINE d == [conn EXCEPT !.bus = Tail(@), !.cache = Head(conn.bus), !.known = TRUE, !.seq = @ + 1]
  <2>1. /\ Head(conn.bus) \in Levels /\ Tail(conn.bus) \in Seq(Levels) /\ conn.bus # << >>
        /\ Tail(conn.bus) # << >> => Tail(conn.bus)[Len(Tail(conn.bus))] = conn.bus[Len(conn.bus)]
        /\ Tail(conn.bus) = << >> => Head(conn.bus) = conn.bus[Len(conn.bus)]
    BY <1>4, BusShrinks DEF Signal, ConnInv, ConnTypes
  <2>2. d \in [level : Levels, bus : Seq(Levels), known : BOOLEAN, cache : Levels, seq : Nat,
            changes : Nat, busy : BOOLEAN, more : BOOLEAN, pc : PushStages, at : Nat, val : Levels]
    <3>1. PICK h \in Levels, t \in Seq(Levels), n \in Nat :
            d = [conn EXCEPT !.bus = t, !.cache = h, !.known = TRUE, !.seq = n]
      <4>1. conn.seq + 1 \in Nat
        BY DEF ConnInv, ConnTypes
      <4>. QED BY <2>1, <4>1
    <3> HIDE DEF d
    <3>. QED BY <3>1 DEF ConnInv, ConnTypes
  <2>3. d.level = conn.level /\ d.bus = Tail(conn.bus) /\ d.cache = Head(conn.bus) /\ d.known = TRUE
    BY DEF ConnInv, ConnTypes
  <2>4. conn' = Enqueued(d)
    BY <1>4 DEF Signal
  <2> HIDE DEF d
  <2>5. conn'.level = d.level /\ conn'.bus = d.bus /\ conn'.cache = d.cache /\ conn'.known = d.known
    BY <2>2, <2>4, EnqueuedKeeps
  <2>6. ConnTypes'
    BY <2>2, <2>4 DEF ConnTypes, Enqueued, PushStages
  <2>. QED BY <2>1, <2>3, <2>5, <2>6 DEF ConnInv, LevelIsTold
<1>5. CASE AwaitHandler
  <2>1. Cur \in Nat
    BY LenProperties DEF Cur, GenTypes
  <2>. QED BY <1>5, <2>1 DEF AwaitHandler, ConnInv, ConnTypes, LevelIsTold, PushStages
<1>6. CASE AwaitStage
  <2>1. CASE UNCHANGED conn
    BY <2>1, <1>1
  <2>2. CASE conn' = [conn EXCEPT !.pc = "next", !.at = 0]
    BY <2>2 DEF ConnInv, ConnTypes, LevelIsTold, PushStages
  <2>3. ASSUME NEW p \in {"send", "probe"}, conn' = [conn EXCEPT !.pc = p, !.val = conn.cache, !.at = conn.seq]
        PROVE  ConnInv'
    BY <2>3 DEF ConnInv, ConnTypes, LevelIsTold, PushStages
  <2>4. (IF conn.known THEN "send" ELSE "probe") \in {"send", "probe"}
    OBVIOUS
  <2>. QED BY <1>6, <2>1, <2>2, <2>3, <2>4 DEF AwaitStage
<1>7. CASE ColdProbe
  BY <1>7 DEF ColdProbe, ConnInv, ConnTypes, LevelIsTold, PushStages
<1>8. CASE Probed
  BY <1>8 DEF Probed, ProbeApplies, ConnInv, ConnTypes, LevelIsTold, PushStages
<1>9. CASE Push
  BY <1>9 DEF Push, ConnInv, ConnTypes, LevelIsTold, PushStages
<1>10. CASE PushNext
  BY <1>10 DEF PushNext, ConnInv, ConnTypes, LevelIsTold, PushStages, Levels
<1>11. CASE PageNext
  <2>1. ASSUME NEW g \in Ids, Reconcile(g) PROVE ConnInv'
    BY <2>1, <1>1, <1>2 DEF Reconcile
  <2>2. ASSUME NEW g \in Ids, Probe(g) \/ Stamp(g) PROVE ConnInv'
    BY <2>2, <1>1 DEF Probe, Stamp
  <2>3. CASE Client \/ NavWorker \/ Poll \/ PollReads \/ PollObserves \/ AskNavigation
    BY <2>3, <1>1 DEF Client, Dial, OnConnect, Teardown, NavWorker, Gated, MarkNonce, Navigate, NavBump, Verify,
         Poll, PollReads, PollObserves, AskNavigation
  <2>4. CASE HandlerInstalled \/ Commits \/ Reload \/ Restart
    BY <2>4, <1>1 DEF HandlerInstalled, Commits, Reload, Restart
  <2>. QED BY <1>11, <2>1, <2>2, <2>3, <2>4, <1>3, <1>4, <1>5, <1>6, <1>7, <1>8, <1>9, <1>10 DEF PageNext, Pusher, Readiness
<1>. QED BY <1>1, <1>11 DEF page_vars

-----------------------------------------------------------------------------
NavInv == NavTypes /\ Slots
DoneSet == [1..Asks -> Seq(Outcomes)]

(* Who has no answer gets one, and nobody else does.                       *)
LEMMA AnswerOnce ==
  ASSUME NavInv, NEW n \in 1..Asks, nav.done[n] = << >>, NEW o \in Outcomes
  PROVE  /\ Outcome(n, o) \in DoneSet
         /\ \A m \in 1..Asks : Len(Outcome(n, o)[m]) <= 1
         /\ \A m \in 1..Asks : m # n => Outcome(n, o)[m] = nav.done[m]
<1>1. nav.done \in DoneSet
  BY DEF NavInv, NavTypes, DoneSet
<1>2. Append(nav.done[n], o) \in Seq(Outcomes) /\ Len(Append(nav.done[n], o)) = 1
  <2>1. << >> \in Seq(Outcomes) /\ Len(<< >>) = 0
    BY EmptySeq
  <2>. QED BY <2>1, AppendProperties
<1>. QED BY <1>1, <1>2 DEF Outcome, NavInv, Slots, DoneSet

LEMMA FinishKeeps ==
  ASSUME NavInv, nav.pc # "idle", NEW o \in Outcomes, Finishes(o)
  PROVE  NavInv'
<1>1. nav.who \in 1..Asks /\ nav.done[nav.who] = << >> /\ nav.slot \in 0..Asks /\ nav.asked \in 0..Asks
  BY DEF NavInv, NavTypes, Slots, None
<1>2. PICK d \in DoneSet :
        /\ d = Outcome(nav.who, o) /\ \A m \in 1..Asks : Len(d[m]) <= 1
        /\ \A m \in 1..Asks : m # nav.who => d[m] = nav.done[m]
  BY <1>1, AnswerOnce
<1>3. CASE nav.slot = None
  <2>1. nav' = [nav EXCEPT !.done = d, !.target = None, !.gen = None, !.from = None, !.marked = FALSE,
                           !.busy = FALSE, !.pc = "idle", !.who = None]
    BY <1>2, <1>3 DEF Finishes
  <2>8. /\ NavTypes'
        /\ nav'.done = d
        /\ nav'.who = None
        /\ nav'.pc = "idle"
        /\ nav'.slot = nav.slot
        /\ nav'.asked = nav.asked
    BY <1>1, <1>2, <1>3, <2>1, PageAssumption DEF NavInv, NavTypes, NavStages, DoneSet, None
  <2>9. Slots'
    BY <1>1, <1>2, <2>8, PageAssumption DEF NavInv, Slots, None
  <2>. QED BY <2>8, <2>9 DEF NavInv
<1>4. CASE nav.slot # None
  <2>1. ASSUME NEW w \in 0..Asks, NEW e \in DoneSet,
               nav' = [nav EXCEPT !.done = e, !.target = None, !.gen = None, !.from = None, !.marked = FALSE,
                                  !.pc = "gates", !.who = w, !.slot = None]
        PROVE  /\ NavTypes' /\ nav'.done = e /\ nav'.who = w /\ nav'.slot = None
               /\ nav'.pc = "gates" /\ nav'.asked = nav.asked
    <3>1. nav' \in [busy : {nav.busy}, slot : {0}, pc : {"gates"}, who : {w}, gen : {0}, from : {0},
                    marked : {FALSE}, target : {0}, done : {e}, asked : {nav.asked}]
      BY <2>1 DEF NavInv, NavTypes, None
    <3>2. nav.busy \in BOOLEAN /\ nav.asked \in 0..Asks /\ 0 \in 0..Asks
      BY PageAssumption DEF NavInv, NavTypes
    <3>. QED BY <2>1, <3>1, <3>2 DEF NavTypes, NavStages, DoneSet, None
  <2>2. nav' = [nav EXCEPT !.done = d, !.target = None, !.gen = None, !.from = None, !.marked = FALSE,
                           !.pc = "gates", !.who = nav.slot, !.slot = None]
    BY <1>2, <1>4 DEF Finishes
  <2>8. /\ NavTypes' /\ nav'.done = d /\ nav'.who = nav.slot /\ nav'.slot = None
        /\ nav'.pc = "gates" /\ nav'.asked = nav.asked
    BY <1>1, <1>2, <2>1, <2>2
  <2>9. Slots'
    BY <1>1, <1>2, <1>4, <2>8, PageAssumption DEF NavInv, Slots, None
  <2>. QED BY <2>8, <2>9 DEF NavInv
<1>. QED BY <1>3, <1>4

LEMMA AskKeeps ==
  ASSUME NavInv, AskNavigation
  PROVE  NavInv'
<1>1. PICK n \in 1..Asks : n = nav.asked + 1 /\ n \in 0..Asks /\ nav.asked < Asks /\ nav.asked \in Nat /\ nav.done[n] = << >> /\ nav.slot \in 0..Asks /\ nav.who \in 0..Asks
      /\ nav.slot # n /\ nav.who # n /\ nav.done \in DoneSet
  BY PageAssumption DEF AskNavigation, NavInv, NavTypes, Slots, DoneSet
<1>2. PICK d \in DoneSet :
        /\ d = Outcome(n, "superseded") /\ \A m \in 1..Asks : Len(d[m]) <= 1
        /\ \A m \in 1..Asks : m # n => d[m] = nav.done[m]
  BY <1>1, AnswerOnce DEF Outcomes
<1>3. CASE nav' = [nav EXCEPT !.asked = n, !.busy = TRUE, !.pc = "gates", !.who = n]
  <2>8. /\ NavTypes'
        /\ nav'.asked = n
        /\ nav'.who = n
        /\ nav'.pc = "gates"
        /\ nav'.slot = nav.slot
        /\ nav'.done = nav.done
    BY <1>1, <1>3, PageAssumption DEF NavInv, NavTypes, NavStages, DoneSet, None
  <2>9. Slots'
    BY <1>1, <2>8, PageAssumption DEF NavInv, Slots, None
  <2>. QED BY <2>8, <2>9 DEF NavInv
<1>4. CASE nav' = [nav EXCEPT !.asked = n, !.done = d]
  <2>8. /\ NavTypes'
        /\ nav'.asked = n
        /\ nav'.done = d
        /\ nav'.slot = nav.slot
        /\ nav'.who = nav.who
        /\ nav'.pc = nav.pc
    BY <1>1, <1>2, <1>4, PageAssumption DEF NavInv, NavTypes, NavStages, DoneSet, None
  <2>9. Slots'
    BY <1>1, <1>2, <2>8, PageAssumption DEF NavInv, Slots, None
  <2>. QED BY <2>8, <2>9 DEF NavInv
<1>5. CASE nav.slot = None /\ nav' = [nav EXCEPT !.asked = n, !.slot = n]
  <2>8. /\ NavTypes'
        /\ nav'.asked = n
        /\ nav'.slot = n
        /\ nav'.done = nav.done
        /\ nav'.who = nav.who
        /\ nav'.pc = nav.pc
    BY <1>1, <1>5, PageAssumption DEF NavInv, NavTypes, NavStages, DoneSet, None
  <2>9. Slots'
    BY <1>1, <2>8, PageAssumption DEF NavInv, Slots, None
  <2>. QED BY <2>8, <2>9 DEF NavInv
<1>6. CASE nav.slot # None /\ nav' = [nav EXCEPT !.asked = n, !.slot = n, !.done = Outcome(nav.slot, "superseded")]
  <2>1. nav.slot \in 1..Asks /\ nav.done[nav.slot] = << >> /\ nav.slot # nav.who
    BY <1>1, <1>6 DEF NavInv, Slots, None
  <2>2. PICK e \in DoneSet :
        /\ e = Outcome(nav.slot, "superseded") /\ \A m \in 1..Asks : Len(e[m]) <= 1
        /\ \A m \in 1..Asks : m # nav.slot => e[m] = nav.done[m]
    BY <2>1, AnswerOnce DEF Outcomes
  <2>3. nav' = [nav EXCEPT !.asked = n, !.slot = n, !.done = e]
    BY <1>6, <2>2
  <2>8. /\ NavTypes'
        /\ nav'.asked = n
        /\ nav'.slot = n
        /\ nav'.done = e
        /\ nav'.who = nav.who
        /\ nav'.pc = nav.pc
    BY <1>1, <2>2, <2>3, PageAssumption DEF NavInv, NavTypes, NavStages, DoneSet, None
  <2>9. Slots'
    BY <1>1, <2>1, <2>2, <2>8, PageAssumption DEF NavInv, Slots, None
  <2>. QED BY <2>8, <2>9 DEF NavInv
<1>7. \/ nav' = [nav EXCEPT !.asked = n, !.busy = TRUE, !.pc = "gates", !.who = n]
      \/ nav' = [nav EXCEPT !.asked = n, !.done = Outcome(n, "superseded")]
      \/ nav.slot = None /\ nav' = [nav EXCEPT !.asked = n, !.slot = n]
      \/ nav.slot # None /\ nav' = [nav EXCEPT !.asked = n, !.slot = n, !.done = Outcome(nav.slot, "superseded")]
  BY <1>1 DEF AskNavigation, NavInv, NavTypes
<1>. QED BY <1>2, <1>3, <1>4, <1>5, <1>6, <1>7

(* Every navigation has at most one answer, whatever step is taken.        *)
LEMMA NavStep ==
  ASSUME NavInv, DocTypes, GenTypes, [PageNext]_page_vars
  PROVE  NavInv'
<1>1. CASE UNCHANGED nav
  BY <1>1 DEF NavInv, NavTypes, Slots
<1>2. Cur \in Nat /\ Cur + 1 \in Nat /\ doc.id \in Nat
  BY LenProperties DEF Cur, GenTypes, DocTypes
<1>3. CASE Gated
  BY <1>3, FinishKeeps DEF Gated, Outcomes, NavInv, NavTypes, NavStages, Slots
<1>4. CASE MarkNonce
  <2>1. PICK n \in Nat : nav' = [nav EXCEPT !.pc = "navigate", !.gen = n]
    BY <1>2, <1>4 DEF MarkNonce, None
  <2>. QED BY <1>4, <2>1 DEF MarkNonce, NavInv, NavTypes, NavStages, Slots
<1>5. CASE Navigate
  <2>1. CASE Finishes("failed")
    BY <1>5, <2>1, FinishKeeps DEF Navigate, Outcomes
  <2>2. CASE ~Finishes("failed")
    <3>1. PICK n \in Nat, b \in BOOLEAN : nav' = [nav EXCEPT !.pc = "bump", !.from = n, !.marked = b]
      BY <1>2, <1>5, <2>2 DEF Navigate
    <3>. QED BY <1>5, <3>1 DEF Navigate, NavInv, NavTypes, NavStages, Slots
  <2>. QED BY <2>1, <2>2
<1>6. CASE NavBump
  <2>1. PICK n \in Nat : nav' = [nav EXCEPT !.pc = "verify", !.target = n]
    BY <1>2, <1>6 DEF NavBump
  <2>. QED BY <1>6, <2>1 DEF NavBump, NavInv, NavTypes, NavStages, Slots
<1>7. CASE Verify
  BY <1>7, FinishKeeps DEF Verify, Outcomes
<1>8. CASE PageNext
  <2>1. ASSUME NEW g \in Ids, Readiness(g) PROVE NavInv'
    BY <2>1, <1>1 DEF Readiness, Probe, Stamp, Reconcile
  <2>2. CASE Client \/ Pusher \/ Poll \/ PollReads \/ PollObserves
    BY <2>2, <1>1 DEF Client, Dial, OnConnect, Teardown, Poll, PollReads, PollObserves,
         Pusher, AwaitHandler, AwaitStage, ColdProbe, Probed, Push, PushNext
  <2>3. CASE LevelChanges \/ Signal \/ HandlerInstalled \/ Commits \/ Reload \/ Restart
    BY <2>3, <1>1 DEF LevelChanges, Signal, HandlerInstalled, Commits, Reload, Restart
  <2>. QED BY <1>8, <2>1, <2>2, <2>3, <1>3, <1>4, <1>5, <1>6, <1>7, AskKeeps DEF PageNext, NavWorker
<1>. QED BY <1>1, <1>8 DEF page_vars

-----------------------------------------------------------------------------
(* The page: a document is told things, or it is another one; only a       *)
(* navigation that is about to be sent marks it.                           *)
DocKept ==
  /\ DocTypes'
  /\ \/ doc'.id = doc.id + 1
     \/ doc'.id = doc.id /\ doc'.nonce = doc.nonce
     \/ doc'.id = doc.id /\ MarkNonce

LEMMA DocStep ==
  ASSUME DocTypes, GenTypes, ConnTypes, [PageNext]_page_vars
  PROVE  DocKept
<1>1. CASE UNCHANGED doc
  BY <1>1 DEF DocKept, DocTypes
<1>2. CASE doc' = NewDoc(doc.id + 1)
  BY <1>2 DEF DocKept, DocTypes, NewDoc, None
<1>3. ASSUME NEW g \in Ids, Stamp(g) PROVE DocKept
  <2>1. CASE UNCHANGED doc
    BY <2>1, <1>1
  <2>2. CASE ~UNCHANGED doc
    <3>1. PICK n \in Nat, b \in BOOLEAN : doc' = [doc EXCEPT !.stamp = n, !.raced = b]
      <4>1. doc' = [doc EXCEPT !.stamp = g, !.raced = doc.raced \/ ~doc.handler]
        BY <1>3, <2>2, Zenon DEF Stamp
      <4>2. (doc.raced \/ ~doc.handler) \in BOOLEAN /\ g \in Nat
        BY DEF Ids
      <4>. QED BY <4>1, <4>2, Zenon
    <3>. QED BY <3>1 DEF DocKept, DocTypes
  <2>. QED BY <2>1, <2>2
<1>4. ASSUME NEW g \in Ids, Reconcile(g) PROVE DocKept
  <2>1. CASE doc' = [doc EXCEPT !.policy = TRUE]
    BY <2>1 DEF DocKept, DocTypes
  <2>2. ASSUME NEW c \in {"early", "ok"}, doc' = [doc EXCEPT !.content = c] PROVE DocKept
    BY <2>2 DEF DocKept, DocTypes
  <2>. QED BY <1>4, <1>1, <2>1, <2>2 DEF Reconcile, Told
<1>5. CASE Push
  <2>1. PICK l \in Levels : l = conn.val
    BY DEF ConnTypes
  <2>2. CASE doc' = [doc EXCEPT !.level = l]
    BY <2>2 DEF DocKept, DocTypes
  <2>. QED BY <1>5, <1>1, <2>1, <2>2 DEF Push, Told
<1>6. CASE MarkNonce
  <2>1. Cur + 1 \in Nat
    BY LenProperties DEF Cur, GenTypes
  <2>2. CASE doc' = [doc EXCEPT !.nonce = Cur + 1]
    <3>1. PICK n \in Nat : doc' = [doc EXCEPT !.nonce = n]
      BY <2>1, <2>2
    <3>. QED BY <1>6, <3>1 DEF DocKept, DocTypes
  <2>. QED BY <1>1, <1>6, <2>2 DEF MarkNonce
<1>7. CASE HandlerInstalled
  BY <1>7 DEF HandlerInstalled, DocKept, DocTypes
<1>8. CASE PageNext
  <2>1. ASSUME NEW g \in Ids, Probe(g) PROVE DocKept
    BY <2>1, <1>1 DEF Probe
  <2>2. CASE Client \/ Gated \/ Navigate \/ NavBump \/ Verify \/ Poll \/ PollReads \/ PollObserves \/ AskNavigation
    BY <2>2, <1>1 DEF Client, Dial, OnConnect, Teardown, Gated, Navigate, NavBump, Verify,
         Poll, PollReads, PollObserves, AskNavigation
  <2>3. CASE AwaitHandler \/ AwaitStage \/ ColdProbe \/ Probed \/ PushNext \/ LevelChanges \/ Signal
    BY <2>3, <1>1 DEF AwaitHandler, AwaitStage, ColdProbe, Probed, PushNext, LevelChanges, Signal
  <2>4. CASE Commits \/ Reload \/ Restart
    BY <2>4, <1>2 DEF Commits, Reload, Restart
  <2>. QED BY <1>8, <2>1, <2>2, <2>3, <2>4, <1>3, <1>4, <1>5, <1>6, <1>7 DEF PageNext, NavWorker, Pusher, Readiness
<1>. QED BY <1>1, <1>8 DEF page_vars

-----------------------------------------------------------------------------
(* Generations come and keep their nonce; a worker that found nobody goes  *)
(* on polling or gives up while the page does not answer it.               *)
Gen == [nonce : Nat, stage : BOOLEAN, stamp : Nat, ready : {"wait", "ok", "err"}]
GenKept ==
  /\ GenTypes' /\ WorkerTypes' /\ Cur' \in Nat /\ Cur' >= Cur
  /\ \A j \in 1..Cur :
       /\ gens'[j].nonce = gens[j].nonce
       /\ Waits(j) /\ ~Answers(j) => workers'[j] \in {"poll", "off"} /\ gens'[j].ready # "ok"

LEMMA GenAdded ==
  ASSUME GenTypes, WorkerTypes, Cur < MaxGens, NEW n \in Nat, gens' = Bump(gens, n), workers' = Started(workers)
  PROVE  GenKept /\ Cur' = Cur + 1 /\ gens'[Cur + 1].nonce = n /\ gens'[Cur + 1].ready # "ok" /\ workers'[Cur + 1] = "poll"
<1> DEFINE r == [nonce |-> n, stage |-> FALSE, stamp |-> None, ready |-> "wait"]
<1>1. r \in Gen /\ r.nonce = n /\ r.ready = "wait"
  BY DEF Gen, None
<1>2. gens \in Seq(Gen) /\ gens' = Append(gens, r)
  BY DEF GenTypes, Gen, Bump
<1> HIDE DEF r
<1>3. /\ gens' \in Seq(Gen) /\ Len(gens) \in Nat /\ Len(gens') = Len(gens) + 1
      /\ \A j \in 1..Len(gens) : gens'[j] = gens[j]
      /\ gens'[Len(gens) + 1] = r
  BY <1>1, <1>2, AppendProperties, LenProperties
<1>4. Cur \in Nat /\ Cur + 1 \in Ids
  BY <1>3, PageAssumption DEF Cur, Ids
<1>5. DOMAIN workers' = Ids /\ workers'[Cur + 1] = "poll" /\ \A j \in 1..Cur : workers'[j] = workers[j]
  BY <1>4 DEF Started, WorkerTypes, Ids
<1>6. /\ Cur' = Cur + 1 /\ gens'[Cur + 1] = r
      /\ \A j \in 1..Cur : gens'[j] = gens[j]
  BY <1>3 DEF Cur
<1>7. GenTypes' /\ WorkerTypes' /\ Cur' \in Nat /\ Cur' >= Cur
  <2>1. GenTypes'
    BY <1>3 DEF GenTypes, Gen
  <2>2. WorkerTypes'
    BY <1>5 DEF WorkerTypes
  <2> QED  BY <1>4, <1>6, <2>1, <2>2
<1>8. ASSUME NEW j \in 1..Cur, Waits(j), ~Answers(j)
      PROVE  workers'[j] \in {"poll", "off"} /\ gens'[j].ready # "ok"
  BY <1>5, <1>6, <1>8 DEF Waits
<1>. QED BY <1>1, <1>4, <1>5, <1>6, <1>7, <1>8 DEF GenKept

LEMMA GenSame ==
  ASSUME GenTypes, WorkerTypes, UNCHANGED <<gens, workers>>
  PROVE  GenKept
<1>1. Cur \in Nat /\ Cur' = Cur
  BY LenProperties DEF GenTypes, Cur
<1>. QED BY <1>1 DEF GenKept, GenTypes, WorkerTypes, Waits

LEMMA GenSet ==
  ASSUME GenTypes, NEW g \in 1..Cur, NEW h \in Gen, gens' = [gens EXCEPT ![g] = h]
  PROVE  /\ GenTypes' /\ Cur \in Nat /\ Cur' = Cur /\ gens'[g] = h
         /\ \A j \in 1..Cur : j # g => gens'[j] = gens[j]
<1>1. gens \in Seq(Gen)
  BY DEF GenTypes, Gen
<1>2. gens' \in Seq(Gen) /\ Len(gens') = Len(gens) /\ Len(gens) \in Nat
      /\ \A j \in 1..Len(gens) : gens'[j] = IF j = g THEN h ELSE gens[j]
  BY <1>1, ExceptSeq, LenProperties DEF Cur
<1>. QED BY <1>2 DEF GenTypes, Gen, Cur

(* One generation changes, in its stage, stamp or readiness, and its worker*)
(* with it; not from waiting to "ok".                                      *)
LEMMA GenMoves ==
  ASSUME GenTypes, WorkerTypes, NEW g \in 1..Cur, g \in Ids, NEW h \in Gen, NEW w, h.nonce = gens[g].nonce,
         gens' = [gens EXCEPT ![g] = h], workers' = [workers EXCEPT ![g] = w],
         Waits(g) /\ ~Answers(g) => w \in {"poll", "off"} /\ h.ready # "ok"
  PROVE  GenKept
<1>1. /\ GenTypes' /\ Cur \in Nat /\ Cur' = Cur /\ gens'[g] = h
      /\ \A j \in 1..Cur : j # g => gens'[j] = gens[j]
  BY GenSet
<1>2. DOMAIN workers' = Ids /\ workers'[g] = w /\ \A j : j # g => workers'[j] = workers[j]
  BY DEF WorkerTypes
<1>3. WorkerTypes' /\ Cur' \in Nat /\ Cur' >= Cur
  BY <1>1, <1>2 DEF WorkerTypes
<1>4. ASSUME NEW j \in 1..Cur
      PROVE  /\ gens'[j].nonce = gens[j].nonce
             /\ Waits(j) /\ ~Answers(j) => workers'[j] \in {"poll", "off"} /\ gens'[j].ready # "ok"
  <2>1. CASE j = g
    BY <2>1, <1>1, <1>2
  <2>2. CASE j # g
    BY <2>2, <1>1, <1>2 DEF Waits
  <2>. QED BY <2>1, <2>2
<1>. QED BY <1>1, <1>3, <1>4 DEF GenKept

LEMMA GenStep ==
  ASSUME GenTypes, WorkerTypes, NavTypes, [PageNext]_page_vars
  PROVE  GenKept
<1>1. CASE UNCHANGED <<gens, workers>>
  BY <1>1, GenSame
<1>2. Cur \in Nat /\ Cur + 1 \in Nat /\ gens \in Seq(Gen)
  BY LenProperties DEF GenTypes, Gen, Cur
<1>3. CASE OnConnect
  BY <1>3, GenAdded DEF OnConnect, None
<1>4. ASSUME NEW s, Observed(s) PROVE GenKept
  BY <1>1, <1>4, GenAdded DEF Observed, None
<1>5. ASSUME NEW g \in 1..Cur, g \in Ids, Probe(g) PROVE GenKept
  <2> DEFINE e == [gens[g] EXCEPT !.ready = "err"]
             s == [gens[g] EXCEPT !.stage = TRUE]
  <2>1. gens[g] \in Gen /\ e \in Gen /\ s \in Gen /\ e.nonce = gens[g].nonce /\ s.nonce = gens[g].nonce /\ e.ready = "err"
    <3>1. gens[g] \in Gen
      BY <1>2, ElementOfSeq DEF Cur
    <3>. QED BY <3>1 DEF Gen
  <2>2. CASE ~Initialized \/ (~Answers(g) /\ Obsolete(g))
    <3>1. workers' = [workers EXCEPT ![g] = "off"] /\ gens' = [gens EXCEPT ![g] = e]
      <4>1. workers' = [workers EXCEPT ![g] = "off"] /\ Resolve(g, "err")
        BY <1>5, <2>2 DEF Probe
      <4>. QED BY <4>1 DEF Resolve
    <3> HIDE DEF e, s
    <3>. QED BY <2>1, <3>1, <1>5, GenMoves
  <2>3. CASE Initialized /\ Answers(g)
    <3>1. workers' = [workers EXCEPT ![g] = "stamp"] /\ gens' = [gens EXCEPT ![g] = s]
      BY <1>5, <2>3 DEF Probe
    <3> HIDE DEF e, s
    <3>. QED BY <2>1, <2>3, <3>1, <1>5, GenMoves
  <2>. QED BY <1>1, <1>5, <2>2, <2>3 DEF Probe
<1>6. ASSUME NEW g \in 1..Cur, g \in Ids, Stamp(g) PROVE GenKept
  <2> DEFINE r == [gens[g] EXCEPT !.ready = "ok"]
             s == [gens[g] EXCEPT !.stamp = g, !.ready = "ok"]
  <2>1. r \in Gen /\ s \in Gen /\ r.nonce = gens[g].nonce /\ s.nonce = gens[g].nonce /\ g \in Nat
    <3>1. gens[g] \in Gen /\ g \in Nat
      BY <1>2, ElementOfSeq DEF Cur
    <3>2. ASSUME NEW x \in Gen, NEW n \in Nat
          PROVE  [x EXCEPT !.ready = "ok"] \in Gen /\ [x EXCEPT !.stamp = n, !.ready = "ok"] \in Gen
                 /\ [x EXCEPT !.ready = "ok"].nonce = x.nonce /\ [x EXCEPT !.stamp = n, !.ready = "ok"].nonce = x.nonce
      BY DEF Gen
    <3>. QED BY <3>1, <3>2
  <2>2. ~Waits(g) /\ workers' = [workers EXCEPT ![g] = After(0)]
    BY <1>6 DEF Stamp, Waits
  <2>3. gens' = [gens EXCEPT ![g] = r] \/ gens' = [gens EXCEPT ![g] = s]
    BY <1>6 DEF Stamp, Resolve
  <2> HIDE DEF r, s
  <2>. QED BY <2>1, <2>2, <2>3, <1>6, GenMoves
<1>7. ASSUME NEW g \in 1..Cur, g \in Ids, Reconcile(g) PROVE GenKept
  <2>1. PICK w : workers' = [workers EXCEPT ![g] = w]
    BY <1>7 DEF Reconcile
  <2>2. ~Waits(g) /\ gens[g] \in Gen /\ UNCHANGED gens
    BY <1>2, <1>7, ElementOfSeq DEF Reconcile, Waits, Cur
  <2>3. gens' = [gens EXCEPT ![g] = gens[g]]
    BY <1>2, <2>2, LenProperties
  <2>. QED BY <2>1, <2>2, <2>3, <1>7, GenMoves
<1>8. CASE AwaitStage
  <2>1. CASE UNCHANGED gens
    BY <1>1, <1>8, <2>1 DEF AwaitStage
  <2>2. CASE ~UNCHANGED gens
    <3> DEFINE g == conn.at
               s == [gens[g] EXCEPT !.stage = TRUE]
    <3>1. gens' = [gens EXCEPT ![g].stage = TRUE] /\ UNCHANGED workers
      BY <1>8, <2>2 DEF AwaitStage
    <3>2. g \in 1..Cur
      BY <1>2, <2>2, <3>1, LenProperties DEF Cur
    <3>3. gens[g] \in Gen
      BY <1>2, <3>2, ElementOfSeq DEF Cur
    <3>4. s \in Gen /\ s.nonce = gens[g].nonce /\ s.ready = gens[g].ready /\ gens' = [gens EXCEPT ![g] = s]
      BY <3>1, <3>3 DEF Gen
    <3> HIDE DEF g, s
    <3>5. /\ GenTypes' /\ Cur' = Cur /\ gens'[g] = s /\ \A j \in 1..Cur : j # g => gens'[j] = gens[j]
      BY <3>2, <3>4, GenSet
    <3>. QED BY <1>2, <3>1, <3>4, <3>5 DEF GenKept, WorkerTypes, Waits
  <2>. QED BY <2>1, <2>2
<1>9. CASE NavBump
  <2>1. nav.gen \in Nat
    BY DEF NavTypes
  <2>. QED BY <1>9, <2>1, GenAdded DEF NavBump
<1>10. CASE PageNext
  <2>1. ASSUME NEW g \in Ids, g <= Cur PROVE g \in 1..Cur
    BY <1>2, <2>1 DEF Ids
  <2>2. CASE Dial \/ Teardown \/ Gated \/ MarkNonce \/ Navigate \/ Verify \/ PollReads \/ AskNavigation
    BY <2>2, <1>1 DEF Dial, Teardown, Gated, MarkNonce, Navigate, Verify, PollReads, AskNavigation
  <2>3. CASE Poll \/ PollObserves
    BY <2>3, <1>1, <1>4 DEF Poll, PollObserves
  <2>4. CASE AwaitHandler \/ ColdProbe \/ Probed \/ Push \/ PushNext \/ LevelChanges \/ Signal
    BY <2>4, <1>1 DEF AwaitHandler, ColdProbe, Probed, Push, PushNext, LevelChanges, Signal
  <2>5. CASE HandlerInstalled \/ Commits \/ Reload \/ Restart
    BY <2>5, <1>1 DEF HandlerInstalled, Commits, Reload, Restart
  <2>. QED BY <1>10, <2>1, <2>2, <2>3, <2>4, <2>5, <1>3, <1>5, <1>6, <1>7, <1>8, <1>9
         DEF PageNext, Client, NavWorker, Pusher, Readiness
<1>. QED BY <1>1, <1>10 DEF page_vars

-----------------------------------------------------------------------------
(* What a navigation that has been sent does to itself until it ends.      *)
NavKept ==
  \/ nav'.pc \notin {"bump", "verify"}
  \/ nav.pc \in {"bump", "verify"} /\ UNCHANGED <<nav.pc, nav.gen, nav.from, nav.marked, nav.target>>
LEMMA NavKeeps ==
  ASSUME NavInv, [PageNext]_page_vars, ~Navigate, ~NavBump
  PROVE  NavKept
<1>1. CASE UNCHANGED nav
  BY <1>1 DEF NavKept
<1>2. ASSUME NEW o, Finishes(o) PROVE NavKept
  BY <1>2 DEF Finishes, NavKept, NavInv, NavTypes
<1>3. CASE AskNavigation
  BY <1>3 DEF AskNavigation, NavKept, NavInv, NavTypes
<1>4. CASE Gated
  BY <1>2, <1>4 DEF Gated, NavKept, NavInv, NavTypes
<1>5. CASE MarkNonce
  BY <1>5 DEF MarkNonce, NavKept, NavInv, NavTypes
<1>6. CASE Verify
  BY <1>2, <1>6 DEF Verify
<1>7. CASE PageNext
  <2>1. ASSUME NEW g \in Ids, Readiness(g) PROVE NavKept
    BY <2>1, <1>1 DEF Readiness, Probe, Stamp, Reconcile
  <2>2. CASE Client \/ Pusher \/ Poll \/ PollReads \/ PollObserves
    BY <2>2, <1>1 DEF Client, Dial, OnConnect, Teardown, Poll, PollReads, PollObserves,
         Pusher, AwaitHandler, AwaitStage, ColdProbe, Probed, Push, PushNext
  <2>3. CASE LevelChanges \/ Signal \/ HandlerInstalled \/ Commits \/ Reload \/ Restart
    BY <2>3, <1>1 DEF LevelChanges, Signal, HandlerInstalled, Commits, Reload, Restart
  <2>. QED BY <1>7, <2>1, <2>2, <2>3, <1>3, <1>4, <1>5, <1>6 DEF PageNext, NavWorker
<1>. QED BY <1>1, <1>7 DEF page_vars

(* The page that a navigation leaves never passes for the one it asked for.*)
LEMMA BarrierStep ==
  ASSUME IInv, [PageNext]_page_vars
  PROVE  Barrier'
<1>1. DocKept /\ GenKept
  BY DocStep, GenStep DEF IInv, PageTypes
<1>2. doc.id \in Nat /\ doc'.id \in Nat /\ Cur \in Nat /\ Cur' \in Nat /\ Cur' >= Cur
  BY <1>1, LenProperties DEF IInv, PageTypes, DocTypes, GenTypes, DocKept, GenKept, Cur
<1>3. CASE Navigate
  <2>1. CASE Finishes("failed")
    BY <2>1 DEF Finishes, Barrier, IInv, PageTypes, NavTypes
  <2>2. CASE ~Finishes("failed")
    <3>1. nav' = [nav EXCEPT !.pc = "bump", !.from = doc.id, !.marked = doc.nonce # None /\ doc.nonce = nav.gen] /\ UNCHANGED doc
      BY <1>3, <2>2 DEF Navigate
    <3>2. PICK b \in BOOLEAN : b = (doc.nonce # None /\ doc.nonce = nav.gen)
      OBVIOUS
    <3>3. nav'.pc = "bump" /\ nav'.from = doc.id /\ nav'.gen = nav.gen /\ nav'.marked = b
      BY <3>1, <3>2 DEF IInv, PageTypes, NavTypes
    <3>4. nav'.marked = TRUE => doc.nonce # None /\ doc.nonce = nav.gen
      BY <3>2, <3>3
    <3>5. doc' = doc /\ nav'.pc # "verify" /\ doc.id >= doc.id
      BY <1>2, <3>1, <3>3
    <3>. QED BY <3>3, <3>4, <3>5 DEF Barrier
  <2>. QED BY <2>1, <2>2
<1>4. CASE NavBump
  <2>1. /\ nav.pc = "bump" /\ nav'.pc = "verify" /\ nav'.target = Cur + 1 /\ UNCHANGED doc
        /\ nav'.gen = nav.gen /\ nav'.from = nav.from /\ nav'.marked = nav.marked
    BY <1>4 DEF NavBump, IInv, PageTypes, NavTypes
  <2>2. Cur' = Cur + 1 /\ gens'[Cur + 1].nonce = nav.gen /\ gens'[Cur + 1].ready # "ok" /\ workers'[Cur + 1] = "poll"
    <3>1. nav.gen \in Nat
      BY DEF IInv, PageTypes, NavTypes
    <3>. QED BY <1>4, <3>1, GenAdded DEF NavBump, IInv, PageTypes
  <2>. QED BY <1>2, <2>1, <2>2 DEF Barrier, Waits, IInv
<1>5. CASE ~Navigate /\ ~NavBump
  <2>1. NavKept
    BY <1>5, NavKeeps DEF IInv, PageTypes, NavInv
  <2>2. CASE nav'.pc \notin {"bump", "verify"}
    BY <2>2 DEF Barrier
  <2> SUFFICES ASSUME nav'.pc \in {"bump", "verify"}, nav'.marked = TRUE
               PROVE  /\ nav'.gen # None /\ doc'.id >= nav'.from
                      /\ doc'.id = nav'.from => doc'.nonce = nav'.gen
                      /\ nav'.pc = "verify" =>
                           /\ nav'.target \in 1..Cur' /\ gens'[nav'.target].nonce = nav'.gen
                           /\ doc'.id = nav'.from => workers'[nav'.target] \in {"poll", "off"} /\ gens'[nav'.target].ready # "ok"
    BY DEF Barrier, Waits
  <2>3. /\ nav.pc \in {"bump", "verify"} /\ nav'.pc = nav.pc /\ nav'.gen = nav.gen /\ nav'.from = nav.from
        /\ nav'.marked = nav.marked /\ nav'.target = nav.target /\ nav.from \in Nat /\ nav.gen \in Nat
    BY <2>1 DEF NavKept, IInv, PageTypes, NavTypes
  <2>4. /\ nav.gen # None /\ doc.id >= nav.from /\ (doc.id = nav.from => doc.nonce = nav.gen)
        /\ nav.pc = "verify" => /\ nav.target \in 1..Cur /\ gens[nav.target].nonce = nav.gen
                                /\ doc.id = nav.from => Waits(nav.target)
    BY <2>3 DEF IInv, Barrier
  <2>5. doc'.id = doc.id + 1 \/ (doc'.id = doc.id /\ doc'.nonce = doc.nonce)
    BY <1>1, <2>3 DEF DocKept, MarkNonce
  <2>6. doc'.id >= nav.from /\ (doc'.id = nav.from => doc.id = nav.from /\ doc'.nonce = doc.nonce)
    BY <1>2, <2>3, <2>4, <2>5
  <2>7. CASE nav.pc = "verify"
    <3>1. /\ nav.target \in 1..Cur /\ nav.target \in 1..Cur' /\ gens'[nav.target].nonce = nav.gen
      BY <1>1, <1>2, <2>4, <2>7 DEF GenKept
    <3>2. doc.id = nav.from => Waits(nav.target) /\ ~Answers(nav.target)
      BY <2>4, <2>7 DEF Answers
    <3>. QED BY <1>1, <2>3, <2>4, <2>6, <3>1, <3>2 DEF GenKept
  <2>. QED BY <2>3, <2>4, <2>6, <2>7
<1>. QED BY <1>3, <1>4, <1>5

-----------------------------------------------------------------------------
LEMMA PageStep == IInv /\ [PageNext]_page_vars => IInv'
<1> SUFFICES ASSUME IInv, [PageNext]_page_vars PROVE IInv'
  OBVIOUS
<1>1. ConnInv' /\ NavInv'
  BY ConnStep, NavStep DEF IInv, PageTypes, ConnInv, NavInv
<1>2. DocKept /\ GenKept
  BY DocStep, GenStep DEF IInv, PageTypes
<1>. QED BY <1>1, <1>2, BarrierStep DEF IInv, PageTypes, ConnInv, NavInv, DocKept, GenKept

(* For any number of navigations, generations and documents, any reconciler*)
(* and any faults: a navigation has one answer, it is not verified by the  *)
(* page it marked and left, and the cached level is monitord's once every  *)
(* signal has been read (session.go 744, 1007; mediator.go 493).           *)
THEOREM PageKnown == PageSpec => []PageIsKnown
<1>1. IInv => PageIsKnown
  <2> SUFFICES ASSUME IInv PROVE PageIsKnown
    OBVIOUS
  <2>1. VerifiedIsNew
    BY DEF IInv, Barrier, Waits, VerifiedIsNew, PageTypes, NavTypes
  <2>2. CacheIsTrue
    BY DEF IInv, LevelIsTold, CacheIsTrue, PageTypes, ConnTypes
  <2>3. OneOutcome
    BY DEF IInv, Slots, OneOutcome, PageTypes, NavTypes
  <2>. QED BY <2>1, <2>2, <2>3 DEF PageIsKnown
<1>. QED BY PageInitInv, PageStep, <1>1, PTL DEF PageSpec

(**************************** The offline replay ***************************)

(* Connections.  A child is of the root's connection, or of one that was   *)
(* retired with its root; a connection that is not attached yet is nobody's*)
(* and nothing was resumed on it.                                          *)
KidsFollow ==
  \A k \in Kids : \/ target[k] \in {0, target["root"]}
                  \/ target["root"] = 0 /\ sock[target[k]] = "closed"
Coming(g) == sock[g] = "none" \/ \E p \in DOMAIN pc : pc[p] = <<"attach", g>>
Dialed ==
  /\ \A g \in Gens, p \in DOMAIN pc : pc[p] = <<"attach", g>> => sock[g] # "none"
  /\ \A g \in Gens : ~(pc.sync = <<"attach", g>> /\ pc.hook = <<"attach", g>>)
  /\ \A g \in Gens : Coming(g) =>
       target["root"] # g /\ \A k \in Kids : <<"resume", g, k>> \notin ev

(* What is armed is of the root's connection, on a target that is still    *)
(* known while the connection lives, and nothing is without a scope.       *)
ArmedForScope ==
  /\ \A g \in Gens, t \in Targets : <<g, t>> \in armed => g = target["root"]
  /\ \A k \in Kids : <<target["root"], k>> \in armed =>
       kid[k] # "gone" /\ (target[k] = target["root"] \/ sock[target["root"]] # "up")
  /\ ~scope.on => armed = {}

(* Events of a living connection are of iframes it has seen.               *)
Due(g, k) ==
  /\ <<"attach", g, k>> \in ev => sock[g] # "none" /\ (sock[g] = "up" => kid[k] # "none")
  /\ <<"resume", g, k>> \in ev /\ sock[g] = "up" =>
       /\ kid[k] # "none"
       /\ target["root"] = g /\ kid[k] = "paused" => target[k] = g
  /\ <<"detach", g, k>> \in ev =>
       sock[g] \in {"broken", "closed"} \/ (sock[g] = "up" /\ kid[k] = "gone")
EventsAreDue == \A g \in Gens, k \in Kids : Due(g, k)
TargetsAreMet ==
  \A k \in Kids : target[k] # 0 /\ sock[target[k]] = "up" => kid[k] # "none"

(* A scope call: what it has asked for is done where it did not fail.      *)
Enabling ==
  op.by = "enable" =>
    /\ scope.on
    /\ ~op.err => \A k \in Kids \ op.todo :
         target[k] # 0 /\ sock[target[k]] = "up" /\ kid[k] = "paused" => <<target[k], k>> \in armed
Disabling ==
  op.by = "disable" /\ ~op.err =>
    /\ \A t \in Targets \ op.todo : <<target[t], t>> \notin armed
    /\ "root" \notin op.todo => \A g \in Gens, t \in Targets : <<g, t>> \in armed => t \in op.todo
CalledAreThere == op # Free => \A t \in op.todo : target[t] # 0
StrictIsAsked == scope.on /\ ~scope.mixed => asked = "strict"
ResumedAreArmed ==
  op = Free /\ scope.on /\ ~scope.mixed /\ ~syncErr =>
    \A g \in Gens, k \in Kids :
      <<"resume", g, k>> \in ev /\ target["root"] = g /\ sock[g] = "up" /\ kid[k] = "paused"
        => <<g, k>> \in armed

(* Paused requests are held by what is armed, unless Chromium let them go. *)
Held ==
  \A r \in Reqs :
    /\ req[r] # NoReq /\ ~req[r].free => <<req[r].g, req[r].t>> \in armed
    /\ req[r].st \in {"stuck", "dropped"} => ~req[r].free
Requests == Held /\ StuckIsReleased /\ FailedOnlyWhenStrict
ScopeInv ==
  /\ ReplayTypes /\ KidsFollow /\ Dialed /\ ArmedForScope /\ EventsAreDue /\ TargetsAreMet
  /\ Enabling /\ Disabling /\ CalledAreThere /\ StrictIsAsked /\ ResumedAreArmed /\ Requests

-----------------------------------------------------------------------------
LEMMA Bases ==
  /\ 0 \notin Gens /\ \A g \in Gens : g # 0
  /\ \A k \in Kids : k # "root" /\ k \in Targets
  /\ "root" \in Targets
BY ReplayAssumption DEF Gens, Targets

LEMMA ReplayInitInv == ReplayInit => ScopeInv
<1> SUFFICES ASSUME ReplayInit PROVE ScopeInv
  OBVIOUS
<1>0. /\ pc \in [{"sync", "hook"} -> Stages \X ({0} \cup Gens)]
      /\ req \in [Reqs -> {NoReq} \cup Open \cup Decided]
  BY DEF ReplayInit, Stages
<1>a. /\ sock \in [Gens -> Conns] /\ target \in [Targets -> {0} \cup Gens]
      /\ kid \in [Kids -> {"none", "paused", "running", "gone"}]
  BY DEF ReplayInit, Conns
<1>b. scope \in [on : BOOLEAN, mixed : BOOLEAN, res : BOOLEAN] /\ 0 \in 0..MaxFaults
  BY ReplayAssumption DEF ReplayInit, NoScope
<1>1. ReplayTypes
  BY <1>0, <1>a, <1>b DEF ReplayInit, ReplayTypes, Scopes
<1>2. KidsFollow /\ ArmedForScope /\ EventsAreDue /\ TargetsAreMet
  BY Bases DEF ReplayInit, KidsFollow, ArmedForScope, EventsAreDue, Due, TargetsAreMet
<1>3. Dialed
  BY Bases DEF ReplayInit, Dialed, Coming
<1>4. Enabling /\ Disabling /\ CalledAreThere /\ StrictIsAsked /\ ResumedAreArmed
  BY DEF ReplayInit, Enabling, Disabling, CalledAreThere, StrictIsAsked, ResumedAreArmed, NoScope, Free
<1>5. Requests
  BY DEF ReplayInit, Requests, Held, StuckIsReleased, FailedOnlyWhenStrict, NoReq
<1>. QED BY <1>1, <1>2, <1>3, <1>4, <1>5 DEF ScopeInv

-----------------------------------------------------------------------------
(* What Chromium lets go of was held by one of the interceptions that end; *)
(* what stays stuck is held by another.                                    *)
LEMMA LetGoKeeps ==
  ASSUME ReplayTypes, Held, FailedOnlyWhenStrict, NEW As, LetGo(As), armed \ As \subseteq armed'
  PROVE  /\ req' \in [Reqs -> {NoReq} \cup Open \cup Decided]
         /\ Held' /\ FailedOnlyWhenStrict'
         /\ \A r \in Reqs : req'[r].st = "stuck" =>
              req'[r] = req[r] /\ <<req[r].g, req[r].t>> \in armed \ As
<1>1. req \in [Reqs -> {NoReq} \cup Open \cup Decided]
  BY DEF ReplayTypes
<1>2. ASSUME NEW r \in Reqs
      PROVE  /\ req'[r] \in {NoReq} \cup Open \cup Decided
             /\ req'[r] # NoReq /\ ~req'[r].free => <<req'[r].g, req'[r].t>> \in armed'
             /\ req'[r].st \in {"stuck", "dropped"} => ~req'[r].free
             /\ req'[r].st = "answer" /\ req'[r].ans = "fail" /\ ~req'[r].free => req'[r].asked = "strict"
             /\ req'[r].st = "stuck" => req'[r] = req[r] /\ <<req[r].g, req[r].t>> \in armed \ As
  <2>1. CASE req[r] = NoReq
    BY <1>1, <2>1 DEF LetGo, NoReq
  <2>2. CASE req[r] # NoReq /\ <<req[r].g, req[r].t>> \notin As
    <3>1. req'[r] = req[r]
      BY <1>1, <2>2 DEF LetGo
    <3>. QED BY <1>1, <2>2, <3>1 DEF Held, FailedOnlyWhenStrict, Open, Decided
  <2>3. CASE req[r] # NoReq /\ <<req[r].g, req[r].t>> \in As /\ req[r].st \in {"dropped", "stuck"}
    BY <1>1, <2>3 DEF LetGo, NoReq
  <2>4. CASE req[r] # NoReq /\ <<req[r].g, req[r].t>> \in As /\ req[r].st \notin {"dropped", "stuck"}
    <3>1. req'[r] = [req[r] EXCEPT !.free = TRUE]
      BY <1>1, <2>4 DEF LetGo
    <3>2. req[r] \in Open \cup Decided
      BY <1>1, <2>4
    <3>3. req'[r] \in Open \cup Decided /\ req'[r].st = req[r].st /\ req'[r].free = TRUE
      BY <3>1, <3>2 DEF Open, Decided
    <3>. QED BY <2>4, <3>3
  <2>. QED BY <2>1, <2>2, <2>3, <2>4
<1>3. req' = [r \in Reqs |-> req'[r]]
  BY <1>1 DEF LetGo
<1>. QED BY <1>2, <1>3 DEF Held, FailedOnlyWhenStrict

(* The connections Gone end: what they had armed is off, their requests go *)
(* on, and no iframe begins to wait.                                       *)
LEMMA ReleasedKeeps ==
  ASSUME ReplayTypes, Requests, NEW Gone, Released(Gone)
  PROVE  /\ req' \in [Reqs -> {NoReq} \cup Open \cup Decided]
         /\ Held' /\ FailedOnlyWhenStrict' /\ (retiring' = retiring => Requests')
         /\ \A r \in Reqs : req'[r].st = "stuck" =>
              req'[r] = req[r] /\ <<req[r].g, req[r].t>> \in armed /\ req[r].g \notin Gone
         /\ armed' \subseteq armed
         /\ \A g \in Gens, t \in Targets : <<g, t>> \in armed' <=> <<g, t>> \in armed /\ g \notin Gone
         /\ kid' \in [Kids -> {"none", "paused", "running", "gone"}]
         /\ \A k \in Kids : kid'[k] = kid[k] \/ (kid[k] = "paused" /\ kid'[k] = "running")
<1>1. armed' = {a \in armed : a[1] \notin Gone} /\ LetGo(Gone \X Targets)
  BY DEF Released
<1>2. armed \ (Gone \X Targets) \subseteq armed'
  <2> SUFFICES ASSUME NEW a \in armed, a \notin Gone \X Targets PROVE a \in armed'
    OBVIOUS
  <2>1. a[1] \in Gens /\ a[2] \in Targets /\ a = <<a[1], a[2]>>
    BY DEF ReplayTypes
  <2>. QED BY <1>1, <2>1
<1>3. /\ req' \in [Reqs -> {NoReq} \cup Open \cup Decided]
      /\ Held' /\ FailedOnlyWhenStrict'
      /\ \A r \in Reqs : req'[r].st = "stuck" =>
           req'[r] = req[r] /\ <<req[r].g, req[r].t>> \in armed \ (Gone \X Targets)
  BY <1>1, <1>2, LetGoKeeps DEF Requests
<1>6. \A r \in Reqs : req'[r].st = "stuck" =>
        req'[r] = req[r] /\ <<req[r].g, req[r].t>> \in armed /\ req[r].g \notin Gone
  BY <1>3 DEF ReplayTypes
<1>7. retiring' = retiring => StuckIsReleased'
  BY <1>6 DEF Requests, StuckIsReleased
<1>4. \A g \in Gens, t \in Targets : <<g, t>> \in armed' <=> <<g, t>> \in armed /\ g \notin Gone
  BY <1>1
<1>5. /\ kid' \in [Kids -> {"none", "paused", "running", "gone"}]
      /\ \A k \in Kids : kid'[k] = kid[k] \/ (kid[k] = "paused" /\ kid'[k] = "running")
  BY DEF Released, ReplayTypes
<1>. QED BY <1>1, <1>3, <1>4, <1>5, <1>6, <1>7 DEF Requests

(* A step that leaves Chromium, the targets, the scope, the events, the    *)
(* requests and the call alone, and starts no attachment.                  *)
LEMMA QuietKeeps ==
  ASSUME ScopeInv, ReplayTypes',
         UNCHANGED <<sock, target, scope, asked, armed, kid, ev, req, op, retiring>>,
         syncErr' \in {syncErr, TRUE},
         \A p \in {"sync", "hook"}, g \in Gens : pc'[p] = <<"attach", g>> => pc[p] = <<"attach", g>>
  PROVE  ScopeInv'
<1>1. DOMAIN pc = {"sync", "hook"} /\ DOMAIN pc' = {"sync", "hook"}
  BY DEF ReplayTypes, ScopeInv
<1>2. Dialed'
  BY <1>1 DEF ScopeInv, Dialed, Coming
<1>3. KidsFollow' /\ ArmedForScope' /\ EventsAreDue' /\ TargetsAreMet'
  BY DEF ScopeInv, KidsFollow, ArmedForScope, EventsAreDue, Due, TargetsAreMet
<1>4. Enabling' /\ Disabling' /\ CalledAreThere' /\ StrictIsAsked' /\ ResumedAreArmed'
  BY DEF ScopeInv, Enabling, Disabling, CalledAreThere, StrictIsAsked, ResumedAreArmed
<1>5. Requests'
  BY DEF ScopeInv, Requests, Held, StuckIsReleased, FailedOnlyWhenStrict
<1>. QED BY <1>2, <1>3, <1>4, <1>5 DEF ScopeInv

LEMMA PcMoves ==
  ASSUME pc \in [{"sync", "hook"} -> Stages \X ({0} \cup Gens)], NEW p \in {"sync", "hook"},
         NEW st \in Stages, NEW n \in {0} \cup Gens, pc' = [pc EXCEPT ![p] = <<st, n>>]
  PROVE  /\ pc' \in [{"sync", "hook"} -> Stages \X ({0} \cup Gens)]
         /\ pc'[p] = <<st, n>> /\ \A q \in {"sync", "hook"} : q # p => pc'[q] = pc[q]
OBVIOUS

LEMMA IdleKeeps ==
  ASSUME ScopeInv, StartSync \/ LoadFails \/ Redial \/ Tick \/ NotifyScopeLost \/ StoreChanges
  PROVE  ScopeInv'
<1> USE DEF calls, page
<1>0. ReplayTypes
  BY DEF ScopeInv
<1>1. CASE StartSync
  <2>1. ReplayTypes'
    BY <1>0, <1>1, PcMoves DEF StartSync, ReplayTypes, Wanted, Scopes, Stages
  <2>. QED BY <1>0, <1>1, <2>1, QuietKeeps DEF StartSync, ReplayTypes
<1>2. CASE LoadFails
  <2>1. pc' = [pc EXCEPT !["sync"] = <<IF pc.sync[1] = "apply" THEN "check" ELSE "idle", 0>>]
    BY <1>2 DEF LoadFails, Retries
  <2>2. ReplayTypes'
    BY <1>0, <1>2, <2>1, PcMoves DEF LoadFails, ReplayTypes, Stages
  <2>. QED BY <1>0, <1>2, <2>1, <2>2, QuietKeeps DEF LoadFails, ReplayTypes
<1>3. CASE Redial
  <2>1. ReplayTypes'
    BY <1>0, <1>3, PcMoves DEF Redial, ReplayTypes, Stages
  <2>. QED BY <1>0, <1>3, <2>1, QuietKeeps DEF Redial, ReplayTypes
<1>4. CASE Tick \/ StoreChanges
  <2>1. ReplayTypes'
    BY <1>0, <1>4 DEF Tick, StoreChanges, ReplayTypes
  <2>. QED BY <1>0, <1>4, <2>1, QuietKeeps DEF Tick, StoreChanges, ReplayTypes
<1>5. CASE NotifyScopeLost
  <2>1. ReplayTypes'
    BY <1>0, <1>5 DEF NotifyScopeLost, ReplayTypes
  <2>2. KidsFollow' /\ Dialed' /\ ArmedForScope' /\ EventsAreDue' /\ TargetsAreMet'
    BY <1>5 DEF NotifyScopeLost, ScopeInv, KidsFollow, Dialed, Coming, ArmedForScope, EventsAreDue, Due,
       TargetsAreMet
  <2>3. Enabling' /\ Disabling' /\ CalledAreThere' /\ StrictIsAsked' /\ ResumedAreArmed'
    BY <1>5 DEF NotifyScopeLost, ScopeInv, Enabling, Disabling, CalledAreThere, StrictIsAsked, ResumedAreArmed
  <2>4. Requests'
    BY <1>5 DEF NotifyScopeLost, ScopeInv, Requests, Held, StuckIsReleased, FailedOnlyWhenStrict
  <2>. QED BY <2>1, <2>2, <2>3, <2>4 DEF ScopeInv
<1>. QED BY <1>1, <1>2, <1>3, <1>4, <1>5

-----------------------------------------------------------------------------
(* A retired target is forgotten; the root's connection ends with it, and  *)
(* a child's is not alive.                                                 *)
LEMMA RetireKeeps ==
  ASSUME ScopeInv, NEW t \in Targets, Retire(t), target[t] # 0,
         t # "root" => sock[target[t]] # "up", UNCHANGED <<scope, pc, ev>>
  PROVE  /\ target' \in [Targets -> {0} \cup Gens] /\ sock' \in [Gens -> Conns]
         /\ armed' \subseteq armed /\ kid' \in [Kids -> {"none", "paused", "running", "gone"}]
         /\ req' \in [Reqs -> {NoReq} \cup Open \cup Decided]
         /\ target' = [target EXCEPT ![t] = 0] /\ (t = "root" => armed' = {})
         /\ KidsFollow' /\ Dialed' /\ ArmedForScope' /\ EventsAreDue' /\ TargetsAreMet'
         /\ Held' /\ FailedOnlyWhenStrict' /\ (retiring' = retiring => Requests')
         /\ \A r \in Reqs : req'[r].st = "stuck" =>
              req'[r] = req[r] /\ <<req[r].g, req[r].t>> \in armed /\ (t = "root" => req[r].g # target["root"])
<1> DEFINE gone == {g \in Gens : t = "root" /\ g = target[t]}
<1>0. /\ ReplayTypes /\ Requests /\ target \in [Targets -> {0} \cup Gens] /\ sock \in [Gens -> Conns]
      /\ kid \in [Kids -> {"none", "paused", "running", "gone"}]
      /\ "root" \in Targets /\ \A k \in Kids : k # "root" /\ k \in Targets
      /\ DOMAIN pc = {"sync", "hook"} /\ DOMAIN pc' = {"sync", "hook"} /\ 0 \notin Gens
  BY Bases DEF ScopeInv, ReplayTypes
<1>1. /\ target' = [target EXCEPT ![t] = 0]
      /\ sock' = [g \in Gens |-> IF g \in gone THEN "closed" ELSE sock[g]]
      /\ Released(gone)
  BY DEF Retire
<1>2. /\ req' \in [Reqs -> {NoReq} \cup Open \cup Decided]
      /\ Held' /\ FailedOnlyWhenStrict' /\ (retiring' = retiring => Requests')
      /\ \A r \in Reqs : req'[r].st = "stuck" =>
           req'[r] = req[r] /\ <<req[r].g, req[r].t>> \in armed /\ req[r].g \notin gone
      /\ armed' \subseteq armed
      /\ \A g \in Gens, u \in Targets : <<g, u>> \in armed' <=> <<g, u>> \in armed /\ g \notin gone
      /\ kid' \in [Kids -> {"none", "paused", "running", "gone"}]
      /\ \A k \in Kids : kid'[k] = kid[k] \/ (kid[k] = "paused" /\ kid'[k] = "running")
  BY <1>0, <1>1, ReleasedKeeps
<1>3. /\ \A g \in Gens : sock'[g] = sock[g] \/ (t = "root" /\ g = target["root"] /\ sock'[g] = "closed")
      /\ \A g \in Gens : t = "root" /\ g = target["root"] => sock'[g] = "closed"
      /\ sock' \in [Gens -> Conns]
  BY <1>0, <1>1 DEF Conns
<1>4. /\ target'[t] = 0 /\ \A u \in Targets : u # t => target'[u] = target[u]
      /\ target' \in [Targets -> {0} \cup Gens]
  BY <1>0, <1>1
<1>5. t = "root" => armed' = {}
  <2> SUFFICES ASSUME t = "root", NEW a \in armed' PROVE FALSE
    OBVIOUS
  <2>1. /\ a \in armed /\ a[1] \in Gens /\ a[2] \in Targets /\ a = <<a[1], a[2]>>
    BY <1>2 DEF ReplayTypes, ScopeInv
  <2>2. a[1] = target["root"]
    BY <2>1 DEF ScopeInv, ArmedForScope
  <2>. QED BY <1>2, <2>1, <2>2
<1>6. KidsFollow'
  BY <1>0, <1>3, <1>4 DEF ScopeInv, KidsFollow
<1>7. Dialed'
  BY <1>0, <1>3, <1>4 DEF ScopeInv, Dialed, Coming, Conns
<1>8. ArmedForScope'
  <2>1. CASE t = "root"
    BY <1>5, <2>1 DEF ArmedForScope
  <2>2. CASE t # "root"
    BY <1>0, <1>2, <1>3, <1>4, <2>2 DEF ScopeInv, ArmedForScope
  <2>. QED BY <2>1, <2>2
<1>9. EventsAreDue'
  <2> SUFFICES ASSUME NEW g \in Gens, NEW k \in Kids PROVE Due(g, k)'
    BY DEF EventsAreDue
  <2>1. sock'[g] = sock[g] \/ sock'[g] = "closed"
    BY <1>3
  <2>2. kid'[k] = kid[k] \/ (kid[k] = "paused" /\ kid'[k] = "running")
    BY <1>2
  <2>3. sock'[g] = "up" /\ target'["root"] = g => target'[k] = target[k] \/ target[k] # g
    BY <1>0, <1>3, <1>4, <2>1
  <2>4. target'["root"] = g => target["root"] = g
    BY <1>0, <1>4
  <2>. QED BY <2>1, <2>2, <2>3, <2>4 DEF ScopeInv, EventsAreDue, Due
<1>10. TargetsAreMet'
  BY <1>0, <1>2, <1>3, <1>4 DEF ScopeInv, TargetsAreMet
<1>11. \A r \in Reqs : req'[r].st = "stuck" =>
         req'[r] = req[r] /\ <<req[r].g, req[r].t>> \in armed /\ (t = "root" => req[r].g # target["root"])
  BY <1>0, <1>2 DEF ReplayTypes
<1>. QED BY <1>1, <1>2, <1>3, <1>4, <1>5, <1>6, <1>7, <1>8, <1>9, <1>10, <1>11

LEMMA EnableKeeps == ASSUME ScopeInv, Enable PROVE ScopeInv'
<1> USE DEF page
<1>0. ReplayTypes
  BY DEF ScopeInv
<1>1. op' = [by |-> "enable", todo |-> Attached, err |-> Attached = {}] /\ op'.by = "enable" /\ op' # Free
  BY DEF Enable, Free
<1>2. ReplayTypes'
  BY <1>0 DEF Enable, ReplayTypes, Attached, Scopes
<1>3. KidsFollow' /\ Dialed' /\ EventsAreDue' /\ TargetsAreMet'
  BY DEF Enable, ScopeInv, KidsFollow, Dialed, Coming, EventsAreDue, Due, TargetsAreMet
<1>4. ArmedForScope' /\ StrictIsAsked'
  BY DEF Enable, ScopeInv, ArmedForScope, StrictIsAsked
<1>5. Enabling' /\ Disabling' /\ CalledAreThere' /\ ResumedAreArmed'
  BY <1>1, Bases DEF Enable, Attached, Enabling, Disabling, CalledAreThere, ResumedAreArmed
<1>6. Requests'
  BY DEF Enable, ScopeInv, Requests, Held, StuckIsReleased, FailedOnlyWhenStrict
<1>. QED BY <1>2, <1>3, <1>4, <1>5, <1>6 DEF ScopeInv

LEMMA NothingArmed ==
  ASSUME ScopeInv, target["root"] = 0 PROVE armed = {}
BY Bases DEF ScopeInv, ReplayTypes, ArmedForScope

LEMMA DisableKeeps == ASSUME ScopeInv, Disable PROVE ScopeInv'
<1> USE DEF page
<1>0. ReplayTypes /\ "root" \in Targets /\ 0 \notin Gens
  BY Bases DEF ScopeInv
<1>1. op' = [by |-> "disable", todo |-> Attached, err |-> FALSE] /\ op'.by = "disable" /\ op' # Free
  BY DEF Disable, Free
<1>2. ReplayTypes'
  BY <1>0 DEF Disable, ReplayTypes, Attached, NoScope, Cleared
<1>3. KidsFollow' /\ Dialed' /\ EventsAreDue' /\ TargetsAreMet'
  BY DEF Disable, ScopeInv, KidsFollow, Dialed, Coming, EventsAreDue, Due, TargetsAreMet
<1>4. "root" \notin Attached => armed = {}
  BY <1>0, NothingArmed DEF Attached
<1>5. ArmedForScope' /\ StrictIsAsked'
  BY <1>4 DEF Disable, ScopeInv, ArmedForScope, StrictIsAsked, NoScope, Cleared
<1>6. \A t \in Targets \ Attached : <<target[t], t>> \notin armed
  BY <1>0 DEF Attached, ReplayTypes
<1>7. Enabling' /\ Disabling' /\ CalledAreThere' /\ ResumedAreArmed'
  BY <1>1, <1>4, <1>6 DEF Disable, Attached, Enabling, Disabling, CalledAreThere, ResumedAreArmed
<1>8. Requests'
  BY DEF Disable, ScopeInv, Requests, Held, StuckIsReleased, FailedOnlyWhenStrict
<1>. QED BY <1>2, <1>3, <1>5, <1>7, <1>8 DEF ScopeInv

LEMMA ReturnKeeps == ASSUME ScopeInv, Return PROVE ScopeInv'
<1> USE DEF page
<1>0. ReplayTypes /\ op # Free /\ op.todo = {} /\ "root" \in Targets
  BY Bases DEF ScopeInv, Return
<1>1. op \in [by : {"enable", "disable"}, todo : SUBSET Targets, err : BOOLEAN] /\ op' = Free /\ op'.by = "none"
  BY <1>0 DEF ReplayTypes, Return, Free
<1>2. ReplayTypes'
  <2>1. pc' = [pc EXCEPT !["sync"] = <<IF pc.sync[1] = "apply" THEN "check" ELSE "idle", 0>>]
        \/ pc' = [pc EXCEPT !["sync"] = <<"idle", 0>>]
    BY DEF Return, Retries
  <2>2. pc' \in [{"sync", "hook"} -> Stages \X ({0} \cup Gens)]
    BY <1>0, <2>1, PcMoves DEF ReplayTypes, Stages
  <2>3. /\ scope' \in {scope, NoScope, [scope EXCEPT !.mixed = TRUE]}
        /\ asked' \in Scopes /\ syncErr' \in BOOLEAN
    BY <1>0, <1>1 DEF Return, ReplayTypes, Scopes
  <2>4. scope' \in [on : BOOLEAN, mixed : BOOLEAN, res : BOOLEAN]
    <3>1. scope \in [on : BOOLEAN, mixed : BOOLEAN, res : BOOLEAN]
      BY <1>0 DEF ReplayTypes
    <3>2. [scope EXCEPT !.mixed = TRUE] \in [on : BOOLEAN, mixed : BOOLEAN, res : BOOLEAN]
      BY <3>1
    <3>3. NoScope \in [on : BOOLEAN, mixed : BOOLEAN, res : BOOLEAN]
      BY DEF NoScope
    <3>. QED BY <2>3, <3>1, <3>2, <3>3
  <2>. QED BY <1>0, <1>1, <2>2, <2>3, <2>4 DEF Return, ReplayTypes
<1>3. /\ DOMAIN pc = {"sync", "hook"} /\ DOMAIN pc' = {"sync", "hook"}
      /\ pc'["hook"] = pc["hook"] /\ pc'["sync"][1] # "attach"
  BY <1>0, <1>2 DEF Return, Retries, ReplayTypes
<1>4. Dialed'
  BY <1>0, <1>3 DEF Return, ScopeInv, Dialed, Coming
<1>5. KidsFollow' /\ EventsAreDue' /\ TargetsAreMet'
  BY DEF Return, ScopeInv, KidsFollow, EventsAreDue, Due, TargetsAreMet
<1>6. op.by = "disable" /\ ~op.err => armed = {}
  <2> SUFFICES ASSUME op.by = "disable", ~op.err, NEW a \in armed PROVE FALSE
    OBVIOUS
  <2>1. a[1] \in Gens /\ a[2] \in Targets /\ a = <<a[1], a[2]>>
    BY <1>0 DEF ReplayTypes
  <2>. QED BY <1>0, <2>1 DEF ScopeInv, Disabling
<1>7. ArmedForScope'
  BY <1>0, <1>1, <1>6 DEF Return, ScopeInv, ArmedForScope, ReplayTypes
<1>8. StrictIsAsked'
  BY <1>0, <1>1 DEF Return, ScopeInv, StrictIsAsked, ReplayTypes, NoScope
<1>9. Enabling' /\ Disabling' /\ CalledAreThere'
  BY <1>1 DEF Enabling, Disabling, CalledAreThere
<1>10. ResumedAreArmed'
  <2> SUFFICES ASSUME scope'.on, ~scope'.mixed, ~syncErr', NEW g \in Gens, NEW k \in Kids,
                      <<"resume", g, k>> \in ev, target["root"] = g, sock[g] = "up", kid[k] = "paused"
               PROVE  <<g, k>> \in armed
    BY DEF Return, ResumedAreArmed
  <2>1. op.by = "enable" /\ ~op.err
    BY <1>0, <1>1 DEF Return, NoScope, ReplayTypes
  <2>2. target[k] = g /\ g # 0
    BY Bases DEF ScopeInv, EventsAreDue, Due
  <2>. QED BY <1>0, <2>1, <2>2 DEF ScopeInv, Enabling
<1>11. Requests'
  BY DEF Return, ScopeInv, Requests, Held, StuckIsReleased, FailedOnlyWhenStrict
<1>. QED BY <1>2, <1>4, <1>5, <1>7, <1>8, <1>9, <1>10, <1>11 DEF ScopeInv

-----------------------------------------------------------------------------
(* A command of a scope call on a live target that changes only what is    *)
(* armed there; op is what becomes of the call.                            *)
LEMMA FetchedKeeps ==
  ASSUME ScopeInv, op # Free, NEW t \in Targets, t \in op.todo, sock[target[t]] = "up",
         t \in Kids => kid[t] # "gone", Fetched(target[t], t) \/ UNCHANGED <<armed, req>>,
         UNCHANGED <<sock, target, scope, asked, kid, ev, pc, syncErr, retiring>>
  PROVE  /\ armed' \subseteq Gens \X Targets /\ req' \in [Reqs -> {NoReq} \cup Open \cup Decided]
         /\ KidsFollow' /\ Dialed' /\ ArmedForScope' /\ EventsAreDue' /\ TargetsAreMet' /\ Requests'
         /\ target[t] = target["root"]
         /\ op.by = "disable" => armed' \subseteq armed
         /\ op.by = "enable" => armed \subseteq armed'
<1>0. /\ ReplayTypes /\ Requests /\ target \in [Targets -> {0} \cup Gens]
      /\ op \in [by : {"enable", "disable"}, todo : SUBSET Targets, err : BOOLEAN]
      /\ "root" \in Targets /\ (\A k \in Kids : k # "root" /\ k \in Targets) /\ 0 \notin Gens
      /\ armed \subseteq Gens \X Targets
  BY Bases DEF ScopeInv, ReplayTypes
<1>1. target[t] # 0 /\ target[t] \in Gens
  BY <1>0 DEF ScopeInv, CalledAreThere
<1>2. target[t] = target["root"]
  BY <1>0, <1>1 DEF ScopeInv, KidsFollow, Targets
<1>3. CASE op.by = "enable" /\ Fetched(target[t], t)
  <2>1. armed' = armed \cup {<<target[t], t>>} /\ req' = req
    BY <1>3 DEF Fetched
  <2>2. armed' \subseteq Gens \X Targets /\ scope.on
    BY <1>0, <1>1, <1>3, <2>1 DEF ScopeInv, Enabling
  <2>3. ArmedForScope'
    <3>1. \A g \in Gens, u \in Targets : <<g, u>> \in armed' =>
            <<g, u>> \in armed \/ (g = target["root"] /\ u = t)
      BY <1>2, <2>1
    <3>2. \A g \in Gens, u \in Targets : <<g, u>> \in armed' => g = target["root"]
      BY <3>1 DEF ScopeInv, ArmedForScope
    <3>3. \A k \in Kids : <<target["root"], k>> \in armed' =>
            kid[k] # "gone" /\ (target[k] = target["root"] \/ sock[target["root"]] # "up")
      BY <1>0, <1>1, <1>2, <3>1 DEF ScopeInv, ArmedForScope
    <3>. QED BY <2>2, <3>2, <3>3 DEF ArmedForScope
  <2>4. Requests'
    BY <2>1 DEF ScopeInv, Requests, Held, StuckIsReleased, FailedOnlyWhenStrict
  <2>5. KidsFollow' /\ Dialed' /\ EventsAreDue' /\ TargetsAreMet'
    BY DEF ScopeInv, KidsFollow, Dialed, Coming, EventsAreDue, Due, TargetsAreMet
  <2>. QED BY <1>0, <1>2, <1>3, <2>1, <2>2, <2>3, <2>4, <2>5 DEF ReplayTypes
<1>4. CASE op.by = "disable" /\ Fetched(target[t], t)
  <2>1. armed' = armed \ {<<target[t], t>>} /\ LetGo({<<target[t], t>>})
    BY <1>4 DEF Fetched
  <2>2. /\ req' \in [Reqs -> {NoReq} \cup Open \cup Decided] /\ Held' /\ FailedOnlyWhenStrict'
        /\ \A r \in Reqs : req'[r].st = "stuck" => req'[r] = req[r]
    BY <1>0, <2>1, LetGoKeeps DEF Requests
  <2>3. Requests'
    BY <2>2 DEF ScopeInv, Requests, StuckIsReleased
  <2>4. ArmedForScope'
    BY <1>0, <2>1 DEF ScopeInv, ArmedForScope
  <2>5. KidsFollow' /\ Dialed' /\ EventsAreDue' /\ TargetsAreMet'
    BY DEF ScopeInv, KidsFollow, Dialed, Coming, EventsAreDue, Due, TargetsAreMet
  <2>. QED BY <1>0, <1>2, <1>4, <2>1, <2>2, <2>3, <2>4, <2>5
<1>5. CASE UNCHANGED <<armed, req>>
  <2>1. Requests' /\ ArmedForScope'
    BY <1>5 DEF ScopeInv, ArmedForScope, Requests, Held, StuckIsReleased, FailedOnlyWhenStrict
  <2>2. KidsFollow' /\ Dialed' /\ EventsAreDue' /\ TargetsAreMet'
    BY DEF ScopeInv, KidsFollow, Dialed, Coming, EventsAreDue, Due, TargetsAreMet
  <2>. QED BY <1>0, <1>2, <1>5, <2>1, <2>2 DEF ReplayTypes
<1>. QED BY <1>0, <1>3, <1>4, <1>5

LEMMA SendKeeps == ASSUME ScopeInv, NEW t \in Targets, Send(t) PROVE ScopeInv'
<1> DEFINE g == target[t]
           gone == t \in Kids /\ kid[t] # "running" /\ kid[t] # "paused"
<1>0. /\ ReplayTypes /\ Requests /\ op # Free /\ t \in op.todo
      /\ op \in [by : {"enable", "disable"}, todo : SUBSET Targets, err : BOOLEAN]
      /\ target[t] # 0 /\ target[t] \in Gens /\ "root" \in Targets /\ 0 \notin Gens
      /\ UNCHANGED <<auto, scope, asked, ev, pc, want, syncErr, store, retiring, cool>>
  BY Bases DEF ScopeInv, ReplayTypes, Send, CalledAreThere
<1>1. CASE /\ sock[g] = "up" /\ ~gone /\ Fetched(g, t)
           /\ op' = [op EXCEPT !.todo = @ \ {t}]
           /\ UNCHANGED <<sock, target, kid, faults>>
  <2>1. /\ armed' \subseteq Gens \X Targets /\ req' \in [Reqs -> {NoReq} \cup Open \cup Decided]
        /\ KidsFollow' /\ Dialed' /\ ArmedForScope' /\ EventsAreDue' /\ TargetsAreMet' /\ Requests'
        /\ target[t] = target["root"]
        /\ op.by = "enable" => armed \subseteq armed'
    BY <1>0, <1>1, FetchedKeeps
  <2>2. /\ op'.by = op.by /\ op'.err = op.err /\ op'.todo = op.todo \ {t}
        /\ op' \in [by : {"enable", "disable"}, todo : SUBSET Targets, err : BOOLEAN] /\ op' # Free
    BY <1>0, <1>1 DEF Free
  <2>3. ReplayTypes'
    BY <1>0, <1>1, <2>1, <2>2 DEF ReplayTypes
  <2>4. StrictIsAsked' /\ CalledAreThere' /\ ResumedAreArmed'
    BY <1>0, <1>1, <2>2 DEF ScopeInv, StrictIsAsked, CalledAreThere, ResumedAreArmed
  <2>5. Enabling'
    <3> SUFFICES ASSUME op.by = "enable", ~op.err, NEW k \in Kids, k \notin op.todo \/ k = t,
                        target[k] # 0, sock[target[k]] = "up", kid[k] = "paused"
                 PROVE  <<target[k], k>> \in armed'
      BY <1>0, <1>1, <2>2 DEF ScopeInv, Enabling
    <3>1. CASE k = t
      BY <1>1, <3>1 DEF Fetched
    <3>2. CASE k # t
      BY <2>1, <3>2 DEF ScopeInv, Enabling
    <3>. QED BY <3>1, <3>2
  <2>6. Disabling'
    <3> SUFFICES ASSUME op.by = "disable", ~op.err
                 PROVE  /\ \A u \in Targets : u \notin op.todo \/ u = t => <<target[u], u>> \notin armed'
                        /\ "root" \notin op.todo \/ "root" = t =>
                             \A h \in Gens, u \in Targets : <<h, u>> \in armed' => u \in op.todo \ {t}
      BY <1>0, <1>1, <2>2 DEF Disabling
    <3>1. armed' = armed \ {<<g, t>>}
      BY <1>1 DEF Fetched
    <3>2. \A u \in Targets : u \notin op.todo => <<target[u], u>> \notin armed
      BY DEF ScopeInv, Disabling
    <3>3. ASSUME "root" \notin op.todo \/ "root" = t, NEW h \in Gens, NEW u \in Targets, <<h, u>> \in armed'
          PROVE  u \in op.todo \ {t}
      <4>1. h = target["root"] /\ <<h, u>> \in armed
        BY <3>1, <3>3 DEF ScopeInv, ArmedForScope
      <4>2. u # t
        BY <2>1, <3>1, <3>3, <4>1
      <4>3. CASE "root" \notin op.todo
        BY <4>1, <4>2, <4>3 DEF ScopeInv, Disabling
      <4>4. CASE "root" = t
        <5>1. u \in Kids
          BY <4>2, <4>4 DEF Targets
        <5>2. target[u] = target["root"]
          BY <1>1, <4>1, <4>4, <5>1 DEF ScopeInv, ArmedForScope
        <5>. QED BY <3>2, <4>1, <4>2, <5>2
      <4>. QED BY <3>3, <4>3, <4>4
    <3>. QED BY <3>1, <3>2, <3>3
  <2>. QED BY <2>1, <2>3, <2>4, <2>5, <2>6 DEF ScopeInv
<1>2. CASE /\ sock[g] = "up"
           /\ \/ gone /\ UNCHANGED <<armed, req, faults>>
              \/ ~gone /\ Fault /\ (Fetched(g, t) \/ UNCHANGED <<armed, req>>)
           /\ op' = [op EXCEPT !.todo = @ \ {t}, !.err = TRUE]
           /\ UNCHANGED <<sock, target, kid>>
  <2>1. /\ armed' \subseteq Gens \X Targets /\ req' \in [Reqs -> {NoReq} \cup Open \cup Decided]
        /\ KidsFollow' /\ Dialed' /\ ArmedForScope' /\ EventsAreDue' /\ TargetsAreMet' /\ Requests'
    <3>1. CASE gone /\ UNCHANGED <<armed, req>>
      <4>1. Requests' /\ ArmedForScope'
        BY <1>0, <1>2, <3>1 DEF ScopeInv, ArmedForScope, Requests, Held, StuckIsReleased, FailedOnlyWhenStrict
      <4>2. KidsFollow' /\ Dialed' /\ EventsAreDue' /\ TargetsAreMet'
        BY <1>0, <1>2 DEF ScopeInv, KidsFollow, Dialed, Coming, EventsAreDue, Due, TargetsAreMet
      <4>. QED BY <1>0, <3>1, <4>1, <4>2 DEF ReplayTypes
    <3>2. CASE ~gone /\ (Fetched(g, t) \/ UNCHANGED <<armed, req>>)
      BY <1>0, <1>2, <3>2, FetchedKeeps
    <3>. QED BY <1>2, <3>1, <3>2
  <2>2. /\ op'.by = op.by /\ op'.err /\ op'.todo = op.todo \ {t}
        /\ op' \in [by : {"enable", "disable"}, todo : SUBSET Targets, err : BOOLEAN] /\ op' # Free
    BY <1>0, <1>2 DEF Free
  <2>3. faults' \in 0..MaxFaults
    BY <1>0, <1>2, ReplayAssumption DEF Fault, ReplayTypes
  <2>4. ReplayTypes'
    BY <1>0, <1>2, <2>1, <2>2, <2>3 DEF ReplayTypes
  <2>5. StrictIsAsked' /\ CalledAreThere' /\ ResumedAreArmed' /\ Enabling' /\ Disabling'
    BY <1>0, <1>2, <2>2 DEF ScopeInv, StrictIsAsked, CalledAreThere, ResumedAreArmed, Enabling, Disabling
  <2>. QED BY <2>1, <2>4, <2>5 DEF ScopeInv
<1>3. CASE /\ sock[g] # "up" /\ Retire(t)
           /\ op' = [op EXCEPT !.todo = @ \ {t}, !.err = TRUE]
           /\ UNCHANGED faults
  <2>1. /\ target' \in [Targets -> {0} \cup Gens] /\ sock' \in [Gens -> Conns]
        /\ armed' \subseteq armed /\ kid' \in [Kids -> {"none", "paused", "running", "gone"}]
        /\ req' \in [Reqs -> {NoReq} \cup Open \cup Decided]
        /\ target' = [target EXCEPT ![t] = 0]
        /\ KidsFollow' /\ Dialed' /\ ArmedForScope' /\ EventsAreDue' /\ TargetsAreMet' /\ Requests'
    BY <1>0, <1>3, RetireKeeps
  <2>2. /\ op'.by = op.by /\ op'.err /\ op'.todo = op.todo \ {t}
        /\ op' \in [by : {"enable", "disable"}, todo : SUBSET Targets, err : BOOLEAN] /\ op' # Free
    BY <1>0, <1>3 DEF Free
  <2>3. ReplayTypes'
    BY <1>0, <1>3, <2>1, <2>2 DEF ReplayTypes
  <2>4. CalledAreThere'
    BY <1>0, <2>1, <2>2 DEF ScopeInv, CalledAreThere, ReplayTypes
  <2>5. StrictIsAsked' /\ ResumedAreArmed' /\ Enabling' /\ Disabling'
    BY <1>0, <1>3, <2>2 DEF ScopeInv, StrictIsAsked, ResumedAreArmed, Enabling, Disabling
  <2>. QED BY <2>1, <2>3, <2>4, <2>5 DEF ScopeInv
<1>. QED BY <1>1, <1>2, <1>3 DEF Send

-----------------------------------------------------------------------------
LEMMA DialKeeps == ASSUME ScopeInv, NEW p \in {"sync", "hook"}, DialPage(p) PROVE ScopeInv'
<1> USE DEF page
<1>0. /\ ReplayTypes /\ "root" \in Targets /\ 0 \notin Gens
      /\ pc \in [{"sync", "hook"} -> Stages \X ({0} \cup Gens)] /\ sock \in [Gens -> Conns]
  BY Bases DEF ScopeInv, ReplayTypes
<1>1. ASSUME NEW g \in Gens, sock[g] = "none", sock' = [sock EXCEPT ![g] = "up"],
             pc' = [pc EXCEPT ![p] = <<"attach", g>>], UNCHANGED faults
      PROVE  ScopeInv'
  <2>1. /\ pc' \in [{"sync", "hook"} -> Stages \X ({0} \cup Gens)]
        /\ pc'[p] = <<"attach", g>> /\ \A q \in {"sync", "hook"} : q # p => pc'[q] = pc[q]
    BY <1>0, <1>1, PcMoves DEF Stages
  <2>2. /\ sock' \in [Gens -> Conns] /\ sock'[g] = "up" /\ \A h \in Gens : h # g => sock'[h] = sock[h]
    BY <1>0, <1>1 DEF Conns
  <2>3. ReplayTypes'
    BY <1>0, <1>1, <2>1, <2>2 DEF DialPage, ReplayTypes
  <2>4. /\ target["root"] # g /\ \A k \in Kids : target[k] # g /\ <<"resume", g, k>> \notin ev
    BY <1>0, <1>1 DEF ScopeInv, Dialed, Coming, KidsFollow
  <2>5. KidsFollow'
    BY <1>0, <1>1, <2>2, <2>4, Bases DEF DialPage, ScopeInv, KidsFollow, ReplayTypes
  <2>6. Dialed'
    <3>1. DOMAIN pc = {"sync", "hook"} /\ DOMAIN pc' = {"sync", "hook"}
      BY <1>0, <2>1
    <3>2. \A h \in Gens, q \in {"sync", "hook"} : pc'[q] = <<"attach", h>> => sock'[h] # "none"
      BY <1>0, <2>1, <2>2 DEF ScopeInv, Dialed
    <3>3. \A h \in Gens : ~(pc'.sync = <<"attach", h>> /\ pc'.hook = <<"attach", h>>)
      BY <1>0, <1>1, <2>1 DEF ScopeInv, Dialed
    <3>4. \A h \in Gens : Coming(h)' => h = g \/ Coming(h)
      BY <2>1, <2>2, <3>1 DEF Coming
    <3>. QED BY <2>4, <3>1, <3>2, <3>3, <3>4 DEF DialPage, ScopeInv, Dialed
  <2>7. ArmedForScope'
    BY <1>0, <2>2, <2>4 DEF DialPage, ScopeInv, ArmedForScope, ReplayTypes
  <2>8. EventsAreDue'
    <3> SUFFICES ASSUME NEW h \in Gens, NEW k \in Kids PROVE Due(h, k)'
      BY DEF EventsAreDue
    <3>1. ev' = ev /\ kid' = kid /\ target' = target
      BY DEF DialPage
    <3>2. Due(h, k)
      BY DEF ScopeInv, EventsAreDue
    <3>3. CASE h = g
      BY <1>1, <2>4, <3>1, <3>2, <3>3 DEF Due
    <3>4. CASE h # g
      BY <2>2, <3>1, <3>2, <3>4 DEF Due
    <3>. QED BY <3>3, <3>4
  <2>9. TargetsAreMet' /\ Enabling' /\ Disabling'
    BY <1>0, <2>2, <2>4, Bases DEF DialPage, ScopeInv, TargetsAreMet, Enabling, Disabling, ReplayTypes
  <2>10. CalledAreThere' /\ StrictIsAsked' /\ ResumedAreArmed'
    BY <2>2, <2>4 DEF DialPage, ScopeInv, CalledAreThere, StrictIsAsked, ResumedAreArmed
  <2>11. Requests'
    BY DEF DialPage, ScopeInv, Requests, Held, StuckIsReleased, FailedOnlyWhenStrict
  <2>. QED BY <2>3, <2>5, <2>6, <2>7, <2>8, <2>9, <2>10, <2>11 DEF ScopeInv
<1>2. CASE Fault /\ pc' = [pc EXCEPT ![p] = <<"idle", 0>>] /\ UNCHANGED sock
  <2>1. /\ pc' \in [{"sync", "hook"} -> Stages \X ({0} \cup Gens)]
        /\ pc'[p] = <<"idle", 0>> /\ \A q \in {"sync", "hook"} : q # p => pc'[q] = pc[q]
    BY <1>0, <1>2, PcMoves DEF Stages
  <2>2. ReplayTypes'
    BY <1>0, <1>2, <2>1, ReplayAssumption DEF DialPage, ReplayTypes, Fault
  <2>. QED BY <1>2, <2>1, <2>2, QuietKeeps DEF DialPage
<1>. QED BY <1>1, <1>2 DEF DialPage

LEMMA AttachKeeps ==
  ASSUME ScopeInv, NEW p \in {"sync", "hook"}, NEW g \in Gens, Attach(p, g) PROVE ScopeInv'
<1> DEFINE old == {h \in Gens : h = target["root"]}
<1>0. /\ ReplayTypes /\ Requests /\ "root" \in Targets /\ 0 \notin Gens
      /\ (\A k \in Kids : k # "root" /\ k \in Targets)
      /\ pc \in [{"sync", "hook"} -> Stages \X ({0} \cup Gens)] /\ sock \in [Gens -> Conns]
  BY Bases DEF ScopeInv, ReplayTypes
<1>1. /\ pc[p] = <<"attach", g>> /\ op = Free
      /\ target' = [t \in Targets |-> IF t = "root" THEN g ELSE 0]
      /\ scope' = NoScope /\ asked' = "off"
      /\ sock' = [h \in Gens |-> IF h \in old THEN "closed" ELSE sock[h]]
      /\ Released(old)
      /\ pc' = [pc EXCEPT ![p] = <<"auto", g>>]
      /\ UNCHANGED <<auto, ev, op, want, syncErr, store, retiring, cool, faults>>
  BY DEF Attach, AttachRoot
<1>2. /\ req' \in [Reqs -> {NoReq} \cup Open \cup Decided] /\ Requests'
      /\ armed' \subseteq armed
      /\ \A h \in Gens, t \in Targets : <<h, t>> \in armed' <=> <<h, t>> \in armed /\ h \notin old
      /\ kid' \in [Kids -> {"none", "paused", "running", "gone"}]
      /\ \A k \in Kids : kid'[k] = kid[k] \/ (kid[k] = "paused" /\ kid'[k] = "running")
  BY <1>0, <1>1, ReleasedKeeps
<1>3. armed' = {}
  <2> SUFFICES ASSUME NEW a \in armed' PROVE FALSE
    OBVIOUS
  <2>1. a \in armed /\ a[1] \in Gens /\ a[2] \in Targets /\ a = <<a[1], a[2]>>
    BY <1>0, <1>2 DEF ReplayTypes
  <2>2. a[1] = target["root"]
    BY <2>1 DEF ScopeInv, ArmedForScope
  <2>. QED BY <1>2, <2>1, <2>2
<1>4. /\ pc' \in [{"sync", "hook"} -> Stages \X ({0} \cup Gens)]
      /\ pc'[p] = <<"auto", g>> /\ \A q \in {"sync", "hook"} : q # p => pc'[q] = pc[q]
  BY <1>0, <1>1, PcMoves DEF Stages
<1>5. sock' \in [Gens -> Conns] /\ \A h \in Gens : sock'[h] = sock[h] \/ sock'[h] = "closed"
  BY <1>0, <1>1 DEF Conns
<1>6. ReplayTypes'
  BY <1>0, <1>1, <1>2, <1>3, <1>4, <1>5 DEF ReplayTypes, NoScope, Scopes
<1>7. KidsFollow' /\ ArmedForScope' /\ TargetsAreMet'
  BY <1>0, <1>1, <1>3 DEF KidsFollow, ArmedForScope, TargetsAreMet
<1>8. Dialed'
  <2>1. DOMAIN pc = {"sync", "hook"} /\ DOMAIN pc' = {"sync", "hook"}
    BY <1>0, <1>4
  <2>2. \A h \in Gens, q \in {"sync", "hook"} : pc'[q] = <<"attach", h>> => pc[q] = <<"attach", h>> /\ h # g
    BY <1>0, <1>1, <1>4 DEF ScopeInv, Dialed
  <2>3. \A h \in Gens : Coming(h)' => Coming(h) /\ h # g
    BY <1>0, <1>1, <1>5, <2>1, <2>2 DEF Coming, ScopeInv, Dialed
  <2>. QED BY <1>0, <1>1, <1>5, <2>1, <2>2, <2>3 DEF ScopeInv, Dialed
<1>9. EventsAreDue'
  <2>1. \A k \in Kids : <<"resume", g, k>> \notin ev
    BY <1>0, <1>1 DEF ScopeInv, Dialed, Coming
  <2> SUFFICES ASSUME NEW h \in Gens, NEW k \in Kids PROVE Due(h, k)'
    BY DEF EventsAreDue
  <2>2. Due(h, k) /\ ev' = ev /\ target'["root"] = g
    BY <1>0, <1>1 DEF ScopeInv, EventsAreDue
  <2>3. /\ sock'[h] = sock[h] \/ sock'[h] = "closed"
        /\ kid'[k] = kid[k] \/ (kid[k] = "paused" /\ kid'[k] = "running")
    BY <1>2, <1>5
  <2>. QED BY <2>1, <2>2, <2>3 DEF Due
<1>10. Enabling' /\ Disabling' /\ CalledAreThere' /\ StrictIsAsked' /\ ResumedAreArmed'
  BY <1>1 DEF Enabling, Disabling, CalledAreThere, StrictIsAsked, ResumedAreArmed, Free, NoScope
<1>. QED BY <1>2, <1>6, <1>7, <1>8, <1>9, <1>10 DEF ScopeInv

LEMMA AutoAttachKeeps ==
  ASSUME ScopeInv, NEW p \in {"sync", "hook"}, NEW g \in Gens, AutoAttach(p, g) PROVE ScopeInv'
<1> USE DEF page
<1>0. /\ ReplayTypes /\ pc \in [{"sync", "hook"} -> Stages \X ({0} \cup Gens)]
      /\ UNCHANGED <<sock, target, scope, asked, armed, kid, req, op, want, syncErr, store, retiring, cool>>
  BY DEF ScopeInv, ReplayTypes, AutoAttach
<1>1. CASE /\ sock[g] = "up" /\ auto' = auto \cup {g}
           /\ ev' = ev \cup {<<"attach", g, k>> : k \in {k \in Kids : kid[k] \in {"paused", "running"}}}
           /\ pc' = [pc EXCEPT ![p] = <<IF p = "sync" THEN "reapply" ELSE "idle", 0>>]
           /\ UNCHANGED faults
  <2>1. /\ pc' \in [{"sync", "hook"} -> Stages \X ({0} \cup Gens)]
        /\ \A q \in {"sync", "hook"}, h \in Gens : pc'[q] = <<"attach", h>> => pc[q] = <<"attach", h>>
    BY <1>0, <1>1, PcMoves DEF Stages
  <2>2. ev' \subseteq Events \X Gens \X Kids
    BY <1>0, <1>1 DEF ReplayTypes, Events
  <2>3. ReplayTypes'
    BY <1>0, <1>1, <2>1, <2>2 DEF ReplayTypes
  <2>4. \A h \in Gens, k \in Kids :
          /\ <<"resume", h, k>> \in ev' <=> <<"resume", h, k>> \in ev
          /\ <<"detach", h, k>> \in ev' <=> <<"detach", h, k>> \in ev
          /\ <<"attach", h, k>> \in ev' =>
               <<"attach", h, k>> \in ev \/ (h = g /\ kid[k] \in {"paused", "running"})
    BY <1>1
  <2>5. KidsFollow' /\ ArmedForScope' /\ TargetsAreMet'
    BY <1>0 DEF ScopeInv, KidsFollow, ArmedForScope, TargetsAreMet
  <2>6. EventsAreDue'
    BY <1>0, <1>1, <2>4 DEF ScopeInv, EventsAreDue, Due
  <2>7. Dialed'
    <3>1. DOMAIN pc = {"sync", "hook"} /\ DOMAIN pc' = {"sync", "hook"}
      BY <1>0, <2>1
    <3>2. \A h \in Gens : Coming(h)' => Coming(h)
      BY <1>0, <2>1, <3>1 DEF Coming
    <3>. QED BY <1>0, <2>1, <2>4, <3>1, <3>2 DEF ScopeInv, Dialed
  <2>8. Enabling' /\ Disabling' /\ CalledAreThere' /\ StrictIsAsked' /\ ResumedAreArmed'
    BY <1>0, <2>4 DEF ScopeInv, Enabling, Disabling, CalledAreThere, StrictIsAsked, ResumedAreArmed
  <2>9. Requests'
    BY <1>0 DEF ScopeInv, Requests, Held, StuckIsReleased, FailedOnlyWhenStrict
  <2>. QED BY <2>3, <2>5, <2>6, <2>7, <2>8, <2>9 DEF ScopeInv
<1>2. CASE /\ IF sock[g] = "up" THEN Fault ELSE UNCHANGED faults
           /\ pc' = [pc EXCEPT ![p] = <<"idle", 0>>] /\ UNCHANGED <<auto, ev>>
  <2>1. /\ pc' \in [{"sync", "hook"} -> Stages \X ({0} \cup Gens)]
        /\ \A q \in {"sync", "hook"}, h \in Gens : pc'[q] = <<"attach", h>> => pc[q] = <<"attach", h>>
    BY <1>0, <1>2, PcMoves DEF Stages
  <2>2. ReplayTypes'
    BY <1>0, <1>2, <2>1, ReplayAssumption DEF ReplayTypes, Fault
  <2>. QED BY <1>0, <1>2, <2>1, <2>2, QuietKeeps
<1>. QED BY <1>1, <1>2 DEF AutoAttach
-----------------------------------------------------------------------------
(* A step of the requests alone.                                           *)
LEMMA RequestsAlone ==
  ASSUME ScopeInv, ReplayTypes', Requests',
         UNCHANGED <<sock, target, scope, asked, armed, kid, ev, op, pc, syncErr>>
  PROVE  ScopeInv'
<1>1. KidsFollow' /\ Dialed' /\ ArmedForScope' /\ EventsAreDue' /\ TargetsAreMet'
  BY DEF ScopeInv, KidsFollow, Dialed, Coming, ArmedForScope, EventsAreDue, Due, TargetsAreMet
<1>2. Enabling' /\ Disabling' /\ CalledAreThere' /\ StrictIsAsked' /\ ResumedAreArmed'
  BY DEF ScopeInv, Enabling, Disabling, CalledAreThere, StrictIsAsked, ResumedAreArmed
<1>. QED BY <1>1, <1>2 DEF ScopeInv

(* An event is handled in vain.                                            *)
LEMMA EventGoes ==
  ASSUME ScopeInv, ReplayTypes', ev' \subseteq ev,
         UNCHANGED <<sock, target, scope, asked, armed, kid, req, op, pc, syncErr, retiring>>
  PROVE  ScopeInv'
<1>1. KidsFollow' /\ Dialed' /\ ArmedForScope' /\ EventsAreDue' /\ TargetsAreMet'
  BY DEF ScopeInv, KidsFollow, Dialed, Coming, ArmedForScope, EventsAreDue, Due, TargetsAreMet
<1>2. Enabling' /\ Disabling' /\ CalledAreThere' /\ StrictIsAsked' /\ ResumedAreArmed'
  BY DEF ScopeInv, Enabling, Disabling, CalledAreThere, StrictIsAsked, ResumedAreArmed
<1>3. Requests'
  BY DEF ScopeInv, Requests, Held, StuckIsReleased, FailedOnlyWhenStrict
<1>. QED BY <1>1, <1>2, <1>3 DEF ScopeInv

(* A child of the current root: it becomes a target while its connection   *)
(* lives, and is resumed inside the interception of a strict scope.        *)
LEMMA HandleAttachKeeps ==
  ASSUME ScopeInv, NEW g \in Gens, NEW k \in Kids, HandleAttach(g, k) PROVE ScopeInv'
<1> DEFINE att == <<"attach", g, k>>
           res == <<"resume", g, k>>
<1>0. /\ ReplayTypes /\ op = Free /\ att \in ev /\ 0 \notin Gens
      /\ "root" \in Targets /\ k \in Targets /\ k # "root" /\ \A j \in Kids : j # "root" /\ j \in Targets
      /\ sock[g] # "none" /\ (sock[g] = "up" => kid[k] # "none")
      /\ UNCHANGED <<sock, auto, scope, asked, kid, req, op, pc, want, syncErr, store, retiring, cool>>
  BY Bases DEF ScopeInv, HandleAttach, EventsAreDue, Due
<1>1. CASE ~Current(g) /\ ev' = ev \ {att} /\ UNCHANGED <<target, armed, faults>>
  <2>1. ReplayTypes'
    BY <1>0, <1>1 DEF ReplayTypes
  <2>. QED BY <1>0, <1>1, <2>1, EventGoes
<1>2. ASSUME Current(g), target' = [target EXCEPT ![k] = g] \/ (sock[g] # "up" /\ target' = [target EXCEPT ![k] = 0]),
             armed' = armed \/ (scope.on /\ kid[k] # "gone" /\ armed' = armed \cup {<<g, k>>}),
             ev' = ev \ {att} \/ (ev' = (ev \ {att}) \cup {res} /\ (~scope.on \/ scope.mixed \/ <<g, k>> \in armed')),
             faults' \in 0..MaxFaults
      PROVE  ScopeInv'
  <2>1. /\ target' \in [Targets -> {0} \cup Gens] /\ target["root"] = g /\ target'["root"] = g
        /\ target'[k] \in {0, g} /\ (sock[g] = "up" => target'[k] = g)
        /\ \A t \in Targets : t # k => target'[t] = target[t]
    BY <1>0, <1>2 DEF Current, ReplayTypes
  <2>2. /\ ev' \subseteq Events \X Gens \X Kids
        /\ \A h \in Gens, j \in Kids :
             /\ <<"attach", h, j>> \in ev' => <<"attach", h, j>> \in ev
             /\ <<"detach", h, j>> \in ev' => <<"detach", h, j>> \in ev
             /\ <<"resume", h, j>> \in ev' =>
                  \/ <<"resume", h, j>> \in ev
                  \/ h = g /\ j = k /\ (~scope.on \/ scope.mixed \/ <<g, k>> \in armed')
    BY <1>0, <1>2 DEF ReplayTypes, Events
  <2>3. /\ armed \subseteq armed' /\ armed' \subseteq Gens \X Targets
        /\ ~scope.on => armed' = armed
        /\ \A h \in Gens, t \in Targets : <<h, t>> \in armed' =>
             <<h, t>> \in armed \/ (h = g /\ t = k /\ kid[k] # "gone")
    BY <1>0, <1>2 DEF ReplayTypes
  <2>4. ReplayTypes'
    BY <1>0, <1>2, <2>1, <2>2, <2>3 DEF ReplayTypes
  <2>5. KidsFollow'
    BY <1>0, <2>1 DEF ScopeInv, KidsFollow
  <2>6. Dialed'
    <3>1. \A h \in Gens : Coming(h)' <=> Coming(h)
      BY <1>0 DEF Coming
    <3>2. \A h \in Gens : Coming(h) => h # g
      BY <1>0, <2>1 DEF ScopeInv, Dialed
    <3>3. \A h \in Gens : Coming(h) => \A j \in Kids : <<"resume", h, j>> \notin ev'
      BY <2>2, <3>2 DEF ScopeInv, Dialed
    <3>. QED BY <1>0, <2>1, <3>1, <3>2, <3>3 DEF ScopeInv, Dialed
  <2>7. ArmedForScope'
    <3>1. \A h \in Gens, t \in Targets : <<h, t>> \in armed' => h = target'["root"]
      BY <2>1, <2>3 DEF ScopeInv, ArmedForScope
    <3>2. ASSUME NEW j \in Kids, <<target'["root"], j>> \in armed'
          PROVE  kid'[j] # "gone" /\ (target'[j] = target'["root"] \/ sock'[target'["root"]] # "up")
      BY <1>0, <2>1, <2>3, <3>2 DEF ScopeInv, ArmedForScope
    <3>3. ~scope'.on => armed' = {}
      BY <1>0, <2>3 DEF ScopeInv, ArmedForScope
    <3>. QED BY <3>1, <3>2, <3>3 DEF ArmedForScope
  <2>8. EventsAreDue'
    <3> SUFFICES ASSUME NEW h \in Gens, NEW j \in Kids PROVE Due(h, j)'
      BY DEF EventsAreDue
    <3>1. Due(h, j) /\ sock' = sock /\ kid' = kid
      BY <1>0 DEF ScopeInv, EventsAreDue
    <3>2. CASE h = g /\ j = k
      BY <1>0, <2>1, <2>2, <3>1, <3>2 DEF Due
    <3>3. CASE h # g
      BY <1>0, <2>1, <2>2, <3>1, <3>3 DEF Due
    <3>4. CASE j # k
      BY <1>0, <2>1, <2>2, <3>1, <3>4 DEF Due
    <3>. QED BY <3>2, <3>3, <3>4
  <2>9. TargetsAreMet'
    BY <1>0, <2>1 DEF ScopeInv, TargetsAreMet
  <2>10. Enabling' /\ Disabling' /\ CalledAreThere' /\ StrictIsAsked'
    BY <1>0 DEF ScopeInv, Enabling, Disabling, CalledAreThere, StrictIsAsked, Free
  <2>11. ResumedAreArmed'
    BY <1>0, <2>1, <2>2, <2>3 DEF ScopeInv, ResumedAreArmed
  <2>12. Requests'
    BY <1>0, <2>3 DEF ScopeInv, Requests, Held, StuckIsReleased, FailedOnlyWhenStrict
  <2>. QED BY <2>4, <2>5, <2>6, <2>7, <2>8, <2>9, <2>10, <2>11, <2>12 DEF ScopeInv
<1>3. faults' \in 0..MaxFaults
  BY <1>0, ReplayAssumption DEF HandleAttach, Fault, ReplayTypes
<1>4. CASE Current(g) /\ ~scope.on /\ target' = [target EXCEPT ![k] = g]
           /\ ev' = (ev \ {att}) \cup {res} /\ UNCHANGED <<armed, faults>>
  BY <1>2, <1>3, <1>4
<1>5. CASE Current(g) /\ scope.on /\ kid[k] # "gone" /\ sock[g] = "up" /\ target' = [target EXCEPT ![k] = g]
           /\ ev' = (ev \ {att}) \cup {res} /\ armed' = armed \cup {<<g, k>>}
  BY <1>2, <1>3, <1>5
<1>6. CASE Current(g) /\ target' = [target EXCEPT ![k] = IF sock[g] = "up" THEN g ELSE 0]
           /\ (IF scope.mixed THEN ev' = (ev \ {att}) \cup {res} ELSE ev' = ev \ {att}) /\ UNCHANGED armed
  BY <1>2, <1>3, <1>6
<1>. QED BY <1>0, <1>1, <1>4, <1>5, <1>6 DEF HandleAttach, Unless

LEMMA ResumeKeeps ==
  ASSUME ScopeInv, NEW g \in Gens, NEW k \in Kids, Resume(g, k) PROVE ScopeInv'
<1> USE DEF calls
<1>0. /\ ReplayTypes /\ ev' \subseteq ev
      /\ UNCHANGED <<sock, auto, target, scope, asked, armed, req, calls, store, retiring, faults>>
  BY DEF ScopeInv, Resume
<1>1. /\ kid' \in [Kids -> {"none", "paused", "running", "gone"}]
      /\ \A j \in Kids : kid'[j] = kid[j] \/ (kid[j] = "paused" /\ kid'[j] = "running")
  BY <1>0 DEF Resume, ReplayTypes
<1>2. ReplayTypes'
  BY <1>0, <1>1 DEF ReplayTypes
<1>3. KidsFollow' /\ Dialed' /\ StrictIsAsked' /\ CalledAreThere' /\ Disabling'
  BY <1>0 DEF ScopeInv, KidsFollow, Dialed, Coming, StrictIsAsked, CalledAreThere, Disabling
<1>4. ArmedForScope' /\ EventsAreDue' /\ TargetsAreMet'
  BY <1>0, <1>1 DEF ScopeInv, ArmedForScope, EventsAreDue, Due, TargetsAreMet
<1>5. Enabling' /\ ResumedAreArmed'
  BY <1>0, <1>1 DEF ScopeInv, Enabling, ResumedAreArmed
<1>6. Requests'
  BY <1>0 DEF ScopeInv, Requests, Held, StuckIsReleased, FailedOnlyWhenStrict
<1>. QED BY <1>2, <1>3, <1>4, <1>5, <1>6 DEF ScopeInv

(* A detach is of an iframe that is gone, or of a dead connection: it      *)
(* takes nothing away that is armed on a live one.                         *)
LEMMA HandleDetachKeeps ==
  ASSUME ScopeInv, NEW g \in Gens, NEW k \in Kids, HandleDetach(g, k) PROVE ScopeInv'
<1> USE DEF calls, page
<1>0. /\ ReplayTypes /\ op = Free /\ ev' \subseteq ev /\ 0 \notin Gens
      /\ k \in Targets /\ k # "root" /\ "root" \in Targets
      /\ sock[g] \in {"broken", "closed"} \/ (sock[g] = "up" /\ kid[k] = "gone")
      /\ UNCHANGED <<sock, auto, scope, asked, page, calls, store, retiring, faults>>
  BY Bases DEF ScopeInv, HandleDetach, EventsAreDue, Due
<1>1. CASE target["root"] # g
  <2>1. target' = target
    BY <1>1 DEF HandleDetach
  <2>2. ReplayTypes'
    BY <1>0, <2>1 DEF ReplayTypes
  <2>. QED BY <1>0, <2>1, <2>2, EventGoes
<1>2. CASE target["root"] = g
  <2>1. /\ target' \in [Targets -> {0} \cup Gens] /\ target'["root"] = g /\ target'[k] = 0
        /\ \A t \in Targets : t # k => target'[t] = target[t]
    BY <1>0, <1>2 DEF HandleDetach, ReplayTypes
  <2>2. ReplayTypes'
    BY <1>0, <2>1 DEF ReplayTypes
  <2>3. KidsFollow' /\ Dialed' /\ TargetsAreMet'
    BY <1>0, <1>2, <2>1, Bases DEF ScopeInv, KidsFollow, Dialed, Coming, TargetsAreMet
  <2>4. ArmedForScope'
    BY <1>0, <1>2, <2>1, Bases DEF ScopeInv, ArmedForScope
  <2>5. EventsAreDue'
    <3> SUFFICES ASSUME NEW h \in Gens, NEW j \in Kids PROVE Due(h, j)'
      BY DEF EventsAreDue
    <3>1. Due(h, j) /\ sock' = sock /\ kid' = kid /\ j \in Targets
      BY <1>0, Bases DEF ScopeInv, EventsAreDue
    <3>2. CASE j = k /\ h = g
      BY <1>0, <2>1, <3>1, <3>2 DEF Due
    <3>3. CASE j = k /\ h # g
      BY <1>0, <2>1, <3>1, <3>3 DEF Due
    <3>4. CASE j # k
      BY <1>0, <1>2, <2>1, <3>1, <3>4 DEF Due
    <3>. QED BY <3>2, <3>3, <3>4
  <2>6. Enabling' /\ Disabling' /\ CalledAreThere' /\ StrictIsAsked' /\ ResumedAreArmed'
    BY <1>0, <1>2, <2>1 DEF ScopeInv, Enabling, Disabling, CalledAreThere, StrictIsAsked, ResumedAreArmed, Free
  <2>7. Requests'
    BY <1>0 DEF ScopeInv, Requests, Held, StuckIsReleased, FailedOnlyWhenStrict
  <2>. QED BY <2>2, <2>3, <2>4, <2>5, <2>6, <2>7 DEF ScopeInv
<1>. QED BY <1>1, <1>2

-----------------------------------------------------------------------------
LEMMA PauseKeeps ==
  ASSUME ScopeInv, NEW r \in Reqs, NEW g \in Gens, NEW t \in Targets, NEW kind \in Kinds, Pause(r, g, t, kind)
  PROVE  ScopeInv'
<1> USE DEF calls
<1>0. ReplayTypes /\ Requests /\ <<g, t>> \in armed
  BY DEF ScopeInv, Pause
<1>1. PICK path \in {"full", "over", "stuck"} :
        /\ req' = [req EXCEPT ![r] = [st |-> path, path |-> IF path = "stuck" /\ retiring = "notify" THEN "late" ELSE path,
                                      g |-> g, t |-> t, kind |-> kind, free |-> FALSE]]
        /\ retiring' = IF path = "stuck" /\ retiring = "no" THEN "lock" ELSE retiring
  BY DEF Pause
<1>2. /\ req' \in [Reqs -> {NoReq} \cup Open \cup Decided]
      /\ \A q \in Reqs : q # r => req'[q] = req[q]
      /\ req'[r].g = g /\ req'[r].t = t /\ ~req'[r].free /\ req'[r].st = path
      /\ req'[r].path = IF path = "stuck" /\ retiring = "notify" THEN "late" ELSE path
      /\ retiring' \in {"no", "lock", "notify"}
  BY <1>0, <1>1 DEF ReplayTypes, Open
<1>3. ReplayTypes'
  BY <1>0, <1>2 DEF Pause, ReplayTypes
<1>4. Held' /\ FailedOnlyWhenStrict'
  BY <1>0, <1>2 DEF Pause, Requests, Held, FailedOnlyWhenStrict
<1>5. StuckIsReleased'
  BY <1>0, <1>1, <1>2 DEF Requests, StuckIsReleased, ReplayTypes
<1>. QED BY <1>3, <1>4, <1>5, RequestsAlone DEF Pause, Requests

LEMMA DecideKeeps == ASSUME ScopeInv, NEW r \in Reqs, Decide(r) PROVE ScopeInv'
<1> USE DEF calls
<1>0. /\ ReplayTypes /\ Requests /\ req[r] \in Open /\ req[r] # NoReq
      /\ UNCHANGED <<sock, auto, target, scope, asked, armed, kid, ev, calls, store, retiring, faults>>
  BY DEF ScopeInv, ReplayTypes, Decide, Open, Decided, NoReq
<1>1. \/ req' = [req EXCEPT ![r] = Dropped(r)]
      \/ req' = [req EXCEPT ![r] =
           [st |-> "answer", path |-> req[r].path, g |-> req[r].g, t |-> req[r].t, kind |-> req[r].kind,
            free |-> req[r].free, ans |-> Answer(req[r].path, req[r].kind), asked |-> asked]]
  BY <1>0 DEF Decide, ReplayTypes
<1>2. Answer(req[r].path, req[r].kind) \in Verdicts
      /\ (Answer(req[r].path, req[r].kind) = "fail" => ~scope.mixed)
  BY DEF Answer, Verdicts, Miss
<1>3. ~req[r].free => scope.on
  BY <1>0 DEF ScopeInv, Requests, Held, ArmedForScope
<1>4. /\ req'[r] \in {NoReq} \cup Open \cup Decided
      /\ req' = [req EXCEPT ![r] = req'[r]]
      /\ req'[r] # NoReq => req'[r].g = req[r].g /\ req'[r].t = req[r].t /\ req'[r].free = req[r].free
      /\ req'[r].st # "stuck" /\ (req'[r].st = "dropped" => ~req'[r].free)
      /\ req'[r].st = "answer" /\ req'[r].ans = "fail" /\ ~req'[r].free => req'[r].asked = "strict"
  <2>1. CASE req' = [req EXCEPT ![r] = Dropped(r)]
    <3>1. req'[r] = Dropped(r)
      BY <1>0, <2>1 DEF ReplayTypes
    <3>2. CASE req[r].free
      <4>1. req'[r] = NoReq
        BY <3>1, <3>2 DEF Dropped
      <4>2. NoReq.st = "none"
        BY DEF NoReq
      <4>. QED BY <2>1, <3>1, <4>1, <4>2
    <3>3. CASE ~req[r].free
      <4>1. req'[r] = [req[r] EXCEPT !.st = "dropped"]
        BY <3>1, <3>3 DEF Dropped
      <4>2. req'[r] \in Open /\ req'[r].st = "dropped" /\ req'[r].g = req[r].g /\ req'[r].t = req[r].t
            /\ req'[r].free = req[r].free
        BY <1>0, <4>1 DEF Open
      <4>. QED BY <2>1, <3>1, <3>3, <4>2
    <3>. QED BY <3>2, <3>3
  <2>2. CASE req' = [req EXCEPT ![r] =
           [st |-> "answer", path |-> req[r].path, g |-> req[r].g, t |-> req[r].t, kind |-> req[r].kind,
            free |-> req[r].free, ans |-> Answer(req[r].path, req[r].kind), asked |-> asked]]
    <3>1. req'[r] = [st |-> "answer", path |-> req[r].path, g |-> req[r].g, t |-> req[r].t, kind |-> req[r].kind,
                     free |-> req[r].free, ans |-> Answer(req[r].path, req[r].kind), asked |-> asked]
      BY <1>0, <2>2 DEF ReplayTypes
    <3>2. asked \in Scopes /\ req'[r] \in Decided
      BY <1>0, <1>2, <3>1 DEF ReplayTypes, Open, Decided
    <3>3. /\ req'[r].g = req[r].g /\ req'[r].t = req[r].t /\ req'[r].free = req[r].free
          /\ req'[r].st = "answer" /\ req'[r].asked = asked
          /\ req'[r].ans = Answer(req[r].path, req[r].kind)
      BY <3>1
    <3>4. scope.on /\ ~scope.mixed => asked = "strict"
      BY DEF ScopeInv, StrictIsAsked
    <3>5. req' = [req EXCEPT ![r] = req'[r]]
      BY <2>2, <3>1
    <3>. QED BY <1>2, <1>3, <3>2, <3>3, <3>4, <3>5
  <2>. QED BY <1>1, <2>1, <2>2
<1>5. /\ req' \in [Reqs -> {NoReq} \cup Open \cup Decided]
      /\ \A q \in Reqs : q # r => req'[q] = req[q]
  BY <1>0, <1>4 DEF ReplayTypes
<1>6. ReplayTypes'
  BY <1>0, <1>5 DEF ReplayTypes
<1>7. Requests'
  BY <1>0, <1>4, <1>5 DEF Requests, Held, StuckIsReleased, FailedOnlyWhenStrict
<1>. QED BY <1>0, <1>6, <1>7, RequestsAlone

LEMMA ReplyKeeps == ASSUME ScopeInv, NEW r \in Reqs, Reply(r) PROVE ScopeInv'
<1> USE DEF calls
<1>0. /\ ReplayTypes /\ Requests /\ req[r] \in Decided /\ req[r] # NoReq
      /\ UNCHANGED <<sock, auto, target, scope, asked, armed, kid, ev, calls, store, retiring>>
  BY DEF ScopeInv, ReplayTypes, Reply, Open, Decided, NoReq
<1>1. \/ req' = [req EXCEPT ![r] = NoReq]
      \/ req' = [req EXCEPT ![r] = Dropped(r)]
      \/ /\ req' = [req EXCEPT ![r] = [req[r] EXCEPT !.st = "dropped", !.path = "refused"]]
         /\ ~req[r].free
  BY <1>0 DEF Reply, ReplayTypes
<1>f. faults' \in 0..MaxFaults
  BY <1>0, ReplayAssumption DEF Reply, Fault, ReplayTypes
<1>2. /\ req'[r] \in {NoReq} \cup Open \cup Decided
      /\ req' = [req EXCEPT ![r] = req'[r]]
      /\ req'[r] # NoReq => req'[r].g = req[r].g /\ req'[r].t = req[r].t /\ req'[r].free = req[r].free
      /\ req'[r].st \notin {"stuck", "answer"} /\ (req'[r].st = "dropped" => ~req'[r].free)
  <2>1. \/ req'[r] = NoReq
        \/ req'[r] = Dropped(r)
        \/ req'[r] = [req[r] EXCEPT !.st = "dropped", !.path = "refused"] /\ ~req[r].free
    BY <1>0, <1>1 DEF ReplayTypes
  <2>2. CASE req'[r] = NoReq
    BY <1>0, <1>1, <2>2 DEF NoReq, ReplayTypes
  <2>3. CASE req'[r] = Dropped(r)
    BY <1>0, <1>1, <2>3 DEF Dropped, Decided, NoReq
  <2>4. CASE req'[r] = [req[r] EXCEPT !.st = "dropped", !.path = "refused"] /\ ~req[r].free
    <3>1. req'[r] \in Decided /\ req'[r].st = "dropped" /\ req'[r].free = req[r].free
          /\ req'[r].g = req[r].g /\ req'[r].t = req[r].t
      BY <1>0, <2>4 DEF Decided
    <3>2. req' = [req EXCEPT ![r] = req'[r]]
      BY <1>0, <1>1 DEF ReplayTypes
    <3>. QED BY <2>4, <3>1, <3>2
  <2>. QED BY <2>1, <2>2, <2>3, <2>4
<1>3. /\ req' \in [Reqs -> {NoReq} \cup Open \cup Decided]
      /\ \A q \in Reqs : q # r => req'[q] = req[q]
  BY <1>0, <1>2 DEF ReplayTypes
<1>4. ReplayTypes'
  BY <1>0, <1>3, <1>f DEF ReplayTypes
<1>5. Requests'
  BY <1>0, <1>2, <1>3 DEF Requests, Held, StuckIsReleased, FailedOnlyWhenStrict
<1>. QED BY <1>0, <1>4, <1>5, RequestsAlone

-----------------------------------------------------------------------------
(* Whatever root is installed: what is stuck was paused by it.             *)
LEMMA RetireRootKeeps == ASSUME ScopeInv, RetireRoot PROVE ScopeInv'
<1> USE DEF calls, page
<1>0. /\ ReplayTypes /\ Requests /\ op = Free /\ op' = op /\ retiring' = "notify" /\ "root" \in Targets
      /\ UNCHANGED <<auto, scope, asked, ev, calls, store, faults>>
  BY Bases DEF ScopeInv, RetireRoot
<1>1. CASE target["root"] # 0 /\ Retire("root")
  <2>1. /\ target' \in [Targets -> {0} \cup Gens] /\ sock' \in [Gens -> Conns]
        /\ armed' \subseteq armed /\ kid' \in [Kids -> {"none", "paused", "running", "gone"}]
        /\ req' \in [Reqs -> {NoReq} \cup Open \cup Decided]
        /\ target' = [target EXCEPT !["root"] = 0]
        /\ KidsFollow' /\ Dialed' /\ ArmedForScope' /\ EventsAreDue' /\ TargetsAreMet'
        /\ Held' /\ FailedOnlyWhenStrict'
        /\ \A r \in Reqs : req'[r].st = "stuck" =>
             req'[r] = req[r] /\ <<req[r].g, req[r].t>> \in armed /\ req[r].g # target["root"]
    BY <1>0, <1>1, RetireKeeps
  <2>2. \A r \in Reqs : req'[r].st # "stuck"
    <3> SUFFICES ASSUME NEW r \in Reqs, req'[r].st = "stuck" PROVE FALSE
      OBVIOUS
    <3>1. <<req[r].g, req[r].t>> \in armed /\ req[r].g # target["root"]
      BY <2>1
    <3>2. req[r].g \in Gens /\ req[r].t \in Targets
      BY <1>0, <3>1 DEF ReplayTypes
    <3>. QED BY <3>1, <3>2 DEF ScopeInv, ArmedForScope
  <2>3. Requests'
    BY <2>1, <2>2 DEF Requests, StuckIsReleased
  <2>4. ReplayTypes'
    BY <1>0, <2>1 DEF ReplayTypes
  <2>5. target'["root"] = 0 /\ 0 \notin Gens
    BY <1>0, <2>1, Bases DEF ReplayTypes
  <2>6. Enabling' /\ Disabling' /\ CalledAreThere' /\ StrictIsAsked' /\ ResumedAreArmed'
    BY <1>0, <2>5 DEF ScopeInv, Enabling, Disabling, CalledAreThere, StrictIsAsked, ResumedAreArmed, Free
  <2>. QED BY <2>1, <2>3, <2>4, <2>6 DEF ScopeInv
<1>2. CASE target["root"] = 0 /\ UNCHANGED <<target, sock, page>>
  <2>1. \A r \in Reqs : req[r].st # "stuck"
    <3> SUFFICES ASSUME NEW r \in Reqs, req[r].st = "stuck" PROVE FALSE
      OBVIOUS
    <3>1. req[r] # NoReq /\ ~req[r].free
      <4>1. NoReq.st = "none"
        BY DEF NoReq
      <4>. QED BY <1>0, <4>1 DEF Requests, Held
    <3>. QED BY <1>0, <1>2, <3>1, NothingArmed DEF Requests, Held
  <2>2. Requests'
    BY <1>0, <1>2, <2>1 DEF Requests, Held, StuckIsReleased, FailedOnlyWhenStrict
  <2>3. ReplayTypes'
    BY <1>0, <1>2 DEF ReplayTypes
  <2>. QED BY <1>0, <1>2, <2>2, <2>3, RequestsAlone
<1>. QED BY <1>1, <1>2 DEF RetireRoot

-----------------------------------------------------------------------------
LEMMA IframeCreatedKeeps == ASSUME ScopeInv, NEW k \in Kids, IframeCreated(k) PROVE ScopeInv'
<1> USE DEF calls
<1>0. /\ ReplayTypes /\ kid[k] = "none"
      /\ UNCHANGED <<sock, auto, target, scope, asked, armed, req, calls, store, retiring, faults>>
  BY DEF ScopeInv, IframeCreated
<1>1. /\ kid' \in [Kids -> {"none", "paused", "running", "gone"}] /\ kid'[k] \in {"running", "paused"}
      /\ \A j \in Kids : j # k => kid'[j] = kid[j]
  BY <1>0 DEF IframeCreated, ReplayTypes
<1>2. /\ ev' \subseteq Events \X Gens \X Kids
      /\ \A h \in Gens, j \in Kids :
           /\ <<"resume", h, j>> \in ev' <=> <<"resume", h, j>> \in ev
           /\ <<"detach", h, j>> \in ev' <=> <<"detach", h, j>> \in ev
           /\ <<"attach", h, j>> \in ev' => <<"attach", h, j>> \in ev \/ (j = k /\ sock[h] = "up")
  BY <1>0 DEF IframeCreated, ReplayTypes, Events
<1>3. ReplayTypes'
  BY <1>0, <1>1, <1>2 DEF ReplayTypes
<1>4. KidsFollow' /\ StrictIsAsked' /\ CalledAreThere' /\ Disabling'
  BY <1>0 DEF ScopeInv, KidsFollow, StrictIsAsked, CalledAreThere, Disabling
<1>5. Dialed'
  <2>1. \A h \in Gens : Coming(h)' <=> Coming(h)
    BY <1>0 DEF Coming
  <2>. QED BY <1>0, <1>2, <2>1 DEF ScopeInv, Dialed
<1>6. ArmedForScope' /\ TargetsAreMet'
  BY <1>0, <1>1 DEF ScopeInv, ArmedForScope, TargetsAreMet
<1>7. EventsAreDue'
  <2> SUFFICES ASSUME NEW h \in Gens, NEW j \in Kids PROVE Due(h, j)'
    BY DEF EventsAreDue
  <2>1. Due(h, j) /\ sock' = sock /\ target' = target
    BY <1>0 DEF ScopeInv, EventsAreDue
  <2>2. CASE j = k
    BY <1>0, <1>1, <1>2, <2>1, <2>2 DEF Due
  <2>3. CASE j # k
    BY <1>1, <1>2, <2>1, <2>3 DEF Due
  <2>. QED BY <2>2, <2>3
<1>8. Enabling'
  BY <1>0, <1>1 DEF ScopeInv, Enabling, TargetsAreMet
<1>9. ResumedAreArmed'
  <2> SUFFICES ASSUME op = Free, scope.on, ~scope.mixed, ~syncErr, NEW h \in Gens, NEW j \in Kids,
                      <<"resume", h, j>> \in ev', target["root"] = h, sock[h] = "up", kid'[j] = "paused"
               PROVE  <<h, j>> \in armed
    BY <1>0 DEF ResumedAreArmed
  <2>1. Due(h, j) /\ <<"resume", h, j>> \in ev
    BY <1>2 DEF ScopeInv, EventsAreDue
  <2>2. j # k /\ kid[j] = "paused"
    BY <1>0, <1>1, <2>1 DEF Due
  <2>. QED BY <2>1, <2>2 DEF ScopeInv, ResumedAreArmed
<1>10. Requests'
  BY <1>0 DEF ScopeInv, Requests, Held, StuckIsReleased, FailedOnlyWhenStrict
<1>. QED BY <1>3, <1>4, <1>5, <1>6, <1>7, <1>8, <1>9, <1>10 DEF ScopeInv

LEMMA IframeGoneKeeps == ASSUME ScopeInv, NEW k \in Kids, IframeGone(k) PROVE ScopeInv'
<1> USE DEF calls
<1>0. /\ ReplayTypes /\ Requests /\ k \in Targets /\ LetGo(Gens \X {k})
      /\ armed' = {a \in armed : a[2] # k}
      /\ UNCHANGED <<sock, auto, target, scope, asked, calls, store, retiring, faults>>
  BY Bases DEF ScopeInv, IframeGone
<1>1. /\ kid' \in [Kids -> {"none", "paused", "running", "gone"}] /\ kid'[k] = "gone"
      /\ \A j \in Kids : j # k => kid'[j] = kid[j]
  BY <1>0 DEF IframeGone, ReplayTypes
<1>2. /\ ev' \subseteq Events \X Gens \X Kids
      /\ \A h \in Gens, j \in Kids :
           /\ <<"resume", h, j>> \in ev' <=> <<"resume", h, j>> \in ev
           /\ <<"attach", h, j>> \in ev' <=> <<"attach", h, j>> \in ev
           /\ <<"detach", h, j>> \in ev' => <<"detach", h, j>> \in ev \/ (j = k /\ sock[h] = "up")
  BY <1>0 DEF IframeGone, ReplayTypes, Events
<1>3. /\ armed' \subseteq armed /\ armed' \subseteq Gens \X Targets
      /\ \A h \in Gens, t \in Targets : <<h, t>> \in armed' <=> <<h, t>> \in armed /\ t # k
  BY <1>0 DEF ReplayTypes
<1>4. armed \ (Gens \X {k}) \subseteq armed'
  <2> SUFFICES ASSUME NEW a \in armed, a \notin Gens \X {k} PROVE a \in armed'
    OBVIOUS
  <2>1. a[1] \in Gens /\ a[2] \in Targets /\ a = <<a[1], a[2]>>
    BY <1>0 DEF ReplayTypes
  <2>. QED BY <1>0, <2>1
<1>5. /\ req' \in [Reqs -> {NoReq} \cup Open \cup Decided] /\ Held' /\ FailedOnlyWhenStrict'
      /\ \A r \in Reqs : req'[r].st = "stuck" => req'[r] = req[r]
  BY <1>0, <1>4, LetGoKeeps DEF Requests
<1>6. Requests'
  BY <1>0, <1>5 DEF Requests, StuckIsReleased
<1>7. ReplayTypes'
  BY <1>0, <1>1, <1>2, <1>3, <1>5 DEF ReplayTypes
<1>8. KidsFollow' /\ StrictIsAsked' /\ CalledAreThere'
  BY <1>0 DEF ScopeInv, KidsFollow, StrictIsAsked, CalledAreThere
<1>9. Dialed'
  <2>1. \A h \in Gens : Coming(h)' <=> Coming(h)
    BY <1>0 DEF Coming
  <2>. QED BY <1>0, <1>2, <2>1 DEF ScopeInv, Dialed
<1>10. ArmedForScope'
  <2>1. \A h \in Gens, t \in Targets : <<h, t>> \in armed' => h = target'["root"]
    BY <1>0, <1>3 DEF ScopeInv, ArmedForScope
  <2>2. ASSUME NEW j \in Kids, <<target'["root"], j>> \in armed'
        PROVE  kid'[j] # "gone" /\ (target'[j] = target'["root"] \/ sock'[target'["root"]] # "up")
    <3>1. target' = target /\ sock' = sock /\ <<target["root"], j>> \in armed /\ j # k
      BY <1>0, <1>3, <2>2
    <3>. QED BY <1>1, <3>1 DEF ScopeInv, ArmedForScope
  <2>3. ~scope'.on => armed' = {}
    BY <1>0, <1>3 DEF ScopeInv, ArmedForScope
  <2>. QED BY <2>1, <2>2, <2>3 DEF ArmedForScope
<1>11. TargetsAreMet'
  BY <1>0, <1>1 DEF ScopeInv, TargetsAreMet
<1>12. EventsAreDue'
  <2> SUFFICES ASSUME NEW h \in Gens, NEW j \in Kids PROVE Due(h, j)'
    BY DEF EventsAreDue
  <2>1. Due(h, j) /\ sock' = sock /\ target' = target
    BY <1>0 DEF ScopeInv, EventsAreDue
  <2>2. CASE j = k
    BY <1>0, <1>1, <1>2, <2>1, <2>2 DEF Due
  <2>3. CASE j # k
    BY <1>1, <1>2, <2>1, <2>3 DEF Due
  <2>. QED BY <2>2, <2>3
<1>13. Enabling'
  <2> SUFFICES ASSUME op.by = "enable", ~op.err, NEW j \in Kids, j \notin op.todo,
                      target[j] # 0, sock[target[j]] = "up", kid'[j] = "paused"
               PROVE  <<target[j], j>> \in armed'
    BY <1>0 DEF ScopeInv, Enabling
  <2>1. j # k /\ kid[j] = "paused" /\ j \in Targets /\ target[j] \in Gens
    BY <1>0, <1>1, Bases DEF ReplayTypes
  <2>. QED BY <1>3, <2>1 DEF ScopeInv, Enabling
<1>14. Disabling'
  BY <1>0, <1>3 DEF ScopeInv, Disabling
<1>15. ResumedAreArmed'
  <2> SUFFICES ASSUME op = Free, scope.on, ~scope.mixed, ~syncErr, NEW h \in Gens, NEW j \in Kids,
                      <<"resume", h, j>> \in ev', target["root"] = h, sock[h] = "up", kid'[j] = "paused"
               PROVE  <<h, j>> \in armed'
    BY <1>0 DEF ResumedAreArmed
  <2>1. j # k /\ kid[j] = "paused" /\ j \in Targets /\ <<"resume", h, j>> \in ev
    BY <1>1, <1>2, Bases
  <2>. QED BY <1>3, <2>1 DEF ScopeInv, ResumedAreArmed
<1>. QED BY <1>6, <1>7, <1>8, <1>9, <1>10, <1>11, <1>12, <1>13, <1>14, <1>15 DEF ScopeInv

LEMMA SocketBreaksKeeps == ASSUME ScopeInv, NEW g \in Gens, SocketBreaks(g) PROVE ScopeInv'
<1> USE DEF calls, page
<1>0. /\ ReplayTypes /\ sock[g] = "up" /\ faults' \in 0..MaxFaults
      /\ UNCHANGED <<auto, target, scope, asked, page, ev, calls, store, retiring>>
  BY ReplayAssumption DEF ScopeInv, SocketBreaks, Fault, ReplayTypes
<1>1. /\ sock' \in [Gens -> Conns] /\ sock'[g] = "broken"
      /\ \A h \in Gens : h # g => sock'[h] = sock[h]
  BY <1>0 DEF SocketBreaks, ReplayTypes, Conns
<1>2. ReplayTypes'
  BY <1>0, <1>1 DEF ReplayTypes
<1>3. KidsFollow' /\ TargetsAreMet'
  BY <1>0, <1>1, Bases DEF ScopeInv, KidsFollow, TargetsAreMet, ReplayTypes
<1>4. Dialed'
  <2>1. \A h \in Gens : Coming(h)' => Coming(h)
    BY <1>0, <1>1 DEF Coming
  <2>. QED BY <1>0, <1>1, <2>1 DEF ScopeInv, Dialed
<1>5. ArmedForScope'
  BY <1>0, <1>1, Bases DEF ScopeInv, ArmedForScope, ReplayTypes
<1>6. EventsAreDue'
  <2> SUFFICES ASSUME NEW h \in Gens, NEW j \in Kids PROVE Due(h, j)'
    BY DEF EventsAreDue
  <2>1. Due(h, j) /\ ev' = ev /\ kid' = kid /\ target' = target
    BY <1>0 DEF ScopeInv, EventsAreDue
  <2>2. CASE h = g
    BY <1>0, <1>1, <2>1, <2>2 DEF Due
  <2>3. CASE h # g
    BY <1>1, <2>1, <2>3 DEF Due
  <2>. QED BY <2>2, <2>3
<1>7. Enabling' /\ ResumedAreArmed'
  BY <1>0, <1>1, Bases DEF ScopeInv, Enabling, ResumedAreArmed, ReplayTypes
<1>8. Disabling' /\ CalledAreThere' /\ StrictIsAsked'
  BY <1>0 DEF ScopeInv, Disabling, CalledAreThere, StrictIsAsked
<1>9. Requests'
  BY <1>0 DEF ScopeInv, Requests, Held, StuckIsReleased, FailedOnlyWhenStrict
<1>. QED BY <1>2, <1>3, <1>4, <1>5, <1>6, <1>7, <1>8, <1>9 DEF ScopeInv

LEMMA KioskRestartsKeeps == ASSUME ScopeInv, KioskRestarts PROVE ScopeInv'
<1>0. /\ ReplayTypes /\ Requests /\ faults' \in 0..MaxFaults /\ armed' = {}
      /\ LetGo(Gens \X Targets) /\ pc' = [pc EXCEPT !["hook"] = <<"dial", 0>>]
      /\ UNCHANGED <<auto, target, scope, asked, ev, op, want, syncErr, store, retiring, cool>>
  <2>1. ReplayTypes /\ Requests
    BY DEF ScopeInv
  <2>2. faults' \in 0..MaxFaults
    BY <2>1, ReplayAssumption DEF KioskRestarts, Fault, ReplayTypes
  <2>. QED BY <2>1, <2>2 DEF KioskRestarts
<1>1. /\ sock' \in [Gens -> Conns]
      /\ \A h \in Gens : sock'[h] = sock[h] \/ sock'[h] = "closed"
      /\ \A h \in Gens : sock'[h] # "up" /\ (sock[h] # "none" => sock'[h] = "closed")
  BY <1>0 DEF KioskRestarts, ReplayTypes, Conns
<1>2. kid' \in [Kids -> {"none", "paused", "running", "gone"}] /\ \A j \in Kids : kid'[j] = "none"
  BY DEF KioskRestarts
<1>3. /\ pc' \in [{"sync", "hook"} -> Stages \X ({0} \cup Gens)] /\ DOMAIN pc = {"sync", "hook"}
      /\ \A p \in {"sync", "hook"}, g \in Gens : pc'[p] = <<"attach", g>> => pc[p] = <<"attach", g>>
  BY <1>0, PcMoves DEF ReplayTypes, Stages
<1>4. armed \ (Gens \X Targets) \subseteq armed'
  BY <1>0 DEF ReplayTypes
<1>5. /\ req' \in [Reqs -> {NoReq} \cup Open \cup Decided] /\ Held' /\ FailedOnlyWhenStrict'
      /\ \A r \in Reqs : req'[r].st = "stuck" => req'[r] = req[r]
  BY <1>0, <1>4, LetGoKeeps DEF Requests
<1>6. Requests'
  BY <1>0, <1>5 DEF Requests, StuckIsReleased
<1>7. ReplayTypes'
  BY <1>0, <1>1, <1>2, <1>3, <1>5 DEF ReplayTypes
<1>8. KidsFollow' /\ TargetsAreMet'
  BY <1>0, <1>1, Bases DEF ScopeInv, KidsFollow, TargetsAreMet, ReplayTypes
<1>9. Dialed'
  <2>1. DOMAIN pc' = {"sync", "hook"}
    BY <1>3
  <2>2. \A h \in Gens : Coming(h)' => Coming(h)
    BY <1>1, <1>3, <2>1 DEF Coming
  <2>. QED BY <1>0, <1>1, <1>3, <2>1, <2>2 DEF ScopeInv, Dialed
<1>10. ArmedForScope' /\ Disabling'
  BY <1>0 DEF ArmedForScope, Disabling
<1>11. EventsAreDue'
  <2> SUFFICES ASSUME NEW h \in Gens, NEW j \in Kids PROVE Due(h, j)'
    BY DEF EventsAreDue
  <2>1. Due(h, j) /\ ev' = ev
    BY <1>0 DEF ScopeInv, EventsAreDue
  <2>. QED BY <1>1, <2>1 DEF Due
<1>12. Enabling'
  BY <1>0, <1>1, <1>2 DEF ScopeInv, Enabling
<1>13. CalledAreThere' /\ StrictIsAsked' /\ ResumedAreArmed'
  BY <1>0, <1>1 DEF ScopeInv, CalledAreThere, StrictIsAsked, ResumedAreArmed
<1>. QED BY <1>6, <1>7, <1>8, <1>9, <1>10, <1>11, <1>12, <1>13 DEF ScopeInv

-----------------------------------------------------------------------------
LEMMA ScopeNext == ASSUME ScopeInv, [ReplayNext]_replay_vars PROVE ScopeInv'
<1>0. DOMAIN pc = {"sync", "hook"}
  BY DEF ScopeInv, ReplayTypes
<1>1. CASE UNCHANGED replay_vars
  <2>1. ReplayTypes'
    BY <1>1 DEF replay_vars, ScopeInv, ReplayTypes
  <2>. QED BY <1>1, <2>1, EventGoes DEF replay_vars
<1>2. CASE SyncPlaylist \/ Tick \/ NotifyScopeLost \/ StoreChanges
  BY <1>2, IdleKeeps, EnableKeeps, DisableKeeps, ReturnKeeps, SendKeeps DEF SyncPlaylist
<1>3. CASE \E p \in DOMAIN pc : DialAndAttach(p)
  BY <1>0, <1>3, DialKeeps, AttachKeeps, AutoAttachKeeps DEF DialAndAttach
<1>4. CASE \E g \in Gens, k \in Kids : HandleAttach(g, k) \/ Resume(g, k) \/ HandleDetach(g, k)
  BY <1>4, HandleAttachKeeps, ResumeKeeps, HandleDetachKeeps
<1>5. CASE \E r \in Reqs : Decide(r) \/ Reply(r)
  BY <1>5, DecideKeeps, ReplyKeeps
<1>6. CASE \E r \in Reqs, g \in Gens, t \in Targets, kind \in Kinds : Pause(r, g, t, kind)
  BY <1>6, PauseKeeps
<1>7. CASE RetireRoot \/ KioskRestarts \/ \E g \in Gens : SocketBreaks(g)
  BY <1>7, RetireRootKeeps, KioskRestartsKeeps, SocketBreaksKeeps
<1>8. CASE \E k \in Kids : IframeCreated(k) \/ IframeGone(k)
  BY <1>8, IframeCreatedKeeps, IframeGoneKeeps
<1>. QED BY <1>1, <1>2, <1>3, <1>4, <1>5, <1>6, <1>7, <1>8 DEF ReplayNext, Work

LEMMA ScopeGives ==
  ASSUME ScopeInv
  PROVE  KidsOfTheRoot /\ FailedOnlyWhenStrict /\ OffMeansOff /\ StuckIsReleased /\ ResumesArmed
<1>1. KidsOfTheRoot /\ FailedOnlyWhenStrict /\ StuckIsReleased
  BY DEF ScopeInv, KidsFollow, KidsOfTheRoot, Requests
<1>2. OffMeansOff
  BY DEF ScopeInv, ArmedForScope, OffMeansOff
<1>3. ResumesArmed
  BY DEF ScopeInv, ReplayTypes, ResumedAreArmed, ResumesArmed, Resume
<1>. QED BY <1>1, <1>2, <1>3

(* For any iframes, requests, connections and faults: a child belongs to   *)
(* the connection of the installed root, a request is failed only in the   *)
(* strict scope, nothing stays armed once no scope is on, a request beyond *)
(* both admissions has a retirement coming, and under a strict scope an    *)
(* iframe is resumed only where Fetch is armed (replay.go 486-1100).       *)
THEOREM ScopeHolds == ReplaySpec => ScopeIsKept
<1>1. ReplayInit => ScopeInv
  BY ReplayInitInv
<1>2. ScopeInv /\ [ReplayNext]_replay_vars => ScopeInv'
  BY ScopeNext
<1>3. ScopeInv => KidsOfTheRoot /\ FailedOnlyWhenStrict /\ OffMeansOff /\ StuckIsReleased
  BY ScopeGives
<1>4. ScopeInv /\ [ReplayNext]_replay_vars => [ResumesArmed]_replay_vars
  BY ScopeGives
<1>. QED BY <1>1, <1>2, <1>3, <1>4, PTL DEF ReplaySpec, ScopeIsKept
===============================================================================
