------------------------------- MODULE NetProofs -------------------------------
(***************************************************************************)
(* The relay sockets and the bindings of the device-ID relay.              *)
(*                                                                         *)
(* Sockets (Relayer), for any read loops and tries: whoever dialed one owns*)
(* it until its read loop does, and that loop until it tears the socket    *)
(* down (OneOwner); a ping channel is new with its socket and closed with  *)
(* it (PingersInv); a dial of the device-ID relay without a wait is paid   *)
(* for by what it had stored up (CreditInv); and the mediator's guard is   *)
(* taken while one of its callers works (Guarded).                         *)
(*                                                                         *)
(* Bindings (RelayV2), for any peers, controllers, slots and bounds: a step*)
(* either leaves the bindings of a controller alone, takes some away, or   *)
(* adds one for a live peer and an active grant (Fewer, Bind); and whoever *)
(* revokes remembers it until it has unbound (AsksInv).                    *)
(***************************************************************************)
EXTENDS RelayV2, Relayer, FiniteSetTheorems, TLAPS

(******************************* Sockets ***********************************)

Pcs == {Idle, "query", "gate", "wait", "dial", "latch", "start", "clear",
        "look", "read", "reconnect", "close"}

ActShape == act \in [Actors -> [pc : Pcs, gen : Nat, sock : Nat, tries : Nat]]
SocketShape ==
  /\ conn \in [cur : Nat, newest : Nat, broken : SUBSET Nat]
  /\ done \in [gen : Nat, closed : BOOLEAN]
  /\ ping \in [cur : Nat, newest : Nat, closed : SUBSET Nat]
RedialShape ==
  redial \in [attempts : Nat, wake : BOOLEAN, stable : BOOLEAN, credit : Nat]
LineShape ==
  ActShape /\ SocketShape /\ RedialShape /\ busyMed \in BOOLEAN /\ ctx \in {"live", "done"}

(* Whoever has the socket: the dialer that made it and has not started its *)
(* reader, then that reader until it tears the socket down.                *)
Listens(a) == act[a].pc \in {"look", "read", "reconnect"}
Has(a) == act[a].pc = "start" \/ Listens(a)

OneOwner ==
  ctx = "live" =>
    /\ ~done.closed /\ \A a \in Actors : act[a].pc # "close"
    /\ \A a, b \in Actors : Has(a) /\ Has(b) => a = b
    /\ Up <=> \E a \in Actors : Has(a)
    /\ \A a \in Actors : Listens(a) => act[a].gen = done.gen

(* A channel closes once; the pinger of an open one is that of the socket. *)
PingersInv ==
  /\ pingers \subseteq [sock : Nat, gen : Nat, ch : Nat \ {0}] /\ IsFiniteSet(pingers)
  /\ ping.cur <= ping.newest /\ \A n \in ping.closed : n <= ping.newest
  /\ \A p \in pingers : p.ch <= ping.newest /\ p.ch \in ping.closed \cup {ping.cur}
  /\ ctx = "live" =>
       /\ ping.cur # 0 => \E a \in Actors : Listens(a)
       /\ \A p, q \in pingers : p.ch = ping.cur /\ q.ch = ping.cur => p = q

(* The device-ID relay has one dialer at a time, and its credit covers the *)
(* dials that wait for nothing.                                            *)
Works(a) == act[a].pc \notin {Idle, "clear"}
DialDue == IF \E a \in Actors : act[a].pc = "dial" THEN 1 ELSE 0
WakeDue == IF redial.wake THEN 1 ELSE 0
TurnDue == IF redial.stable \/ redial.attempts = 0 THEN 1 ELSE 0
CreditInv ==
  /\ ~V2 => redial.credit > 0
  /\ V2 =>
       /\ redial.credit >= DialDue + WakeDue + TurnDue
       /\ ctx = "live" => \A a, b \in Actors : Works(a) /\ Works(b) => a = b

(* A caller of the mediator is at work only while the guard is taken.      *)
Guarded ==
  LET AtWork == {a \in Actors \cap Mediated : act[a].pc # Idle}
  IN  /\ AtWork # {} => busyMed
      /\ \A a, b \in AtWork : a = b

LineInv == LineShape /\ OneOwner /\ PingersInv /\ CreditInv /\ Guarded

LEMMA LineInitInv == LineInit => LineInv
<1> SUFFICES ASSUME LineInit PROVE LineInv
  OBVIOUS
<1> USE LineAssumption
<1>1. LineShape
  BY DEF LineInit, LineShape, ActShape, SocketShape, RedialShape, Pcs, Idle
<1>2. \A a \in Actors : act[a].pc \in {"gate", Idle} /\ (act[a].pc = "gate" => a = "boot")
  BY DEF LineInit, Idle
<1>3. OneOwner
  BY <1>1, <1>2 DEF LineInit, OneOwner, Has, Listens, Up, Idle
<1>4. PingersInv
  BY <1>1, FS_EmptySet DEF LineInit, PingersInv
<1>5. CreditInv
  <2>1. DialDue = 0
    BY <1>2 DEF DialDue, Idle
  <2>2. WakeDue = 0 /\ TurnDue = 1 /\ redial.credit = 1
    BY DEF LineInit, WakeDue, TurnDue
  <2>3. \A a, b \in Actors : Works(a) /\ Works(b) => a = b
    BY <1>2 DEF Works
  <2>. QED BY <2>1, <2>2, <2>3 DEF CreditInv
<1>6. Guarded
  BY <1>2 DEF Guarded, Mediated
<1>. QED BY <1>1, <1>3, <1>4, <1>5, <1>6 DEF LineInv

(* A step that leaves socket, channels and pingers alone and moves nobody  *)
(* to or from the socket.                                                  *)
LEMMA Elsewhere ==
  ASSUME LineInv, LineShape', UNCHANGED <<done, ping, pingers>>, conn'.cur = conn.cur,
         ctx' = "live" => ctx = "live",
         ctx' = "live" =>
           \A a \in Actors :
             \/ act'[a] = act[a]
             \/ /\ act'[a].pc # "close"
                /\ \/ ~Has(a) /\ ~Has(a)'
                   \/ Listens(a) /\ Listens(a)' /\ act'[a].gen = act[a].gen
  PROVE  OneOwner' /\ PingersInv'
<1>1. ctx' = "live" =>
        \A a \in Actors : (Has(a)' <=> Has(a)) /\ (Listens(a)' <=> Listens(a))
  BY DEF Has, Listens
<1>2. OneOwner'
  BY <1>1 DEF LineInv, OneOwner, Up, Has, Listens
<1>3. PingersInv'
  BY <1>1 DEF LineInv, PingersInv
<1>. QED BY <1>2, <1>3

(* What a step of one thread leaves of the guard and of the credit.        *)
LEMMA GuardKept ==
  ASSUME LineInv, LineShape',
         \A a \in Actors : act[a].pc = Idle => act'[a].pc = Idle \/ a \notin Mediated,
         busyMed => busyMed' \/ \E a \in Actors \cap Mediated : act[a].pc # Idle /\ act'[a].pc = Idle
  PROVE  Guarded'
<1> DEFINE W == {a \in Actors \cap Mediated : act[a].pc # Idle}
           V == {a \in Actors \cap Mediated : act'[a].pc # Idle}
<1>1. V \subseteq W
  OBVIOUS
<1>2. (W # {} => busyMed) /\ \A a, b \in W : a = b
  BY DEF LineInv, Guarded
<1>3. V # {} => busyMed'
  BY <1>1, <1>2
<1>. QED BY <1>1, <1>2, <1>3 DEF Guarded

LEMMA CreditKept ==
  ASSUME LineInv, LineShape', UNCHANGED redial, ctx' = "live" => ctx = "live",
         \A a \in Actors : /\ act'[a].pc = "dial" => act[a].pc = "dial"
                           /\ Works(a)' => Works(a)
  PROVE  CreditInv'
<1>1. DialDue' <= DialDue /\ DialDue \in {0, 1} /\ DialDue' \in {0, 1}
  BY DEF DialDue
<1>2. WakeDue' = WakeDue /\ TurnDue' = TurnDue /\ WakeDue \in {0, 1} /\ TurnDue \in {0, 1}
  BY DEF WakeDue, TurnDue
<1>. QED BY <1>1, <1>2, LineAssumption DEF CreditInv, LineInv, LineShape, RedialShape

(* One thread moves and neither has the socket nor gets it.                *)
LEMMA OneMoves ==
  ASSUME LineInv, LineShape', NEW a \in Actors, ~Has(a), ~Has(a)', act'[a].pc # "close",
         \A b \in Actors \ {a} : act'[b] = act[b],
         UNCHANGED <<done, ping, pingers, ctx>>, conn'.cur = conn.cur
  PROVE  OneOwner' /\ PingersInv'
BY Elsewhere

(* ... and has been at work: the guard is only freed by its end.           *)
LEMMA OneWorks ==
  ASSUME LineInv, LineShape', NEW a \in Actors, act[a].pc # Idle,
         \A b \in Actors \ {a} : act'[b] = act[b],
         busyMed' = busyMed \/ (act'[a].pc = Idle /\ a \in Mediated)
  PROVE  Guarded'
BY GuardKept

LEMMA GotoDoes ==
  ASSUME LineShape, NEW a \in Actors, NEW p \in Pcs, Goto(a, p)
  PROVE  /\ ActShape' /\ act'[a].pc = p /\ act'[a].gen = act[a].gen
         /\ \A b \in Actors \ {a} : act'[b] = act[b]
BY DEF LineShape, ActShape, Goto

LEMMA EndsDoes ==
  ASSUME LineShape, NEW a \in Actors, Ends(a)
  PROVE  /\ ActShape' /\ busyMed' \in BOOLEAN /\ act'[a].pc = Idle
         /\ \A b \in Actors \ {a} : act'[b] = act[b]
         /\ busyMed' = busyMed \/ a \in Mediated
<1>1. act' = [act EXCEPT ![a] = [pc |-> Idle, gen |-> 0, sock |-> 0, tries |-> 0]]
  BY DEF Ends, Leaves
<1>2. a \notin Mediated => busyMed' = busyMed
  BY DEF Ends, Frees, LineShape
<1>3. ActShape' /\ busyMed' \in BOOLEAN
  BY <1>1 DEF LineShape, ActShape, Pcs, Ends
<1>. QED BY <1>1, <1>2, <1>3 DEF LineShape, ActShape

LEMMA GateKeeps ==
  ASSUME LineInv, NEW a \in Actors, Gate(a)
  PROVE  LineInv'
<1>0. (Goto(a, "dial") /\ busyMed' = busyMed) \/ Ends(a)
  BY DEF Gate
<1>1. LineShape'
  <2>1. UNCHANGED <<conn, done, ping, redial, ctx>>
    BY DEF Gate
  <2>2. SocketShape' /\ RedialShape'
    BY <2>1 DEF LineInv, LineShape, SocketShape, RedialShape
  <2>. QED BY <1>0, <2>1, <2>2, GotoDoes, EndsDoes DEF LineInv, LineShape, Pcs
<1>2. /\ ~V2 /\ act[a].pc = "gate" /\ act'[a].pc \in {"dial", Idle}
      /\ \A b \in Actors \ {a} : act'[b] = act[b]
      /\ UNCHANGED <<done, ping, pingers, ctx, conn, redial>>
      /\ busyMed' = busyMed \/ (act'[a].pc = Idle /\ a \in Mediated)
  <2>1. ~V2 /\ act[a].pc = "gate" /\ UNCHANGED <<done, ping, pingers, ctx, conn, redial>>
    BY DEF Gate
  <2>. QED BY <1>0, <2>1, GotoDoes, EndsDoes DEF LineInv, Pcs
<1>3. OneOwner' /\ PingersInv'
  BY <1>1, <1>2, OneMoves DEF Has, Listens, Idle
<1>4. Guarded'
  BY <1>1, <1>2, OneWorks DEF Idle
<1>5. CreditInv'
  BY <1>2 DEF LineInv, CreditInv
<1>. QED BY <1>1, <1>3, <1>4, <1>5 DEF LineInv

LEMMA LatchKeeps ==
  ASSUME LineInv, NEW a \in Actors, Latch(a) \/ Cleared(a)
  PROVE  LineInv'
<1>0. act[a].pc \in {"latch", "clear"} /\ UNCHANGED <<done, ping, pingers, ctx, conn>> /\ Ends(a)
  BY DEF Latch, Cleared
<1>0a. redial' = redial \/ redial' = [redial EXCEPT !.wake = FALSE]
  BY DEF Latch, Cleared
<1>1. LineShape'
  <2>1. SocketShape'
    BY <1>0 DEF LineInv, LineShape, SocketShape
  <2>2. RedialShape'
    BY <1>0a DEF LineInv, LineShape, RedialShape
  <2>. QED BY <1>0, <2>1, <2>2, EndsDoes DEF LineInv, LineShape
<1>2. /\ act[a].pc \in {"latch", "clear"} /\ act'[a].pc = Idle
      /\ \A b \in Actors \ {a} : act'[b] = act[b]
      /\ UNCHANGED <<done, ping, pingers, ctx, conn>>
      /\ busyMed' = busyMed \/ (act'[a].pc = Idle /\ a \in Mediated)
      /\ UNCHANGED <<redial.attempts, redial.stable, redial.credit>>
      /\ redial'.wake => redial.wake
  BY <1>0, <1>0a, EndsDoes DEF LineInv, LineShape, RedialShape
<1>3. OneOwner' /\ PingersInv'
  BY <1>1, <1>2, OneMoves DEF Has, Listens, Idle
<1>4. Guarded'
  BY <1>1, <1>2, OneWorks DEF Idle
<1>5. CreditInv'
  <2>1. DialDue' = DialDue
    BY <1>2 DEF DialDue, Idle
  <2>2. WakeDue' <= WakeDue /\ TurnDue' = TurnDue
    BY <1>2 DEF WakeDue, TurnDue
  <2>3. \A b \in Actors : Works(b)' => Works(b)
    BY <1>2 DEF Works
  <2>. QED BY <1>1, <1>2, <2>1, <2>2, <2>3
           DEF LineInv, LineShape, RedialShape, CreditInv, DialDue, WakeDue, TurnDue
<1>. QED BY <1>1, <1>3, <1>4, <1>5 DEF LineInv

LEMMA BackoffKeeps ==
  ASSUME LineInv, NEW a \in Actors, Backoff(a)
  PROVE  LineInv'
<1>0. V2 /\ MaxTries \in Nat /\ MaxTries # 0
  BY LineAssumption DEF Backoff
<1>a. act[a].pc = "gate" /\ UNCHANGED <<conn, done, ping, pingers, ctx>>
  BY DEF Backoff
<1>b. CASE ctx = "done"
  <2>1. Ends(a) /\ redial' = redial
    BY <1>b DEF Backoff
  <2>2. LineShape'
    BY <1>a, <2>1, EndsDoes DEF LineInv, LineShape, SocketShape, RedialShape
  <2>3. OneOwner' /\ PingersInv'
    BY <1>a, <2>1, <2>2, EndsDoes, OneMoves DEF LineInv, Has, Listens, Idle
  <2>4. Guarded'
    BY <1>a, <2>1, <2>2, EndsDoes, OneWorks DEF LineInv, Idle
  <2>5. CreditInv'
    BY <1>a, <2>1, <2>2, EndsDoes, CreditKept DEF LineInv, Works, Idle
  <2>. QED BY <2>2, <2>3, <2>4, <2>5 DEF LineInv
<1>c. CASE ctx # "done"
  <2> DEFINE next == IF Attempts = 0 THEN "dial" ELSE "wait"
  <2>1. /\ act' = [act EXCEPT ![a].pc = next, ![a].gen = done.gen]
        /\ redial' = [redial EXCEPT !.attempts = IF Attempts < MaxTries THEN Attempts + 1 ELSE MaxTries,
                                    !.stable = FALSE]
        /\ busyMed' = busyMed
    BY <1>c DEF Backoff
  <2>2. next \in {"dial", "wait"} /\ Attempts \in Nat
    BY DEF Attempts, LineInv, LineShape, RedialShape
  <2>3. RedialShape' /\ redial'.attempts # 0 /\ redial'.stable = FALSE
        /\ redial'.wake = redial.wake /\ redial'.credit = redial.credit
    <3>1. PICK n \in Nat \ {0} : redial' = [redial EXCEPT !.attempts = n, !.stable = FALSE]
      <4>1. PICK n : n = IF Attempts < MaxTries THEN Attempts + 1 ELSE MaxTries
        OBVIOUS
      <4>2. n \in Nat \ {0}
        BY <1>0, <2>2, <4>1
      <4>. QED BY <2>1, <4>1, <4>2
    <3>. QED BY <3>1 DEF LineInv, LineShape, RedialShape
  <2> HIDE DEF next
  <2>4. ActShape' /\ act'[a].pc = next /\ \A b \in Actors \ {a} : act'[b] = act[b]
    BY <2>1, <2>2 DEF LineInv, LineShape, ActShape, SocketShape, Pcs
  <2>5. LineShape'
    BY <1>a, <2>1, <2>3, <2>4 DEF LineInv, LineShape, SocketShape
  <2>6. OneOwner' /\ PingersInv'
    BY <1>a, <2>2, <2>4, <2>5, OneMoves DEF Has, Listens
  <2>7. Guarded'
    BY <1>a, <2>1, <2>4, <2>5, OneWorks DEF Idle
  <2>8. CreditInv'
    <3>1. \A b \in Actors : Works(b)' => Works(b)
      BY <1>a, <2>4 DEF Works, Idle
    <3>2. TurnDue' = 0 /\ WakeDue' = WakeDue
      BY <2>3 DEF TurnDue, WakeDue
    <3>3. DialDue' <= DialDue + TurnDue
      <4>1. CASE Attempts = 0
        <5>1. TurnDue = 1
          BY <4>1 DEF Attempts, TurnDue
        <5>. QED BY <5>1 DEF DialDue
      <4>2. CASE Attempts # 0
        <5>1. next = "wait"
          BY <4>2 DEF next
        <5>. QED BY <5>1, <2>4 DEF DialDue, TurnDue
      <4>. QED BY <4>1, <4>2
    <3>4. redial.credit >= DialDue + WakeDue + TurnDue
      BY <1>0 DEF LineInv, CreditInv
    <3>5. redial'.credit >= DialDue' + WakeDue' + TurnDue'
      BY <2>3, <3>2, <3>3, <3>4 DEF DialDue, WakeDue, TurnDue, LineInv, LineShape, RedialShape
    <3>. QED BY <1>0, <1>a, <3>1, <3>5 DEF LineInv, CreditInv
  <2>. QED BY <2>5, <2>6, <2>7, <2>8 DEF LineInv
<1>. QED BY <1>b, <1>c

LEMMA WaitedKeeps ==
  ASSUME LineInv, NEW a \in Actors, Waited(a)
  PROVE  LineInv'
<1>a. act[a].pc = "wait" /\ UNCHANGED <<conn, done, ping, pingers, ctx>>
  BY DEF Waited
<1>b. SocketShape' /\ ctx' \in {"live", "done"}
  BY <1>a DEF LineInv, LineShape, SocketShape
<1>c. CASE Ends(a) /\ redial' = redial
  <2>2. LineShape'
    BY <1>b, <1>c, EndsDoes DEF LineInv, LineShape, RedialShape
  <2>3. OneOwner' /\ PingersInv'
    BY <1>a, <1>c, <2>2, EndsDoes, OneMoves DEF LineInv, Has, Listens, Idle
  <2>4. Guarded'
    BY <1>a, <1>c, <2>2, EndsDoes, OneWorks DEF LineInv, Idle
  <2>5. CreditInv'
    BY <1>a, <1>c, <2>2, EndsDoes, CreditKept DEF LineInv, Works, Idle
  <2>. QED BY <2>2, <2>3, <2>4, <2>5 DEF LineInv
<1>d. CASE Goto(a, "dial") /\ busyMed' = busyMed
            /\ \/ redial.wake /\ redial' = [redial EXCEPT !.wake = FALSE]
               \/ ctx = "live" /\ redial' = [redial EXCEPT !.credit = Earned(1)]
  <2>1. ActShape' /\ act'[a].pc = "dial" /\ \A b \in Actors \ {a} : act'[b] = act[b]
    BY <1>d, GotoDoes DEF LineInv, Pcs
  <2>0. RedialShape /\ redial.credit \in Nat
    BY DEF LineInv, LineShape, RedialShape
  <2>e. PICK n \in Nat : n = IF redial.credit < 3 THEN redial.credit + 1 ELSE redial.credit
    BY <2>0
  <2>f. \/ redial.wake = TRUE /\ redial' = [redial EXCEPT !.wake = FALSE]
        \/ redial' = [redial EXCEPT !.credit = n]
    BY <1>d, <2>0, <2>e DEF Earned, RedialShape
  <2>g. /\ RedialShape' /\ redial'.attempts = redial.attempts /\ redial'.stable = redial.stable
        /\ \/ redial'.credit = redial.credit /\ redial.wake = TRUE /\ redial'.wake = FALSE
           \/ redial'.credit = n /\ redial'.wake = redial.wake
    <3>1. CASE redial.wake = TRUE /\ redial' = [redial EXCEPT !.wake = FALSE]
      BY <2>0, <3>1 DEF RedialShape
    <3>2. CASE redial' = [redial EXCEPT !.credit = n]
      BY <2>0, <3>2 DEF RedialShape
    <3>. QED BY <2>f, <3>1, <3>2
  <2>2. RedialShape' /\ redial'.attempts = redial.attempts /\ redial'.stable = redial.stable
    BY <2>g
  <2>3. LineShape'
    BY <1>b, <1>d, <2>1, <2>2 DEF LineInv, LineShape
  <2>4. OneOwner' /\ PingersInv'
    BY <1>a, <2>1, <2>3, OneMoves DEF Has, Listens
  <2>5. Guarded'
    BY <1>a, <1>d, <2>1, <2>3, OneWorks DEF Idle
  <2>6. CreditInv'
    <3>1. \A b \in Actors : Works(b)' => Works(b)
      BY <1>a, <2>1 DEF Works, Idle
    <3>2. TurnDue' = TurnDue
      BY <2>2 DEF TurnDue
    <3>3. \/ redial'.credit = redial.credit /\ WakeDue = 1 /\ WakeDue' = 0
          \/ redial'.credit = n /\ WakeDue' = WakeDue
      BY <2>g DEF WakeDue
    <3>4. redial.credit \in Nat /\ redial'.credit \in Nat
      BY <2>2 DEF LineInv, LineShape, RedialShape
    <3>5. ~V2 => redial'.credit > 0
      BY <2>e, <3>3, <3>4 DEF LineInv, CreditInv
    <3>6. V2 => redial'.credit >= DialDue' + WakeDue' + TurnDue'
      <4> SUFFICES ASSUME V2 PROVE redial'.credit >= DialDue' + WakeDue' + TurnDue'
        OBVIOUS
      <4>1. redial.credit >= DialDue + WakeDue + TurnDue
        BY DEF LineInv, CreditInv
      <4>2. /\ DialDue \in {0, 1} /\ WakeDue \in {0, 1} /\ TurnDue \in {0, 1}
            /\ DialDue' \in {0, 1} /\ WakeDue' \in {0, 1}
        BY DEF DialDue, WakeDue, TurnDue
      <4>3. CASE redial'.credit = redial.credit /\ WakeDue = 1 /\ WakeDue' = 0
        BY <3>2, <3>4, <4>1, <4>2, <4>3
      <4>4. CASE redial'.credit = n /\ WakeDue' = WakeDue
        <5>1. CASE redial.credit < 3
          BY <2>e, <3>2, <3>4, <4>1, <4>2, <4>4, <5>1
        <5>2. CASE ~(redial.credit < 3)
          BY <2>e, <3>2, <3>4, <4>2, <4>4, <5>2
        <5>. QED BY <5>1, <5>2
      <4>. QED BY <3>3, <4>3, <4>4
    <3>. QED BY <1>a, <3>1, <3>5, <3>6 DEF LineInv, CreditInv
  <2>. QED BY <2>3, <2>4, <2>5, <2>6 DEF LineInv
<1>. QED BY <1>c, <1>d DEF Waited

(* A dial that makes no socket.                                            *)
LEMMA ConnectKeepsDown ==
  ASSUME LineInv, NEW a \in Actors, act[a].pc = "dial",
         UNCHANGED <<conn, done, ping, pingers, ctx>>,
         Ends(a), redial' = redial \/ redial' = [redial EXCEPT !.wake = FALSE]
  PROVE  LineInv'
<1>1. LineShape'
  <2>1. SocketShape' /\ RedialShape'
    BY DEF LineInv, LineShape, SocketShape, RedialShape
  <2>. QED BY <2>1, EndsDoes DEF LineInv, LineShape
<1>2. OneOwner' /\ PingersInv'
  BY <1>1, EndsDoes, OneMoves DEF LineInv, Has, Listens, Idle
<1>3. Guarded'
  BY <1>1, EndsDoes, OneWorks DEF LineInv, Idle
<1>4. CreditInv'
  <2>1. /\ redial'.attempts = redial.attempts /\ redial'.stable = redial.stable
        /\ redial'.credit = redial.credit /\ (redial'.wake => redial.wake)
    BY DEF LineInv, LineShape, RedialShape
  <2>2. WakeDue' <= WakeDue /\ TurnDue' = TurnDue
    BY <2>1 DEF WakeDue, TurnDue
  <2>3. DialDue' <= DialDue
    BY EndsDoes DEF DialDue, Idle, LineInv
  <2>4. \A b \in Actors : Works(b)' => Works(b)
    BY EndsDoes DEF Works, Idle, LineInv
  <2>. QED BY <1>1, <2>1, <2>2, <2>3, <2>4
           DEF LineInv, LineShape, RedialShape, CreditInv, DialDue, WakeDue, TurnDue
<1>. QED BY <1>1, <1>2, <1>3, <1>4 DEF LineInv

(* The dial is paid for: nobody else of the device-ID relay is dialing.    *)
LEMMA DialPaid ==
  ASSUME LineInv, NEW a \in Actors, act[a].pc = "dial", ctx = "live", Dialed,
         \A b \in Actors \ {a} : act'[b] = act[b],
         act'[a].pc = "dial" => ~V2, ctx' = ctx
  PROVE  RedialShape' /\ CreditInv'
<1>1. CASE ~V2
  <2>1. redial' = redial
    BY <1>1 DEF Dialed, LineInv, LineShape, RedialShape
  <2>. QED BY <1>1, <2>1 DEF LineInv, LineShape, RedialShape, CreditInv
<1>2. CASE V2
  <2>1. DialDue = 1 /\ \A b \in Actors : Works(b) => b = a
    <3>1. Works(a)
      BY DEF Works, Idle
    <3>. QED BY <1>2, <3>1 DEF DialDue, LineInv, CreditInv
  <2>2. \A b \in Actors \ {a} : ~Works(b)' /\ act'[b].pc # "dial"
    BY <2>1 DEF Works, Idle
  <2>3. DialDue' = 0
    BY <1>2, <2>2 DEF DialDue
  <2>4. redial.credit >= 1 + WakeDue + TurnDue
    BY <1>2, <2>1 DEF LineInv, CreditInv
  <2>5. WakeDue \in {0, 1} /\ TurnDue \in {0, 1} /\ redial.credit \in Nat
    BY DEF WakeDue, TurnDue, LineInv, LineShape, RedialShape
  <2>6. redial' = [redial EXCEPT !.credit = redial.credit - 1]
    BY <1>2, <2>4, <2>5 DEF Dialed
  <2>7. RedialShape' /\ WakeDue' = WakeDue /\ TurnDue' = TurnDue /\ redial'.credit = redial.credit - 1
    BY <2>4, <2>5, <2>6 DEF LineInv, LineShape, RedialShape, WakeDue, TurnDue
  <2>8. \A b, c \in Actors : Works(b)' /\ Works(c)' => b = c
    BY <2>2
  <2>. QED BY <1>2, <2>3, <2>4, <2>5, <2>7, <2>8 DEF CreditInv
<1>. QED BY <1>1, <1>2

LEMMA DialKeeps ==
  ASSUME LineInv, NEW a \in Actors, act[a].pc = "dial", ctx = "live", Dialed,
         UNCHANGED <<conn, done, ping, pingers, ctx>>,
         ActShape', busyMed' \in BOOLEAN, act'[a].pc \in {"gate", "latch", "dial", Idle},
         act'[a].pc = "dial" => ~V2,
         \A b \in Actors \ {a} : act'[b] = act[b],
         busyMed' = busyMed \/ (act'[a].pc = Idle /\ a \in Mediated)
  PROVE  LineInv'
<1>1. RedialShape' /\ CreditInv'
  BY DialPaid
<1>2. LineShape'
  BY <1>1 DEF LineInv, LineShape, SocketShape
<1>3. OneOwner' /\ PingersInv'
  BY <1>2, OneMoves DEF Has, Listens, Idle
<1>4. Guarded'
  BY <1>2, OneWorks DEF Idle
<1>. QED BY <1>1, <1>2, <1>3, <1>4 DEF LineInv

LEMMA ConnectKeeps ==
  ASSUME LineInv, NEW a \in Actors, Connect(a)
  PROVE  LineInv'
<1>0. act[a].pc = "dial" /\ UNCHANGED <<done, ping, pingers, ctx>>
  BY DEF Connect
<1>1. CASE Up
  <2>1. Ends(a) /\ conn' = conn /\ (redial' = redial \/ redial' = [redial EXCEPT !.wake = FALSE])
    BY <1>1 DEF Connect, Dialled
  <2>. QED BY <1>0, <2>1, ConnectKeepsDown
<1>2. CASE ~Up /\ ctx = "done"
  <2>1. Ends(a) /\ conn' = conn /\ redial' = redial
    BY <1>2 DEF Connect, Dialled
  <2>. QED BY <1>0, <2>1, ConnectKeepsDown
<1>3. CASE ~Up /\ ctx # "done" /\ world.now = "ok"
  <2>1. /\ conn' = [conn EXCEPT !.cur = conn.newest + 1, !.newest = @ + 1]
        /\ act' = [act EXCEPT ![a].pc = "start", ![a].sock = conn.newest + 1]
        /\ Dialed /\ busyMed' = busyMed
    BY <1>3 DEF Connect, Dialled
  <2>2. ctx = "live" /\ conn.newest \in Nat
    BY <1>3 DEF LineInv, LineShape, SocketShape
  <2>3. conn'.cur # 0 /\ SocketShape'
    <3>0. SocketShape
      BY DEF LineInv, LineShape
    <3>1. PICK n \in Nat \ {0} : n = conn.newest + 1
      BY <2>2
    <3>2. conn' = [conn EXCEPT !.cur = n, !.newest = n]
      BY <2>1, <3>1
    <3>. QED BY <1>0, <3>0, <3>1, <3>2 DEF SocketShape
  <2>4. ActShape' /\ act'[a].pc = "start" /\ \A b \in Actors \ {a} : act'[b] = act[b]
    <3>1. PICK n \in Nat : n = conn.newest + 1
      BY <2>2
    <3>2. act' = [act EXCEPT ![a].pc = "start", ![a].sock = n]
      BY <2>1, <3>1
    <3>. QED BY <3>2 DEF LineInv, LineShape, ActShape, Pcs
  <2>5. RedialShape' /\ CreditInv'
    BY <1>0, <2>1, <2>2, <2>4, DialPaid
  <2>6. LineShape'
    BY <1>0, <2>1, <2>3, <2>4, <2>5 DEF LineInv, LineShape
  <2>7. \A b \in Actors : ~Has(b)
    BY <1>3, <2>2 DEF LineInv, OneOwner
  <2>8. \A b \in Actors : (Has(b)' <=> b = a) /\ ~Listens(b)'
    BY <2>4, <2>7 DEF Has, Listens
  <2>9. OneOwner'
    <3>1. Up'
      BY <2>2, <2>3 DEF Up
    <3>2. ~done'.closed /\ \A b \in Actors : act'[b].pc # "close"
      BY <1>0, <2>2, <2>4 DEF LineInv, OneOwner
    <3>. QED BY <2>8, <3>1, <3>2 DEF OneOwner
  <2>10. PingersInv'
    BY <1>0, <2>2, <2>7 DEF LineInv, PingersInv, Has
  <2>11. Guarded'
    BY <1>0, <2>1, <2>4, <2>6, OneWorks DEF Idle
  <2>. QED BY <2>5, <2>6, <2>9, <2>10, <2>11 DEF LineInv
<1>4. CASE ~Up /\ ctx # "done" /\ world.now # "ok"
  <2>1. ctx = "live" /\ Dialed /\ conn' = conn
    BY <1>4 DEF Connect, Dialled, LineInv, LineShape
  <2>2. CASE V2 \/ world.now = "gone"
    <3>1. PICK p \in {"gate", "latch"} : Goto(a, p) /\ busyMed' = busyMed
      BY <1>4, <2>2 DEF Connect, Dialled
    <3>. QED BY <1>0, <2>1, <3>1, GotoDoes, DialKeeps DEF LineInv, LineShape, Pcs
  <2>3. CASE ~(V2 \/ world.now = "gone") /\ Retries(a)
    <3>1. act' = [act EXCEPT ![a].tries = IF world.now = "odd" THEN @ + 1 ELSE @] /\ busyMed' = busyMed
      BY <1>4, <2>3 DEF Connect, Dialled
    <3>2. ActShape' /\ act'[a].pc = "dial" /\ \A b \in Actors \ {a} : act'[b] = act[b]
      <4>0. ActShape
        BY DEF LineInv, LineShape
      <4>1. act[a].tries \in Nat
        BY <4>0 DEF ActShape
      <4>2. PICK n \in Nat : n = IF world.now = "odd" THEN act[a].tries + 1 ELSE act[a].tries
        BY <4>1
      <4>3. act' = [act EXCEPT ![a].tries = n]
        BY <3>1, <4>2
      <4>. QED BY <1>0, <4>0, <4>3 DEF ActShape
    <3>. QED BY <1>0, <2>1, <2>3, <3>1, <3>2, DialKeeps DEF LineInv, LineShape
  <2>4. CASE ~(V2 \/ world.now = "gone") /\ ~Retries(a)
    <3>1. Ends(a)
      BY <1>4, <2>4 DEF Connect, Dialled
    <3>2. act'[a].pc # "dial"
      BY <3>1, EndsDoes DEF LineInv, Idle
    <3>. QED BY <1>0, <2>1, <3>1, <3>2, EndsDoes, DialKeeps DEF LineInv
  <2>. QED BY <2>2, <2>3, <2>4
<1>. QED BY <1>1, <1>2, <1>3, <1>4

(* What is started is for the socket: a generation of its own is open, the *)
(* ping channel is a new one, and a read loop owns the socket from here.   *)
LEMMA StartKeeps ==
  ASSUME LineInv, NEW a \in Actors, Start(a)
  PROVE  LineInv'
<1>0. LineShape /\ ActShape /\ SocketShape /\ OneOwner /\ PingersInv /\ CreditInv /\ Guarded
  BY DEF LineInv, LineShape
<1>1. /\ act[a].pc = "start" /\ done' = FreshGen /\ ping' = FreshPing
      /\ UNCHANGED <<conn, redial, busyMed, ctx>>
      /\ pingers' = pingers \cup {[sock |-> act[a].sock, gen |-> done'.gen, ch |-> ping'.cur]}
  BY DEF Start, Rest
<1>2. PICK r \in Readers :
        /\ act[r].pc = Idle
        /\ act' = [act EXCEPT ![r] = [pc |-> "look", gen |-> done'.gen, sock |-> 0, tries |-> 0],
                              ![a].pc = "clear"]
  BY DEF Start
<1>3. r \in Actors /\ r # a /\ r \notin Mediated
  BY <1>1, <1>2, LineAssumption DEF Actors, Idle
<1>4. done' \in [gen : Nat, closed : BOOLEAN] /\ done'.closed = FALSE
      /\ (done.closed = FALSE => done' = done)
  <2>1. CASE done.closed = TRUE
    <3>1. PICK n \in Nat : n = done.gen + 1
      BY <1>0 DEF SocketShape
    <3>. QED BY <1>1, <2>1, <3>1 DEF FreshGen
  <2>2. CASE done.closed = FALSE
    BY <1>0, <1>1, <2>2 DEF FreshGen, SocketShape
  <2>. QED BY <1>0, <2>1, <2>2 DEF SocketShape
<1>5. /\ ping' \in [cur : Nat, newest : Nat, closed : SUBSET Nat]
      /\ ping'.cur # 0 /\ ping'.closed = ping.closed
      /\ \/ ping.cur # 0 /\ ping' = ping
         \/ ping.cur = 0 /\ ping'.cur = ping.newest + 1 /\ ping'.newest = ping.newest + 1
  <2>1. CASE ping.cur = 0
    <3>1. PICK n \in Nat \ {0} : n = ping.newest + 1
      BY <1>0 DEF SocketShape
    <3>2. ping' = [ping EXCEPT !.cur = n, !.newest = n]
      BY <1>1, <2>1, <3>1 DEF FreshPing
    <3>. QED BY <1>0, <2>1, <3>1, <3>2 DEF SocketShape
  <2>2. CASE ping.cur # 0
    BY <1>0, <1>1, <2>2 DEF FreshPing, SocketShape
  <2>. QED BY <2>1, <2>2
<1>6. /\ ActShape' /\ act'[a].pc = "clear" /\ act'[r].pc = "look" /\ act'[r].gen = done'.gen
      /\ \A b \in Actors \ {a, r} : act'[b] = act[b]
  <2>1. PICK g \in Nat : g = done'.gen
    BY <1>4
  <2>2. act' = [act EXCEPT ![r] = [pc |-> "look", gen |-> g, sock |-> 0, tries |-> 0],
                           ![a].pc = "clear"]
    BY <1>2, <2>1
  <2>. QED BY <1>0, <1>3, <2>1, <2>2 DEF ActShape, Pcs
<1>7. LineShape'
  <2>1. conn' \in [cur : Nat, newest : Nat, broken : SUBSET Nat]
    BY <1>0, <1>1 DEF SocketShape
  <2>2. SocketShape'
    BY <2>1, <1>4, <1>5 DEF SocketShape
  <2>3. RedialShape' /\ busyMed' \in BOOLEAN /\ ctx' \in {"live", "done"}
    BY <1>0, <1>1 DEF LineShape, RedialShape
  <2>. QED BY <1>6, <2>2, <2>3 DEF LineShape
<1>8. ctx = "live" =>
        /\ done' = done /\ done.closed = FALSE
        /\ \A b \in Actors : Has(b) <=> b = a
        /\ \A b \in Actors : (Has(b)' <=> b = r) /\ (Listens(b)' <=> b = r) /\ ~Listens(b)
        /\ Up
  <2> SUFFICES ASSUME ctx = "live"
               PROVE  /\ done' = done /\ done.closed = FALSE
                      /\ \A b \in Actors : Has(b) <=> b = a
                      /\ \A b \in Actors : (Has(b)' <=> b = r) /\ (Listens(b)' <=> b = r) /\ ~Listens(b)
                      /\ Up
    OBVIOUS
  <2>1. Has(a) /\ ~Listens(a)
    BY <1>1 DEF Has, Listens
  <2>2. \A b \in Actors : Has(b) <=> b = a
    BY <1>0, <2>1 DEF OneOwner
  <2>3. \A b \in Actors : ~Listens(b)
    BY <2>1, <2>2 DEF Has
  <2>4. \A b \in Actors : (Has(b)' <=> b = r) /\ (Listens(b)' <=> b = r)
    BY <1>3, <1>6, <2>2 DEF Has, Listens
  <2>5. done.closed = FALSE /\ done' = done
    BY <1>0, <1>4 DEF OneOwner, SocketShape
  <2>. QED BY <1>0, <2>1, <2>2, <2>3, <2>4, <2>5 DEF OneOwner
<1>9. OneOwner'
  <2> SUFFICES ASSUME ctx' = "live"
               PROVE  /\ ~done'.closed /\ \A b \in Actors : act'[b].pc # "close"
                      /\ \A b, c \in Actors : Has(b)' /\ Has(c)' => b = c
                      /\ Up' <=> \E b \in Actors : Has(b)'
                      /\ \A b \in Actors : Listens(b)' => act'[b].gen = done'.gen
    BY DEF OneOwner
  <2>1. ctx = "live"
    BY <1>1
  <2>2. \A b \in Actors : act'[b].pc # "close"
    BY <1>0, <1>6, <2>1 DEF OneOwner
  <2>3. Up'
    BY <1>1, <1>8, <2>1 DEF Up
  <2>. QED BY <1>3, <1>4, <1>6, <1>8, <2>1, <2>2, <2>3
<1>10. PingersInv'
  <2> DEFINE p0 == [sock |-> act[a].sock, gen |-> done'.gen, ch |-> ping'.cur]
  <2>1. p0 \in [sock : Nat, gen : Nat, ch : Nat \ {0}] /\ p0.ch = ping'.cur
    BY <1>0, <1>4, <1>5 DEF ActShape
  <2>2. pingers' = pingers \cup {p0}
    BY <1>1
  <2> HIDE DEF p0
  <2>3. /\ pingers \subseteq [sock : Nat, gen : Nat, ch : Nat \ {0}] /\ IsFiniteSet(pingers)
        /\ ping.cur <= ping.newest /\ \A n \in ping.closed : n <= ping.newest
        /\ \A p \in pingers : p.ch <= ping.newest /\ p.ch \in ping.closed \cup {ping.cur}
    BY <1>0 DEF PingersInv
  <2>4. ping.cur \in Nat /\ ping.newest \in Nat /\ ping.closed \subseteq Nat
    BY <1>0 DEF SocketShape
  <2>5. pingers' \subseteq [sock : Nat, gen : Nat, ch : Nat \ {0}] /\ IsFiniteSet(pingers')
    BY <2>1, <2>2, <2>3, FS_AddElement
  <2>6. ping'.cur <= ping'.newest /\ \A n \in ping'.closed : n <= ping'.newest
    BY <1>5, <2>3, <2>4
  <2>7. \A p \in pingers : p.ch \in Nat /\ p.ch # 0
    BY <2>3
  <2>8. \A p \in pingers' : p.ch <= ping'.newest /\ p.ch \in ping'.closed \cup {ping'.cur}
    BY <1>5, <2>1, <2>2, <2>3, <2>4, <2>6, <2>7
  <2>9. ctx' = "live" =>
          /\ ping'.cur # 0 => \E b \in Actors : Listens(b)'
          /\ \A p, q \in pingers' : p.ch = ping'.cur /\ q.ch = ping'.cur => p = q
    <3> SUFFICES ASSUME ctx' = "live"
                 PROVE  /\ \E b \in Actors : Listens(b)'
                        /\ \A p, q \in pingers' : p.ch = ping'.cur /\ q.ch = ping'.cur => p = q
      OBVIOUS
    <3>1. ping.cur = 0
      BY <1>0, <1>1, <1>8 DEF PingersInv
    <3>2. \A p \in pingers : p.ch # ping'.cur
      BY <1>5, <2>3, <2>4, <2>7, <3>1
    <3>. QED BY <1>1, <1>3, <1>8, <2>2, <3>2
  <2>. QED BY <2>5, <2>6, <2>8, <2>9 DEF PingersInv
<1>11. CreditInv'
  <2>1. DialDue' = DialDue /\ WakeDue' = WakeDue /\ TurnDue' = TurnDue
    BY <1>1, <1>3, <1>6, <1>2 DEF DialDue, WakeDue, TurnDue, Idle
  <2>2. V2 => (ctx = "live" => \A b, c \in Actors : Works(b)' /\ Works(c)' => b = c)
    <3> SUFFICES ASSUME V2, ctx = "live" PROVE \A b, c \in Actors : Works(b)' /\ Works(c)' => b = c
      OBVIOUS
    <3>1. \A b \in Actors : Works(b) => b = a
      BY <1>0, <1>1 DEF CreditInv, Works, Idle
    <3>2. \A b \in Actors : Works(b)' => b = r
      BY <1>6, <3>1 DEF Works
    <3>. QED BY <3>2
  <2>. QED BY <1>0, <1>1, <2>1, <2>2 DEF CreditInv
<1>12. Guarded'
  <2>1. \A b \in Actors : act[b].pc = Idle => act'[b].pc = Idle \/ b \notin Mediated
    BY <1>1, <1>3, <1>6 DEF Idle
  <2>. QED BY <1>1, <1>7, <2>1, GuardKept
<1>. QED BY <1>7, <1>9, <1>10, <1>11, <1>12 DEF LineInv

(* A read loop that has the socket keeps it, or the daemon is going down.  *)
LEMMA ReaderKeeps ==
  ASSUME LineInv, NEW r \in Readers, Look(r) \/ Message(r) \/ ReadFails(r)
  PROVE  LineInv'
<1>0. LineShape /\ ActShape /\ SocketShape /\ OneOwner
  BY DEF LineInv, LineShape
<1>1. r \in Actors /\ Listens(r) /\ act[r].pc # Idle
  BY DEF Look, Message, ReadFails, Listens, Idle, Actors
<1>2. UNCHANGED <<conn, done, ping, pingers, redial, ctx>>
  BY DEF Look, Message, ReadFails, Rest
<1>3. ctx = "live" => ~Closed(act[r].gen) /\ Up
  <2> SUFFICES ASSUME ctx = "live" PROVE ~Closed(act[r].gen) /\ Up
    OBVIOUS
  <2>1. act[r].gen = done.gen /\ done.closed = FALSE /\ Up
    BY <1>0, <1>1 DEF OneOwner, Has, SocketShape
  <2>. QED BY <1>0, <2>1 DEF Closed, SocketShape
<1>4. \/ Ends(r) /\ ctx # "live"
      \/ Goto(r, "close") /\ busyMed' = busyMed /\ ctx # "live"
      \/ Goto(r, "look") /\ busyMed' = busyMed
      \/ Goto(r, "reconnect") /\ busyMed' = busyMed
      \/ act' = [act EXCEPT ![r].pc = "read", ![r].sock = conn.cur] /\ busyMed' = busyMed
  <2>1. CASE Look(r)
    BY <1>3, <2>1 DEF Look
  <2>2. CASE Message(r)
    BY <2>2 DEF Message, Rest
  <2>3. CASE ReadFails(r)
    BY <1>3, <2>3 DEF ReadFails, Stops
  <2>. QED BY <2>1, <2>2, <2>3
<1>5. /\ ActShape' /\ busyMed' \in BOOLEAN
      /\ \A b \in Actors \ {r} : act'[b] = act[b]
      /\ act'[r].pc # "dial"
      /\ busyMed' = busyMed \/ (act'[r].pc = Idle /\ r \in Mediated)
      /\ ctx = "live" => act'[r].pc \in {"look", "read", "reconnect"} /\ act'[r].gen = act[r].gen
  <2>1. CASE Ends(r) /\ ctx # "live"
    BY <1>0, <1>1, <2>1, EndsDoes DEF Idle
  <2>2. CASE \E p \in {"close", "look", "reconnect"} :
               Goto(r, p) /\ busyMed' = busyMed /\ (p = "close" => ctx # "live")
    <3>1. PICK p \in {"close", "look", "reconnect"} :
               Goto(r, p) /\ busyMed' = busyMed /\ (p = "close" => ctx # "live")
      BY <2>2
    <3>. QED BY <1>0, <1>1, <3>1, GotoDoes DEF Pcs, LineShape
  <2>3. CASE act' = [act EXCEPT ![r].pc = "read", ![r].sock = conn.cur] /\ busyMed' = busyMed
    <3>1. PICK n \in Nat : n = conn.cur
      BY <1>0 DEF SocketShape
    <3>2. act' = [act EXCEPT ![r].pc = "read", ![r].sock = n]
      BY <2>3, <3>1
    <3>3. ActShape' /\ act'[r].pc = "read" /\ act'[r].gen = act[r].gen
      BY <1>0, <1>1, <3>1, <3>2 DEF ActShape, Pcs
    <3>4. \A b \in Actors \ {r} : act'[b] = act[b]
      BY <1>0, <3>2 DEF ActShape
    <3>5. busyMed' = busyMed /\ busyMed' \in BOOLEAN
      BY <1>0, <2>3 DEF LineShape
    <3>. QED BY <3>3, <3>4, <3>5
  <2>. QED BY <1>4, <2>1, <2>2, <2>3
<1>6. LineShape'
  BY <1>0, <1>2, <1>5 DEF LineShape, SocketShape, RedialShape
<1>7. OneOwner' /\ PingersInv'
  BY <1>1, <1>2, <1>5, <1>6, Elsewhere DEF Listens
<1>8. CreditInv'
  BY <1>1, <1>2, <1>5, <1>6, CreditKept DEF Works, Listens
<1>9. Guarded'
  BY <1>1, <1>2, <1>5, <1>6, OneWorks
<1>. QED BY <1>6, <1>7, <1>8, <1>9 DEF LineInv

(* What closing the socket and the ping channel leaves behind.             *)
LEMMA TornDown ==
  ASSUME LineInv, CloseConn, ClosePing
  PROVE  /\ conn' \in [cur : Nat, newest : Nat, broken : SUBSET Nat] /\ ~Up'
         /\ ping' \in [cur : Nat, newest : Nat, closed : SUBSET Nat] /\ ping'.cur = 0
         /\ pingers' = pingers => PingersInv'
<1>0. SocketShape /\ PingersInv
  BY DEF LineInv, LineShape
<1>1. conn' \in [cur : Nat, newest : Nat, broken : SUBSET Nat] /\ conn'.cur = 0
  BY <1>0 DEF CloseConn, SocketShape
<1>2. /\ ping' \in [cur : Nat, newest : Nat, closed : SUBSET Nat] /\ ping'.cur = 0
      /\ ping'.newest = ping.newest /\ ping'.closed = ping.closed \cup ({ping.cur} \ {0})
  BY <1>0 DEF ClosePing, SocketShape
<1>3. ASSUME pingers' = pingers PROVE PingersInv'
  <2>1. ping.cur \in Nat /\ ping.newest \in Nat
    BY <1>0 DEF SocketShape
  <2>2. \A p \in pingers : p.ch # 0 /\ p.ch \in ping'.closed
    BY <1>0, <1>2 DEF PingersInv
  <2>3. \A n \in ping'.closed : n <= ping'.newest
    BY <1>0, <1>2 DEF PingersInv
  <2>. QED BY <1>0, <1>2, <1>3, <2>1, <2>2, <2>3 DEF PingersInv
<1>. QED BY <1>1, <1>2, <1>3 DEF Up

LEMMA ReconnectKeeps ==
  ASSUME LineInv, NEW r \in Readers, Reconnect(r)
  PROVE  LineInv'
<1>0. LineShape /\ ActShape /\ SocketShape /\ OneOwner
  BY DEF LineInv, LineShape
<1>1. /\ r \in Actors /\ act[r].pc = "reconnect" /\ CloseConn /\ ClosePing
      /\ act' = [act EXCEPT ![r].pc = "gate", ![r].sock = 0]
      /\ UNCHANGED <<done, pingers, redial, busyMed, ctx>>
  BY DEF Reconnect, Rest, Actors
<1>2. ActShape' /\ act'[r].pc = "gate" /\ \A b \in Actors \ {r} : act'[b] = act[b]
  BY <1>0, <1>1 DEF ActShape, Pcs
<1>3. LineShape'
  <2>1. SocketShape'
    BY <1>0, <1>1, TornDown DEF SocketShape
  <2>. QED BY <1>0, <1>1, <1>2, <2>1 DEF LineShape, RedialShape
<1>4. PingersInv' /\ ~Up'
  BY <1>1, TornDown
<1>5. OneOwner'
  <2> SUFFICES ASSUME ctx' = "live"
               PROVE  ~done'.closed /\ \A b \in Actors : ~Has(b)' /\ ~Listens(b)' /\ act'[b].pc # "close"
    BY <1>4 DEF OneOwner
  <2>1. Has(r)
    BY <1>1 DEF Has, Listens
  <2>2. \A b \in Actors : Has(b) => b = r
    BY <1>0, <1>1, <2>1 DEF OneOwner
  <2>. QED BY <1>0, <1>1, <1>2, <2>2 DEF OneOwner, Has, Listens
<1>6. CreditInv'
  BY <1>1, <1>2, <1>3, CreditKept DEF Works, Idle
<1>7. Guarded'
  BY <1>1, <1>2, <1>3, OneWorks DEF Idle
<1>. QED BY <1>3, <1>4, <1>5, <1>6, <1>7 DEF LineInv

(* Only a daemon that goes down closes the relay for good.                 *)
LEMMA CloseKeeps ==
  ASSUME LineInv, (\E r \in Readers : ReaderCloses(r)) \/ CloseAtShutdown
  PROVE  LineInv'
<1>0. LineShape /\ ActShape /\ SocketShape /\ OneOwner
  BY DEF LineInv, LineShape
<1>1. /\ CloseConn /\ ClosePing /\ done' = [done EXCEPT !.closed = TRUE]
      /\ UNCHANGED <<pingers, redial, ctx>>
  BY DEF ReaderCloses, CloseAtShutdown, Close, Rest
<1>2. ctx # "live"
  <2>1. CASE \E r \in Readers : ReaderCloses(r)
    <3>1. PICK r \in Readers : act[r].pc = "close"
      BY <2>1 DEF ReaderCloses
    <3>. QED BY <1>0, <3>1 DEF OneOwner, Actors
  <2>2. CASE CloseAtShutdown
    BY <2>2 DEF CloseAtShutdown
  <2>. QED BY <2>1, <2>2
<1>3. /\ ActShape' /\ busyMed' \in BOOLEAN
      /\ \A b \in Actors : act'[b] = act[b] \/ act'[b].pc = Idle
      /\ busyMed' = busyMed \/ \E b \in Actors \cap Mediated : act[b].pc # Idle /\ act'[b].pc = Idle
  <2>1. CASE \E r \in Readers : ReaderCloses(r)
    <3>1. PICK r \in Readers : act[r].pc = "close" /\ Ends(r)
      BY <2>1 DEF ReaderCloses
    <3>. QED BY <1>0, <3>1, EndsDoes DEF Actors, Idle
  <2>2. CASE CloseAtShutdown
    BY <1>0, <2>2 DEF CloseAtShutdown, Rest, LineShape, ActShape
  <2>. QED BY <2>1, <2>2
<1>4. LineShape'
  <2>1. done' \in [gen : Nat, closed : BOOLEAN]
    BY <1>0, <1>1 DEF SocketShape
  <2>2. SocketShape'
    BY <1>1, <2>1, TornDown DEF SocketShape
  <2>. QED BY <1>0, <1>1, <1>3, <2>2 DEF LineShape, RedialShape
<1>5. OneOwner' /\ PingersInv'
  BY <1>1, <1>2, TornDown DEF OneOwner
<1>6. CreditInv'
  BY <1>1, <1>3, <1>4, CreditKept DEF Works, Idle
<1>7. Guarded'
  BY <1>3, <1>4, GuardKept
<1>. QED BY <1>4, <1>5, <1>6, <1>7 DEF LineInv

LEMMA PingerEndsKeeps ==
  ASSUME LineInv, \E p \in pingers : PingerEnds(p)
  PROVE  LineInv'
<1>0. LineShape /\ OneOwner /\ PingersInv /\ CreditInv /\ Guarded
  BY DEF LineInv
<1>1. PICK p \in pingers : pingers' = pingers \ {p}
  BY DEF PingerEnds
<1>2. UNCHANGED <<act, conn, done, ping, redial, busyMed, ctx>>
  BY DEF PingerEnds, Rest
<1>3. LineShape'
  BY <1>0, <1>2 DEF LineShape, ActShape, SocketShape, RedialShape
<1>4. OneOwner'
  BY <1>0, <1>2 DEF OneOwner, Up, Has, Listens
<1>5. PingersInv'
  <2>1. IsFiniteSet(pingers') /\ pingers' \subseteq pingers
    BY <1>0, <1>1, FS_RemoveElement DEF PingersInv
  <2>. QED BY <1>0, <1>2, <2>1 DEF PingersInv, Listens
<1>6. CreditInv'
  BY <1>0, <1>2, <1>3, CreditKept DEF Works
<1>7. Guarded'
  BY <1>0, <1>2 DEF Guarded
<1>. QED BY <1>3, <1>4, <1>5, <1>6, <1>7 DEF LineInv

(* The session that lasted, and the connectivity edge that wakes a waiting *)
(* dialer: each takes a turn back and pays it in.                          *)
LEMMA PaidIn ==
  ASSUME LineInv, V2, redial' \in [attempts : Nat, wake : BOOLEAN, stable : BOOLEAN, credit : Nat],
         redial'.credit = IF redial.credit < 3 THEN redial.credit + 1 ELSE redial.credit,
         UNCHANGED <<act, conn, done, ping, pingers, busyMed, ctx>>,
         \/ redial'.wake = redial.wake
         \/ redial'.attempts # 0 /\ redial'.stable = redial.stable
  PROVE  LineInv'
<1>0. LineShape /\ OneOwner /\ PingersInv /\ CreditInv /\ Guarded
  BY DEF LineInv
<1>1. LineShape'
  BY <1>0 DEF LineShape, ActShape, SocketShape, RedialShape
<1>2. OneOwner' /\ PingersInv' /\ Guarded'
  BY <1>0, <1>1, Elsewhere DEF Guarded
<1>3. redial.credit \in Nat /\ redial.credit >= DialDue + WakeDue + TurnDue
  BY <1>0 DEF CreditInv, LineShape, RedialShape
<1>4. DialDue' = DialDue /\ DialDue \in {0, 1} /\ WakeDue \in {0, 1} /\ TurnDue \in {0, 1}
      /\ WakeDue' \in {0, 1} /\ TurnDue' \in {0, 1}
  BY DEF DialDue, WakeDue, TurnDue
<1>5. WakeDue' = WakeDue \/ TurnDue' <= TurnDue
  <2>1. CASE redial'.wake = redial.wake
    BY <2>1 DEF WakeDue
  <2>2. CASE redial'.attempts # 0 /\ redial'.stable = redial.stable
    <3>1. CASE redial.stable
      BY <2>2, <3>1, <1>4 DEF TurnDue
    <3>2. CASE ~redial.stable
      BY <2>2, <3>2, <1>4 DEF TurnDue
    <3>. QED BY <3>1, <3>2
  <2>. QED BY <2>1, <2>2
<1>6. redial'.credit >= DialDue' + WakeDue' + TurnDue'
  <2>1. CASE redial.credit < 3
    <3>1. redial'.credit = redial.credit + 1
      BY <2>1
    <3>2. CASE WakeDue' = WakeDue
      BY <1>3, <1>4, <3>1, <3>2
    <3>3. CASE TurnDue' <= TurnDue
      BY <1>3, <1>4, <3>1, <3>3
    <3>. QED BY <1>5, <3>2, <3>3
  <2>2. CASE ~(redial.credit < 3)
    BY <1>3, <1>4, <2>2
  <2>. QED BY <2>1, <2>2
<1>7. CreditInv'
  BY <1>0, <1>6 DEF CreditInv, Works
<1>. QED BY <1>1, <1>2, <1>7 DEF LineInv

LEMMA SessionStableKeeps == LineInv /\ SessionStable => LineInv'
<1> SUFFICES ASSUME LineInv, SessionStable PROVE LineInv'
  OBVIOUS
<1>0. RedialShape
  BY DEF LineInv, LineShape
<1>1. PICK n \in Nat : n = IF redial.credit < 3 THEN redial.credit + 1 ELSE redial.credit
  BY <1>0 DEF RedialShape
<1>2. redial' = [redial EXCEPT !.stable = TRUE, !.credit = n]
  BY <1>1 DEF SessionStable, Earned
<1>. QED BY <1>0, <1>1, <1>2, PaidIn DEF SessionStable, RedialShape

LEMMA EdgeKeeps == LineInv /\ Edge => LineInv'
<1> SUFFICES ASSUME LineInv, Edge PROVE LineInv'
  OBVIOUS
<1>0. LineShape /\ ActShape /\ SocketShape /\ RedialShape /\ OneOwner /\ PingersInv /\ CreditInv /\ Guarded
  BY DEF LineInv, LineShape
<1>a. UNCHANGED <<conn, done, ping, pingers, ctx>>
  BY DEF Edge
<1>1. CASE V2
  <2>1. redial' = WakeV2 /\ UNCHANGED <<act, busyMed>>
    BY <1>1 DEF Edge
  <2>2. PICK n \in Nat : n = IF redial.credit < 3 THEN redial.credit + 1 ELSE redial.credit
    BY <1>0 DEF RedialShape
  <2>3. PICK w \in BOOLEAN : redial' = [redial EXCEPT !.attempts = 1, !.wake = w, !.credit = n]
    <3>1. (redial.wake \/ ~Up) \in BOOLEAN
      OBVIOUS
    <3>. QED BY <2>1, <2>2, <3>1 DEF WakeV2
  <2>4. redial' \in [attempts : Nat, wake : BOOLEAN, stable : BOOLEAN, credit : Nat]
    BY <1>0, <2>3 DEF RedialShape
  <2>5. redial'.credit = n /\ redial'.attempts # 0 /\ redial'.stable = redial.stable
    BY <1>0, <2>3 DEF RedialShape
  <2>. QED BY <1>1, <1>a, <2>1, <2>2, <2>4, <2>5, PaidIn
<1>2. CASE ~V2
  <2>1. redial' = redial /\ act["edge"].pc = Idle
    BY <1>2 DEF Edge
  <2>2. \/ UNCHANGED <<act, busyMed>>
        \/ busyMed' = TRUE /\ busyMed = TRUE /\ act' = act
        \/ busyMed' = TRUE /\ ~busyMed /\ Goto("edge", "gate")
    BY <1>0, <1>2 DEF Edge, LineShape
  <2>3. busyMed' \in BOOLEAN /\ (busyMed => busyMed')
    BY <1>0, <2>2 DEF LineShape
  <2>4. /\ ActShape'
        /\ \A b \in Actors :
             \/ act'[b] = act[b]
             \/ act[b].pc = Idle /\ act'[b].pc = "gate" /\ b = "edge" /\ ~busyMed /\ busyMed'
    <3>1. CASE act' = act
      BY <1>0, <3>1 DEF ActShape
    <3>2. CASE act' # act
      <4>1. busyMed' = TRUE /\ ~busyMed /\ act' = [act EXCEPT !["edge"].pc = "gate"]
        BY <2>2, <3>2 DEF Goto
      <4>2. ActShape'
        BY <1>0, <4>1 DEF ActShape, Pcs
      <4>3. \A b \in Actors : act'[b] = act[b] \/ (b = "edge" /\ act'[b].pc = "gate")
        BY <1>0, <4>1 DEF ActShape
      <4>. QED BY <2>1, <4>1, <4>2, <4>3
    <3>. QED BY <3>1, <3>2
  <2>5. LineShape'
    BY <1>0, <1>a, <2>1, <2>3, <2>4 DEF LineShape, SocketShape, RedialShape
  <2>6. OneOwner' /\ PingersInv'
    BY <1>a, <2>4, <2>5, Elsewhere DEF Has, Listens, Idle
  <2>7. CreditInv'
    BY <1>0, <1>2, <2>1 DEF CreditInv
  <2>8. Guarded'
    <3>1. CASE \A b \in Actors : act'[b] = act[b]
      BY <2>3, <2>5, <3>1, GuardKept
    <3>2. CASE ~(\A b \in Actors : act'[b] = act[b])
      <4>1. ~busyMed /\ busyMed'
        BY <2>4, <3>2
      <4>2. \A b \in Actors \cap Mediated : act[b].pc = Idle
        BY <1>0, <4>1 DEF Guarded
      <4>3. \A b \in Actors \cap Mediated : act'[b].pc # Idle => b = "edge"
        BY <2>4, <4>2
      <4>. QED BY <4>1, <4>3 DEF Guarded
    <3>. QED BY <3>1, <3>2
  <2>. QED BY <2>5, <2>6, <2>7, <2>8 DEF LineInv
<1>. QED BY <1>1, <1>2

LEMMA BeatKeeps == LineInv /\ (Beat \/ BeatQueried) => LineInv'
<1> SUFFICES ASSUME LineInv, Beat \/ BeatQueried PROVE LineInv'
  OBVIOUS
<1>0. LineShape /\ ActShape /\ SocketShape /\ RedialShape /\ OneOwner /\ PingersInv /\ CreditInv /\ Guarded
  BY DEF LineInv, LineShape
<1>1. "beat" \in Actors /\ "beat" \in Mediated /\ ~V2
  BY LineAssumption DEF Beat, BeatQueried, Actors, Mediated
<1>2. UNCHANGED <<conn, done, ping, pingers, redial, ctx>>
  BY DEF Beat, BeatQueried
<1>3. \/ act["beat"].pc = Idle /\ busyMed = FALSE /\ busyMed' = TRUE /\ Goto("beat", "query")
      \/ act["beat"].pc = "query" /\ Goto("beat", Idle) /\ busyMed' = FALSE
      \/ act["beat"].pc = "query" /\ Goto("beat", "gate") /\ busyMed' = busyMed
  BY <1>0 DEF Beat, BeatQueried, LineShape
<1>4. PICK p \in {"query", Idle, "gate"} :
        /\ Goto("beat", p)
        /\ \/ act["beat"].pc = Idle /\ busyMed = FALSE /\ busyMed' = TRUE /\ p = "query"
           \/ act["beat"].pc = "query" /\ p = Idle /\ busyMed' = FALSE
           \/ act["beat"].pc = "query" /\ p = "gate" /\ busyMed' = busyMed
  BY <1>3
<1>5. ActShape' /\ act'["beat"].pc = p /\ \A b \in Actors \ {"beat"} : act'[b] = act[b]
  BY <1>0, <1>1, <1>4, GotoDoes DEF Pcs
<1>6. LineShape'
  BY <1>0, <1>2, <1>4, <1>5 DEF LineShape, SocketShape, RedialShape
<1>7. OneOwner' /\ PingersInv'
  BY <1>1, <1>2, <1>4, <1>5, <1>6, OneMoves DEF Has, Listens, Idle
<1>8. CreditInv'
  BY <1>0, <1>1, <1>2 DEF CreditInv
<1>9. Guarded'
  <2>1. CASE act["beat"].pc = "query"
    <3>1. busyMed' = busyMed \/ (act'["beat"].pc = Idle /\ "beat" \in Mediated)
      BY <1>1, <1>4, <1>5, <2>1 DEF Idle
    <3>. QED BY <1>1, <1>5, <1>6, <2>1, <3>1, OneWorks DEF Idle
  <2>2. CASE act["beat"].pc = Idle
    <3>1. busyMed = FALSE /\ busyMed' = TRUE
      BY <1>4, <2>2 DEF Idle
    <3>2. \A b \in Actors \cap Mediated : act[b].pc = Idle
      BY <1>0, <3>1 DEF Guarded
    <3>3. \A b \in Actors \cap Mediated : act'[b].pc # Idle => b = "beat"
      BY <1>5, <3>2
    <3>. QED BY <3>1, <3>3 DEF Guarded
  <2>. QED BY <1>4, <2>1, <2>2
<1>. QED BY <1>6, <1>7, <1>8, <1>9 DEF LineInv

(* The network, the probe clock and the shutdown move none of it.          *)
LEMMA WorldKeeps ==
  ASSUME LineInv, UNCHANGED <<act, done, ping, pingers, redial, busyMed>>,
         conn' \in [cur : Nat, newest : Nat, broken : SUBSET Nat], conn'.cur = conn.cur,
         ctx' = ctx \/ ctx' = "done"
  PROVE  LineInv'
<1>0. LineShape /\ OneOwner /\ PingersInv /\ CreditInv /\ Guarded
  BY DEF LineInv
<1>1. LineShape'
  BY <1>0 DEF LineShape, ActShape, SocketShape, RedialShape
<1>2. OneOwner' /\ PingersInv'
  BY <1>1, Elsewhere
<1>3. CreditInv'
  BY <1>1, CreditKept DEF Works
<1>4. Guarded'
  BY <1>0 DEF Guarded
<1>. QED BY <1>1, <1>2, <1>3, <1>4 DEF LineInv

LEMMA LineStep == LineInv /\ [LineNext]_line_vars => LineInv'
<1> SUFFICES ASSUME LineInv, [LineNext]_line_vars PROVE LineInv'
  OBVIOUS
<1>0. conn \in [cur : Nat, newest : Nat, broken : SUBSET Nat]
  BY DEF LineInv, LineShape, SocketShape
<1>1. ASSUME NEW a \in Actors, Dialer(a) PROVE LineInv'
  BY <1>1, GateKeeps, BackoffKeeps, WaitedKeeps, ConnectKeeps, LatchKeeps, StartKeeps DEF Dialer
<1>2. ASSUME NEW r \in Readers, Reader(r) PROVE LineInv'
  BY <1>2, ReaderKeeps, ReconnectKeeps, CloseKeeps DEF Reader
<1>3. CASE Mediator
  BY <1>3, BeatKeeps, EdgeKeeps DEF Mediator
<1>4. CASE ProbeDue \/ WorldChanges \/ Shutdown \/ UNCHANGED line_vars
  BY <1>0, <1>4, WorldKeeps DEF ProbeDue, WorldChanges, Shutdown, line_vars
<1>5. CASE Breaks \/ KeepaliveFails
  <2>1. conn' = [conn EXCEPT !.broken = conn.broken \cup {conn.cur}]
        /\ UNCHANGED <<act, done, ping, pingers, redial, busyMed, ctx>>
    BY <1>5 DEF Breaks, KeepaliveFails, Rest
  <2>. QED BY <1>0, <2>1, WorldKeeps
<1>. QED BY <1>1, <1>2, <1>3, <1>4, <1>5, CloseKeeps, PingerEndsKeeps, SessionStableKeeps DEF LineNext

LEMMA AtMostOne ==
  ASSUME NEW S, \A x, y \in S : x = y
  PROVE  Cardinality(S) <= 1
<1>1. CASE S = {}
  BY <1>1, FS_EmptySet
<1>2. CASE S # {}
  <2>1. PICK x \in S : TRUE
    BY <1>2
  <2>2. S = {x}
    BY <2>1
  <2>. QED BY <2>2, FS_Singleton
<1>. QED BY <1>1, <1>2

LEMMA LineMeans == LineInv => OneOfEach
<1> SUFFICES ASSUME LineInv PROVE OneOfEach
  OBVIOUS
<1>0. LineShape /\ SocketShape /\ OneOwner /\ PingersInv /\ CreditInv /\ Guarded /\ DOMAIN act = Actors
  BY DEF LineInv, LineShape, ActShape
<1>1. OneReader
  <2> SUFFICES ASSUME ctx = "live" PROVE Cardinality({r \in Readers : Reads(r)}) <= 1
    BY DEF OneReader
  <2>1. \A r, x \in {y \in Readers : Reads(y)} : r = x
    BY <1>0 DEF OneOwner, Reads, Has, Listens, Actors
  <2>. QED BY <2>1, AtMostOne
<1>2. SocketIsRead
  <2> SUFFICES ASSUME Up, ctx = "live"
               PROVE  \E a \in DOMAIN act : act[a].pc \in {"start", "reconnect"} \/ Reads(a)
    BY <1>0 DEF SocketIsRead, LineShape
  <2>1. PICK a \in Actors : Has(a)
    BY <1>0 DEF OneOwner
  <2>2. ASSUME Listens(a) PROVE ~Closed(act[a].gen)
    BY <1>0, <2>2 DEF OneOwner, Closed, SocketShape
  <2>. QED BY <1>0, <2>1, <2>2 DEF Has, Listens, Reads
<1>3. OnePinger
  <2>1. \A p, q \in {x \in pingers : Pings(x)} : p = q
    BY <1>0 DEF PingersInv, Pings
  <2>. QED BY <2>1, AtMostOne DEF OnePinger
<1>4. NeverTight
  <2> SUFFICES ASSUME NEW a \in Actors, act[a].pc = "dial" PROVE redial.credit > 0
    BY <1>0 DEF NeverTight
  <2>1. CASE V2
    <3>1. DialDue = 1 /\ WakeDue \in {0, 1} /\ TurnDue \in {0, 1} /\ redial.credit \in Nat
      BY <1>0 DEF DialDue, WakeDue, TurnDue, LineShape, RedialShape
    <3>2. redial.credit >= DialDue + WakeDue + TurnDue
      BY <1>0, <2>1 DEF CreditInv
    <3>. QED BY <3>1, <3>2
  <2>2. CASE ~V2
    BY <1>0, <2>2 DEF CreditInv
  <2>. QED BY <2>1, <2>2
<1>5. OneReconcile
  BY <1>0 DEF OneReconcile, Guarded, Mediated
<1>. QED BY <1>1, <1>2, <1>3, <1>4, <1>5 DEF OneOfEach

(* A relay socket has one reader and one pinger of its own, one reconcile  *)
(* is at it at a time, and a relay that is down, closes or refuses is never*)
(* dialed in a tight loop (relayer.go 603, v2.go 150, mediator.go 845): for*)
(* every set of callers and read loops and every number of tries.          *)
THEOREM EachRelaySocketHasOneOfEach == LineSpec => []OneOfEach
<1>1. LineInit => LineInv
  BY LineInitInv
<1>2. LineInv /\ [LineNext]_line_vars => LineInv'
  BY LineStep
<1>3. LineInv => OneOfEach
  BY LineMeans
<1>. QED BY <1>1, <1>2, <1>3, PTL DEF LineSpec

(******************************* Bindings **********************************)

(* The records have the fields of their kind, whatever is in them.         *)
IsSock == sock \in [gen : {sock.gen}, up : {sock.up}, peers : {sock.peers}, seen : {sock.seen}]

IsGrants == grants \in [active : {grants.active}, unbind : {grants.unbind},
                        changes : {grants.changes}, asks : {grants.asks}]

IsBinding(b) ==
  b \in [ctl : {b.ctl}, tick : {b.tick}, queue : {b.queue}, out : {b.out},
         pending : {b.pending}, missed : {b.missed}, made : {b.made}, by : {b.by}]

IsRequest(a) ==
  a \in [pc : {a.pc}, peer : {a.peer}, kind : {a.kind}, ctl : {a.ctl}, revoked : {a.revoked}]

IsPeer(p) == p = <<p[1], p[2]>>

(* A request in its handler; only one that revoked remembers whom.         *)
IsAsk(a) ==
  /\ IsRequest(a)
  /\ a.pc \in {"admit", "bind", "unbind", "reply", "release"}
  /\ IsPeer(a.peer)
  /\ a.pc \in {"admit", "reply", "release"} => a.revoked = {}
  /\ a.revoked = {} \/ \E c : a.revoked = {c}

AsksInv == DOMAIN asks = Slots /\ \A s \in Slots : asks[s] = NoAsk \/ IsAsk(asks[s])

BoundInv == \A p \in DOMAIN bound : IsPeer(p) /\ IsBinding(bound[p])

IInv == IsSock /\ IsGrants /\ AsksInv /\ BoundInv /\ BindingsLive

(* Bindings were only taken away, or changed but for their controller.     *)
Fewer == \A p \in DOMAIN bound' : /\ p \in DOMAIN bound /\ IsBinding(bound'[p])
                                  /\ bound'[p].ctl = bound[p].ctl

-----------------------------------------------------------------------------
LEMMA DropFewer ==
  ASSUME BoundInv, NEW ps, bound' = Drop(bound, ps)
  PROVE  Fewer /\ DOMAIN bound' = DOMAIN bound \ ps
BY DEF BoundInv, Drop, Fewer

LEMMA UnbindFewer ==
  ASSUME BoundInv, NEW c, bound' = Unbind(c)
  PROVE  Fewer /\ \A p \in DOMAIN bound' : bound'[p].ctl # c
<1>1. Fewer /\ DOMAIN bound' = DOMAIN bound \ OfCtl(bound, c)
  BY DropFewer DEF Unbind
<1>. QED BY <1>1 DEF Fewer, OfCtl

LEMMA SameFewer == ASSUME BoundInv, bound' = bound PROVE Fewer
BY DEF BoundInv, Fewer

LEMMA OneFewer ==
  ASSUME BoundInv, NEW p \in DOMAIN bound, NEW b, IsBinding(b), b.ctl = bound[p].ctl,
         bound' = [bound EXCEPT ![p] = b]
  PROVE  Fewer
BY DEF BoundInv, Fewer

LEMMA FewerBound == ASSUME BoundInv, Fewer PROVE BoundInv'
BY DEF BoundInv, Fewer

(* What is kept of the revocations still to be unbound.                    *)
LEMMA UnbindingOf ==
  ASSUME AsksInv, NEW s \in Slots, NEW a, asks' = [asks EXCEPT ![s] = a]
  PROVE  /\ DOMAIN asks' = Slots /\ asks'[s] = a
         /\ \A t \in Slots \ {s} : asks'[t] = asks[t]
BY DEF AsksInv

LEMMA InUnbinding ==
  ASSUME NEW c
  PROVE  c \in Unbinding <=>
           c \in grants.unbind \/ \E s \in Slots : asks[s] # NoAsk /\ c \in asks[s].revoked
BY DEF Unbinding

(* A step that takes bindings away, kills no peer without its callback and *)
(* forgets no revocation whose bindings are there.                         *)
LEMMA FewerLive ==
  ASSUME BoundInv, BindingsLive, Fewer,
         \A p \in DOMAIN bound' : Live(p) \/ p \in gone => Live(p)' \/ p \in gone',
         \A p \in DOMAIN bound' :
           bound'[p].ctl \in grants.active \cup Unbinding =>
             bound'[p].ctl \in grants'.active \cup Unbinding'
  PROVE  BindingsLive'
BY DEF BindingsLive, NoBindingOfDead, NoBindingOfRevoked, Fewer

LEMMA AskUnbinding ==
  ASSUME AsksInv, NEW s \in Slots, NEW a, asks' = [asks EXCEPT ![s] = a],
         grants'.unbind = grants.unbind,
         asks[s] = NoAsk \/ (\A c \in asks[s].revoked : a # NoAsk /\ c \in a.revoked)
  PROVE  Unbinding \subseteq Unbinding'
<1>. SUFFICES ASSUME NEW c \in Unbinding PROVE c \in Unbinding'
  OBVIOUS
<1>1. CASE c \in grants.unbind
  BY <1>1 DEF Unbinding
<1>2. ASSUME NEW t \in Slots, asks[t] # NoAsk, c \in asks[t].revoked
      PROVE  c \in Unbinding'
  <2>1. asks'[t] # NoAsk /\ c \in asks'[t].revoked
    BY <1>2, UnbindingOf
  <2>. QED BY <2>1 DEF Unbinding
<1>. QED BY <1>1, <1>2, InUnbinding

(* A request moves on to pc, remembering r.                                *)
LEMMA AskMoves ==
  ASSUME NEW a, IsAsk(a),
         NEW pc \in {"admit", "bind", "unbind", "reply", "release"},
         NEW b, b = [a EXCEPT !.pc = pc],
         pc \in {"admit", "reply", "release"} => a.revoked = {}
  PROVE  IsAsk(b) /\ b.revoked = a.revoked /\ b # NoAsk
<1>1. IsRequest(b) /\ b.pc = pc /\ b.peer = a.peer /\ b.revoked = a.revoked
  BY DEF IsAsk, IsRequest
<1>2. IsAsk(b)
  BY <1>1 DEF IsAsk
<1>3. b.pc # NoAsk.pc
  BY <1>1 DEF NoAsk
<1>. QED BY <1>1, <1>2, <1>3

LEMMA AskKeeps ==
  ASSUME AsksInv, NEW s \in Slots, NEW a, asks' = [asks EXCEPT ![s] = a],
         a = NoAsk \/ IsAsk(a)
  PROVE  AsksInv'
BY UnbindingOf DEF AsksInv

LEMMA NotFree == ASSUME AsksInv, NEW s \in Slots, asks[s].pc # "free"
                 PROVE  asks[s] # NoAsk /\ IsAsk(asks[s])
BY DEF AsksInv, NoAsk

-----------------------------------------------------------------------------
(* Requests.                                                               *)

LEMMA ArriveKeeps == ASSUME IInv, NEW s \in Slots, Arrive(s) PROVE IInv'
<1>. USE DEF IInv
<1>1. PICK c \in sock.peers, k \in Kinds, ctl \in Ctls :
        asks' = [asks EXCEPT ![s] = Asked(k, <<sock.gen, c>>, ctl)]
  BY DEF Arrive
<1>2. /\ UNCHANGED <<sock, gone, bound>> /\ asks[s] = NoAsk
      /\ IsGrants' /\ grants'.active = grants.active /\ grants'.unbind = grants.unbind
  BY DEF Arrive, IsGrants
<1>3. Asked(k, <<sock.gen, c>>, ctl) = NoAsk \/ IsAsk(Asked(k, <<sock.gen, c>>, ctl))
  BY DEF Asked, IsAsk, IsRequest, IsPeer
<1>4. AsksInv' /\ Unbinding \subseteq Unbinding'
  BY <1>1, <1>2, <1>3, AskKeeps, AskUnbinding
<1>5. BoundInv' /\ IsSock'
  BY <1>2 DEF BoundInv, IsSock
<1>6. BindingsLive'
  BY <1>2, <1>4 DEF BindingsLive, NoBindingOfDead, NoBindingOfRevoked, Live
<1>. QED BY <1>2, <1>4, <1>5, <1>6

LEMMA AdmitKeeps == ASSUME IInv, NEW s \in Slots, Admit(s) PROVE IInv'
<1>. USE DEF IInv
<1>1. asks[s] # NoAsk /\ IsAsk(asks[s]) /\ asks[s].revoked = {} /\ UNCHANGED <<sock, gone, bound>>
  <2>1. asks[s].pc = "admit" /\ UNCHANGED <<sock, gone, bound>>
    BY DEF Admit
  <2>. QED BY <2>1, NotFree DEF IsAsk
<1>2. CASE \E pc \in {"reply", "bind"} :
             asks' = [asks EXCEPT ![s].pc = pc] /\ UNCHANGED grants
  <2>1. PICK pc \in {"reply", "bind"} :
          asks' = [asks EXCEPT ![s] = [asks[s] EXCEPT !.pc = pc]] /\ UNCHANGED grants
    BY <1>2
  <2>. DEFINE b == [asks[s] EXCEPT !.pc = pc]
  <2>2. IsAsk(b)
    BY <1>1, AskMoves
  <2>3. AsksInv' /\ Unbinding \subseteq Unbinding'
    <3>1. asks' = [asks EXCEPT ![s] = b] /\ grants'.unbind = grants.unbind
      BY <2>1
    <3>. HIDE DEF b
    <3>2. AsksInv'
      BY <2>2, <3>1, AskKeeps
    <3>3. Unbinding \subseteq Unbinding'
      BY <1>1, <3>1, AskUnbinding
    <3>. QED BY <3>2, <3>3
  <2>. QED BY <1>1, <2>1, <2>3 DEF IsSock, IsGrants, BoundInv, BindingsLive,
              NoBindingOfDead, NoBindingOfRevoked, Live
<1>3. CASE \E c, pc : /\ pc \in {"unbind", "bind"}
                      /\ asks' = [asks EXCEPT ![s].pc = pc, ![s].revoked = {c}]
                      /\ grants' = [grants EXCEPT !.active = @ \ {c}]
  <2>1. PICK c, pc : /\ pc \in {"unbind", "bind"}
                     /\ asks' = [asks EXCEPT ![s].pc = pc, ![s].revoked = {c}]
                     /\ grants' = [grants EXCEPT !.active = @ \ {c}]
    BY <1>3
  <2>. DEFINE a == [asks[s] EXCEPT !.pc = pc, !.revoked = {c}]
  <2>2. IsRequest(a) /\ a.pc = pc /\ a.peer = asks[s].peer /\ a.revoked = {c}
    BY <1>1 DEF IsAsk, IsRequest
  <2>3. IsAsk(a) /\ a.revoked = {c} /\ a.pc # NoAsk.pc
    BY <1>1, <2>1, <2>2 DEF IsAsk, NoAsk
  <2>4. asks' = [asks EXCEPT ![s] = a]
    BY <2>1
  <2>5. /\ IsGrants' /\ grants'.active = grants.active \ {c} /\ grants'.unbind = grants.unbind
    BY <2>1 DEF IsGrants
  <2>6. AsksInv' /\ Unbinding \subseteq Unbinding' /\ c \in Unbinding'
    <3>1. AsksInv' /\ Unbinding \subseteq Unbinding'
      BY <1>1, <2>3, <2>4, <2>5, AskKeeps, AskUnbinding
    <3>2. asks'[s] # NoAsk /\ c \in asks'[s].revoked
      BY <2>3, <2>4, UnbindingOf
    <3>. QED BY <3>1, <3>2 DEF Unbinding
  <2>. QED BY <1>1, <2>5, <2>6 DEF IsSock, BoundInv, BindingsLive,
              NoBindingOfDead, NoBindingOfRevoked, Live
<1>. QED BY <1>2, <1>3 DEF Admit

LEMMA BindKeeps == ASSUME IInv, NEW s \in Slots, Bind(s) PROVE IInv'
<1>. USE DEF IInv
<1>. DEFINE p == asks[s].peer
            c == asks[s].ctl
<1>1. /\ IsAsk(asks[s]) /\ asks[s] # NoAsk /\ UNCHANGED <<sock, gone, grants>>
      /\ asks' = [asks EXCEPT ![s].pc = IF asks[s].revoked = {} THEN "reply" ELSE "unbind"]
  BY NotFree DEF Bind
<1>2. AsksInv' /\ Unbinding \subseteq Unbinding'
  <2>. DEFINE next == IF asks[s].revoked = {} THEN "reply" ELSE "unbind"
  <2>1. asks' = [asks EXCEPT ![s] = [asks[s] EXCEPT !.pc = next]]
    BY <1>1
  <2>. QED BY <1>1, <2>1, AskMoves, AskKeeps, AskUnbinding
<1>3. CASE ~MayBind(p, c)
  <2>1. bound' = bound
    BY <1>3 DEF Bind
  <2>. QED BY <1>1, <1>2, <2>1 DEF IsSock, IsGrants, BoundInv, BindingsLive,
              NoBindingOfDead, NoBindingOfRevoked, Live
<1>4. CASE MayBind(p, c)
  <2>1. bound' = Bound(p, c, s) /\ Live(p) /\ c \in grants.active /\ IsPeer(p)
    BY <1>1, <1>4 DEF Bind, MayBind, IsAsk
  <2>. DEFINE b == Drop(bound, Pruned)
              e == Evicted(Drop(b, {p}), c)
  <2>2. /\ DOMAIN b \subseteq DOMAIN bound
        /\ \A q \in DOMAIN b : b[q] = bound[q] /\ Live(q)
    BY DEF Drop, Pruned
  <2>3. /\ DOMAIN e \subseteq DOMAIN b \ {p}
        /\ \A q \in DOMAIN e : e[q] = b[q]
    BY DEF Drop, Evicted
  <2>4. IsBinding(NewBinding(c, s)) /\ NewBinding(c, s).ctl = c
    BY DEF IsBinding, NewBinding
  <2>5. ASSUME NEW q \in DOMAIN bound'
        PROVE  /\ IsPeer(q) /\ IsBinding(bound'[q]) /\ Live(q)
               /\ bound'[q].ctl = c \/ (q \in DOMAIN bound /\ bound'[q].ctl = bound[q].ctl)
    <3>1. CASE p \in DOMAIN b /\ b[p].ctl = c
      <4>1. bound' = [b EXCEPT ![p].tick = pub.tick + 1]
        BY <2>1, <3>1 DEF Bound
      <4>2. /\ q \in DOMAIN b
            /\ bound'[q] = IF q = p THEN [b[q] EXCEPT !.tick = pub.tick + 1] ELSE b[q]
        BY <4>1
      <4>3. IsPeer(q) /\ IsBinding(b[q])
        BY <2>2, <4>2 DEF BoundInv
      <4>. QED BY <2>2, <4>2, <4>3 DEF IsBinding
    <3>2. CASE ~(p \in DOMAIN b /\ b[p].ctl = c)
      <4>1. bound' = [x \in DOMAIN e \cup {p} |-> IF x = p THEN NewBinding(c, s) ELSE e[x]]
        BY <2>1, <3>2 DEF Bound
      <4>2. /\ q \in DOMAIN e \cup {p}
            /\ bound'[q] = IF q = p THEN NewBinding(c, s) ELSE e[q]
        BY <4>1
      <4>. QED BY <2>1, <2>2, <2>3, <2>4, <4>2 DEF BoundInv
    <3>. QED BY <3>1, <3>2
  <2>6. BoundInv' /\ IsSock' /\ IsGrants'
    BY <1>1, <2>5 DEF BoundInv, IsSock, IsGrants
  <2>7. BindingsLive'
    BY <1>1, <1>2, <2>1, <2>5 DEF BindingsLive, NoBindingOfDead, NoBindingOfRevoked, Live
  <2>. QED BY <1>2, <2>6, <2>7
<1>. QED BY <1>3, <1>4

LEMMA UnbindRevokedKeeps == ASSUME IInv, NEW s \in Slots, UnbindRevoked(s) PROVE IInv'
<1>. USE DEF IInv
<1>1. PICK c \in asks[s].revoked : bound' = Unbind(c)
  BY DEF UnbindRevoked
<1>2. /\ IsAsk(asks[s]) /\ asks[s] # NoAsk /\ UNCHANGED <<sock, gone, grants>>
      /\ asks' = [asks EXCEPT ![s].pc = "reply", ![s].revoked = {}]
  BY NotFree DEF UnbindRevoked
<1>. DEFINE a == [asks[s] EXCEPT !.pc = "reply", !.revoked = {}]
<1>3. asks[s].revoked = {c}
  BY <1>1, <1>2 DEF IsAsk
<1>4. IsRequest(a) /\ a.pc = "reply" /\ a.peer = asks[s].peer /\ a.revoked = {}
  BY <1>2 DEF IsAsk, IsRequest
<1>5. IsAsk(a)
  BY <1>2, <1>4 DEF IsAsk
<1>6. asks' = [asks EXCEPT ![s] = a]
  BY <1>2
<1>7. AsksInv'
  <2>. HIDE DEF a
  <2>. QED BY <1>5, <1>6, AskKeeps
<1>8. Unbinding \ {c} \subseteq Unbinding'
  <2>1. \A t \in Slots \ {s} : asks'[t] = asks[t]
    BY <1>6, UnbindingOf
  <2>. SUFFICES ASSUME NEW d \in Unbinding, d # c PROVE d \in Unbinding'
    OBVIOUS
  <2>2. CASE d \in grants.unbind
    BY <1>2, <2>2 DEF Unbinding
  <2>3. ASSUME NEW t \in Slots, asks[t] # NoAsk, d \in asks[t].revoked
        PROVE  d \in Unbinding'
    <3>1. t # s
      BY <1>3, <2>3
    <3>. QED BY <2>1, <2>3, <3>1 DEF Unbinding
  <2>. QED BY <2>2, <2>3, InUnbinding
<1>9. Fewer /\ \A p \in DOMAIN bound' : bound'[p].ctl # c
  BY <1>1, UnbindFewer
<1>. QED BY <1>2, <1>7, <1>8, <1>9, FewerBound, FewerLive DEF IsSock, IsGrants, Live

LEMMA ReplyKeeps == ASSUME IInv, NEW s \in Slots, Reply(s) PROVE IInv'
<1>. USE DEF IInv
<1>1. /\ IsAsk(asks[s]) /\ asks[s] # NoAsk /\ asks[s].revoked = {}
      /\ UNCHANGED <<sock, gone, grants, bound>>
      /\ asks' = [asks EXCEPT ![s].pc = "release"]
  BY NotFree DEF Reply, IsAsk
<1>. DEFINE b == [asks[s] EXCEPT !.pc = "release"]
<1>2. IsAsk(b)
  BY <1>1, AskMoves
<1>3. asks' = [asks EXCEPT ![s] = b]
  BY <1>1
<1>4. AsksInv' /\ Unbinding \subseteq Unbinding'
  <2>. HIDE DEF b
  <2>. QED BY <1>1, <1>2, <1>3, AskKeeps, AskUnbinding
<1>. QED BY <1>1, <1>4 DEF IsSock, IsGrants, BoundInv, BindingsLive,
            NoBindingOfDead, NoBindingOfRevoked, Live

LEMMA ReleasedKeeps ==
  ASSUME NEW b, IsBinding(b)
  PROVE  /\ IsBinding([Released(b) EXCEPT !.pending = FALSE])
         /\ [Released(b) EXCEPT !.pending = FALSE].ctl = b.ctl
<1>1. IsBinding(Released(b)) /\ Released(b).ctl = b.ctl
  <2>. DEFINE q == IF pub.latest = 0 THEN b.queue ELSE <<Copy(b, "status", pub.latest)>> \o b.queue
  <2>1. Released(b) = IF Len(q) > Depth THEN [b EXCEPT !.queue = SubSeq(q, 1, Depth), !.missed = TRUE]
                                        ELSE [b EXCEPT !.queue = q]
    BY DEF Released
  <2>. HIDE DEF q
  <2>2. CASE Len(q) > Depth
    <3>1. Released(b) = [b EXCEPT !.queue = SubSeq(q, 1, Depth), !.missed = TRUE]
      BY <2>1, <2>2
    <3>. QED BY <3>1 DEF IsBinding
  <2>3. CASE ~(Len(q) > Depth)
    <3>1. Released(b) = [b EXCEPT !.queue = q]
      BY <2>1, <2>3
    <3>. QED BY <3>1 DEF IsBinding
  <2>. QED BY <2>2, <2>3
<1>. DEFINE r == Released(b)
<1>. HIDE DEF r
<1>2. IsBinding(r) /\ r.ctl = b.ctl
  BY <1>1 DEF r
<1>3. IsBinding([r EXCEPT !.pending = FALSE]) /\ [r EXCEPT !.pending = FALSE].ctl = r.ctl
  BY <1>2 DEF IsBinding
<1>. QED BY <1>2, <1>3 DEF r

LEMMA ReleaseKeeps == ASSUME IInv, NEW s \in Slots, Release(s) PROVE IInv'
<1>. USE DEF IInv
<1>. DEFINE p == asks[s].peer
<1>1. /\ asks[s].revoked = {} /\ UNCHANGED <<sock, gone, grants>>
      /\ asks' = [asks EXCEPT ![s] = NoAsk]
  BY NotFree DEF Release, IsAsk
<1>2. AsksInv' /\ Unbinding \subseteq Unbinding'
  BY <1>1, AskKeeps, AskUnbinding
<1>3. Fewer
  <2>1. CASE bound' = bound
    BY <2>1, SameFewer
  <2>2. CASE bound' = Drop(bound, {p})
    BY <2>2, DropFewer
  <2>3. CASE p \in DOMAIN bound /\ bound' = [bound EXCEPT ![p] = [Released(@) EXCEPT !.pending = FALSE]]
    <3>. DEFINE b == [Released(bound[p]) EXCEPT !.pending = FALSE]
    <3>1. IsBinding(b) /\ b.ctl = bound[p].ctl
      BY <2>3, ReleasedKeeps DEF BoundInv
    <3>2. bound' = [bound EXCEPT ![p] = b]
      BY <2>3
    <3>. HIDE DEF b
    <3>. QED BY <2>3, <3>1, <3>2, OneFewer
  <2>. QED BY <2>1, <2>2, <2>3 DEF Release
<1>. QED BY <1>1, <1>2, <1>3, FewerBound, FewerLive DEF IsSock, IsGrants, Live

-----------------------------------------------------------------------------
(* Notifications, peers, sockets and grants: requests stand.               *)

LEMMA SameUnbinding ==
  ASSUME UNCHANGED asks, grants'.unbind = grants.unbind
  PROVE  Unbinding' = Unbinding
BY DEF Unbinding

LEMMA EnqueueKeeps ==
  ASSUME NEW b, IsBinding(b), NEW copy
  PROVE  IsBinding(Enqueue(b, copy)) /\ Enqueue(b, copy).ctl = b.ctl
<1>1. CASE Len(b.queue) < Depth
  <2>1. Enqueue(b, copy) = [b EXCEPT !.queue = Append(@, copy)]
    BY <1>1 DEF Enqueue
  <2>. QED BY <2>1 DEF IsBinding
<1>2. CASE ~(Len(b.queue) < Depth)
  <2>1. Enqueue(b, copy) = [b EXCEPT !.missed = TRUE]
    BY <1>2 DEF Enqueue
  <2>. QED BY <2>1 DEF IsBinding
<1>. QED BY <1>1, <1>2

LEMMA PublishKeeps == ASSUME IInv, NEW t \in Types, Publish(t) PROVE IInv'
<1>. USE DEF IInv
<1>. DEFINE b == Drop(bound, Pruned)
<1>1. /\ UNCHANGED <<sock, gone, asks, grants>>
      /\ bound' = Deliver(b, Targets(t), t, pub.version + 1)
  BY DEF Publish
<1>2. DOMAIN b \subseteq DOMAIN bound /\ \A q \in DOMAIN b : b[q] = bound[q]
  BY DEF Drop
<1>3. ASSUME NEW q \in DOMAIN bound'
      PROVE  q \in DOMAIN bound /\ IsBinding(bound'[q]) /\ bound'[q].ctl = bound[q].ctl
  <2>. DEFINE copy == Copy(b[q], t, pub.version + 1)
  <2>1. /\ q \in DOMAIN b
        /\ bound'[q] = b[q] \/ bound'[q] = Enqueue(b[q], copy)
    <3>. HIDE DEF b
    <3>. QED BY <1>1 DEF Deliver
  <2>2. IsBinding(bound[q]) /\ b[q] = bound[q] /\ q \in DOMAIN bound
    BY <1>2, <2>1 DEF BoundInv
  <2>. HIDE DEF b, copy
  <2>. QED BY <2>1, <2>2, EnqueueKeeps
<1>4. Fewer
  BY <1>3 DEF Fewer
<1>5. AsksInv' /\ Unbinding' = Unbinding
  BY <1>1, SameUnbinding DEF AsksInv
<1>. QED BY <1>1, <1>4, <1>5, FewerBound, FewerLive DEF IsSock, IsGrants, Live

LEMMA SenderKeeps == ASSUME IInv, NEW p \in PeersOf(MaxSockets), Sender(p) PROVE IInv'
<1>. USE DEF IInv
<1>1. /\ UNCHANGED <<sock, gone, asks, grants>> /\ p \in DOMAIN bound
      /\ \/ bound' = [bound EXCEPT ![p].out = <<Head(bound[p].queue)>>, ![p].queue = Tail(@)]
         \/ bound' = [bound EXCEPT ![p].out = << >>]
         \/ bound' = [bound EXCEPT ![p].out = << >>, ![p].missed = TRUE]
  BY DEF Sender, Take, Send
<1>2. IsBinding(bound[p])
  BY <1>1 DEF BoundInv
<1>3. Fewer
  <2>1. ASSUME NEW x, NEW y, bound' = [bound EXCEPT ![p].out = x, ![p].queue = y] PROVE Fewer
    BY <1>1, <1>2, <2>1 DEF Fewer, BoundInv, IsBinding
  <2>2. ASSUME NEW x, bound' = [bound EXCEPT ![p].out = x] PROVE Fewer
    BY <1>1, <1>2, <2>2 DEF Fewer, BoundInv, IsBinding
  <2>3. ASSUME NEW x, NEW y, bound' = [bound EXCEPT ![p].out = x, ![p].missed = y] PROVE Fewer
    BY <1>1, <1>2, <2>3 DEF Fewer, BoundInv, IsBinding
  <2>. QED BY <1>1, <2>1, <2>2, <2>3
<1>4. AsksInv' /\ Unbinding' = Unbinding
  BY <1>1, SameUnbinding DEF AsksInv
<1>. QED BY <1>1, <1>3, <1>4, FewerBound, FewerLive DEF IsSock, IsGrants, Live

LEMMA SendSpareKeeps == ASSUME IInv, NEW x \in spares, SendSpare(x) PROVE IInv'
<1>. USE DEF IInv
<1>1. UNCHANGED <<sock, gone, asks, grants, bound>>
  BY DEF SendSpare
<1>. QED BY <1>1, SameUnbinding DEF AsksInv, BoundInv, IsSock, IsGrants,
            BindingsLive, NoBindingOfDead, NoBindingOfRevoked, Live

(* The relay's events: whoever is dead afterwards waits for its callback.  *)
LEMMA RelayKeeps ==
  ASSUME IInv, NEW c, PeerConnected(c) \/ PeerDisconnected(c) \/ SessionCloses \/ SessionOpens
  PROVE  IInv'
<1>. USE DEF IInv
<1>1. UNCHANGED <<asks, grants, bound>>
  BY DEF PeerConnected, PeerDisconnected, SessionCloses, SessionOpens
<1>2. AsksInv' /\ BoundInv' /\ IsGrants' /\ NoBindingOfRevoked'
  BY <1>1, SameUnbinding DEF AsksInv, BoundInv, IsGrants, BindingsLive, NoBindingOfRevoked
<1>3. IsSock' /\ NoBindingOfDead'
  <2>. SUFFICES IsSock' /\ \A p \in DOMAIN bound : Live(p)' \/ p \in gone'
    BY <1>1 DEF NoBindingOfDead
  <2>1. \A p \in DOMAIN bound : (Live(p) \/ p \in gone) /\ p = <<p[1], p[2]>>
    BY DEF BindingsLive, NoBindingOfDead, BoundInv, IsPeer
  <2>2. CASE PeerConnected(c)
    <3>1. /\ IsSock' /\ sock'.gen = sock.gen /\ sock'.up = sock.up
          /\ sock'.peers = sock.peers \cup {c} /\ gone' = gone
      BY <2>2 DEF PeerConnected, IsSock
    <3>. QED BY <2>1, <3>1 DEF Live
  <2>3. CASE PeerDisconnected(c)
    <3>1. /\ IsSock' /\ sock'.gen = sock.gen /\ sock'.up = sock.up
          /\ sock'.peers = sock.peers \ {c} /\ gone = {} /\ gone' = {<<sock.gen, c>>}
      BY <2>3 DEF PeerDisconnected, IsSock
    <3>. QED BY <2>1, <3>1 DEF Live
  <2>4. CASE SessionCloses
    <3>1. IsSock' /\ gone = {} /\ gone' = {sock.gen} \X sock.peers
      BY <2>4 DEF SessionCloses, IsSock
    <3>2. ASSUME NEW p \in DOMAIN bound PROVE p \in gone'
      <4>1. p[1] = sock.gen /\ p[2] \in sock.peers /\ p = <<p[1], p[2]>>
        BY <2>1, <3>1 DEF Live
      <4>. QED BY <3>1, <4>1
    <3>. QED BY <3>1, <3>2
  <2>5. CASE SessionOpens
    <3>1. IsSock' /\ ~sock.up /\ gone = {}
      BY <2>5 DEF SessionOpens, IsSock
    <3>. QED BY <2>1, <3>1 DEF Live
  <2>. QED BY <2>2, <2>3, <2>4, <2>5
<1>. QED BY <1>2, <1>3 DEF BindingsLive

LEMMA DisconnectedKeeps == ASSUME IInv, NEW p \in PeersOf(MaxSockets), Disconnected(p) PROVE IInv'
<1>. USE DEF IInv
<1>1. /\ UNCHANGED <<sock, asks, grants>> /\ gone' = gone \ {p}
      /\ bound' = Drop(bound, {p})
  BY DEF Disconnected
<1>2. Fewer /\ p \notin DOMAIN bound'
  BY <1>1, DropFewer
<1>3. AsksInv' /\ Unbinding' = Unbinding
  BY <1>1, SameUnbinding DEF AsksInv
<1>. QED BY <1>1, <1>2, <1>3, FewerBound, FewerLive DEF IsSock, IsGrants, Live

LEMMA GrantKeeps ==
  ASSUME IInv, NEW c \in Ctls, GrantChanges(c) \/ GrantsChanged(c) PROVE IInv'
<1>. USE DEF IInv
<1>1. /\ UNCHANGED <<sock, gone, asks>> /\ IsSock' /\ AsksInv'
  BY DEF GrantChanges, GrantsChanged, IsSock, AsksInv
<1>2. CASE GrantChanges(c)
  <2>1. /\ UNCHANGED bound /\ IsGrants' /\ grants'.unbind = grants.unbind \cup {c}
        /\ grants.active \ {c} \subseteq grants'.active
    BY <1>2 DEF GrantChanges, IsGrants
  <2>2. Unbinding \cup {c} \subseteq Unbinding'
    BY <1>1, <2>1 DEF Unbinding
  <2>. QED BY <1>1, <2>1, <2>2 DEF BoundInv, BindingsLive, NoBindingOfDead,
              NoBindingOfRevoked, Live
<1>3. CASE GrantsChanged(c)
  <2>1. /\ bound' = Unbind(c) /\ IsGrants' /\ grants'.unbind = grants.unbind \ {c}
        /\ grants'.active = grants.active
    BY <1>3 DEF GrantsChanged, IsGrants
  <2>2. Fewer /\ \A p \in DOMAIN bound' : bound'[p].ctl # c
    BY <2>1, UnbindFewer
  <2>3. Unbinding \ {c} \subseteq Unbinding'
    BY <1>1, <2>1 DEF Unbinding
  <2>. QED BY <1>1, <2>1, <2>2, <2>3, FewerBound, FewerLive DEF Live
<1>. QED BY <1>2, <1>3

LEMMA NextKeeps == ASSUME IInv, [Next]_vars PROVE IInv'
<1>1. CASE UNCHANGED vars
  BY <1>1, SameUnbinding DEF vars, IInv, AsksInv, BoundInv, IsSock, IsGrants,
     BindingsLive, NoBindingOfDead, NoBindingOfRevoked, Live
<1>2. ASSUME NEW s \in Slots, Arrive(s) \/ Handler(s) PROVE IInv'
  BY <1>2, ArriveKeeps, AdmitKeeps, BindKeeps, UnbindRevokedKeeps, ReplyKeeps, ReleaseKeeps
     DEF Handler
<1>3. ASSUME NEW p \in PeersOf(MaxSockets), Sender(p) \/ Disconnected(p) PROVE IInv'
  BY <1>3, SenderKeeps, DisconnectedKeeps
<1>4. ASSUME NEW c \in Conns, PeerConnected(c) \/ PeerDisconnected(c) PROVE IInv'
  BY <1>4, RelayKeeps
<1>5. CASE SessionCloses \/ SessionOpens
  BY <1>5, RelayKeeps
<1>6. ASSUME NEW c \in Ctls, GrantChanges(c) \/ GrantsChanged(c) PROVE IInv'
  BY <1>6, GrantKeeps
<1>. QED BY <1>1, <1>2, <1>3, <1>4, <1>5, <1>6, PublishKeeps, SendSpareKeeps DEF Next

LEMMA InitIInv == Init => IInv
BY DEF Init, IInv, IsSock, IsGrants, AsksInv, BoundInv, BindingsLive, NoBindingOfDead,
   NoBindingOfRevoked

-----------------------------------------------------------------------------
(* Once a peer's disconnect callback has run nothing is bound to it, and   *)
(* once whoever revoked a grant has unbound it nothing speaks for it,      *)
(* whatever request of that peer or that controller is still in its        *)
(* handler (relay_v2.go 132, gate.go).                                     *)
THEOREM BindingsEnd == Spec => []BindingsLive
<1>1. Spec => []IInv
  BY InitIInv, NextKeeps, PTL DEF Spec
<1>2. IInv => BindingsLive
  BY DEF IInv
<1>. QED BY <1>1, <1>2, PTL
================================================================================
