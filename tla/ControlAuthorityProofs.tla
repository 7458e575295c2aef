----------------------- MODULE ControlAuthorityProofs -----------------------
(***************************************************************************)
(* For any controllers, windows, counters, caps and failures:              *)
(*                                                                         *)
(*  - Check and Accept spend a counter for good, and no other (first part);*)
(*  - the types hold, memory is what a restart reads, and a signed command *)
(*    is executed at most once (IInv).  Once the watched command has run,  *)
(*    EVERY disk a restart or power cut may find either belongs to another *)
(*    identity, or the envelope is past its lifetime, or the record of its *)
(*    signer is there with the counter spent - and whenever that record    *)
(*    may be evicted, the lifetime is over;                                *)
(*  - who owns the device (OwnerInv, CeremonyInv).  Every disk a restart   *)
(*    may find has an active owner or revoked records only; each request   *)
(*    keeps ownership, takes it by an invitation or releases it (Answers); *)
(*  - the table of access requests (RequestsInv): every step but one takes *)
(*    entries away (Shrunk), and that one is below the caps.               *)
(***************************************************************************)
EXTENDS ControlAuthority, FiniteSetTheorems, TLAPS

(* Accept after Check yields a window again: no bit leaves the word.       *)
LEMMA AcceptType ==
  ASSUME NEW w \in Window, NEW c \in Nat, CheckCtr(w, c)
  PROVE  Accept(w, c) \in Window
<1>1. CASE c > w.hi
  <2>1. ShiftLeft(w.bits, c - w.hi) \union {0} \in SUBSET Bits
    BY WindowSizeAssumption DEF ShiftLeft, Bits
  <2>. QED BY <1>1, <2>1 DEF Accept, Window
<1>2. CASE ~(c > w.hi)
  <2>1. w.hi - c \in Bits
    BY <1>2, WindowSizeAssumption DEF CheckCtr, Window, Bits
  <2>2. Accept(w, c) = [w EXCEPT !.bits = w.bits \union {w.hi - c}]
    BY <1>2 DEF Accept
  <2>. QED BY <2>1, <2>2 DEF Window
<1>. QED BY <1>1, <1>2

(* Replay protection: an accepted counter is refused by the next window.   *)
THEOREM AcceptSpends ==
  ASSUME NEW w \in Window, NEW c \in Nat, CheckCtr(w, c)
  PROVE  ~CheckCtr(Accept(w, c), c)
<1>1. CASE c > w.hi
  <2>1. Accept(w, c) = [hi |-> c, bits |-> ShiftLeft(w.bits, c - w.hi) \union {0}]
    BY <1>1 DEF Accept
  <2>. QED BY <2>1 DEF CheckCtr
<1>2. CASE ~(c > w.hi)
  <2>1. Accept(w, c) = [w EXCEPT !.bits = w.bits \union {w.hi - c}]
    BY <1>2 DEF Accept
  <2>. QED BY <1>2, <2>1 DEF CheckCtr, Window
<1>. QED BY <1>1, <1>2

(* Spent for good: a counter the window refuses stays refused by every     *)
(* later window, whatever other counters are accepted in between.          *)
THEOREM SpentStays ==
  ASSUME NEW w \in Window, NEW c \in Nat, CheckCtr(w, c),
         NEW d \in Nat, ~CheckCtr(w, d)
  PROVE  ~CheckCtr(Accept(w, c), d)
<1>. USE WindowSizeAssumption
<1>1. w.hi \in Nat /\ w.bits \subseteq Bits
  BY DEF Window
<1>2. CASE d < 1
  BY <1>2 DEF CheckCtr
<1>3. CASE d >= 1
  <2>1. d <= w.hi
    BY <1>1, <1>3 DEF CheckCtr
  <2>2. CASE c > w.hi
    <3>1. Accept(w, c) = [hi |-> c, bits |-> ShiftLeft(w.bits, c - w.hi) \union {0}]
      BY <2>2 DEF Accept
    <3>2. CASE d + WindowSize <= w.hi
      BY <1>1, <2>1, <2>2, <3>1, <3>2 DEF CheckCtr
    <3>3. CASE w.hi - d \in w.bits
      <4>1. (c - d) - (c - w.hi) = w.hi - d
        BY <1>1
      <4>2. d + WindowSize > c => c - d \in ShiftLeft(w.bits, c - w.hi)
        BY <1>1, <2>1, <2>2, <3>3, <4>1 DEF ShiftLeft, Bits
      <4>. QED BY <1>1, <2>1, <2>2, <3>1, <4>2 DEF CheckCtr
    <3>. QED BY <1>1, <1>3, <2>1, <3>2, <3>3 DEF CheckCtr
  <2>3. CASE ~(c > w.hi)
    <3>1. Accept(w, c) = [w EXCEPT !.bits = w.bits \union {w.hi - c}]
      BY <2>3 DEF Accept
    <3>2. Accept(w, c).hi = w.hi /\ w.bits \subseteq Accept(w, c).bits
      BY <3>1 DEF Window
    <3>. QED BY <1>1, <3>2 DEF CheckCtr
  <2>. QED BY <2>2, <2>3
<1>. QED BY <1>2, <1>3

(* Delivery out of order: a counter still inside the moved window and not  *)
(* the one accepted is not lost.                                           *)
THEOREM OthersStayFresh ==
  ASSUME NEW w \in Window, NEW c \in Nat, CheckCtr(w, c),
         NEW d \in Nat, CheckCtr(w, d), d # c, d + WindowSize > c
  PROVE  CheckCtr(Accept(w, c), d)
<1>. USE WindowSizeAssumption
<1>1. w.hi \in Nat /\ w.bits \subseteq Bits
  BY DEF Window
<1>2. CASE c > w.hi
  <2>1. Accept(w, c) = [hi |-> c, bits |-> ShiftLeft(w.bits, c - w.hi) \union {0}]
    BY <1>2 DEF Accept
  <2>2. (c - d) - (c - w.hi) = w.hi - d
    BY <1>1
  <2>3. d > w.hi \/ w.hi - d \notin w.bits
    BY <1>1 DEF CheckCtr
  <2>4. d <= c => c - d \notin ShiftLeft(w.bits, c - w.hi) \union {0}
    BY <1>1, <1>2, <2>2, <2>3 DEF ShiftLeft, Bits
  <2>. QED BY <1>1, <2>1, <2>4 DEF CheckCtr
<1>3. CASE ~(c > w.hi)
  <2>1. Accept(w, c) = [w EXCEPT !.bits = w.bits \union {w.hi - c}]
    BY <1>3 DEF Accept
  <2>2. Accept(w, c).hi = w.hi /\ Accept(w, c).bits = w.bits \union {w.hi - c}
    BY <2>1 DEF Window
  <2>3. w.hi - d # w.hi - c
    BY <1>1
  <2>. QED BY <1>1, <2>2, <2>3 DEF CheckCtr
<1>. QED BY <1>2, <1>3

(* The store never locks itself: a valid window stays valid.               *)
THEOREM AcceptValid ==
  ASSUME NEW w \in Window, NEW c \in Nat, CheckCtr(w, c), ValidWindow(w)
  PROVE  ValidWindow(Accept(w, c))
<1>. USE WindowSizeAssumption
<1>1. w.hi \in Nat /\ w.bits \subseteq Bits /\ c >= 1
  BY DEF Window, CheckCtr
<1>2. CASE c > w.hi
  <2>1. Accept(w, c) = [hi |-> c, bits |-> ShiftLeft(w.bits, c - w.hi) \union {0}]
    BY <1>2 DEF Accept
  <2>2. ASSUME NEW i \in ShiftLeft(w.bits, c - w.hi) PROVE i < c
    BY <1>1, <1>2, <2>2 DEF ShiftLeft, ValidWindow, Bits
  <2>. QED BY <1>1, <2>1, <2>2 DEF ValidWindow
<1>3. CASE ~(c > w.hi)
  <2>1. Accept(w, c) = [w EXCEPT !.bits = w.bits \union {w.hi - c}]
    BY <1>3 DEF Accept
  <2>2. Accept(w, c).hi = w.hi /\ Accept(w, c).bits = w.bits \union {w.hi - c}
    BY <2>1 DEF Window
  <2>. QED BY <1>1, <1>3, <2>2 DEF ValidWindow
<1>. QED BY <1>2, <1>3

-----------------------------------------------------------------------------
(* The retention outlives every envelope the record has admitted.          *)
LongRetention == Retention >= Skew + Lifetime + Grace

(* The watched envelope has run out; a claim clock may still let it in.    *)
Over == now > Watched.iat + Lifetime + Grace

(* The records gs remember that the watched envelope was spent.            *)
Kept(gs) ==
  /\ Watched.ctl \in DOMAIN gs
  /\ ~CheckCtr(gs[Watched.ctl].window, Watched.ctr)
  /\ gs[Watched.ctl].revokedAt # 0 =>
       Watched.iat <= gs[Watched.ctl].revokedAt + Skew
  /\ gs[Watched.ctl].expiresAt # 0 =>
       Watched.iat <= gs[Watched.ctl].expiresAt + Skew

SpentOn(d) == d.dir = "ok" /\ d.gen = Watched.gen => Over \/ Kept(d.grants)

StoreType ==
  /\ now \in Nat \ {0} /\ gens \in Nat
  /\ lock \in {"down", "none", "retired", "locked"}
  /\ IsMap(grants, Grant)
  /\ IsDisk(disk) /\ disk \in maybe /\ \A d \in maybe : IsDisk(d)
  /\ runs \in Nat

CeremonyType ==
  /\ inv \in [id : Nat, expiresAt : Nat] /\ issued \in Nat
  /\ IsMap(pending, Pending) /\ IsMap(denied, Nat) /\ lastNew \in Nat
  /\ refused \in BOOLEAN /\ claimed \in BOOLEAN

Generations == \A d \in maybe : d.gen <= gens

Once ==
  LongRetention =>
    /\ OpenLag = 0 => runs <= 1
    /\ runs > 0 => /\ Watched.iat <= now + Skew
                   /\ Watched.gen <= gens
                   /\ \A d \in maybe : SpentOn(d)

(* A process that is not serving holds no records.                         *)
DownIsEmpty == lock # "none" => grants = Nothing

StoreInv == StoreType /\ MemoryIsDisk /\ DownIsEmpty /\ Generations /\ Once

IInv == StoreInv /\ CeremonyType

(* next differs from gs by what handlers do besides spending: new records, *)
(* new roles and times, evictions of expendable records.                   *)
Amends(gs, next) == \A x \in DOMAIN gs :
  \/ x \in Expendable(gs)
  \/ /\ x \in DOMAIN next
     /\ next[x].window = gs[x].window
     /\ next[x].revokedAt \in {0, now, gs[x].revokedAt}
     /\ \/ next[x].expiresAt \in {0, gs[x].expiresAt}
        \/ next[x].expiresAt > now

-----------------------------------------------------------------------------
(* Maps.                                                                   *)

LEMMA WatchedType == /\ Watched.ctl \in Ctl /\ Watched.ctr \in Nat \ {0}
                     /\ Watched.iat \in Nat /\ Watched.gen \in Nat
BY ControlAssumption

LEMMA EmptyMap == ASSUME NEW S PROVE IsMap(Nothing, S)
BY DEF IsMap, Nothing

LEMMA PutMap ==
  ASSUME NEW S, NEW f, IsMap(f, S), NEW c \in Ctl, NEW r \in S
  PROVE  IsMap(Put(f, c, r), S)
BY DEF IsMap, Put

LEMMA DropMap ==
  ASSUME NEW S, NEW f, IsMap(f, S), NEW T
  PROVE  /\ IsMap(Drop(f, T), S)
         /\ DOMAIN Drop(f, T) = DOMAIN f \ T
         /\ \A x \in DOMAIN f \ T : Drop(f, T)[x] = f[x]
BY DEF IsMap, Drop

LEMMA ExceptMap ==
  ASSUME NEW S, NEW f, IsMap(f, S), NEW c \in DOMAIN f, NEW r \in S
  PROVE  /\ IsMap([f EXCEPT ![c] = r], S)
         /\ DOMAIN [f EXCEPT ![c] = r] = DOMAIN f
         /\ [f EXCEPT ![c] = r][c] = r
         /\ \A x \in DOMAIN f \ {c} : [f EXCEPT ![c] = r][x] = f[x]
BY DEF IsMap

(* Spending a counter keeps the types and moves the window of c only.      *)
LEMMA SpendMap ==
  ASSUME NEW gs, IsMap(gs, Grant), NEW c \in DOMAIN gs, NEW n \in Nat,
         CheckCtr(gs[c].window, n)
  PROVE  /\ IsMap(Spend(gs, c, n), Grant)
         /\ DOMAIN Spend(gs, c, n) = DOMAIN gs
         /\ Spend(gs, c, n)[c].window = Accept(gs[c].window, n)
         /\ Spend(gs, c, n)[c].role = gs[c].role
         /\ Spend(gs, c, n)[c].expiresAt = gs[c].expiresAt
         /\ Spend(gs, c, n)[c].revokedAt = gs[c].revokedAt
         /\ \A x \in DOMAIN gs \ {c} : Spend(gs, c, n)[x] = gs[x]
<1>1. gs[c] \in Grant /\ gs[c].window \in Window
  BY DEF IsMap, Grant
<1>2. Accept(gs[c].window, n) \in Window
  BY <1>1, AcceptType
<1>. DEFINE r == [gs[c] EXCEPT !.window = Accept(gs[c].window, n)]
<1>3. /\ r \in Grant
      /\ r.window = Accept(gs[c].window, n) /\ r.role = gs[c].role
      /\ r.expiresAt = gs[c].expiresAt /\ r.revokedAt = gs[c].revokedAt
  BY <1>1, <1>2 DEF Grant
<1>4. Spend(gs, c, n) = [gs EXCEPT ![c] = r]
  BY DEF Spend, IsMap
<1>. HIDE DEF r
<1>5. /\ IsMap([gs EXCEPT ![c] = r], Grant)
      /\ DOMAIN [gs EXCEPT ![c] = r] = DOMAIN gs
      /\ [gs EXCEPT ![c] = r][c] = r
      /\ \A x \in DOMAIN gs \ {c} : [gs EXCEPT ![c] = r][x] = gs[x]
  BY <1>3, ExceptMap, Zenon
<1>6. QED BY <1>3, <1>4, <1>5, Zenon

LEMMA PendingSpendMap ==
  ASSUME NEW p, IsMap(p, Pending), NEW c \in DOMAIN p, NEW n \in Nat,
         CheckCtr(p[c].window, n)
  PROVE  IsMap([p EXCEPT ![c].window = Accept(@, n)], Pending)
<1>1. p[c] \in Pending /\ p[c].window \in Window
  BY DEF IsMap, Pending
<1>2. Accept(p[c].window, n) \in Window
  BY <1>1, AcceptType
<1>. DEFINE r == [p[c] EXCEPT !.window = Accept(p[c].window, n)]
<1>3. r \in Pending
  BY <1>1, <1>2 DEF Pending
<1>4. [p EXCEPT ![c].window = Accept(@, n)] = [p EXCEPT ![c] = r]
  BY DEF IsMap
<1>. HIDE DEF r
<1>5. QED BY <1>3, <1>4, ExceptMap

-----------------------------------------------------------------------------
(* Windows remember the watched envelope.                                  *)

(* A record of the signer that remembers it keeps doing so when any of the *)
(* signer's counters, or anybody's, are spent.                             *)
LEMMA KeptSpend ==
  ASSUME NEW gs, IsMap(gs, Grant), NEW c \in DOMAIN gs, NEW n \in Nat,
         CheckCtr(gs[c].window, n), Kept(gs)
  PROVE  Kept(Spend(gs, c, n))
<1>. DEFINE w == Watched.ctl
<1>1. /\ gs[c] \in Grant /\ gs[c].window \in Window
      /\ Watched.ctr \in Nat
  BY WatchedType DEF IsMap, Grant
<1>2. CASE w = c
  <2>1. ~CheckCtr(Accept(gs[c].window, n), Watched.ctr)
    BY <1>1, <1>2, SpentStays DEF Kept
  <2>2. /\ c \in DOMAIN Spend(gs, c, n)
        /\ Spend(gs, c, n)[c].window = Accept(gs[c].window, n)
        /\ Spend(gs, c, n)[c].expiresAt = gs[c].expiresAt
        /\ Spend(gs, c, n)[c].revokedAt = gs[c].revokedAt
    BY SpendMap
  <2>. QED BY <1>2, <2>1, <2>2 DEF Kept
<1>3. CASE w # c
  <2>1. w \in DOMAIN gs \ {c}
    BY <1>3 DEF Kept
  <2>2. /\ DOMAIN Spend(gs, c, n) = DOMAIN gs
        /\ \A x \in DOMAIN gs \ {c} : Spend(gs, c, n)[x] = gs[x]
    BY SpendMap
  <2>. QED BY <2>1, <2>2 DEF Kept
<1>. QED BY <1>2, <1>3

(* Executing it makes the record of its active signer remember it.         *)
LEMMA SpendKeeps ==
  ASSUME NEW gs, IsMap(gs, Grant), Watched.ctl \in DOMAIN gs,
         CheckCtr(gs[Watched.ctl].window, Watched.ctr),
         now \in Nat, Active(gs[Watched.ctl]), Watched.iat <= now + Skew
  PROVE  Kept(Spend(gs, Watched.ctl, Watched.ctr))
<1>. DEFINE c == Watched.ctl
            n == Watched.ctr
            next == Spend(gs, c, n)
<1>1. n \in Nat /\ gs[c] \in Grant /\ gs[c].window \in Window
  BY WatchedType DEF IsMap, Grant
<1>2. c \in DOMAIN next
  BY <1>1, SpendMap
<1>3. ~CheckCtr(Accept(gs[c].window, n), n)
  BY <1>1, AcceptSpends
<1>4. /\ next[c].window = Accept(gs[c].window, n)
      /\ next[c].revokedAt = gs[c].revokedAt
      /\ next[c].expiresAt = gs[c].expiresAt
  BY <1>1, SpendMap
<1>5. gs[c].revokedAt = 0 /\ (gs[c].expiresAt # 0 => now < gs[c].expiresAt)
  BY DEF Active
<1>6. gs[c].expiresAt \in Nat /\ Watched.iat \in Nat /\ Skew \in Nat
  BY <1>1, WatchedType, ControlAssumption DEF Grant
<1>7. gs[c].expiresAt # 0 => Watched.iat <= gs[c].expiresAt + Skew
  BY <1>5, <1>6
<1>. QED BY <1>2, <1>3, <1>4, <1>5, <1>7 DEF Kept

(* Handlers amend the records around it, or its lifetime is over.          *)
LEMMA AmendsKeeps ==
  ASSUME NEW gs, IsMap(gs, Grant), NEW next, IsMap(next, Grant),
         Amends(gs, next), Kept(gs), LongRetention,
         now \in Nat, Watched.iat <= now + Skew
  PROVE  Over \/ Kept(next)
<1>. DEFINE c == Watched.ctl
<1>1. c \in DOMAIN gs /\ gs[c] \in Grant
  BY DEF Kept, IsMap
<1>2. /\ gs[c].revokedAt \in Nat /\ gs[c].expiresAt \in Nat
      /\ Watched.iat \in Nat /\ Skew \in Nat /\ Lifetime \in Nat
      /\ Grace \in Nat /\ OpenLag \in Nat /\ Retention \in Nat
  BY <1>1, WatchedType, ControlAssumption DEF Grant
<1>3. CASE c \in Expendable(gs)
  <2>1. ~Active(gs[c]) /\ now - InactiveSince(gs[c]) > Retention
    BY <1>3 DEF Expendable
  <2>2. Watched.iat <= InactiveSince(gs[c]) + Skew /\ InactiveSince(gs[c]) \in Nat
    BY <1>2, <2>1 DEF Kept, InactiveSince, Active
  <2>. QED BY <1>2, <2>1, <2>2 DEF LongRetention, Over
<1>4. CASE c \notin Expendable(gs)
  <2>1. /\ c \in DOMAIN next
        /\ next[c].window = gs[c].window
        /\ next[c].revokedAt \in {0, now, gs[c].revokedAt}
        /\ \/ next[c].expiresAt \in {0, gs[c].expiresAt}
           \/ next[c].expiresAt > now
    BY <1>1, <1>4 DEF Amends
  <2>2. next[c].expiresAt \in Nat
    BY <2>1 DEF IsMap, Grant
  <2>3. next[c].revokedAt # 0 => Watched.iat <= next[c].revokedAt + Skew
    BY <2>1 DEF Kept
  <2>4. next[c].expiresAt # 0 => Watched.iat <= next[c].expiresAt + Skew
    BY <1>2, <2>1, <2>2 DEF Kept
  <2>. QED BY <2>1, <2>3, <2>4 DEF Kept
<1>. QED BY <1>3, <1>4

-----------------------------------------------------------------------------
(* One write of the store.                                                 *)

LEMMA UpdatePreserves ==
  ASSUME StoreInv, lock = "none", NEW next, IsMap(next, Grant), NEW wr,
         Update(next, wr), UNCHANGED <<now, gens, lock>>, runs' \in Nat,
         wr # "ok" => runs' = runs,
         LongRetention /\ runs > 0 /\ disk.gen = Watched.gen => Over \/ Kept(next),
         LongRetention /\ runs' # runs =>
            /\ OpenLag = 0 => runs = 0 /\ runs' = 1
            /\ wr = "ok" /\ disk.gen = Watched.gen /\ Watched.iat <= now + Skew
            /\ Over \/ Kept(next)
  PROVE  StoreInv'
<1>1. CASE Committed(wr)
  <2>1. /\ grants' = next /\ disk' = [disk EXCEPT !.grants = next]
        /\ maybe' \subseteq maybe \union {disk'} /\ disk' \in maybe'
        /\ wr = "ok" => \A d \in maybe' : d = disk' \/ d.dir = "absent"
    BY <1>1 DEF Update
  <2>2. /\ disk.dir = "ok" /\ ~disk.tomb /\ IsDisk(disk) /\ disk \in maybe
    BY DEF StoreInv, StoreType, MemoryIsDisk
  <2>3. /\ disk'.dir = "ok" /\ ~disk'.tomb /\ disk'.gen = disk.gen
        /\ disk'.grants = next
    BY <2>1, <2>2 DEF IsDisk
  <2>4. IsDisk(disk')
    BY <2>1, <2>2, <2>3 DEF IsDisk
  <2>5. StoreType'
    <3>1. \A d \in maybe' : IsDisk(d)
      BY <2>1, <2>4 DEF StoreInv, StoreType
    <3>2. IsDisk(disk)' /\ (\A d \in maybe : IsDisk(d))'
      BY <2>4, <3>1 DEF IsDisk, IsMap
    <3>3. IsMap(grants, Grant)'
      BY <2>1 DEF IsMap
    <3>. QED BY <2>1, <3>2, <3>3 DEF StoreInv, StoreType
  <2>6. MemoryIsDisk'
    BY <2>1, <2>3 DEF MemoryIsDisk
  <2>7. Generations'
    BY <2>1, <2>2, <2>3 DEF StoreInv, Generations
  <2>8. LongRetention =>
          (OpenLag = 0 => runs' <= 1) /\ (runs' > 0 => Watched.iat <= now + Skew /\ Watched.gen <= gens)
    BY <2>2 DEF StoreInv, Once, Generations, StoreType
  <2>9. ASSUME LongRetention, runs' > 0, NEW d \in maybe' PROVE SpentOn(d)'
    <3>1. CASE runs' = runs
      BY <2>1, <2>3, <2>9, <3>1 DEF StoreInv, Once, SpentOn, Kept, Over
    <3>2. CASE runs' # runs
      BY <2>1, <2>3, <2>9, <3>2 DEF SpentOn, Kept, Over
    <3>. QED BY <3>1, <3>2
  <2>. QED BY <2>5, <2>6, <2>7, <2>8, <2>9 DEF StoreInv, Once, DownIsEmpty
<1>2. CASE ~Committed(wr)
  <2>1. UNCHANGED <<disk, maybe, grants, now, gens, lock>> /\ runs' = runs
    BY <1>2 DEF Update, store, Committed
  <2>. QED BY <2>1 DEF StoreInv, StoreType, MemoryIsDisk, DownIsEmpty, Generations, Once,
                       SpentOn, Kept, Over, IsDisk, IsMap
<1>. QED BY <1>1, <1>2

(* Every handler that spends a counter of a record: the write it makes     *)
(* preserves the store's invariant, whether or not it executes a command.  *)
LEMMA SpendingStep ==
  ASSUME StoreInv,
         NEW c \in Ctl, NEW n \in Nat, NEW iat \in Nat, NEW wr, Fresh(c, n),
         NEW next, IsMap(next, Grant), Amends(Spend(grants, c, n), next),
         Update(next, wr), UNCHANGED <<now, gens, lock>>,
         \/ runs' = runs
         \/ Executes(c, n, iat, wr) /\ InTime(iat) /\ Active(grants[c])
  PROVE  StoreInv'
<1>. DEFINE gs == Spend(grants, c, n)
<1>1. /\ lock = "none" /\ c \in DOMAIN grants /\ CheckCtr(grants[c].window, n)
      /\ IsMap(grants, Grant) /\ now \in Nat \ {0}
      /\ disk \in maybe /\ disk.dir = "ok" /\ grants = disk.grants
      /\ runs \in Nat
  BY DEF Fresh, StoreInv, StoreType, MemoryIsDisk
<1>2. IsMap(gs, Grant)
  BY <1>1, SpendMap
<1>3. LongRetention /\ runs > 0 => Watched.iat <= now + Skew
  BY DEF StoreInv, Once
<1>4. LongRetention /\ runs > 0 /\ disk.gen = Watched.gen => Over \/ Kept(grants)
  BY <1>1 DEF StoreInv, Once, SpentOn
<1>5. ASSUME LongRetention, runs > 0, disk.gen = Watched.gen
      PROVE  Over \/ Kept(next)
  <2>1. CASE Kept(grants)
    <3>1. Kept(gs)
      BY <1>1, <2>1, KeptSpend
    <3>. QED BY <1>1, <1>2, <1>3, <1>5, <3>1, AmendsKeeps
  <2>. QED BY <1>4, <1>5, <2>1
<1>6. ASSUME LongRetention, runs' # runs
      PROVE  /\ OpenLag = 0 => runs = 0 /\ runs' = 1
             /\ wr = "ok" /\ disk.gen = Watched.gen /\ Watched.iat <= now + Skew
             /\ Over \/ Kept(next)
  <2>1. /\ wr = "ok" /\ IsWatched(c, n, iat) /\ runs' = runs + 1
        /\ InTime(iat) /\ Active(grants[c])
    BY <1>6 DEF Executes
  <2>2. /\ c = Watched.ctl /\ n = Watched.ctr /\ iat = Watched.iat
        /\ disk.gen = Watched.gen
    BY <2>1 DEF IsWatched
  <2>3. Watched.iat <= now + Skew /\ (OpenLag = 0 => ~Over)
    <3>1. PICK t \in ClaimClocks : t <= iat + Lifetime + Grace /\ iat <= t + Skew
      BY <2>1 DEF InTime
    <3>2. t \in Nat /\ t <= now /\ t >= now - OpenLag
      BY <1>1, <3>1 DEF ClaimClocks
    <3>. QED BY <1>1, <2>2, <3>1, <3>2, WatchedType, ControlAssumption DEF Over
  <2>4. OpenLag = 0 => runs = 0
    BY <1>1, <1>4, <1>6, <2>2, <2>3 DEF Kept
  <2>5. Kept(gs)
    BY <1>1, <2>1, <2>2, <2>3, SpendKeeps
  <2>6. Over \/ Kept(next)
    BY <1>1, <1>2, <1>6, <2>3, <2>5, AmendsKeeps
  <2>. QED BY <2>1, <2>2, <2>3, <2>4, <2>6
<1>7. runs' \in Nat /\ (wr # "ok" => runs' = runs)
  BY <1>1 DEF Executes
<1>. QED BY <1>1, <1>5, <1>6, <1>7, UpdatePreserves

LEMMA AmendsSelf == ASSUME NEW gs PROVE Amends(gs, gs)
BY DEF Amends

LEMMA LiveType ==
  ASSUME CeremonyType PROVE IsMap(Live, Pending) /\ IsMap(Denies, Nat)
BY DropMap DEF CeremonyType, Live, Denies

(* The handlers that only spend the counter of a record.                   *)
LEMMA SpendOnlyStep ==
  ASSUME IInv,
         NEW c \in Ctl, NEW n \in Nat, NEW iat \in Nat, NEW wr,
         Fresh(c, n), SpendOnly(c, n, wr),
         \/ runs' = runs
         \/ Executes(c, n, iat, wr) /\ InTime(iat) /\ Active(grants[c]),
         refused' \in BOOLEAN, claimed' \in BOOLEAN
  PROVE  IInv'
<1>. DEFINE gs == Spend(grants, c, n)
<1>1. IsMap(gs, Grant)
  BY SpendMap DEF Fresh, IInv, StoreInv, StoreType
<1>2. StoreInv'
  BY <1>1, AmendsSelf, SpendingStep DEF SpendOnly, IInv
<1>3. CeremonyType'
  BY LiveType DEF IInv, CeremonyType, SpendOnly, Pruned, IsMap
<1>. QED BY <1>2, <1>3 DEF IInv

(* The control commands: one write, then the ceremony tables.              *)
LEMMA CommitStep ==
  ASSUME IInv,
         NEW c \in Ctl, NEW n \in Nat, NEW iat \in Nat, NEW wr,
         Fresh(c, n), InTime(iat), Active(grants[c]),
         NEW next, IsMap(next, Grant), Amends(Spend(grants, c, n), next),
         NEW pend, IsMap(pend, Pending), NEW deny, IsMap(deny, Nat),
         Commit(c, n, iat, wr, next, pend, deny), claimed' \in BOOLEAN
  PROVE  IInv'
<1>1. StoreInv'
  BY SpendingStep DEF Commit, IInv
<1>2. IsMap(pending', Pending) /\ IsMap(denied', Nat)
  BY LiveType DEF Commit, IInv
<1>3. CeremonyType'
  BY <1>2 DEF IInv, CeremonyType, Commit, IsMap
<1>. QED BY <1>1, <1>3 DEF IInv

(* What leaves the store, the clock and the counts alone.                  *)
LEMMA StoreFrame ==
  ASSUME StoreInv, UNCHANGED <<now, gens, lock, store, runs>> PROVE StoreInv'
BY DEF StoreInv, StoreType, MemoryIsDisk, DownIsEmpty, Generations, Once, SpentOn, Kept,
       Over, IsDisk, IsMap, store

LEMMA SpendPendingStep ==
  ASSUME IInv, NEW c \in Ctl, NEW n \in Nat, FreshPending(c, n), SpendPending(c, n)
  PROVE  IInv'
<1>1. IsMap(pending', Pending)
  BY LiveType, PendingSpendMap DEF FreshPending, SpendPending, IInv
<1>2. StoreInv'
  BY StoreFrame DEF SpendPending, IInv, history
<1>3. IsMap(denied', Nat)
  BY LiveType DEF SpendPending, IInv
<1>4. CeremonyType'
  BY <1>1, <1>3 DEF IInv, CeremonyType, SpendPending, IsMap, history
<1>. QED BY <1>2, <1>4 DEF IInv

-----------------------------------------------------------------------------
(* The commands.                                                           *)

LEMMA RefusalSteps ==
  ASSUME IInv, NEW c \in Ctl, NEW n \in Nat, NEW iat \in Nat, NEW wr, NEW tier,
         \/ RefuseFutureIat(c, n, iat, wr)
         \/ RefuseCmd(c, n, iat, tier, wr)
         \/ ListControllers(c, n, iat, wr)
         \/ FailCommand(c, n, iat, wr)
  PROVE  IInv'
<1>. refused \in BOOLEAN /\ claimed \in BOOLEAN
  BY DEF IInv, CeremonyType
<1>1. CASE RefuseFutureIat(c, n, iat, wr)
  <2>1. CASE FreshPending(c, n) /\ SpendPending(c, n)
    BY <2>1, SpendPendingStep
  <2>2. CASE /\ Fresh(c, n) /\ SpendOnly(c, n, wr) /\ UNCHANGED <<runs, claimed>>
             /\ refused' = (refused \/ (Committed(wr) /\ IsWatched(c, n, iat)))
    BY <2>2, SpendOnlyStep
  <2>. QED BY <1>1, <2>1, <2>2 DEF RefuseFutureIat
<1>2. CASE RefuseCmd(c, n, iat, tier, wr)
  BY <1>2, SpendOnlyStep DEF RefuseCmd
<1>3. CASE FailCommand(c, n, iat, wr)
  BY <1>3, SpendOnlyStep DEF FailCommand, OwnerSigned
<1>4. CASE ListControllers(c, n, iat, wr)
  <2>1. /\ Fresh(c, n) /\ InTime(iat) /\ Active(grants[c])
    BY <1>4 DEF ListControllers, OwnerSigned, Authorized
  <2>2. IsMap(Spend(grants, c, n), Grant)
    BY <2>1, SpendMap DEF Fresh, IInv, StoreInv, StoreType
  <2>. QED BY <1>4, <2>1, <2>2, LiveType, AmendsSelf, CommitStep
           DEF ListControllers, IInv
<1>. QED BY <1>1, <1>2, <1>3, <1>4

LEMMA AdmitStep ==
  ASSUME IInv, NEW c \in Ctl, NEW n \in Nat, NEW iat \in Nat, NEW wr, NEW tier,
         AdmitCmd(c, n, iat, tier, wr)
  PROVE  IInv'
<1>1. refused' \in BOOLEAN /\ claimed' \in BOOLEAN
  BY DEF IInv, CeremonyType, AdmitCmd
<1>2. /\ Fresh(c, n) /\ SpendOnly(c, n, wr) /\ InTime(iat) /\ Active(grants[c])
      /\ Executes(c, n, iat, wr)
  BY DEF AdmitCmd, Authorized
<1>. QED BY <1>1, <1>2, SpendOnlyStep

(* What an owner's command starts from.                                    *)
LEMMA SignedFacts ==
  ASSUME IInv, NEW c \in Ctl, NEW n \in Nat, NEW iat \in Nat,
         Fresh(c, n), InTime(iat), NEW tier, Authorized(c, tier)
  PROVE  /\ Active(grants[c]) /\ c \in DOMAIN grants
         /\ IsMap(Spend(grants, c, n), Grant)
         /\ IsMap(Live, Pending) /\ IsMap(Denies, Nat)
         /\ now \in Nat \ {0} /\ claimed \in BOOLEAN
<1>1. Active(grants[c]) /\ c \in DOMAIN grants
  BY DEF Fresh, Authorized
<1>2. IsMap(Spend(grants, c, n), Grant)
  BY <1>1, SpendMap DEF Fresh, IInv, StoreInv, StoreType
<1>. QED BY <1>1, <1>2, LiveType DEF IInv, CeremonyType, StoreInv, StoreType

(* A record changed in place: its role, its expiry, how it came to be.     *)
LEMMA InPlace ==
  ASSUME NEW gs, IsMap(gs, Grant), NEW x \in DOMAIN gs, NEW role \in Role,
         NEW exp \in Nat, exp = 0 \/ exp > now
  PROVE  LET next == [gs EXCEPT ![x].role = role, ![x].expiresAt = exp,
                                ![x].byInv = FALSE]
         IN  IsMap(next, Grant) /\ Amends(gs, next)
<1>. DEFINE r == [gs[x] EXCEPT !.role = role, !.expiresAt = exp, !.byInv = FALSE]
            next == [gs EXCEPT ![x].role = role, ![x].expiresAt = exp,
                               ![x].byInv = FALSE]
<1>1. gs[x] \in Grant
  BY DEF IsMap
<1>2. /\ r \in Grant /\ r.window = gs[x].window
      /\ r.revokedAt = gs[x].revokedAt /\ r.expiresAt = exp
  BY <1>1 DEF Grant
<1>3. next = [gs EXCEPT ![x] = r]
  BY <1>1 DEF IsMap, Grant
<1>. HIDE DEF r
<1>4. /\ IsMap(next, Grant) /\ DOMAIN next = DOMAIN gs /\ next[x] = r
      /\ \A y \in DOMAIN gs \ {x} : next[y] = gs[y]
  BY <1>2, <1>3, ExceptMap, Zenon
<1>. HIDE DEF next
<1>5. Amends(gs, next)
  BY <1>2, <1>4 DEF Amends
<1>. QED BY <1>4, <1>5 DEF next

(* A new record, a reactivated one, or one put in the place of another.    *)
LEMMA PutGrantMap ==
  ASSUME NEW gs, IsMap(gs, Grant), NEW x \in Ctl, NEW g \in Grant,
         g.revokedAt = 0, g.expiresAt = 0 \/ g.expiresAt > now,
         NEW next \in PutGrant(gs, x, g)
  PROVE  IsMap(next, Grant) /\ Amends(gs, next)
<1>1. CASE x \in DOMAIN gs
  <2>. DEFINE r == [g EXCEPT !.window = gs[x].window]
  <2>1. gs[x] \in Grant
    BY <1>1 DEF IsMap
  <2>2. /\ r \in Grant /\ r.window = gs[x].window
        /\ r.revokedAt = 0 /\ r.expiresAt = g.expiresAt
    BY <2>1 DEF Grant
  <2>3. next = Put(gs, x, r)
    BY <1>1 DEF PutGrant
  <2>. HIDE DEF r
  <2>4. IsMap(next, Grant)
    BY <2>2, <2>3, PutMap
  <2>5. /\ DOMAIN next = DOMAIN gs \union {x} /\ next[x] = r
        /\ \A y \in DOMAIN gs \ {x} : next[y] = gs[y]
    BY <2>3 DEF Put
  <2>. QED BY <1>1, <2>2, <2>4, <2>5 DEF Amends
<1>2. CASE x \notin DOMAIN gs /\ Cardinality(DOMAIN gs) < MaxRecords
  <2>1. next = Put(gs, x, g)
    BY <1>2 DEF PutGrant
  <2>2. IsMap(next, Grant)
    BY <2>1, PutMap
  <2>3. /\ DOMAIN next = DOMAIN gs \union {x}
        /\ \A y \in DOMAIN gs \ {x} : next[y] = gs[y]
    BY <2>1 DEF Put
  <2>. QED BY <1>2, <2>2, <2>3 DEF Amends
<1>3. CASE x \notin DOMAIN gs /\ ~(Cardinality(DOMAIN gs) < MaxRecords)
  <2>1. PICK e \in Evictable(gs) : next = Put(Drop(gs, {e}), x, g)
    BY <1>3 DEF PutGrant
  <2>2. e \in Expendable(gs)
    BY <2>1 DEF Evictable
  <2>. DEFINE kept == Drop(gs, {e})
  <2>3. /\ IsMap(kept, Grant) /\ DOMAIN kept = DOMAIN gs \ {e}
        /\ \A y \in DOMAIN gs \ {e} : kept[y] = gs[y]
    BY DropMap
  <2>. HIDE DEF kept
  <2>4. next = Put(kept, x, g)
    BY <2>1 DEF kept
  <2>5. IsMap(next, Grant)
    BY <2>3, <2>4, PutMap
  <2>6. /\ DOMAIN next = DOMAIN kept \union {x}
        /\ \A y \in DOMAIN kept \ {x} : next[y] = kept[y]
    BY <2>4 DEF Put
  <2>7. \A y \in DOMAIN gs \ {e} : y \in DOMAIN next /\ next[y] = gs[y]
    BY <1>3, <2>3, <2>6
  <2>. QED BY <2>2, <2>5, <2>7 DEF Amends
<1>. QED BY <1>1, <1>2, <1>3

LEMMA ApproveSteps ==
  ASSUME IInv, NEW c \in Ctl, NEW n \in Nat, NEW iat \in Nat, NEW wr,
         NEW x \in Ctl, NEW role \in Role, NEW exp \in Nat,
         \/ ApproveInPlace(c, n, iat, x, role, exp, wr)
         \/ ApprovePending(c, n, iat, x, role, exp, wr)
  PROVE  IInv'
<1>. DEFINE gs == Spend(grants, c, n)
<1>1. Fresh(c, n) /\ InTime(iat) /\ Authorized(c, "owner")
  BY DEF ApproveInPlace, ApprovePending, OwnerSigned
<1>2. /\ Active(grants[c]) /\ IsMap(gs, Grant) /\ IsMap(Live, Pending)
      /\ IsMap(Denies, Nat) /\ claimed \in BOOLEAN
  BY <1>1, SignedFacts
<1>3. exp = 0 \/ exp > now
  BY DEF ApproveInPlace, ApprovePending, MayExpire
<1>4. CASE ApproveInPlace(c, n, iat, x, role, exp, wr)
  <2>. DEFINE next == [gs EXCEPT ![x].role = role, ![x].expiresAt = exp,
                                 ![x].byInv = FALSE]
  <2>1. x \in DOMAIN gs /\ Commit(c, n, iat, wr, next, Live, Denies)
        /\ claimed' = claimed
    BY <1>4 DEF ApproveInPlace
  <2>. HIDE DEF gs
  <2>2. IsMap(next, Grant) /\ Amends(gs, next)
    BY <1>2, <1>3, <2>1, InPlace
  <2>. HIDE DEF next
  <2>. QED BY <1>1, <1>2, <2>1, <2>2, CommitStep DEF gs
<1>5. CASE ApprovePending(c, n, iat, x, role, exp, wr)
  <2>. DEFINE g == [role |-> role, enc |-> Live[x].enc, byInv |-> FALSE,
                    expiresAt |-> exp, revokedAt |-> 0, window |-> Live[x].window]
  <2>1. PICK next \in PutGrant(gs, x, g) :
          Commit(c, n, iat, wr, next, Drop(Live, {x}), Denies)
    BY <1>5 DEF ApprovePending
  <2>2. x \in DOMAIN Live /\ claimed' = claimed
    BY <1>5 DEF ApprovePending
  <2>3. g \in Grant /\ g.revokedAt = 0 /\ g.expiresAt = exp
    BY <1>2, <2>2 DEF IsMap, Pending, Grant
  <2>. HIDE DEF g, gs
  <2>4. IsMap(next, Grant) /\ Amends(gs, next)
    BY <1>2, <1>3, <2>1, <2>3, PutGrantMap
  <2>5. IsMap(Drop(Live, {x}), Pending)
    BY <1>2, DropMap
  <2>. QED BY <1>1, <1>2, <2>1, <2>2, <2>4, <2>5, CommitStep DEF gs
<1>. QED BY <1>4, <1>5

LEMMA RegisterStep ==
  ASSUME IInv, NEW c \in Ctl, NEW n \in Nat, NEW iat \in Nat, NEW wr,
         NEW x \in Ctl, NEW key \in Keys, NEW role \in Role, NEW exp \in Nat,
         RegisterController(c, n, iat, x, key, role, exp, wr)
  PROVE  IInv'
<1>. DEFINE gs == Spend(grants, c, n)
            held == IF x \in DOMAIN Live THEN Live[x].window ELSE EmptyWindow
            fresh == [role |-> role, enc |-> key, byInv |-> FALSE,
                      expiresAt |-> exp, revokedAt |-> 0, window |-> held]
            inPlace == x \in DOMAIN gs /\ Active(gs[x])
            changed == [gs EXCEPT ![x].role = role, ![x].expiresAt = exp,
                                  ![x].byInv = FALSE]
<1>1. /\ Fresh(c, n) /\ InTime(iat) /\ Authorized(c, "owner")
      /\ exp = 0 \/ exp > now
      /\ claimed' = claimed
  BY DEF RegisterController, OwnerSigned, MayExpire
<1>2. /\ Active(grants[c]) /\ IsMap(gs, Grant) /\ IsMap(Live, Pending)
      /\ IsMap(Denies, Nat) /\ claimed \in BOOLEAN
  BY <1>1, SignedFacts
<1>3. PICK next \in IF inPlace THEN {changed} ELSE PutGrant(gs, x, fresh) :
        Commit(c, n, iat, wr, next, Drop(Live, {x}), Drop(Denies, {x}))
  BY DEF RegisterController
<1>4. held \in Window
  BY <1>2 DEF IsMap, Pending, Window, EmptyWindow
<1>5. fresh \in Grant /\ fresh.revokedAt = 0 /\ fresh.expiresAt = exp
  BY <1>4 DEF Grant
<1>. HIDE DEF gs, held, fresh
<1>6. IsMap(next, Grant) /\ Amends(gs, next)
  <2>1. CASE inPlace
    <3>1. x \in DOMAIN gs /\ next = changed
      BY <1>3, <2>1
    <3>. QED BY <1>1, <1>2, <3>1, InPlace
  <2>2. CASE ~inPlace
    <3>1. next \in PutGrant(gs, x, fresh)
      BY <1>3, <2>2
    <3>. QED BY <1>1, <1>2, <1>5, <3>1, PutGrantMap
  <2>. QED BY <2>1, <2>2
<1>7. IsMap(Drop(Live, {x}), Pending) /\ IsMap(Drop(Denies, {x}), Nat)
  BY <1>2, DropMap
<1>. QED BY <1>1, <1>2, <1>3, <1>6, <1>7, CommitStep DEF gs

(* Revocation now, of any set of records.                                  *)
LEMMA RevokedMap ==
  ASSUME NEW gs, IsMap(gs, Grant), now \in Nat, NEW T,
         NEW next, next = [y \in DOMAIN gs |->
           IF y \in T THEN [gs[y] EXCEPT !.revokedAt = now] ELSE gs[y]]
  PROVE  IsMap(next, Grant) /\ Amends(gs, next)
<1>1. DOMAIN next = DOMAIN gs
  OBVIOUS
<1>2. ASSUME NEW y \in DOMAIN gs
      PROVE  /\ next[y] \in Grant /\ next[y].window = gs[y].window
             /\ next[y].revokedAt \in {now, gs[y].revokedAt}
             /\ next[y].expiresAt = gs[y].expiresAt
  <2>1. gs[y] \in Grant
    BY DEF IsMap
  <2>2. CASE y \in T
    <3>. DEFINE r == [gs[y] EXCEPT !.revokedAt = now]
    <3>1. next[y] = r
      BY <2>2
    <3>2. /\ r \in Grant /\ r.window = gs[y].window /\ r.revokedAt = now
          /\ r.expiresAt = gs[y].expiresAt
      BY <2>1 DEF Grant
    <3>. HIDE DEF r
    <3>. QED BY <3>1, <3>2
  <2>3. CASE y \notin T
    BY <2>1, <2>3
  <2>. QED BY <2>2, <2>3
<1>3. IsMap(next, Grant)
  <2>1. next = [y \in DOMAIN next |-> next[y]]
    OBVIOUS
  <2>. QED BY <1>1, <1>2, <2>1 DEF IsMap
<1>. QED BY <1>1, <1>2, <1>3 DEF Amends

LEMMA RevokeStep ==
  ASSUME IInv, NEW c \in Ctl, NEW n \in Nat, NEW iat \in Nat, NEW wr, NEW x \in Ctl,
         RevokeController(c, n, iat, x, wr)
  PROVE  IInv'
<1>. DEFINE gs == Spend(grants, c, n)
            next == IF \/ x \in DOMAIN gs /\ Active(gs[x])
                       \/ x \in DOMAIN gs /\ gs[x].revokedAt = 0 /\ ~Active(gs[x])
                      THEN [gs EXCEPT ![x].revokedAt = now] ELSE gs
            denies == ~(x \in DOMAIN gs /\ Active(gs[x])) /\ x \in DOMAIN Live
            pend == IF denies THEN Drop(Live, {x}) ELSE Live
            deny == IF denies THEN Put(Denies, x, Live[x].expiresAt) ELSE Denies
<1>1. /\ Fresh(c, n) /\ InTime(iat)
      /\ Authorized(c, "owner") \/ Authorized(c, "controller")
      /\ claimed' = claimed
  BY DEF RevokeController
<1>2. /\ Active(grants[c]) /\ IsMap(gs, Grant) /\ IsMap(Live, Pending)
      /\ IsMap(Denies, Nat) /\ now \in Nat /\ claimed \in BOOLEAN
  BY <1>1, SignedFacts
<1>3. Commit(c, n, iat, wr, next, pend, deny)
  BY DEF RevokeController
<1>4. IsMap(pend, Pending)
  BY <1>2, DropMap
<1>5. IsMap(deny, Nat)
  <2>1. CASE denies
    <3>1. Live[x].expiresAt \in Nat
      BY <1>2, <2>1 DEF IsMap, Pending
    <3>. QED BY <1>2, <2>1, <3>1, PutMap
  <2>. QED BY <1>2, <2>1
<1>. HIDE DEF gs, pend, deny
<1>6. IsMap(next, Grant) /\ Amends(gs, next)
  <2>1. CASE next = gs
    BY <1>2, <2>1, AmendsSelf
  <2>2. CASE next # gs
    <3>1. next = [gs EXCEPT ![x].revokedAt = now]
      BY <2>2
    <3>2. gs = [y \in DOMAIN gs |-> gs[y]]
      BY <1>2 DEF IsMap
    <3>3. next = [y \in DOMAIN gs |->
             IF y \in {x} THEN [gs[y] EXCEPT !.revokedAt = now] ELSE gs[y]]
      BY <3>1, <3>2
    <3>. HIDE DEF next
    <3>. QED BY <1>2, <3>3, RevokedMap
  <2>. QED BY <2>1, <2>2
<1>. HIDE DEF next
<1>. QED BY <1>1, <1>2, <1>3, <1>4, <1>5, <1>6, CommitStep DEF gs

LEMMA ReleaseStep ==
  ASSUME IInv, NEW c \in Ctl, NEW n \in Nat, NEW iat \in Nat, NEW wr,
         ReleaseOwnership(c, n, iat, wr)
  PROVE  IInv'
<1>. DEFINE gs == Spend(grants, c, n)
            T == {y \in DOMAIN gs : gs[y].revokedAt = 0}
<1>1. /\ Fresh(c, n) /\ InTime(iat) /\ Authorized(c, "owner")
      /\ Commit(c, n, iat, wr, Released(gs), Nothing, Nothing)
      /\ claimed' = (claimed /\ ~Committed(wr))
  BY DEF ReleaseOwnership, OwnerSigned
<1>2. /\ Active(grants[c]) /\ IsMap(gs, Grant) /\ now \in Nat
      /\ claimed \in BOOLEAN
  BY <1>1, SignedFacts
<1>. HIDE DEF gs
<1>3. Released(gs) = [y \in DOMAIN gs |->
        IF y \in T THEN [gs[y] EXCEPT !.revokedAt = now] ELSE gs[y]]
  BY DEF Released
<1>4. IsMap(Released(gs), Grant) /\ Amends(gs, Released(gs))
  <2>. HIDE DEF T
  <2>. QED BY <1>2, <1>3, RevokedMap
<1>5. IsMap(Nothing, Pending) /\ IsMap(Nothing, Nat)
  BY EmptyMap
<1>6. claimed' \in BOOLEAN
  BY <1>1, <1>2
<1>. QED BY <1>1, <1>2, <1>4, <1>5, <1>6, CommitStep DEF gs

-----------------------------------------------------------------------------
(* Enrolment and access requests.                                          *)

LEMMA EnrollApprovedStep ==
  ASSUME IInv, NEW c \in Ctl, NEW n \in Nat, NEW iat \in Nat, NEW wr,
         EnrollApproved(c, n, iat, wr)
  PROVE  IInv'
<1>. refused \in BOOLEAN /\ claimed \in BOOLEAN
  BY DEF IInv, CeremonyType
<1>1. CASE Fresh(c, n) /\ SpendOnly(c, n, wr) /\ UNCHANGED history
  BY <1>1, SpendOnlyStep DEF history
<1>2. CASE FreshPending(c, n) /\ SpendPending(c, n)
  BY <1>2, SpendPendingStep
<1>. QED BY <1>1, <1>2 DEF EnrollApproved

LEMMA EnrollRefusedStep ==
  ASSUME IInv, NEW c \in Ctl, NEW n \in Nat, NEW iat \in Nat, NEW wr,
         NEW key, NEW offer, NEW v2, EnrollRefused(c, n, iat, key, offer, v2, wr)
  PROVE  IInv'
<1>1. /\ lock = "none" /\ UNCHANGED <<now, gens, lock, issued, lastNew, history>>
      /\ inv' \in {NoInv, inv}
  BY DEF EnrollRefused
<1>2. StoreInv' /\ IsMap(pending', Pending) /\ IsMap(denied', Nat)
  <2>1. CASE c \in DOMAIN grants
    <3>1. Fresh(c, n) /\ Update(Spend(grants, c, n), wr) /\ Pruned
      BY <2>1 DEF EnrollRefused
    <3>2. IsMap(Spend(grants, c, n), Grant)
      BY <2>1, <3>1, SpendMap DEF Fresh, IInv, StoreInv, StoreType
    <3>3. StoreInv'
      BY <1>1, <3>1, <3>2, AmendsSelf, SpendingStep DEF IInv, history
    <3>. QED BY <3>1, <3>3, LiveType DEF Pruned, IInv
  <2>2. CASE c \notin DOMAIN grants
    <3>1. /\ c \in DOMAIN Live => CheckCtr(Live[c].window, n)
          /\ pending' = IF c \in DOMAIN Live
                          THEN [Live EXCEPT ![c].window = Accept(@, n)]
                          ELSE Live
          /\ denied' = Denies
          /\ UNCHANGED store
      BY <2>2 DEF EnrollRefused
    <3>2. StoreInv'
      BY <1>1, <3>1, StoreFrame DEF IInv, history
    <3>3. IsMap(pending', Pending)
      BY <3>1, LiveType, PendingSpendMap DEF IInv
    <3>. QED BY <3>1, <3>2, <3>3, LiveType DEF IInv
  <2>. QED BY <2>1, <2>2
<1>3. inv' \in [id : Nat, expiresAt : Nat]
  BY <1>1 DEF IInv, CeremonyType, NoInv
<1>4. CeremonyType'
  BY <1>1, <1>2, <1>3 DEF IInv, CeremonyType, IsMap, history
<1>. QED BY <1>2, <1>4 DEF IInv

(* A write that only amends the records keeps the store's invariant.       *)
LEMMA AmendingStep ==
  ASSUME StoreInv, lock = "none", NEW next, IsMap(next, Grant), NEW wr,
         Amends(grants, next), Update(next, wr), UNCHANGED <<now, gens, lock, runs>>
  PROVE  StoreInv'
<1>1. /\ IsMap(grants, Grant) /\ now \in Nat /\ runs \in Nat
      /\ disk \in maybe /\ disk.dir = "ok" /\ grants = disk.grants
  BY DEF StoreInv, StoreType, MemoryIsDisk
<1>2. ASSUME LongRetention, runs > 0, disk.gen = Watched.gen
      PROVE  Over \/ Kept(next)
  <2>1. Watched.iat <= now + Skew /\ (Over \/ Kept(grants))
    BY <1>1, <1>2 DEF StoreInv, Once, SpentOn
  <2>. QED BY <1>1, <1>2, <2>1, AmendsKeeps
<1>. QED BY <1>1, <1>2, UpdatePreserves

LEMMA FirstOwnerMap ==
  ASSUME NEW gs, IsMap(gs, Grant), NEW c \in Ctl, NEW key \in Keys, NEW w \in Window,
         c \in DOMAIN gs => gs[c].window = w
  PROVE  /\ IsMap(WithFirstOwner(gs, c, key, w), Grant)
         /\ Amends(gs, WithFirstOwner(gs, c, key, w))
<1>. DEFINE r == [role |-> "owner", enc |-> key, byInv |-> TRUE,
                  expiresAt |-> 0, revokedAt |-> 0, window |-> w]
            next == Put(gs, c, r)
<1>1. r \in Grant /\ r.window = w /\ r.revokedAt = 0 /\ r.expiresAt = 0
  BY DEF Grant, Role
<1>2. WithFirstOwner(gs, c, key, w) = next
  BY DEF WithFirstOwner
<1>. HIDE DEF r
<1>3. IsMap(next, Grant)
  BY <1>1, PutMap
<1>4. /\ DOMAIN next = DOMAIN gs \union {c} /\ next[c] = r
      /\ \A y \in DOMAIN gs \ {c} : next[y] = gs[y]
  BY DEF Put
<1>. HIDE DEF next
<1>5. Amends(gs, next)
  BY <1>1, <1>4 DEF Amends
<1>. QED BY <1>2, <1>3, <1>5

LEMMA FirstOwnerStep ==
  ASSUME IInv, NEW c \in Ctl, NEW n \in Nat, NEW iat \in Nat, NEW wr,
         NEW key \in Keys, NEW offer, EnrollFirstOwner(c, n, iat, key, offer, wr)
  PROVE  IInv'
<1>. DEFINE window == IF c \in DOMAIN grants THEN grants[c].window
                      ELSE IF c \in DOMAIN Live THEN Live[c].window
                      ELSE EmptyWindow
            w == Accept(window, n)
            next == WithFirstOwner(grants, c, key, w)
<1>1. /\ State = "legacy" /\ CheckCtr(window, n) /\ Update(next, wr)
      /\ claimed' = (claimed \/ wr = "ok") /\ Pruned /\ SpendInvitation(wr)
      /\ UNCHANGED <<now, gens, lock, issued, lastNew, runs, refused>>
  BY DEF EnrollFirstOwner, InvitationAccepted
<1>2. /\ lock = "none" /\ IsMap(grants, Grant) /\ IsMap(Live, Pending)
      /\ IsMap(Denies, Nat)
  BY <1>1, LiveType DEF State, IInv, StoreInv, StoreType
<1>3. window \in Window
  <2>1. CASE c \in DOMAIN grants
    BY <1>2, <2>1 DEF IsMap, Grant
  <2>2. CASE c \notin DOMAIN grants /\ c \in DOMAIN Live
    BY <1>2, <2>2 DEF IsMap, Pending
  <2>3. CASE c \notin DOMAIN grants /\ c \notin DOMAIN Live
    BY <2>3 DEF Window, EmptyWindow
  <2>. QED BY <2>1, <2>2, <2>3
<1>4. w \in Window
  <2>. HIDE DEF window
  <2>. QED BY <1>1, <1>3, AcceptType
<1>5. StoreInv'
  <2>1. CASE c \in DOMAIN grants
    <3>. DEFINE gs == Spend(grants, c, n)
    <3>1. Fresh(c, n) /\ window = grants[c].window
      BY <1>1, <1>2, <2>1 DEF Fresh
    <3>2. IsMap(gs, Grant) /\ DOMAIN gs = DOMAIN grants /\ gs[c].window = w
      BY <1>2, <2>1, <3>1, SpendMap DEF Fresh
    <3>3. next = WithFirstOwner(gs, c, key, w)
      <4>1. \A y \in DOMAIN grants \ {c} : gs[y] = grants[y]
        BY <1>2, <2>1, <3>1, SpendMap DEF Fresh
      <4>. HIDE DEF gs, w
      <4>. QED BY <3>2, <4>1 DEF WithFirstOwner, Put
    <3>. HIDE DEF gs, w, next
    <3>4. IsMap(next, Grant) /\ Amends(gs, next)
      BY <1>4, <3>2, <3>3, FirstOwnerMap
    <3>. QED BY <1>1, <3>1, <3>4, SpendingStep DEF IInv, gs
  <2>2. CASE c \notin DOMAIN grants
    <3>. HIDE DEF w
    <3>1. IsMap(next, Grant) /\ Amends(grants, next)
      BY <1>2, <1>4, <2>2, FirstOwnerMap
    <3>. HIDE DEF next
    <3>. QED BY <1>1, <1>2, <3>1, AmendingStep DEF IInv
  <2>. QED BY <2>1, <2>2
<1>6. inv' \in [id : Nat, expiresAt : Nat]
  BY <1>1 DEF IInv, CeremonyType, SpendInvitation, NoInv
<1>7. CeremonyType'
  BY <1>1, <1>2, <1>6 DEF IInv, CeremonyType, IsMap, Pruned
<1>. QED BY <1>5, <1>7 DEF IInv

LEMMA AskedType ==
  ASSUME IInv, NEW c \in Ctl, NEW key \in Keys, NEW src \in Sources \union {Unknown},
         NEW w \in Window
  PROVE  Asked(c, key, src, w) \in Pending
<1>1. now \in Nat /\ PendTTL \in Nat /\ PendMaxLife \in Nat
  BY ControlAssumption DEF IInv, StoreInv, StoreType
<1>2. c \in DOMAIN Live => /\ Live[c].createdAt \in Nat
                           /\ Live[c].src \in Sources \union {Unknown}
  BY LiveType DEF IInv, IsMap, Pending
<1>. QED BY <1>1, <1>2 DEF Asked, Pending

LEMMA RequestStep ==
  ASSUME IInv, NEW c \in Ctl, NEW n \in Nat, NEW iat \in Nat, NEW wr, NEW key \in Keys,
         NEW lan, NEW src \in Sources \union {Unknown},
         RequestAccess(c, n, iat, key, lan, src, wr)
  PROVE  IInv'
<1>. DEFINE held == IF c \in DOMAIN Live THEN Live[c].window ELSE EmptyWindow
            known == c \in DOMAIN grants
            w == IF known THEN held ELSE Accept(held, n)
<1>1. /\ lock = "none" /\ denied' = Denies
      /\ pending' = IF Committed(wr) THEN Put(Live, c, Asked(c, key, src, w))
                                     ELSE Live
      /\ lastNew' \in {now, lastNew}
      /\ UNCHANGED <<now, gens, lock, inv, issued, history>>
      /\ known => Fresh(c, n) /\ Update(Spend(grants, c, n), wr)
      /\ ~known => CheckCtr(held, n) /\ UNCHANGED store
  BY DEF RequestAccess
<1>2. IsMap(Live, Pending) /\ IsMap(Denies, Nat)
  BY LiveType DEF IInv
<1>3. held \in Window
  BY <1>2 DEF IsMap, Pending, Window, EmptyWindow
<1>4. w \in Window
  <2>. HIDE DEF held
  <2>. QED BY <1>1, <1>3, AcceptType
<1>5. IsMap(pending', Pending)
  <2>. HIDE DEF w
  <2>1. Asked(c, key, src, w) \in Pending
    BY <1>4, AskedType
  <2>2. IsMap(Put(Live, c, Asked(c, key, src, w)), Pending)
    BY <1>2, <2>1, PutMap
  <2>. QED BY <1>1, <1>2, <2>2
<1>6. StoreInv'
  <2>1. CASE known
    <3>1. IsMap(Spend(grants, c, n), Grant)
      BY <1>1, <2>1, SpendMap DEF Fresh, IInv, StoreInv, StoreType
    <3>. QED BY <1>1, <2>1, <3>1, AmendsSelf, SpendingStep DEF IInv, history
  <2>2. CASE ~known
    BY <1>1, <2>2, StoreFrame DEF IInv, history
  <2>. QED BY <2>1, <2>2
<1>7. lastNew' \in Nat
  BY <1>1 DEF IInv, CeremonyType, StoreInv, StoreType
<1>8. CeremonyType'
  BY <1>1, <1>2, <1>5, <1>7 DEF IInv, CeremonyType, IsMap, history
<1>. QED BY <1>6, <1>8 DEF IInv

LEMMA RequestAnsweredStep ==
  ASSUME IInv, NEW c \in Ctl, NEW n \in Nat, NEW iat \in Nat, NEW wr, NEW lan, NEW src,
         RequestAnswered(c, n, iat, lan, src, wr)
  PROVE  IInv'
<1>. refused \in BOOLEAN /\ claimed \in BOOLEAN
  BY DEF IInv, CeremonyType
<1>1. CASE Fresh(c, n) /\ SpendOnly(c, n, wr) /\ UNCHANGED history
  BY <1>1, SpendOnlyStep DEF history
<1>2. CASE FreshPending(c, n) /\ SpendPending(c, n)
  BY <1>2, SpendPendingStep
<1>. QED BY <1>1, <1>2 DEF RequestAnswered

LEMMA CeremonySteps ==
  ASSUME IInv, AnswerOnly \/ IssueInvitation \/ ClearInvitation
  PROVE  IInv'
<1>1. StoreInv'
  BY StoreFrame DEF IInv, AnswerOnly, IssueInvitation, ClearInvitation, history
<1>2. CASE AnswerOnly
  <2>1. CeremonyType'
    BY <1>2, LiveType DEF IInv, CeremonyType, AnswerOnly, Pruned, IsMap, history
  <2>. QED BY <1>1, <2>1 DEF IInv
<1>3. CASE IssueInvitation \/ ClearInvitation
  <2>1. now \in Nat /\ InvTTL \in Nat
    BY ControlAssumption DEF IInv, StoreInv, StoreType
  <2>2. CeremonyType'
    BY <1>3, <2>1 DEF IInv, CeremonyType, IssueInvitation, ClearInvitation,
                      NoInv, IsMap, history, requests
  <2>. QED BY <1>1, <2>2 DEF IInv
<1>. QED BY <1>2, <1>3

-----------------------------------------------------------------------------
(* Factory reset, crashes, starts and time.                                *)

LEMMA ForgetType ==
  /\ IsMap(Nothing, Grant) /\ IsMap(Nothing, Pending) /\ IsMap(Nothing, Nat)
  /\ NoInv \in [id : Nat, expiresAt : Nat]
BY EmptyMap DEF NoInv

LEMMA RetireSteps ==
  ASSUME IInv, NEW del, RetireUnconfirmed \/ Retire(del) PROVE IInv'
<1>1. /\ lock' = "retired" /\ grants' = Nothing /\ inv' = NoInv /\ pending' = Nothing
      /\ UNCHANGED <<now, gens, issued, denied, lastNew, runs, refused, claimed>>
  BY DEF RetireUnconfirmed, Retire, Forget, history
<1>2. CeremonyType'
  BY <1>1, ForgetType DEF IInv, CeremonyType, IsMap
<1>3. IsDisk(disk) /\ disk \in maybe /\ \A d \in maybe : IsDisk(d)
  BY DEF IInv, StoreInv, StoreType
<1>4. ASSUME NEW d \in maybe, NEW t \in BOOLEAN
      PROVE  LET e == [d EXCEPT !.tomb = t]
             IN  /\ IsDisk(e) /\ e.dir = d.dir /\ e.gen = d.gen
                 /\ e.grants = d.grants
  BY <1>3 DEF IsDisk
<1>5. /\ IsDisk(disk') /\ disk' \in maybe' /\ disk'.gen = disk.gen
      /\ disk'.dir = "ok" => disk'.dir = disk.dir /\ disk'.grants = disk.grants
  <2>1. CASE RetireUnconfirmed
    <3>1. disk' = [disk EXCEPT !.tomb = TRUE] /\ disk' \in maybe'
      BY <2>1 DEF RetireUnconfirmed
    <3>. QED BY <1>3, <1>4, <3>1
  <2>2. CASE Retire(del)
    <3>1. disk' \in maybe'
      BY <2>2 DEF Retire
    <3>2. PICK r \in {"absent", "partial"} :
            disk' = [disk EXCEPT !.tomb = TRUE, !.dir = r]
      BY <2>2 DEF Retire
    <3>. QED BY <1>3, <3>1, <3>2 DEF IsDisk
  <2>. QED BY <2>1, <2>2
<1>6. \A e \in maybe' \ {disk'} : \E d \in maybe :
         e = d \/ e = [d EXCEPT !.tomb = TRUE]
  BY DEF RetireUnconfirmed, Retire
<1>7. ASSUME NEW e \in maybe'
      PROVE  /\ IsDisk(e)
             /\ \E d \in maybe :
                  /\ e.gen = d.gen
                  /\ e.dir = "ok" => e.dir = d.dir /\ e.grants = d.grants
  <2>1. CASE e = disk'
    BY <1>3, <1>5, <2>1
  <2>2. CASE e # disk'
    <3>1. PICK d \in maybe : e = d \/ e = [d EXCEPT !.tomb = TRUE]
      BY <1>6, <2>2
    <3>. QED BY <1>3, <1>4, <3>1
  <2>. QED BY <2>1, <2>2
<1>8. StoreType'
  BY <1>1, <1>5, <1>7, ForgetType DEF IInv, StoreInv, StoreType
<1>9. MemoryIsDisk' /\ Generations'
  <2>1. \A d \in maybe : d.gen <= gens
    BY DEF Generations, IInv, StoreInv
  <2>2. ASSUME NEW e \in maybe' PROVE e.gen <= gens
    <3>1. PICK d \in maybe : e.gen = d.gen
      BY <1>7, Zenon
    <3>. QED BY <2>1, <3>1
  <2>. QED BY <1>1, <2>2 DEF MemoryIsDisk, Generations
<1>10. Once'
  <2>1. ASSUME LongRetention, runs > 0, NEW e \in maybe' PROVE SpentOn(e)'
    <3>1. PICK d \in maybe :
            /\ e.gen = d.gen
            /\ e.dir = "ok" => e.dir = d.dir /\ e.grants = d.grants
      BY <1>7
    <3>2. SpentOn(d)
      BY <2>1 DEF IInv, StoreInv, Once
    <3>3. SpentOn(e)
      BY <3>1, <3>2 DEF SpentOn
    <3>. QED BY <1>1, <3>3 DEF SpentOn, Kept, Over
  <2>. QED BY <1>1, <2>1 DEF IInv, StoreInv, Once
<1>. QED BY <1>1, <1>2, <1>8, <1>9, <1>10 DEF IInv, StoreInv, DownIsEmpty

LEMMA DownSteps ==
  ASSUME IInv, Restart \/ PowerCut PROVE IInv'
<1>1. /\ lock' = "down" /\ grants' = Nothing /\ inv' = NoInv /\ pending' = Nothing
      /\ denied' = Nothing /\ lastNew' = 0 /\ disk' \in maybe'
      /\ disk' \in maybe /\ maybe' \subseteq maybe
      /\ UNCHANGED <<now, gens, issued, runs, refused, claimed>>
  BY DEF Restart, PowerCut, GoDown, Forget, history, IInv, StoreInv, StoreType
<1>2. CeremonyType'
  BY <1>1, ForgetType DEF IInv, CeremonyType
<1>3. StoreType'
  BY <1>1, ForgetType DEF IInv, StoreInv, StoreType
<1>4. MemoryIsDisk' /\ Generations'
  BY <1>1 DEF MemoryIsDisk, Generations, IInv, StoreInv
<1>5. Once'
  BY <1>1 DEF IInv, StoreInv, Once, SpentOn, Kept, Over
<1>. QED BY <1>1, <1>2, <1>3, <1>4, <1>5 DEF IInv, StoreInv, DownIsEmpty

LEMMA LoadStep ==
  ASSUME IInv, Load PROVE IInv'
<1>1. /\ UNCHANGED <<now, gens, disk, maybe, ceremony, history>>
      /\ lock' \in {"none", "retired", "locked"}
      /\ lock' = "none" => /\ disk.dir = "ok" /\ ~disk.tomb
                           /\ grants' = disk.grants
      /\ lock' # "none" => grants' = Nothing
  BY DEF Load
<1>2. IsDisk(disk)
  BY DEF IInv, StoreInv, StoreType
<1>3. IsMap(grants', Grant)
  BY <1>1, <1>2, ForgetType DEF IsDisk
<1>4. StoreType' /\ MemoryIsDisk'
  BY <1>1, <1>3 DEF IInv, StoreInv, StoreType, MemoryIsDisk, IsDisk, IsMap, history
<1>5. Generations' /\ Once'
  BY <1>1 DEF IInv, StoreInv, Generations, Once, SpentOn, Kept, Over, history
<1>6. CeremonyType'
  BY <1>1 DEF IInv, CeremonyType, IsMap, ceremony, history
<1>. QED BY <1>1, <1>4, <1>5, <1>6 DEF IInv, StoreInv, DownIsEmpty

LEMMA CreateStep ==
  ASSUME IInv, NEW wr, Create(wr) PROVE IInv'
<1>. DEFINE born == [dir |-> "ok", tomb |-> FALSE, gen |-> gens + 1,
                     grants |-> Nothing]
<1>1. /\ UNCHANGED <<now, grants, ceremony, history>> /\ gens' = gens + 1
      /\ lock = "down" /\ lock' \in {"none", "locked"}
      /\ lock' = "none" => wr = "ok"
      /\ \/ ~Committed(wr) /\ UNCHANGED <<disk, maybe>>
         \/ /\ Committed(wr) /\ disk' = born /\ disk' \in maybe'
            /\ maybe' \subseteq maybe \union {born}
  BY DEF Create
<1>2. /\ gens \in Nat /\ IsDisk(disk) /\ disk \in maybe
      /\ \A d \in maybe : IsDisk(d) /\ d.gen <= gens
  BY DEF IInv, StoreInv, StoreType, Generations
<1>3. IsDisk(born) /\ born.gen = gens + 1 /\ born.grants = Nothing
  BY <1>2, ForgetType DEF IsDisk
<1>4. CeremonyType'
  BY <1>1 DEF IInv, CeremonyType, IsMap, ceremony, history
<1>. HIDE DEF born
<1>5. \A d \in maybe' : d \in maybe \/ d = born
  BY <1>1
<1>6. StoreType'
  <2>1. IsDisk(disk') /\ disk' \in maybe' /\ \A d \in maybe' : IsDisk(d)
    BY <1>1, <1>2, <1>3, <1>5
  <2>. QED BY <1>1, <1>2, <2>1 DEF IInv, StoreInv, StoreType, IsMap, history
<1>7. Generations'
  <2>1. \A d \in maybe : d.gen \in Nat
    BY <1>2 DEF IsDisk
  <2>. QED BY <1>1, <1>2, <1>3, <1>5, <2>1 DEF Generations
<1>8. Once'
  <2>1. LongRetention /\ runs > 0 => Watched.gen <= gens
    BY DEF IInv, StoreInv, Once
  <2>2. LongRetention /\ runs > 0 => SpentOn(born)
    BY <1>2, <1>3, <2>1, WatchedType DEF SpentOn
  <2>. QED BY <1>1, <1>2, <1>5, <2>1, <2>2, WatchedType
           DEF IInv, StoreInv, Once, SpentOn, Kept, Over, history
<1>9. MemoryIsDisk'
  <2>1. grants = Nothing
    BY <1>1 DEF IInv, StoreInv, DownIsEmpty
  <2>. QED BY <1>1, <2>1 DEF MemoryIsDisk, Committed, born
<1>. QED BY <1>1, <1>4, <1>6, <1>7, <1>8, <1>9 DEF IInv, StoreInv, DownIsEmpty

LEMMA TickStep ==
  ASSUME IInv, Tick PROVE IInv'
<1>1. /\ now \in Nat \ {0} /\ now' = now + 1
      /\ UNCHANGED <<gens, lock, disk, maybe, grants, ceremony, history>>
  BY DEF Tick, store, IInv, StoreInv, StoreType
<1>2. StoreType' /\ MemoryIsDisk' /\ DownIsEmpty' /\ Generations'
  BY <1>1 DEF IInv, StoreInv, StoreType, MemoryIsDisk, DownIsEmpty, Generations,
              IsDisk, IsMap, history
<1>3. Over => Over'
  BY <1>1, WatchedType, ControlAssumption DEF Over
<1>4. Watched.iat <= now + Skew => Watched.iat <= now' + Skew
  BY <1>1, WatchedType, ControlAssumption
<1>5. ASSUME NEW d, SpentOn(d) PROVE SpentOn(d)'
  BY <1>3, <1>5 DEF SpentOn, Kept
<1>6. Once'
  BY <1>1, <1>4, <1>5 DEF IInv, StoreInv, Once, history
<1>7. CeremonyType'
  BY <1>1 DEF IInv, CeremonyType, IsMap, ceremony, history
<1>. QED BY <1>2, <1>6, <1>7 DEF IInv, StoreInv

-----------------------------------------------------------------------------
(* The specification.                                                      *)

LEMMA InitIInv == Init => IInv
<1>. SUFFICES ASSUME Init PROVE IInv
  OBVIOUS
<1>1. IsDisk(disk) /\ maybe = {disk} /\ disk.gen = 0
  BY ForgetType DEF Init, IsDisk
<1>2. StoreType
  BY <1>1, ForgetType DEF Init, StoreType
<1>3. CeremonyType
  BY ForgetType DEF Init, CeremonyType
<1>4. MemoryIsDisk /\ DownIsEmpty /\ Generations /\ Once
  BY <1>1 DEF Init, MemoryIsDisk, DownIsEmpty, Generations, Once
<1>. QED BY <1>2, <1>3, <1>4 DEF IInv, StoreInv

LEMMA OpenSteps ==
  ASSUME IInv, NEW c \in Ctl, NEW n \in Nat, NEW iat \in Nat, NEW wr,
         \/ OpenCmd(c, n, iat, wr)
         \/ OpenEnroll(c, n, iat, wr)
         \/ OpenRequest(c, n, iat, wr)
  PROVE  IInv'
<1>1. CASE OpenCmd(c, n, iat, wr)
  <2>1. ASSUME NEW x \in Ctl, NEW role \in Role, NEW exp \in Expiries \union {0},
               \/ ApproveInPlace(c, n, iat, x, role, exp, wr)
               \/ ApprovePending(c, n, iat, x, role, exp, wr)
               \/ \E key \in Keys : RegisterController(c, n, iat, x, key, role, exp, wr)
        PROVE  IInv'
    <3>1. exp \in Nat
      BY ControlAssumption
    <3>. QED BY <2>1, <3>1, ApproveSteps, RegisterStep
  <2>. QED BY <1>1, <2>1, AdmitStep, RefusalSteps, RevokeStep, ReleaseStep
           DEF OpenCmd
<1>2. CASE OpenEnroll(c, n, iat, wr)
  BY <1>2, EnrollApprovedStep, EnrollRefusedStep, FirstOwnerStep DEF OpenEnroll
<1>3. CASE OpenRequest(c, n, iat, wr)
  BY <1>3, RequestStep, RequestAnsweredStep DEF OpenRequest
<1>. QED BY <1>1, <1>2, <1>3

LEMMA StutterStep == ASSUME IInv, UNCHANGED vars PROVE IInv'
<1>1. StoreInv'
  BY StoreFrame DEF vars, IInv, store
<1>2. CeremonyType'
  BY DEF vars, IInv, CeremonyType, IsMap
<1>. QED BY <1>1, <1>2 DEF IInv

LEMMA NextIInv == IInv /\ [Next]_vars => IInv'
<1>. SUFFICES ASSUME IInv, [Next]_vars PROVE IInv'
  OBVIOUS
<1>1. CASE Open
  <2>1. PICK c \in Ctl, n \in 1 .. MaxCtr, iat \in Times, wr \in Outcomes :
          \/ RefuseFutureIat(c, n, iat, wr)
          \/ OpenCmd(c, n, iat, wr)
          \/ OpenEnroll(c, n, iat, wr)
          \/ OpenRequest(c, n, iat, wr)
    BY <1>1, Zenon DEF Open
  <2>2. n \in Nat /\ iat \in Nat
    BY <2>1, ControlAssumption
  <2>. QED BY <2>1, <2>2, OpenSteps, RefusalSteps
<1>2. CASE AnswerOnly \/ IssueInvitation \/ ClearInvitation
  BY <1>2, CeremonySteps
<1>3. CASE Lifecycle
  BY <1>3, DownSteps, LoadStep, RetireSteps, CreateStep DEF Lifecycle
<1>4. CASE Tick
  BY <1>4, TickStep
<1>5. CASE UNCHANGED vars
  BY <1>5, StutterStep
<1>. QED BY <1>1, <1>2, <1>3, <1>4, <1>5 DEF Next

LEMMA Invariance == Spec => []IInv
BY InitIInv, NextIInv, PTL DEF Spec

(* Every variable keeps its type, whatever is delivered, fails or is lost. *)
THEOREM TypeCorrect == Spec => []TypeOK
<1>1. IInv => TypeOK
  BY DEF IInv, StoreInv, StoreType, CeremonyType, TypeOK
<1>. QED BY <1>1, Invariance, PTL

(* A serving store holds the records a restart of the process would read:  *)
(* no failed, unconfirmed or interrupted write of Store.Update, no reset   *)
(* and no start leaves memory and disk apart.                              *)
THEOREM MemoryFollowsDisk == Spec => []MemoryIsDisk
<1>1. IInv => MemoryIsDisk
  BY DEF IInv, StoreInv
<1>. QED BY <1>1, Invariance, PTL

(* An execution spends a counter that the record of the signer still took. *)
LEMMA ExecutionIsFresh ==
  ASSUME Next \/ UNCHANGED vars, runs' # runs
  PROVE  /\ disk.gen = Watched.gen
         /\ Fresh(Watched.ctl, Watched.ctr)
<1>1. PICK c \in Ctl, n \in 1 .. MaxCtr, iat \in Times, wr \in Outcomes : OpenCmd(c, n, iat, wr)
  <2>1. Open
    BY DEF Next, Lifecycle, AnswerOnly, IssueInvitation, ClearInvitation, Tick, Restart, PowerCut,
           GoDown, Load, RetireUnconfirmed, Retire, Create, history, vars
  <2>2. PICK c \in Ctl, n \in 1 .. MaxCtr, iat \in Times, wr \in Outcomes :
          \/ RefuseFutureIat(c, n, iat, wr) \/ OpenCmd(c, n, iat, wr)
          \/ OpenEnroll(c, n, iat, wr) \/ OpenRequest(c, n, iat, wr)
    BY <2>1 DEF Open
  <2>3. ~RefuseFutureIat(c, n, iat, wr)
    BY DEF RefuseFutureIat, SpendPending, history
  <2>4. ~OpenEnroll(c, n, iat, wr)
    BY DEF OpenEnroll, EnrollApproved, SpendPending, EnrollRefused, EnrollFirstOwner, history
  <2>5. ~OpenRequest(c, n, iat, wr)
    BY DEF OpenRequest, RequestAccess, RequestAnswered, SpendPending, history
  <2>. QED BY <2>2, <2>3, <2>4, <2>5
<1>2. Fresh(c, n) /\ Executes(c, n, iat, wr)
  <2>1. ~FailCommand(c, n, iat, wr) /\ \A tier \in Tiers : ~RefuseCmd(c, n, iat, tier, wr)
    BY DEF FailCommand, RefuseCmd
  <2>2. ASSUME NEW tier, AdmitCmd(c, n, iat, tier, wr) PROVE Fresh(c, n) /\ Executes(c, n, iat, wr)
    BY <2>2 DEF AdmitCmd
  <2>3. ASSUME OwnerSigned(c, n, iat) \/ Fresh(c, n), NEW gs, NEW pend, NEW deny,
               Commit(c, n, iat, wr, gs, pend, deny)
        PROVE  Fresh(c, n) /\ Executes(c, n, iat, wr)
    BY <2>3 DEF OwnerSigned, Commit
  <2>4. ASSUME ListControllers(c, n, iat, wr) \/ ReleaseOwnership(c, n, iat, wr)
        PROVE  Fresh(c, n) /\ Executes(c, n, iat, wr)
    BY <2>3, <2>4 DEF ListControllers, ReleaseOwnership
  <2>5. ASSUME NEW x, RevokeController(c, n, iat, x, wr) PROVE Fresh(c, n) /\ Executes(c, n, iat, wr)
    BY <2>5 DEF RevokeController, Commit
  <2>6. ASSUME NEW x, NEW role, NEW exp,
               ApproveInPlace(c, n, iat, x, role, exp, wr) \/ ApprovePending(c, n, iat, x, role, exp, wr)
        PROVE  Fresh(c, n) /\ Executes(c, n, iat, wr)
    BY <2>6 DEF ApproveInPlace, ApprovePending, OwnerSigned, Commit
  <2>7. ASSUME NEW x, NEW key, NEW role, NEW exp, RegisterController(c, n, iat, x, key, role, exp, wr)
        PROVE  Fresh(c, n) /\ Executes(c, n, iat, wr)
    BY <2>7 DEF RegisterController, OwnerSigned, Commit
  <2>. QED BY <1>1, <2>1, <2>2, <2>4, <2>5, <2>6, <2>7 DEF OpenCmd
<1>. QED BY <1>2 DEF Executes, IsWatched

(* Whatever controllers sign, deliver and deliver again, in any order, and *)
(* whatever writes fail or are undone by a power cut, revocation, eviction *)
(* and re-registration included: if an inactive record is kept as long as  *)
(* an envelope can live (admit.go 1197), the watched command runs again    *)
(* only after its envelope has run out, whatever the claim clock's lag; so *)
(* it runs at most once when the claims are checked against the present.   *)
THEOREM AtMostOnce ==
  ASSUME Retention >= Skew + Lifetime + Grace
  PROVE  Spec => RerunsAreLate /\ (OpenLag = 0 => []ExecutedAtMostOnce)
<1>. DEFINE IsLate == runs # 0 /\ runs' # runs => now > Watched.iat + Lifetime + Grace
<1>1. IInv /\ [Next]_vars => [IsLate]_vars
  <2>. SUFFICES ASSUME IInv, [Next]_vars, runs # 0, runs' # runs PROVE Over
    BY DEF Over
  <2>1. disk.gen = Watched.gen /\ Fresh(Watched.ctl, Watched.ctr)
    BY ExecutionIsFresh
  <2>2. lock = "none" /\ disk \in maybe /\ disk.dir = "ok" /\ grants = disk.grants /\ runs > 0
    BY <2>1 DEF Fresh, IInv, StoreInv, StoreType, MemoryIsDisk
  <2>3. Over \/ Kept(grants)
    BY <2>1, <2>2 DEF IInv, StoreInv, Once, SpentOn, LongRetention
  <2>. QED BY <2>1, <2>3 DEF Fresh, Kept
<1>2. OpenLag = 0 /\ IInv => ExecutedAtMostOnce
  BY DEF IInv, StoreInv, Once, LongRetention, ExecutedAtMostOnce
<1>3. CASE OpenLag = 0
  <2>1. IInv => ExecutedAtMostOnce
    BY <1>2, <1>3
  <2>. QED BY <1>1, <2>1, Invariance, PTL DEF Spec, RerunsAreLate
<1>4. CASE OpenLag # 0
  <2>1. Spec => RerunsAreLate
    BY <1>1, Invariance, PTL DEF Spec, RerunsAreLate
  <2>. QED BY <1>4, <2>1
<1>. QED BY <1>3, <1>4

-----------------------------------------------------------------------------
(* Part two: who owns the device.  Owners never expire, so whether a set   *)
(* of records has an owner (Rules) does not depend on the clock.  Every    *)
(* disk a restart or power cut may find is ruled, or holds revoked records *)
(* only; once a first owner has been told so, all of them are ruled.       *)

Rules(gs) == \E x \in DOMAIN gs : gs[x].role = "owner" /\ gs[x].revokedAt = 0

AllRevoked(gs) == \A x \in DOMAIN gs : gs[x].revokedAt # 0

OwnersStay(gs) == \A x \in DOMAIN gs : gs[x].role = "owner" => gs[x].expiresAt = 0

(* The rename that creates the directory is never left unconfirmed.        *)
ParentDurable == "unconfirmed" \notin CreateOutcomes

Unborn == \A d \in maybe : d.dir = "absent"
Born   == \A d \in maybe : d.tomb \/ d.dir # "absent"

OwnerInv ==
  /\ \A d \in maybe : OwnersStay(d.grants) /\ (Rules(d.grants) \/ AllRevoked(d.grants))
  /\ ParentDurable =>
       /\ Unborn \/ Born
       /\ claimed => \A d \in maybe : d.tomb \/ (d.dir = "ok" /\ Rules(d.grants))

(* What an answered request does to the records: the write wr of next, or  *)
(* none.                                                                   *)
Wrote(next, wr) == IF Committed(wr) THEN Update(next, wr) ELSE UNCHANGED store

(* A record that was revoked is active again in next: an owner signed for  *)
(* it, whose counter was spent, or an invitation let it in.                *)
LicensesAll(next) ==
  \A x \in DOMAIN grants \intersect DOMAIN next :
    grants[x].revokedAt # 0 /\ next[x].revokedAt = 0 =>
      IF State = "legacy" THEN InvitationLive
        ELSE \E o \in DOMAIN grants \ {x} :
               ActiveOwner(grants[o]) /\ next[o].window # grants[o].window

(* Ownership stays as it is; it is taken by an invitation; it is released. *)
Stays(next) ==
  /\ Rules(grants) <=> Rules(next)
  /\ AllRevoked(grants) => AllRevoked(next)
  /\ claimed' = claimed /\ inv' \in {inv, NoInv}
  /\ Rules(grants) \/ DOMAIN pending' \subseteq DOMAIN pending

Taken(next, wr) ==
  /\ State = "legacy" /\ Rules(next) /\ InvitationLive
  /\ claimed' = (claimed \/ wr = "ok") /\ SpendInvitation(wr)
  /\ DOMAIN pending' \subseteq DOMAIN pending

ReleasedBy(next, wr) ==
  /\ Rules(grants) /\ AllRevoked(next)
  /\ claimed' = (claimed /\ ~Committed(wr)) /\ inv' = inv
  /\ Committed(wr) => pending' = Nothing /\ denied' = Nothing

Answers(next, wr) ==
  /\ lock = "none" /\ Wrote(next, wr) /\ LicensesAll(next)
  /\ UNCHANGED <<now, gens, lock, issued>>
  /\ Stays(next) \/ Taken(next, wr) \/ ReleasedBy(next, wr)

CeremonyInv ==
  /\ inv # NoInv => lock = "none" /\ ~Rules(grants) /\ inv.id # 0
  /\ DOMAIN pending # {} => lock = "none" /\ Rules(grants)

-----------------------------------------------------------------------------
(* Sets of records with an owner.                                          *)

LEMMA RulerIsActive ==
  ASSUME NEW gs, OwnersStay(gs), NEW x \in DOMAIN gs
  PROVE  ActiveOwner(gs[x]) <=> gs[x].role = "owner" /\ gs[x].revokedAt = 0
BY DEF OwnersStay, ActiveOwner, Active

LEMMA HasOwnerRules ==
  ASSUME NEW gs, OwnersStay(gs) PROVE HasOwner(gs) <=> Rules(gs)
BY RulerIsActive DEF HasOwner, Rules

LEMMA StateRules ==
  IInv /\ OwnerInv =>
    /\ State = "enrolled" <=> lock = "none" /\ Rules(grants)
    /\ State = "legacy" <=> lock = "none" /\ ~Rules(grants)
    /\ lock = "none" => /\ OwnersStay(grants) /\ (Rules(grants) \/ AllRevoked(grants))
                        /\ grants = disk.grants /\ disk.dir = "ok" /\ ~disk.tomb
                        /\ disk \in maybe /\ IsDisk(disk) /\ IsMap(grants, Grant)
<1>. SUFFICES ASSUME IInv, OwnerInv
              PROVE  /\ State = "enrolled" <=> lock = "none" /\ Rules(grants)
                     /\ State = "legacy" <=> lock = "none" /\ ~Rules(grants)
                     /\ lock = "none" => /\ OwnersStay(grants) /\ (Rules(grants) \/ AllRevoked(grants))
                                         /\ grants = disk.grants /\ disk.dir = "ok" /\ ~disk.tomb
                                         /\ disk \in maybe /\ IsDisk(disk) /\ IsMap(grants, Grant)
  OBVIOUS
<1>1. ASSUME lock = "none"
      PROVE  /\ OwnersStay(grants) /\ (Rules(grants) \/ AllRevoked(grants))
             /\ grants = disk.grants /\ disk.dir = "ok" /\ ~disk.tomb
             /\ disk \in maybe /\ IsDisk(disk) /\ IsMap(grants, Grant)
  BY <1>1 DEF IInv, StoreInv, StoreType, MemoryIsDisk, OwnerInv
<1>2. lock = "none" => (HasOwner(grants) <=> Rules(grants))
  BY <1>1, HasOwnerRules
<1>. QED BY <1>1, <1>2 DEF State

(* A spent counter changes nobody's authority, and the window it is in.    *)
LEMMA SpendRules ==
  ASSUME NEW gs, IsMap(gs, Grant), NEW c \in DOMAIN gs, NEW n \in Nat,
         CheckCtr(gs[c].window, n)
  PROVE  /\ Rules(Spend(gs, c, n)) <=> Rules(gs)
         /\ AllRevoked(Spend(gs, c, n)) <=> AllRevoked(gs)
         /\ OwnersStay(Spend(gs, c, n)) <=> OwnersStay(gs)
         /\ DOMAIN Spend(gs, c, n) = DOMAIN gs
         /\ \A x \in DOMAIN gs : /\ Spend(gs, c, n)[x].role = gs[x].role
                                 /\ Spend(gs, c, n)[x].revokedAt = gs[x].revokedAt
                                 /\ Spend(gs, c, n)[x].expiresAt = gs[x].expiresAt
         /\ Spend(gs, c, n)[c].window # gs[c].window
<1>. DEFINE next == Spend(gs, c, n)
<1>1. /\ DOMAIN next = DOMAIN gs
      /\ \A x \in DOMAIN gs : /\ next[x].role = gs[x].role
                              /\ next[x].revokedAt = gs[x].revokedAt
                              /\ next[x].expiresAt = gs[x].expiresAt
      /\ next[c].window = Accept(gs[c].window, n)
  <2>1. /\ DOMAIN next = DOMAIN gs /\ next[c].window = Accept(gs[c].window, n)
        /\ next[c].role = gs[c].role /\ next[c].revokedAt = gs[c].revokedAt
        /\ next[c].expiresAt = gs[c].expiresAt
        /\ \A x \in DOMAIN gs \ {c} : next[x] = gs[x]
    BY SpendMap
  <2>. HIDE DEF next
  <2>. QED BY <2>1
<1>2. gs[c].window \in Window
  BY DEF IsMap, Grant
<1>3. Accept(gs[c].window, n) # gs[c].window
  BY <1>2, AcceptSpends
<1>. HIDE DEF next
<1>4. /\ Rules(next) <=> Rules(gs)
      /\ AllRevoked(next) <=> AllRevoked(gs)
      /\ OwnersStay(next) <=> OwnersStay(gs)
  BY <1>1 DEF Rules, AllRevoked, OwnersStay
<1>. QED BY <1>1, <1>3, <1>4 DEF next

(* Changing x alone, which is not the last owner or stays one, leaves an   *)
(* owner.                                                                  *)
LEMMA NotTheLast ==
  ASSUME NEW gs, OwnersStay(gs), Rules(gs), NEW x, NEW role,
         ~DemotesLastOwner(gs, x, role), NEW next,
         \A y \in DOMAIN gs \ {x} : gs[y].role = "owner" /\ gs[y].revokedAt = 0 =>
           y \in DOMAIN next /\ next[y].role = "owner" /\ next[y].revokedAt = 0,
         role = "owner" =>
           x \in DOMAIN next /\ next[x].role = "owner" /\ next[x].revokedAt = 0
  PROVE  Rules(next)
<1>1. CASE role = "owner"
  BY <1>1 DEF Rules
<1>2. CASE role # "owner"
  <2>1. PICK y \in DOMAIN gs : gs[y].role = "owner" /\ gs[y].revokedAt = 0
    BY DEF Rules
  <2>2. CASE y # x
    BY <2>1, <2>2 DEF Rules
  <2>3. CASE y = x
    <3>1. PICK z \in DOMAIN gs \ {x} : ActiveOwner(gs[z])
      BY <1>2, <2>1, <2>3, RulerIsActive DEF DemotesLastOwner
    <3>2. gs[z].role = "owner" /\ gs[z].revokedAt = 0
      BY <3>1, RulerIsActive
    <3>. QED BY <3>2 DEF Rules
  <2>. QED BY <2>2, <2>3
<1>. QED BY <1>1, <1>2

LEMMA PutGrantKeeps ==
  ASSUME NEW gs, OwnersStay(gs), NEW x, NEW g \in Grant, g.revokedAt = 0,
         NEW next \in PutGrant(gs, x, g)
  PROVE  /\ \A y \in DOMAIN gs \ {x} : gs[y].role = "owner" /\ gs[y].revokedAt = 0 =>
              y \in DOMAIN next /\ next[y] = gs[y]
         /\ x \in DOMAIN next /\ next[x].role = g.role /\ next[x].revokedAt = 0
<1>1. CASE x \in DOMAIN gs
  <2>. DEFINE r == [g EXCEPT !.window = gs[x].window]
  <2>1. next = Put(gs, x, r) /\ r.role = g.role /\ r.revokedAt = 0
    BY <1>1 DEF PutGrant, Grant
  <2>. HIDE DEF r
  <2>. QED BY <2>1 DEF Put
<1>2. CASE x \notin DOMAIN gs /\ Cardinality(DOMAIN gs) < MaxRecords
  BY <1>2 DEF PutGrant, Put
<1>3. CASE x \notin DOMAIN gs /\ ~(Cardinality(DOMAIN gs) < MaxRecords)
  <2>1. PICK e \in Evictable(gs) : next = Put(Drop(gs, {e}), x, g)
    BY <1>3 DEF PutGrant
  <2>2. e \in DOMAIN gs /\ ~Active(gs[e])
    BY <2>1 DEF Evictable, Expendable
  <2>3. \A y \in DOMAIN gs : gs[y].role = "owner" /\ gs[y].revokedAt = 0 => y # e
    BY <2>2, RulerIsActive DEF ActiveOwner
  <2>. QED BY <2>1, <2>3 DEF Put, Drop
<1>. QED BY <1>1, <1>2, <1>3

-----------------------------------------------------------------------------
(* One answer.                                                             *)

LEMMA NoRevival ==
  ASSUME NEW next,
         \A x \in DOMAIN grants \intersect DOMAIN next :
           next[x].revokedAt = 0 => grants[x].revokedAt = 0
  PROVE  LicensesAll(next)
BY DEF LicensesAll

(* Handlers that only spend a counter, of a record or of a request.        *)
LEMMA SpendAnswers ==
  ASSUME IInv, OwnerInv, NEW c \in Ctl, NEW n \in Nat, NEW wr, Fresh(c, n),
         Update(Spend(grants, c, n), wr), DOMAIN pending' \subseteq DOMAIN pending,
         claimed' = claimed, inv' \in {inv, NoInv}, UNCHANGED <<now, gens, lock, issued>>
  PROVE  \E next, w : Answers(next, w)
<1>. DEFINE gs == Spend(grants, c, n)
<1>1. /\ lock = "none" /\ c \in DOMAIN grants /\ CheckCtr(grants[c].window, n)
      /\ IsMap(grants, Grant)
  BY StateRules DEF Fresh
<1>2. /\ Rules(gs) <=> Rules(grants)
      /\ AllRevoked(gs) <=> AllRevoked(grants)
      /\ DOMAIN gs = DOMAIN grants
      /\ \A x \in DOMAIN grants : gs[x].revokedAt = grants[x].revokedAt
  BY <1>1, SpendRules
<1>. HIDE DEF gs
<1>3. LicensesAll(gs)
  BY <1>2, NoRevival
<1>4. Wrote(gs, wr)
  BY DEF Wrote, Update, gs
<1>5. Answers(gs, wr)
  BY <1>1, <1>2, <1>3, <1>4 DEF Answers, Stays
<1>. QED BY <1>5

LEMMA QuietAnswers ==
  ASSUME lock = "none", UNCHANGED store, DOMAIN pending' \subseteq DOMAIN pending,
         claimed' = claimed, inv' \in {inv, NoInv}, UNCHANGED <<now, gens, lock, issued>>
  PROVE  \E next, w : Answers(next, w)
<1>1. LicensesAll(grants)
  BY NoRevival
<1>2. Wrote(grants, "fail")
  BY DEF Wrote, Committed
<1>3. Answers(grants, "fail")
  BY <1>1, <1>2 DEF Answers, Stays
<1>. QED BY <1>3

LEMMA LiveDomain == DOMAIN Live \subseteq DOMAIN pending
BY DEF Live, Drop

LEMMA PendingAnswers ==
  ASSUME NEW c, NEW n, FreshPending(c, n), SpendPending(c, n)
  PROVE  \E next, w : Answers(next, w)
<1>1. DOMAIN pending' = DOMAIN Live
  BY DEF SpendPending
<1>. QED BY <1>1, LiveDomain, QuietAnswers DEF FreshPending, SpendPending, history

LEMMA SpendOnlyAnswers ==
  ASSUME IInv, OwnerInv, NEW c \in Ctl, NEW n \in Nat, NEW wr, Fresh(c, n),
         SpendOnly(c, n, wr), claimed' = claimed
  PROVE  \E next, w : Answers(next, w)
BY LiveDomain, SpendAnswers DEF SpendOnly, Pruned

(* A command an owner signed, that leaves an owner.                        *)
LEMMA OwnerAnswers ==
  ASSUME IInv, OwnerInv, NEW c \in Ctl, NEW n \in Nat, NEW iat, NEW wr, Fresh(c, n),
         Authorized(c, "owner"), NEW next, Amends(Spend(grants, c, n), next),
         Rules(next), NEW pend, NEW deny, Commit(c, n, iat, wr, next, pend, deny),
         claimed' = claimed
  PROVE  \E nx, w : Answers(nx, w)
<1>. DEFINE gs == Spend(grants, c, n)
<1>1. /\ lock = "none" /\ Rules(grants) /\ OwnersStay(grants)
      /\ c \in DOMAIN grants /\ CheckCtr(grants[c].window, n)
      /\ IsMap(grants, Grant) /\ ActiveOwner(grants[c]) /\ State = "enrolled"
  BY StateRules DEF Fresh, Authorized, Permits, ActiveOwner
<1>2. /\ DOMAIN gs = DOMAIN grants /\ gs[c].window # grants[c].window
      /\ gs[c].revokedAt = grants[c].revokedAt /\ gs[c].expiresAt = grants[c].expiresAt
  BY <1>1, SpendRules
<1>. HIDE DEF gs
<1>3. c \notin Expendable(gs)
  BY <1>1, <1>2 DEF Expendable, Active, ActiveOwner
<1>4. c \in DOMAIN next /\ next[c].window # grants[c].window
  BY <1>1, <1>2, <1>3 DEF Amends, gs
<1>5. LicensesAll(next)
  BY <1>1, <1>4 DEF LicensesAll, ActiveOwner, Active
<1>6. Wrote(next, wr) /\ inv' = inv /\ UNCHANGED <<now, gens, lock, issued>>
  BY DEF Commit, Wrote, Update
<1>7. ~AllRevoked(grants)
  BY <1>1 DEF Rules, AllRevoked
<1>8. Answers(next, wr)
  BY <1>1, <1>5, <1>6, <1>7 DEF Answers, Stays
<1>. QED BY <1>8

-----------------------------------------------------------------------------
(* The handlers.                                                           *)

LEMMA RefusalAnswers ==
  ASSUME IInv, OwnerInv, NEW c \in Ctl, NEW n \in Nat, NEW iat \in Nat, NEW wr, NEW tier,
         \/ RefuseFutureIat(c, n, iat, wr)
         \/ AdmitCmd(c, n, iat, tier, wr)
         \/ RefuseCmd(c, n, iat, tier, wr)
         \/ FailCommand(c, n, iat, wr)
         \/ EnrollApproved(c, n, iat, wr)
  PROVE  \E next, w : Answers(next, w)
<1>1. \/ Fresh(c, n) /\ SpendOnly(c, n, wr) /\ claimed' = claimed
      \/ FreshPending(c, n) /\ SpendPending(c, n)
  BY DEF RefuseFutureIat, AdmitCmd, RefuseCmd, FailCommand, OwnerSigned,
         EnrollApproved, history
<1>. QED BY <1>1, SpendOnlyAnswers, PendingAnswers

LEMMA AnsweredAnswers ==
  ASSUME IInv, OwnerInv, NEW c \in Ctl, NEW n \in Nat, NEW iat, NEW wr, NEW lan, NEW src,
         RequestAnswered(c, n, iat, lan, src, wr)
  PROVE  \E next, w : Answers(next, w)
<1>1. \/ Fresh(c, n) /\ SpendOnly(c, n, wr) /\ claimed' = claimed
      \/ FreshPending(c, n) /\ SpendPending(c, n)
  BY DEF RequestAnswered, history
<1>. QED BY <1>1, SpendOnlyAnswers, PendingAnswers

LEMMA RefusedAnswers ==
  ASSUME IInv, OwnerInv, NEW c \in Ctl, NEW n \in Nat, NEW iat, NEW wr, NEW key,
         NEW offer, NEW v2, EnrollRefused(c, n, iat, key, offer, v2, wr)
  PROVE  \E next, w : Answers(next, w)
<1>1. /\ lock = "none" /\ inv' \in {inv, NoInv} /\ claimed' = claimed
      /\ UNCHANGED <<now, gens, lock, issued>>
  BY DEF EnrollRefused, history
<1>2. CASE c \in DOMAIN grants
  <2>1. Fresh(c, n) /\ Update(Spend(grants, c, n), wr) /\ Pruned
    BY <1>2 DEF EnrollRefused
  <2>. QED BY <1>1, <2>1, LiveDomain, SpendAnswers DEF Pruned
<1>3. CASE c \notin DOMAIN grants
  <2>1. UNCHANGED store /\ DOMAIN pending' = DOMAIN Live
    BY <1>3 DEF EnrollRefused
  <2>. QED BY <1>1, <2>1, LiveDomain, QuietAnswers
<1>. QED BY <1>2, <1>3

LEMMA RequestAnswers ==
  ASSUME IInv, OwnerInv, NEW c \in Ctl, NEW n \in Nat, NEW iat, NEW wr, NEW key, NEW lan,
         NEW src, RequestAccess(c, n, iat, key, lan, src, wr)
  PROVE  \E next, w : Answers(next, w)
<1>1. /\ lock = "none" /\ claimed' = claimed /\ inv' = inv
      /\ UNCHANGED <<now, gens, lock, issued>> /\ State = "enrolled"
  BY DEF RequestAccess, MayAsk, history
<1>2. Rules(grants)
  BY <1>1, StateRules
<1>3. CASE c \in DOMAIN grants
  <2>. DEFINE gs == Spend(grants, c, n)
  <2>1. Fresh(c, n) /\ Update(gs, wr)
    BY <1>3 DEF RequestAccess
  <2>2. CheckCtr(grants[c].window, n) /\ IsMap(grants, Grant)
    BY <1>1, <2>1, StateRules DEF Fresh
  <2>3. /\ Rules(gs) <=> Rules(grants)
        /\ AllRevoked(gs) <=> AllRevoked(grants)
        /\ DOMAIN gs = DOMAIN grants
        /\ \A x \in DOMAIN grants : gs[x].revokedAt = grants[x].revokedAt
    BY <1>3, <2>2, SpendRules
  <2>4. Wrote(gs, wr)
    BY <2>1 DEF Wrote, Update
  <2>. HIDE DEF gs
  <2>5. LicensesAll(gs)
    BY <2>3, NoRevival
  <2>6. Answers(gs, wr)
    BY <1>1, <1>2, <2>3, <2>4, <2>5 DEF Answers, Stays
  <2>. QED BY <2>6
<1>4. CASE c \notin DOMAIN grants
  <2>1. UNCHANGED store
    BY <1>4 DEF RequestAccess
  <2>2. Wrote(grants, "fail") /\ LicensesAll(grants)
    BY <2>1, NoRevival DEF Wrote, Committed
  <2>3. Answers(grants, "fail")
    BY <1>1, <1>2, <2>2 DEF Answers, Stays
  <2>. QED BY <2>3
<1>. QED BY <1>3, <1>4

(* What an owner's command finds, its counter spent.                       *)
LEMMA OwnerFacts ==
  ASSUME IInv, OwnerInv, NEW c \in Ctl, NEW n \in Nat, NEW iat \in Nat,
         OwnerSigned(c, n, iat)
  PROVE  /\ Fresh(c, n) /\ Authorized(c, "owner")
         /\ OwnersStay(Spend(grants, c, n)) /\ Rules(Spend(grants, c, n))
         /\ IsMap(Spend(grants, c, n), Grant) /\ IsMap(Live, Pending)
<1>1. Fresh(c, n) /\ InTime(iat) /\ Authorized(c, "owner")
  BY DEF OwnerSigned
<1>2. /\ OwnersStay(grants) /\ Rules(grants) /\ IsMap(grants, Grant)
      /\ c \in DOMAIN grants /\ CheckCtr(grants[c].window, n)
  BY <1>1, StateRules DEF Fresh, Authorized
<1>. QED BY <1>1, <1>2, SpendRules, SpendMap, LiveType DEF IInv

LEMMA ListAnswers ==
  ASSUME IInv, OwnerInv, NEW c \in Ctl, NEW n \in Nat, NEW iat \in Nat, NEW wr,
         ListControllers(c, n, iat, wr)
  PROVE  \E next, w : Answers(next, w)
<1>1. /\ OwnerSigned(c, n, iat) /\ claimed' = claimed
      /\ Commit(c, n, iat, wr, Spend(grants, c, n), Live, Denies)
  BY DEF ListControllers
<1>. QED BY <1>1, OwnerFacts, AmendsSelf, OwnerAnswers

(* A record changed in place keeps the others, and x if its role is owner. *)
LEMMA InPlaceRules ==
  ASSUME NEW gs, IsMap(gs, Grant), OwnersStay(gs), Rules(gs), NEW x \in DOMAIN gs,
         Active(gs[x]), NEW role \in Role, NEW exp \in Nat, ~DemotesLastOwner(gs, x, role)
  PROVE  Rules([gs EXCEPT ![x].role = role, ![x].expiresAt = exp, ![x].byInv = FALSE])
<1>. DEFINE r == [gs[x] EXCEPT !.role = role, !.expiresAt = exp, !.byInv = FALSE]
            next == [gs EXCEPT ![x].role = role, ![x].expiresAt = exp,
                               ![x].byInv = FALSE]
<1>1. gs[x] \in Grant /\ gs[x].revokedAt = 0
  BY DEF IsMap, Active
<1>2. r.role = role /\ r.revokedAt = 0
  BY <1>1 DEF Grant
<1>3. next = [gs EXCEPT ![x] = r]
  BY <1>1 DEF IsMap, Grant
<1>. HIDE DEF r
<1>4. /\ DOMAIN next = DOMAIN gs /\ next[x] = r
      /\ \A y \in DOMAIN gs \ {x} : next[y] = gs[y]
  BY <1>3, Zenon
<1>. HIDE DEF next
<1>5. Rules(next)
  BY <1>2, <1>4, NotTheLast
<1>. QED BY <1>5 DEF next

LEMMA ApproveAnswers ==
  ASSUME IInv, OwnerInv, NEW c \in Ctl, NEW n \in Nat, NEW iat \in Nat, NEW wr,
         NEW x \in Ctl, NEW role \in Role, NEW exp \in Nat,
         \/ ApproveInPlace(c, n, iat, x, role, exp, wr)
         \/ ApprovePending(c, n, iat, x, role, exp, wr)
  PROVE  \E next, w : Answers(next, w)
<1>. DEFINE gs == Spend(grants, c, n)
<1>1. /\ OwnerSigned(c, n, iat) /\ claimed' = claimed
      /\ ~DemotesLastOwner(gs, x, role) /\ (exp = 0 \/ exp > now)
  BY DEF ApproveInPlace, ApprovePending, MayExpire
<1>2. /\ Fresh(c, n) /\ Authorized(c, "owner") /\ OwnersStay(gs) /\ Rules(gs)
      /\ IsMap(gs, Grant) /\ IsMap(Live, Pending)
  BY <1>1, OwnerFacts
<1>3. CASE ApproveInPlace(c, n, iat, x, role, exp, wr)
  <2>. DEFINE next == [gs EXCEPT ![x].role = role, ![x].expiresAt = exp,
                                 ![x].byInv = FALSE]
  <2>1. x \in DOMAIN gs /\ Active(gs[x]) /\ Commit(c, n, iat, wr, next, Live, Denies)
    BY <1>3 DEF ApproveInPlace
  <2>. HIDE DEF gs
  <2>2. Amends(gs, next) /\ Rules(next)
    BY <1>1, <1>2, <2>1, InPlace, InPlaceRules
  <2>. HIDE DEF next
  <2>. QED BY <1>1, <1>2, <2>1, <2>2, OwnerAnswers DEF gs
<1>4. CASE ApprovePending(c, n, iat, x, role, exp, wr)
  <2>. DEFINE g == [role |-> role, enc |-> Live[x].enc, byInv |-> FALSE,
                    expiresAt |-> exp, revokedAt |-> 0, window |-> Live[x].window]
  <2>1. PICK next \in PutGrant(gs, x, g) :
          Commit(c, n, iat, wr, next, Drop(Live, {x}), Denies)
    BY <1>4 DEF ApprovePending
  <2>2. x \in DOMAIN Live
    BY <1>4 DEF ApprovePending
  <2>3. /\ g \in Grant /\ g.revokedAt = 0 /\ g.expiresAt = exp /\ g.role = role
    BY <1>2, <2>2 DEF IsMap, Pending, Grant
  <2>. HIDE DEF g, gs
  <2>4. Amends(gs, next)
    BY <1>1, <1>2, <2>1, <2>3, PutGrantMap
  <2>5. Rules(next)
    BY <1>1, <1>2, <2>1, <2>3, PutGrantKeeps, NotTheLast
  <2>. QED BY <1>1, <1>2, <2>1, <2>4, <2>5, OwnerAnswers DEF gs
<1>. QED BY <1>3, <1>4

LEMMA RegisterAnswers ==
  ASSUME IInv, OwnerInv, NEW c \in Ctl, NEW n \in Nat, NEW iat \in Nat, NEW wr,
         NEW x \in Ctl, NEW key \in Keys, NEW role \in Role, NEW exp \in Nat,
         RegisterController(c, n, iat, x, key, role, exp, wr)
  PROVE  \E next, w : Answers(next, w)
<1>. DEFINE gs == Spend(grants, c, n)
            held == IF x \in DOMAIN Live THEN Live[x].window ELSE EmptyWindow
            fresh == [role |-> role, enc |-> key, byInv |-> FALSE,
                      expiresAt |-> exp, revokedAt |-> 0, window |-> held]
            inPlace == x \in DOMAIN gs /\ Active(gs[x])
            changed == [gs EXCEPT ![x].role = role, ![x].expiresAt = exp,
                                  ![x].byInv = FALSE]
<1>1. /\ OwnerSigned(c, n, iat) /\ claimed' = claimed
      /\ ~DemotesLastOwner(gs, x, role) /\ (exp = 0 \/ exp > now)
  BY DEF RegisterController, MayExpire
<1>2. /\ Fresh(c, n) /\ Authorized(c, "owner") /\ OwnersStay(gs) /\ Rules(gs)
      /\ IsMap(gs, Grant) /\ IsMap(Live, Pending)
  BY <1>1, OwnerFacts
<1>3. PICK next \in IF inPlace THEN {changed} ELSE PutGrant(gs, x, fresh) :
        Commit(c, n, iat, wr, next, Drop(Live, {x}), Drop(Denies, {x}))
  BY DEF RegisterController
<1>4. held \in Window
  BY <1>2 DEF IsMap, Pending, Window, EmptyWindow
<1>5. /\ fresh \in Grant /\ fresh.revokedAt = 0 /\ fresh.expiresAt = exp
      /\ fresh.role = role
  BY <1>4 DEF Grant
<1>. HIDE DEF gs, held, fresh
<1>6. Amends(gs, next) /\ Rules(next)
  <2>1. CASE inPlace
    <3>1. x \in DOMAIN gs /\ Active(gs[x]) /\ next = changed
      BY <1>3, <2>1
    <3>. QED BY <1>1, <1>2, <3>1, InPlace, InPlaceRules
  <2>2. CASE ~inPlace
    <3>1. next \in PutGrant(gs, x, fresh)
      BY <1>3, <2>2
    <3>. QED BY <1>1, <1>2, <1>5, <3>1, PutGrantMap, PutGrantKeeps, NotTheLast
  <2>. QED BY <2>1, <2>2
<1>. QED BY <1>1, <1>2, <1>3, <1>6, OwnerAnswers DEF gs

LEMMA RevokeAnswers ==
  ASSUME IInv, OwnerInv, NEW c \in Ctl, NEW n \in Nat, NEW iat \in Nat, NEW wr,
         NEW x \in Ctl, RevokeController(c, n, iat, x, wr)
  PROVE  \E next, w : Answers(next, w)
<1>. DEFINE gs == Spend(grants, c, n)
            active == x \in DOMAIN gs /\ Active(gs[x])
            lapsed == x \in DOMAIN gs /\ gs[x].revokedAt = 0 /\ ~Active(gs[x])
            next == IF active \/ lapsed THEN [gs EXCEPT ![x].revokedAt = now] ELSE gs
<1>1. /\ Fresh(c, n) /\ State = "enrolled" /\ claimed' = claimed
      /\ ~(active /\ DemotesLastOwner(gs, x, "controller"))
      /\ Update(next, wr) /\ inv' = inv /\ UNCHANGED <<now, gens, lock, issued>>
  BY DEF RevokeController, Authorized, Commit
<1>2. /\ lock = "none" /\ Rules(grants) /\ OwnersStay(grants) /\ IsMap(grants, Grant)
      /\ c \in DOMAIN grants /\ CheckCtr(grants[c].window, n)
  BY <1>1, StateRules DEF Fresh
<1>3. /\ Rules(gs) /\ OwnersStay(gs) /\ DOMAIN gs = DOMAIN grants /\ IsMap(gs, Grant)
      /\ \A y \in DOMAIN grants : gs[y].revokedAt = grants[y].revokedAt
  BY <1>2, SpendRules, SpendMap
<1>4. now \in Nat \ {0}
  BY DEF IInv, StoreInv, StoreType
<1>5. Wrote(next, wr)
  BY <1>1 DEF Wrote, Update
<1>. HIDE DEF gs
<1>6. /\ DOMAIN next = DOMAIN gs
      /\ \A y \in DOMAIN gs \ {x} : next[y] = gs[y]
      /\ \A y \in DOMAIN gs : next[y].revokedAt = 0 => gs[y].revokedAt = 0
  <2>1. CASE active \/ lapsed
    <3>1. next = [gs EXCEPT ![x].revokedAt = now] /\ x \in DOMAIN gs
      BY <2>1
    <3>2. gs[x] \in Grant
      BY <1>3, <3>1 DEF IsMap
    <3>3. next[x].revokedAt = now
      BY <3>1, <3>2 DEF Grant
    <3>4. DOMAIN next = DOMAIN gs /\ \A y \in DOMAIN gs \ {x} : next[y] = gs[y]
      BY <3>1
    <3>. HIDE DEF next
    <3>. QED BY <1>4, <3>3, <3>4
  <2>2. CASE ~(active \/ lapsed)
    BY <2>2
  <2>. QED BY <2>1, <2>2
<1>7. Rules(next)
  <2>1. CASE active
    <3>1. ~DemotesLastOwner(gs, x, "controller")
      BY <1>1, <2>1
    <3>. HIDE DEF next
    <3>. QED BY <1>3, <1>6, <3>1, NotTheLast
  <2>2. CASE ~active
    <3>1. PICK y \in DOMAIN gs : gs[y].role = "owner" /\ gs[y].revokedAt = 0
      BY <1>3 DEF Rules
    <3>2. y # x
      BY <1>3, <2>2, <3>1, RulerIsActive DEF ActiveOwner
    <3>. HIDE DEF next
    <3>. QED BY <1>6, <3>1, <3>2 DEF Rules
  <2>. QED BY <2>1, <2>2
<1>. HIDE DEF next
<1>8. LicensesAll(next)
  BY <1>3, <1>6, NoRevival
<1>9. ~AllRevoked(grants)
  BY <1>2 DEF Rules, AllRevoked
<1>10. Answers(next, wr)
  BY <1>1, <1>2, <1>5, <1>7, <1>8, <1>9 DEF Answers, Stays
<1>. QED BY <1>10

LEMMA ReleaseAnswers ==
  ASSUME IInv, OwnerInv, NEW c \in Ctl, NEW n \in Nat, NEW iat \in Nat, NEW wr,
         ReleaseOwnership(c, n, iat, wr)
  PROVE  \E next, w : Answers(next, w)
<1>. DEFINE gs == Spend(grants, c, n)
<1>1. /\ OwnerSigned(c, n, iat) /\ claimed' = (claimed /\ ~Committed(wr))
      /\ Commit(c, n, iat, wr, Released(gs), Nothing, Nothing)
  BY DEF ReleaseOwnership
<1>2. Fresh(c, n) /\ State = "enrolled" /\ IsMap(gs, Grant)
  BY <1>1, OwnerFacts DEF Authorized
<1>3. /\ lock = "none" /\ Rules(grants) /\ c \in DOMAIN grants
      /\ CheckCtr(grants[c].window, n) /\ IsMap(grants, Grant)
  BY <1>2, StateRules DEF Fresh
<1>4. now \in Nat \ {0}
  BY DEF IInv, StoreInv, StoreType
<1>5. DOMAIN gs = DOMAIN grants /\ \A y \in DOMAIN grants : gs[y].revokedAt = grants[y].revokedAt
  BY <1>3, SpendRules
<1>6. Wrote(Released(gs), wr) /\ inv' = inv /\ UNCHANGED <<now, gens, lock, issued>>
  BY <1>1 DEF Commit, Wrote, Update
<1>7. Committed(wr) => pending' = Nothing /\ denied' = Nothing
  BY <1>1 DEF Commit
<1>. HIDE DEF gs
<1>8. \A y \in DOMAIN gs : y \in DOMAIN Released(gs) /\ Released(gs)[y].revokedAt # 0
  <2>. SUFFICES ASSUME NEW y \in DOMAIN gs
                PROVE  y \in DOMAIN Released(gs) /\ Released(gs)[y].revokedAt # 0
    OBVIOUS
  <2>1. gs[y] \in Grant
    BY <1>2 DEF IsMap
  <2>2. [gs[y] EXCEPT !.revokedAt = now].revokedAt = now
    BY <2>1 DEF Grant
  <2>. QED BY <1>4, <2>2 DEF Released
<1>9. AllRevoked(Released(gs)) /\ DOMAIN Released(gs) = DOMAIN gs
  BY <1>8 DEF AllRevoked, Released
<1>10. LicensesAll(Released(gs))
  BY <1>5, <1>8, <1>9, NoRevival
<1>11. Answers(Released(gs), wr)
  BY <1>1, <1>3, <1>6, <1>7, <1>9, <1>10 DEF Answers, ReleasedBy
<1>. QED BY <1>11

LEMMA FirstOwnerAnswers ==
  ASSUME IInv, OwnerInv, NEW c \in Ctl, NEW n \in Nat, NEW iat \in Nat, NEW wr, NEW key,
         NEW offer, EnrollFirstOwner(c, n, iat, key, offer, wr)
  PROVE  \E next, w : Answers(next, w)
<1>1. PICK w : /\ Update(WithFirstOwner(grants, c, key, w), wr)
               /\ State = "legacy" /\ InvitationLive /\ SpendInvitation(wr)
               /\ claimed' = (claimed \/ wr = "ok") /\ Pruned
               /\ UNCHANGED <<now, gens, lock, issued>>
  BY DEF EnrollFirstOwner, InvitationAccepted
<1>. DEFINE next == WithFirstOwner(grants, c, key, w)
<1>2. Rules(next)
  BY DEF Rules, WithFirstOwner, Put
<1>3. Wrote(next, wr)
  BY <1>1 DEF Wrote, Update
<1>. HIDE DEF next
<1>4. LicensesAll(next)
  BY <1>1 DEF LicensesAll
<1>5. lock = "none"
  BY <1>1 DEF State
<1>6. DOMAIN pending' \subseteq DOMAIN pending
  BY <1>1, LiveDomain DEF Pruned
<1>7. Answers(next, wr)
  BY <1>1, <1>2, <1>3, <1>4, <1>5, <1>6 DEF Answers, Taken
<1>. QED BY <1>7

LEMMA EveryAnswer ==
  ASSUME IInv, OwnerInv, Open \/ AnswerOnly
  PROVE  \E next, w : Answers(next, w)
<1>1. CASE AnswerOnly
  BY <1>1, LiveDomain, QuietAnswers DEF AnswerOnly, Pruned, history
<1>2. CASE Open
  <2>1. PICK c \in Ctl, n \in 1 .. MaxCtr, iat \in Times, wr \in Outcomes :
          \/ RefuseFutureIat(c, n, iat, wr)
          \/ OpenCmd(c, n, iat, wr)
          \/ OpenEnroll(c, n, iat, wr)
          \/ OpenRequest(c, n, iat, wr)
    BY <1>2, Zenon DEF Open
  <2>2. n \in Nat /\ iat \in Nat
    BY <2>1, ControlAssumption
  <2>3. CASE OpenCmd(c, n, iat, wr)
    <3>1. ASSUME NEW x \in Ctl, NEW role \in Role, NEW exp \in Expiries \union {0},
                 \/ ApproveInPlace(c, n, iat, x, role, exp, wr)
                 \/ ApprovePending(c, n, iat, x, role, exp, wr)
                 \/ \E key \in Keys : RegisterController(c, n, iat, x, key, role, exp, wr)
          PROVE  \E next, w : Answers(next, w)
      <4>1. exp \in Nat
        BY ControlAssumption
      <4>. QED BY <2>2, <3>1, <4>1, ApproveAnswers, RegisterAnswers
    <3>. QED BY <2>2, <2>3, <3>1, RefusalAnswers, ListAnswers, RevokeAnswers,
                ReleaseAnswers DEF OpenCmd
  <2>4. CASE OpenEnroll(c, n, iat, wr)
    BY <2>2, <2>4, RefusalAnswers, RefusedAnswers, FirstOwnerAnswers DEF OpenEnroll
  <2>5. CASE OpenRequest(c, n, iat, wr)
    BY <2>2, <2>5, RequestAnswers, AnsweredAnswers DEF OpenRequest
  <2>6. CASE RefuseFutureIat(c, n, iat, wr)
    BY <2>2, <2>6, RefusalAnswers
  <2>. QED BY <2>1, <2>3, <2>4, <2>5, <2>6
<1>. QED BY <1>1, <1>2

-----------------------------------------------------------------------------
(* The invariant of ownership.                                             *)

LEMMA AnswersOwnerInv ==
  ASSUME IInv, OwnerInv, NEW next, NEW wr, Answers(next, wr)
  PROVE  OwnerInv'
<1>1. /\ lock = "none" /\ Wrote(next, wr)
      /\ OwnersStay(grants) /\ (Rules(grants) \/ AllRevoked(grants))
      /\ grants = disk.grants /\ disk.dir = "ok" /\ ~disk.tomb
      /\ disk \in maybe /\ IsDisk(disk)
  BY StateRules DEF Answers
<1>2. CASE Committed(wr)
  <2>1. /\ disk' = [disk EXCEPT !.grants = next] /\ ValidGrants(next)
        /\ maybe' \subseteq maybe \union {disk'}
        /\ wr = "ok" => \A d \in maybe' : d = disk' \/ d.dir = "absent"
    BY <1>1, <1>2 DEF Wrote, Update, Committed
  <2>2. disk'.grants = next /\ disk'.dir = "ok" /\ ~disk'.tomb
    BY <1>1, <2>1 DEF IsDisk
  <2>3. OwnersStay(next) /\ (Rules(next) \/ AllRevoked(next))
    BY <1>1, <2>1 DEF Answers, Stays, Taken, ReleasedBy, ValidGrants, OwnersStay
  <2>4. ASSUME ParentDurable
        PROVE  /\ Unborn' \/ Born'
               /\ claimed' => \A d \in maybe' : d.tomb \/ (d.dir = "ok" /\ Rules(d.grants))
    <3>1. \A d \in maybe : d.tomb \/ d.dir # "absent"
      BY <1>1, <2>4 DEF OwnerInv, Unborn, Born
    <3>2. Born'
      BY <2>1, <2>2, <3>1 DEF Born
    <3>3. claimed' => Rules(next) /\ (claimed \/ wr = "ok")
      <4>1. claimed => Rules(grants)
        BY <1>1, <2>4 DEF OwnerInv
      <4>. QED BY <1>2, <4>1 DEF Answers, Stays, Taken, ReleasedBy
    <3>4. ASSUME claimed', NEW d \in maybe'
          PROVE  d.tomb \/ (d.dir = "ok" /\ Rules(d.grants))
      <4>1. CASE d = disk'
        BY <2>2, <3>3, <3>4, <4>1
      <4>2. CASE d # disk' /\ claimed
        BY <2>1, <2>4, <4>2 DEF OwnerInv
      <4>3. CASE d # disk' /\ wr = "ok"
        BY <2>1, <3>1, <4>3
      <4>. QED BY <3>3, <3>4, <4>1, <4>2, <4>3
    <3>. QED BY <3>2, <3>4
  <2>5. \A d \in maybe' : OwnersStay(d.grants) /\ (Rules(d.grants) \/ AllRevoked(d.grants))
    BY <2>1, <2>2, <2>3 DEF OwnerInv
  <2>. QED BY <2>4, <2>5 DEF OwnerInv, ParentDurable
<1>3. CASE ~Committed(wr)
  <2>1. UNCHANGED <<disk, maybe, grants>>
    BY <1>1, <1>3 DEF Wrote, store
  <2>2. claimed' => claimed
    BY <1>3 DEF Answers, Stays, Taken, ReleasedBy, Committed
  <2>. QED BY <2>1, <2>2 DEF OwnerInv, Unborn, Born, ParentDurable
<1>. QED BY <1>2, <1>3

LEMMA AnswersCeremony ==
  ASSUME IInv, OwnerInv, CeremonyInv, NEW next, NEW wr, Answers(next, wr)
  PROVE  CeremonyInv'
<1>1. /\ lock = "none" /\ lock' = "none"
      /\ grants' = IF Committed(wr) THEN next ELSE grants
  BY DEF Answers, Wrote, Update, store
<1>2. DOMAIN Nothing = {}
  BY DEF Nothing
<1>3. CASE Stays(next)
  BY <1>1, <1>3 DEF Stays, CeremonyInv
<1>4. CASE Taken(next, wr)
  <2>1. ~Rules(grants) /\ DOMAIN pending' = {}
    BY <1>4, StateRules DEF Taken, CeremonyInv
  <2>. QED BY <1>1, <1>4, <2>1 DEF Taken, SpendInvitation, CeremonyInv
<1>5. CASE ReleasedBy(next, wr)
  BY <1>1, <1>2, <1>5 DEF ReleasedBy, CeremonyInv
<1>. QED BY <1>3, <1>4, <1>5 DEF Answers

LEMMA OwnerLifecycle ==
  ASSUME IInv, OwnerInv, CeremonyInv, Lifecycle
  PROVE  OwnerInv' /\ CeremonyInv'
<1>1. /\ disk \in maybe /\ IsDisk(disk) /\ \A d \in maybe : IsDisk(d)
      /\ DOMAIN Nothing = {}
  BY DEF IInv, StoreInv, StoreType, Nothing
<1>2. CASE Restart \/ PowerCut
  <2>1. /\ inv' = NoInv /\ pending' = Nothing /\ claimed' = claimed
        /\ maybe' \subseteq maybe
    BY <1>1, <1>2 DEF Restart, PowerCut, GoDown, Forget, history
  <2>. QED BY <1>1, <2>1 DEF OwnerInv, Unborn, Born, ParentDurable, CeremonyInv
<1>3. CASE Load
  <2>1. /\ UNCHANGED <<maybe, claimed, inv, pending>> /\ lock = "down"
    BY <1>3 DEF Load, ceremony, history
  <2>. QED BY <2>1 DEF OwnerInv, Unborn, Born, ParentDurable, CeremonyInv
<1>4. CASE RetireUnconfirmed \/ \E del \in Outcomes : Retire(del)
  <2>1. inv' = NoInv /\ pending' = Nothing /\ claimed' = claimed
    BY <1>4 DEF RetireUnconfirmed, Retire, Forget, history
  <2>2. /\ disk'.tomb /\ disk'.grants = disk.grants
        /\ RetireUnconfirmed => disk'.dir = disk.dir
    BY <1>1, <1>4 DEF RetireUnconfirmed, Retire, IsDisk
  <2>3. ASSUME NEW e \in maybe'
        PROVE  \/ e = disk' \/ e \in maybe
               \/ e.tomb /\ \E d \in maybe : e.grants = d.grants
    <3>1. CASE RetireUnconfirmed
      BY <2>3, <3>1 DEF RetireUnconfirmed
    <3>2. CASE \E del \in Outcomes : Retire(del)
      <4>1. e = disk' \/ \E d \in maybe : e = [d EXCEPT !.tomb = TRUE]
        BY <2>3, <3>2 DEF Retire
      <4>. QED BY <1>1, <4>1 DEF IsDisk
    <3>. QED BY <1>4, <3>1, <3>2
  <2>4. \A e \in maybe' : OwnersStay(e.grants) /\ (Rules(e.grants) \/ AllRevoked(e.grants))
    BY <1>1, <2>2, <2>3 DEF OwnerInv
  <2>5. ASSUME ParentDurable PROVE Unborn' \/ Born'
    <3>1. CASE RetireUnconfirmed
      <4>1. maybe' = maybe \union {disk'}
        BY <3>1 DEF RetireUnconfirmed
      <4>. QED BY <1>1, <2>2, <2>5, <3>1, <4>1 DEF OwnerInv, Unborn, Born
    <3>2. CASE \E del \in Outcomes : Retire(del)
      <4>1. \A e \in maybe' : e = disk' \/ \E d \in maybe : e = [d EXCEPT !.tomb = TRUE]
        BY <3>2 DEF Retire
      <4>2. \A e \in maybe' : e.tomb
        BY <1>1, <2>2, <4>1 DEF IsDisk
      <4>. QED BY <4>2 DEF Born
    <3>. QED BY <1>4, <3>1, <3>2
  <2>6. ASSUME ParentDurable, claimed', NEW e \in maybe'
        PROVE  e.tomb \/ (e.dir = "ok" /\ Rules(e.grants))
    BY <2>1, <2>2, <2>3, <2>6 DEF OwnerInv
  <2>. QED BY <1>1, <2>1, <2>4, <2>5, <2>6 DEF OwnerInv, ParentDurable, CeremonyInv
<1>5. CASE \E wr \in Outcomes : Create(wr)
  <2>1. PICK wr \in Outcomes : Create(wr)
    BY <1>5
  <2>2. /\ UNCHANGED <<inv, pending, claimed>> /\ lock = "down" /\ wr \in CreateOutcomes
        /\ ~disk.tomb /\ disk.dir = "absent"
    BY <2>1 DEF Create, ceremony, history
  <2>3. CeremonyInv'
    BY <2>2 DEF CeremonyInv
  <2>4. CASE Committed(wr)
    <3>1. /\ disk'.dir = "ok" /\ disk'.grants = Nothing
          /\ maybe' = (IF wr = "ok" THEN {} ELSE maybe) \union {disk'}
      BY <2>1, <2>4 DEF Create
    <3>2. OwnersStay(Nothing) /\ AllRevoked(Nothing)
      BY <1>1 DEF OwnersStay, AllRevoked
    <3>3. ASSUME ParentDurable PROVE maybe' = {disk'} /\ ~claimed
      <4>1. wr = "ok"
        BY <2>2, <2>4, <3>3 DEF ParentDurable, Committed
      <4>. QED BY <1>1, <2>2, <3>1, <3>3, <4>1 DEF OwnerInv
    <3>. QED BY <2>2, <2>3, <3>1, <3>2, <3>3 DEF OwnerInv, Born, ParentDurable
  <2>5. CASE ~Committed(wr)
    <3>1. UNCHANGED maybe
      BY <2>1, <2>5 DEF Create
    <3>. QED BY <2>2, <2>3, <3>1 DEF OwnerInv, Unborn, Born, ParentDurable
  <2>. QED BY <2>4, <2>5
<1>. QED BY <1>2, <1>3, <1>4, <1>5 DEF Lifecycle

LEMMA OwnerOthers ==
  ASSUME IInv, OwnerInv, CeremonyInv,
         IssueInvitation \/ ClearInvitation \/ Tick \/ UNCHANGED vars
  PROVE  OwnerInv' /\ CeremonyInv'
<1>1. UNCHANGED <<lock, maybe, grants, pending, claimed>>
  BY DEF IssueInvitation, ClearInvitation, Tick, vars, store, requests, ceremony, history
<1>2. OwnerInv'
  BY <1>1 DEF OwnerInv, Unborn, Born, ParentDurable
<1>3. inv' # NoInv => inv' = inv \/ (State = "legacy" /\ inv'.id # 0)
  <2>1. issued \in Nat
    BY DEF IInv, CeremonyType
  <2>. QED BY <2>1 DEF IssueInvitation, ClearInvitation, Tick, vars, ceremony
<1>4. CeremonyInv'
  BY <1>1, <1>3, StateRules DEF CeremonyInv
<1>. QED BY <1>2, <1>4

Owned == IInv /\ OwnerInv /\ CeremonyInv

LEMMA InitOwned == Init => Owned
<1>. SUFFICES ASSUME Init PROVE Owned
  OBVIOUS
<1>1. maybe = {[dir |-> "absent", tomb |-> FALSE, gen |-> 0, grants |-> Nothing]}
      /\ DOMAIN Nothing = {}
  BY DEF Init, Nothing
<1>2. OwnerInv
  BY <1>1 DEF Init, OwnerInv, Unborn, OwnersStay, AllRevoked
<1>3. CeremonyInv
  BY <1>1 DEF Init, CeremonyInv
<1>. QED BY <1>2, <1>3, InitIInv DEF Owned

LEMMA NextOwned == Owned /\ [Next]_vars => Owned'
<1>. SUFFICES ASSUME Owned, [Next]_vars PROVE Owned'
  OBVIOUS
<1>1. IInv'
  BY NextIInv DEF Owned
<1>2. CASE Open \/ AnswerOnly
  BY <1>1, <1>2, EveryAnswer, AnswersOwnerInv, AnswersCeremony DEF Owned
<1>3. CASE Lifecycle
  BY <1>1, <1>3, OwnerLifecycle DEF Owned
<1>4. CASE IssueInvitation \/ ClearInvitation \/ Tick \/ UNCHANGED vars
  BY <1>1, <1>4, OwnerOthers DEF Owned
<1>. QED BY <1>2, <1>3, <1>4 DEF Next

LEMMA Ownership == Spec => []Owned
BY InitOwned, NextOwned, PTL DEF Spec

(* As long as the rename that creates the control directory is confirmed   *)
(* (store.go, InitDir), a device that told its first owner so has an owner *)
(* on every disk a restart or a power cut can find, until it is released,  *)
(* whatever writes fail or stay unconfirmed and whatever is requested.     *)
THEOREM OwnerSurvives ==
  ASSUME "unconfirmed" \notin CreateOutcomes
  PROVE  Spec => []AcknowledgedOwnerSurvives
<1>1. Owned => AcknowledgedOwnerSurvives
  BY HasOwnerRules DEF Owned, OwnerInv, ParentDurable, AcknowledgedOwnerSurvives
<1>. QED BY <1>1, Ownership, PTL

(* No clock, no failed write and no run of requests leaves a record with   *)
(* authority on a device that has no owner.                                *)
LEMMA UnownedIsRevoked == Spec => []UnownedMeansAllRevoked
<1>1. Owned => UnownedMeansAllRevoked
  BY StateRules DEF Owned, UnownedMeansAllRevoked, AllRevoked
<1>. QED BY <1>1, Ownership, PTL

(* Steps that answer no request either end or begin a process, or leave    *)
(* the records alone.                                                      *)
LEMMA Unanswered ==
  ASSUME Next \/ UNCHANGED vars, ~(Open \/ AnswerOnly), lock = "none", lock' = "none"
  PROVE  grants' = grants
BY DEF Next, Lifecycle, Restart, PowerCut, GoDown, Load, RetireUnconfirmed, Retire,
       Create, IssueInvitation, ClearInvitation, Tick, store, vars

LEMMA AnswerWrites ==
  ASSUME NEW next, NEW wr, Answers(next, wr)
  PROVE  grants' = IF Committed(wr) THEN next ELSE grants
BY DEF Answers, Wrote, Update, store

StateReads ==
  /\ State = "enrolled" <=> lock = "none" /\ Rules(grants)
  /\ State = "legacy" <=> lock = "none" /\ ~Rules(grants)

(* An owned device becomes unowned only by a committed release, which      *)
(* leaves no record unrevoked and nobody waiting; an unowned one gets an   *)
(* owner only from a live invitation, which that spends.                   *)
THEOREM ByReleaseOrInvitation == Spec => OwnershipChangesHands
<1>. DEFINE Hands ==
       /\ State = "enrolled" /\ State' = "legacy" =>
            /\ \A c \in DOMAIN grants' : grants'[c].revokedAt # 0
            /\ pending' = Nothing /\ denied' = Nothing
       /\ State = "legacy" /\ State' = "enrolled" =>
            inv.id # 0 /\ now < inv.expiresAt /\ inv' = NoInv
<1>1. Owned /\ StateReads /\ StateReads' /\ [Next]_vars => [Hands]_vars
  <2>. SUFFICES ASSUME Owned, StateReads, StateReads', [Next]_vars PROVE Hands
    OBVIOUS
  <2>1. /\ State = "enrolled" <=> lock = "none" /\ Rules(grants)
        /\ State = "legacy" <=> lock = "none" /\ ~Rules(grants)
    BY DEF StateReads
  <2>2. /\ State' = "enrolled" <=> lock' = "none" /\ Rules(grants')
        /\ State' = "legacy" <=> lock' = "none" /\ ~Rules(grants')
    BY DEF StateReads
  <2>3. CASE ~(Open \/ AnswerOnly)
    <3>1. lock = "none" /\ lock' = "none" => grants' = grants
      BY <2>3, Unanswered
    <3>. QED BY <2>1, <2>2, <3>1
  <2>4. CASE Open \/ AnswerOnly
    <3>1. PICK next, wr : Answers(next, wr)
      BY <2>4, EveryAnswer DEF Owned
    <3>2. grants' = IF Committed(wr) THEN next ELSE grants
      BY <3>1, AnswerWrites
    <3>3. ASSUME State = "enrolled", State' = "legacy"
          PROVE  /\ \A c \in DOMAIN grants' : grants'[c].revokedAt # 0
                 /\ pending' = Nothing /\ denied' = Nothing
      BY <2>1, <2>2, <3>1, <3>2, <3>3 DEF Answers, Stays, Taken, ReleasedBy, AllRevoked
    <3>4. ASSUME State = "legacy", State' = "enrolled"
          PROVE  inv.id # 0 /\ now < inv.expiresAt /\ inv' = NoInv
      <4>1. Committed(wr) /\ Taken(next, wr)
        BY <2>1, <2>2, <3>1, <3>2, <3>4 DEF Answers, Stays, ReleasedBy
      <4>. QED BY <4>1 DEF Taken, InvitationLive, SpendInvitation, Owned, CeremonyInv
    <3>. QED BY <3>3, <3>4
  <2>. QED BY <2>3, <2>4
<1>2. Owned => StateReads
  BY StateRules DEF Owned, StateReads
<1>. QED BY <1>1, <1>2, Ownership, PTL DEF Spec, OwnershipChangesHands

(* What a step that answers no request finds in memory was on disk, and a  *)
(* disk changes back only by a power cut.                                  *)
LEMMA UnansweredKeeps ==
  ASSUME Owned, Next \/ UNCHANGED vars, ~(Open \/ AnswerOnly), NEW c
  PROVE  /\ IsRevoked(grants, c) => ~IsRestored(grants', c)
         /\ IsRevoked(disk.grants, c) =>
              /\ lock = "down" => ~IsRestored(grants', c)
              /\ IsRestored(disk'.grants, c) => lock' = "down" /\ disk' \in maybe
<1>1. DOMAIN Nothing = {} /\ (lock # "none" => grants = Nothing) /\ IsDisk(disk)
  BY DEF Nothing, Owned, IInv, StoreInv, StoreType, DownIsEmpty
<1>2. CASE Restart \/ PowerCut
  BY <1>1, <1>2 DEF Restart, PowerCut, GoDown, Forget, IsRestored, IsRevoked
<1>3. CASE Load
  BY <1>1, <1>3 DEF Load, IsRestored, IsRevoked
<1>4. CASE RetireUnconfirmed \/ \E del \in Outcomes : Retire(del)
  <2>1. grants' = Nothing /\ disk'.grants = disk.grants
    BY <1>1, <1>4 DEF RetireUnconfirmed, Retire, Forget, IsDisk
  <2>. QED BY <1>1, <2>1 DEF IsRestored, IsRevoked
<1>5. CASE \E wr \in Outcomes : Create(wr)
  <2>1. grants' = grants /\ (disk' = disk \/ disk'.grants = Nothing)
    BY <1>5 DEF Create
  <2>. QED BY <1>1, <1>5, <2>1 DEF IsRestored, IsRevoked, Create
<1>6. CASE IssueInvitation \/ ClearInvitation \/ Tick \/ UNCHANGED vars
  <2>1. UNCHANGED <<grants, disk, lock>>
    BY <1>6 DEF IssueInvitation, ClearInvitation, Tick, store, vars
  <2>2. lock = "down" => grants = Nothing
    BY <1>1
  <2>. QED BY <1>1, <2>1, <2>2 DEF IsRestored, IsRevoked
<1>. QED BY <1>2, <1>3, <1>4, <1>5, <1>6 DEF Next, Lifecycle

(* What was revoked has authority again only by the command of another     *)
(* active owner, whose counter it spent, or by the invitation of an        *)
(* unowned device, restarts and starts included; a revocation leaves the   *)
(* disk only with a power cut that undoes an unconfirmed write; and on a   *)
(* device without an owner nobody has authority.                           *)
THEOREM RevokedForGood == Spec => NothingRevives
<1>. DEFINE Sticks == \A c \in DOMAIN grants \union DOMAIN disk.grants :
       /\ IsRevoked(grants, c) /\ IsRestored(grants', c) => Licensed(c)
       /\ IsRevoked(disk.grants, c) =>
            /\ lock = "down" => ~IsRestored(grants', c)
            /\ IsRestored(disk'.grants, c) =>
                 (lock' = "down" /\ disk' \in maybe) \/ Licensed(c)
<1>1. Owned /\ [Next]_vars => [Sticks]_vars
  <2>. SUFFICES ASSUME Owned, [Next]_vars, NEW c
                PROVE  /\ IsRevoked(grants, c) /\ IsRestored(grants', c) => Licensed(c)
                       /\ IsRevoked(disk.grants, c) =>
                            /\ lock = "down" => ~IsRestored(grants', c)
                            /\ IsRestored(disk'.grants, c) =>
                                 (lock' = "down" /\ disk' \in maybe) \/ Licensed(c)
    OBVIOUS
  <2>1. CASE ~(Open \/ AnswerOnly)
    BY <2>1, UnansweredKeeps
  <2>2. CASE Open \/ AnswerOnly
    <3>1. PICK next, wr : Answers(next, wr)
      BY <2>2, EveryAnswer DEF Owned
    <3>2. /\ lock = "none" /\ grants' = IF Committed(wr) THEN next ELSE grants
          /\ disk'.grants = grants'
      <4>1. lock = "none" /\ disk.grants = grants /\ IsDisk(disk)
        BY <3>1 DEF Answers, Owned, IInv, StoreInv, StoreType, MemoryIsDisk
      <4>. QED BY <3>1, <4>1 DEF Answers, Wrote, Update, store, IsDisk
    <3>3. disk.grants = grants
      BY <3>2 DEF Owned, IInv, StoreInv, MemoryIsDisk
    <3>4. ASSUME IsRevoked(grants, c), IsRestored(grants', c) PROVE Licensed(c)
      <4>1. grants' = next
        BY <3>2, <3>4 DEF IsRevoked, IsRestored
      <4>2. IF State = "legacy" THEN InvitationLive
              ELSE \E o \in DOMAIN grants \ {c} :
                     ActiveOwner(grants[o]) /\ next[o].window # grants[o].window
        BY <3>1, <3>4, <4>1 DEF Answers, LicensesAll, IsRevoked, IsRestored
      <4>. QED BY <4>1, <4>2 DEF InvitationLive, Owned, CeremonyInv, Licensed
    <3>. QED BY <3>2, <3>3, <3>4
  <2>. QED BY <2>1, <2>2
<1>. QED BY <1>1, Ownership, UnownedIsRevoked, PTL DEF Spec, NothingRevives, RevocationSticks

-----------------------------------------------------------------------------
(* Part three: the pending table and the denies.  Every step but an access *)
(* request that is recorded only takes entries away.                       *)

RequestsInv == IsFiniteSet(DOMAIN pending) /\ PendingBounded /\ DeniedNotPending

(* No entry is new; a deny still stands where its requester is listed, and *)
(* an entry lives longer only where nothing denies it.                     *)
Shrunk ==
  /\ now' \in Nat /\ now' >= now
  /\ DOMAIN pending' \subseteq DOMAIN pending
  /\ \A x \in DOMAIN pending' : pending'[x].src = pending[x].src
  /\ \A x \in DOMAIN pending' \intersect DOMAIN denied' :
       /\ pending'[x].expiresAt = pending[x].expiresAt
       /\ x \in DOMAIN denied /\ denied'[x] = denied[x]

LEMMA ShrunkKeeps ==
  ASSUME IInv, RequestsInv, Shrunk PROVE RequestsInv'
<1>. DEFINE From(s) == {c \in DOMAIN pending : pending[c].src = s}
<1>1. IsFiniteSet(DOMAIN pending') /\ Cardinality(DOMAIN pending') <= Cardinality(DOMAIN pending)
  BY FS_Subset DEF RequestsInv, Shrunk
<1>2. Cardinality(DOMAIN pending') <= MaxPending
  <2>1. Cardinality(DOMAIN pending) \in Nat /\ Cardinality(DOMAIN pending') \in Nat
    BY <1>1, FS_CardinalityType DEF RequestsInv
  <2>. QED BY <1>1, <2>1, ControlAssumption DEF RequestsInv, PendingBounded
<1>3. ASSUME NEW s \in Sources
      PROVE  Cardinality({c \in DOMAIN pending' : pending'[c].src = s}) <= MaxPerSource
  <2>. DEFINE now_from == {c \in DOMAIN pending' : pending'[c].src = s}
  <2>1. now_from \subseteq From(s)
    BY DEF Shrunk
  <2>2. IsFiniteSet(From(s))
    BY FS_Subset DEF RequestsInv
  <2>3. /\ IsFiniteSet(now_from) /\ Cardinality(now_from) <= Cardinality(From(s))
        /\ Cardinality(now_from) \in Nat /\ Cardinality(From(s)) \in Nat
    BY <2>1, <2>2, FS_Subset, FS_CardinalityType
  <2>4. Cardinality(From(s)) <= MaxPerSource
    BY DEF RequestsInv, PendingBounded
  <2>. QED BY <2>3, <2>4, ControlAssumption
<1>4. DeniedNotPending'
  <2>. SUFFICES ASSUME NEW c \in DOMAIN denied' \intersect DOMAIN pending'
                PROVE  now' >= denied'[c] \/ now' >= pending'[c].expiresAt
    BY DEF DeniedNotPending
  <2>1. /\ c \in DOMAIN denied \intersect DOMAIN pending
        /\ denied'[c] = denied[c] /\ pending'[c].expiresAt = pending[c].expiresAt
        /\ now' >= now /\ now' \in Nat
    BY DEF Shrunk
  <2>2. now \in Nat /\ denied[c] \in Nat /\ pending[c] \in Pending
    BY <2>1 DEF IInv, StoreInv, StoreType, CeremonyType, IsMap
  <2>3. pending[c].expiresAt \in Nat
    BY <2>2 DEF Pending
  <2>4. now >= denied[c] \/ now >= pending[c].expiresAt
    BY <2>1 DEF RequestsInv, DeniedNotPending
  <2>. QED BY <2>1, <2>2, <2>3, <2>4
<1>. QED BY <1>1, <1>2, <1>3, <1>4 DEF RequestsInv, PendingBounded

LEMMA LiveFacts ==
  IInv => /\ now \in Nat
          /\ DOMAIN Live \subseteq DOMAIN pending /\ DOMAIN Denies \subseteq DOMAIN denied
          /\ \A x \in DOMAIN Live : Live[x] = pending[x] /\ Live[x] \in Pending
          /\ \A x \in DOMAIN Denies : Denies[x] = denied[x]
BY DEF IInv, StoreInv, StoreType, CeremonyType, Live, Denies, Drop, IsMap

LEMMA PrunedShrinks == ASSUME IInv, Pruned, now' = now PROVE Shrunk
BY LiveFacts DEF Pruned, Shrunk

(* The window of an entry moves, or that of nobody.                        *)
LEMMA WindowShrinks ==
  ASSUME IInv, NEW c \in DOMAIN Live, NEW n,
         pending' = [Live EXCEPT ![c].window = Accept(@, n)],
         denied' = Denies, now' = now
  PROVE  Shrunk
<1>1. DOMAIN pending' = DOMAIN Live
  OBVIOUS
<1>2. ASSUME NEW x \in DOMAIN Live
      PROVE  pending'[x].src = pending[x].src /\ pending'[x].expiresAt = pending[x].expiresAt
  <2>1. pending'[x] = IF x = c THEN [Live[x] EXCEPT !.window = Accept(@, n)] ELSE Live[x]
    OBVIOUS
  <2>2. Live[x] = pending[x] /\ Live[x] \in Pending
    BY LiveFacts
  <2>. QED BY <2>1, <2>2 DEF Pending
<1>. QED BY <1>1, <1>2, LiveFacts DEF Shrunk

LEMMA CommitShrinks ==
  ASSUME IInv, NEW c, NEW n, NEW iat, NEW wr, NEW gs, NEW pend, NEW deny,
         Commit(c, n, iat, wr, gs, pend, deny),
         DOMAIN pend \subseteq DOMAIN Live, \A x \in DOMAIN pend : pend[x] = Live[x],
         \A x \in DOMAIN pend \intersect DOMAIN deny :
           x \in DOMAIN Denies /\ deny[x] = Denies[x]
  PROVE  Shrunk
BY LiveFacts DEF Commit, Shrunk

(* A request that is recorded refreshes the entry of its requester, or is  *)
(* a new one below both caps; nothing denies it.                           *)
LEMMA AskKeeps ==
  ASSUME IInv, RequestsInv, NEW c \in Ctl, NEW n \in Nat, NEW iat, NEW key, NEW lan,
         NEW src \in Sources \union {Unknown}, NEW wr, RequestAccess(c, n, iat, key, lan, src, wr)
  PROVE  RequestsInv'
<1>1. /\ denied' = Denies /\ now' = now /\ c \notin DOMAIN Denies /\ MayAsk(c, lan, src)
  BY DEF RequestAccess, MayAsk, DeniedNow
<1>2. CASE ~Committed(wr)
  <2>1. pending' = Live
    BY <1>2 DEF RequestAccess
  <2>. QED BY <1>1, <2>1, PrunedShrinks, ShrunkKeeps DEF Pruned
<1>3. CASE Committed(wr)
  <2>1. PICK w : pending' = Put(Live, c, Asked(c, key, src, w))
    BY <1>3 DEF RequestAccess
  <2>. DEFINE a == Asked(c, key, src, w)
  <2>2. /\ DOMAIN pending' = DOMAIN Live \union {c}
        /\ pending'[c] = a /\ \A x \in DOMAIN Live \ {c} : pending'[x] = Live[x]
    BY <2>1 DEF Put
  <2>3. CASE c \in DOMAIN Live
    <3>1. a.src = Live[c].src
      BY <2>3 DEF Asked
    <3>2. Shrunk
      BY <1>1, <2>2, <2>3, <3>1, LiveFacts DEF Shrunk
    <3>. QED BY <3>2, ShrunkKeeps
  <2>4. CASE c \notin DOMAIN Live
    <3>1. /\ a.src = src /\ Cardinality(DOMAIN Live) < MaxPending /\ ~SourceFull(c, src)
      BY <1>1, <2>4 DEF Asked, MayAsk
    <3>2. IsFiniteSet(DOMAIN Live)
      BY LiveFacts, FS_Subset DEF RequestsInv
    <3>3. /\ IsFiniteSet(DOMAIN pending')
          /\ Cardinality(DOMAIN pending') = Cardinality(DOMAIN Live) + 1
          /\ Cardinality(DOMAIN Live) \in Nat
      BY <2>2, <2>4, <3>2, FS_AddElement, FS_CardinalityType
    <3>4. Cardinality(DOMAIN pending') <= MaxPending
      BY <3>1, <3>3, ControlAssumption
    <3>5. ASSUME NEW s \in Sources
          PROVE  Cardinality({x \in DOMAIN pending' : pending'[x].src = s}) <= MaxPerSource
      <4>. DEFINE before == {x \in DOMAIN pending : pending[x].src = s}
                  lives  == {x \in DOMAIN Live : Live[x].src = s}
                  after  == {x \in DOMAIN pending' : pending'[x].src = s}
      <4>1. /\ IsFiniteSet(before) /\ IsFiniteSet(lives)
            /\ Cardinality(lives) <= Cardinality(before)
            /\ Cardinality(lives) \in Nat /\ Cardinality(before) \in Nat
        <5>1. lives \subseteq before /\ before \subseteq DOMAIN pending
          BY LiveFacts
        <5>2. IsFiniteSet(before)
          BY <5>1, FS_Subset DEF RequestsInv
        <5>. QED BY <5>1, <5>2, FS_Subset, FS_CardinalityType
      <4>2. Cardinality(before) <= MaxPerSource
        BY DEF RequestsInv, PendingBounded
      <4>3. CASE s # src
        <5>1. after = lives
          BY <2>2, <2>4, <3>1, <4>3
        <5>2. MaxPerSource \in Nat
          BY ControlAssumption
        <5>. HIDE DEF before, lives, after
        <5>3. Cardinality(after) <= MaxPerSource
          BY <4>1, <4>2, <5>1, <5>2
        <5>. QED BY <5>3 DEF after
      <4>4. CASE s = src
        <5>1. after = lives \union {c} /\ c \notin lives
          BY <2>2, <2>4, <3>1, <4>4
        <5>2. Cardinality(after) = Cardinality(lives) + 1
          BY <4>1, <5>1, FS_AddElement
        <5>3. lives = {x \in DOMAIN Live \ {c} : Live[x].src = src} /\ src # Unknown
          BY <2>4, <4>4, ControlAssumption
        <5>4. ~(Cardinality(lives) >= MaxPerSource)
          BY <3>1, <5>3 DEF SourceFull
        <5>. QED BY <4>1, <5>2, <5>4, ControlAssumption
      <4>. QED BY <4>3, <4>4
    <3>6. DeniedNotPending'
      <4>. SUFFICES ASSUME NEW x \in DOMAIN denied' \intersect DOMAIN pending'
                    PROVE  now' >= denied'[x] \/ now' >= pending'[x].expiresAt
        BY DEF DeniedNotPending
      <4>1. x \in DOMAIN Live \ {c} /\ denied'[x] = denied[x] /\ pending'[x] = pending[x]
            /\ x \in DOMAIN denied /\ x \in DOMAIN pending
        BY <1>1, <2>2, LiveFacts
      <4>. QED BY <1>1, <4>1 DEF RequestsInv, DeniedNotPending
    <3>. QED BY <3>3, <3>4, <3>5, <3>6 DEF RequestsInv, PendingBounded
  <2>. QED BY <2>3, <2>4
<1>. QED BY <1>2, <1>3

-----------------------------------------------------------------------------
(* Every other step.                                                       *)

LEMMA SpendOnlyShrinks ==
  ASSUME IInv, NEW c, NEW n, NEW wr, SpendOnly(c, n, wr) PROVE Shrunk
BY PrunedShrinks DEF SpendOnly

LEMMA SpendPendingShrinks ==
  ASSUME IInv, NEW c, NEW n, FreshPending(c, n), SpendPending(c, n) PROVE Shrunk
BY WindowShrinks DEF FreshPending, SpendPending

LEMMA CommandShrinks ==
  ASSUME IInv, NEW c \in Ctl, NEW n, NEW iat, NEW wr, OpenCmd(c, n, iat, wr)
  PROVE  Shrunk
<1>1. CASE \/ \E tier \in Tiers : AdmitCmd(c, n, iat, tier, wr) \/ RefuseCmd(c, n, iat, tier, wr)
           \/ FailCommand(c, n, iat, wr)
  BY <1>1, SpendOnlyShrinks DEF AdmitCmd, RefuseCmd, FailCommand
<1>2. CASE ListControllers(c, n, iat, wr)
  BY <1>2, CommitShrinks DEF ListControllers
<1>3. CASE ReleaseOwnership(c, n, iat, wr)
  <2>1. DOMAIN Nothing = {}
    BY DEF Nothing
  <2>2. Commit(c, n, iat, wr, Released(Spend(grants, c, n)), Nothing, Nothing)
    BY <1>3 DEF ReleaseOwnership
  <2>. QED BY <2>1, <2>2, CommitShrinks
<1>4. CASE \E x \in Ctl : RevokeController(c, n, iat, x, wr)
  <2>1. PICK x \in Ctl : RevokeController(c, n, iat, x, wr)
    BY <1>4
  <2>2. \/ \E gs : Commit(c, n, iat, wr, gs, Live, Denies)
        \/ \E gs : Commit(c, n, iat, wr, gs, Drop(Live, {x}), Put(Denies, x, Live[x].expiresAt))
    <3>. DEFINE gs == Spend(grants, c, n)
                act == x \in DOMAIN gs /\ Active(gs[x])
                out == IF act \/ (x \in DOMAIN gs /\ gs[x].revokedAt = 0 /\ ~Active(gs[x]))
                         THEN [gs EXCEPT ![x].revokedAt = now] ELSE gs
    <3>1. CASE ~act /\ x \in DOMAIN Live
      <4>1. Commit(c, n, iat, wr, out, Drop(Live, {x}), Put(Denies, x, Live[x].expiresAt))
        BY <2>1, <3>1 DEF RevokeController
      <4>. QED BY <4>1
    <3>2. CASE ~(~act /\ x \in DOMAIN Live)
      <4>1. Commit(c, n, iat, wr, out, Live, Denies)
        BY <2>1, <3>2 DEF RevokeController
      <4>. QED BY <4>1
    <3>. QED BY <3>1, <3>2
  <2>3. /\ DOMAIN Put(Denies, x, Live[x].expiresAt) = DOMAIN Denies \union {x}
        /\ \A y \in DOMAIN Denies \ {x} : Put(Denies, x, Live[x].expiresAt)[y] = Denies[y]
    BY DEF Put
  <2>4. ASSUME NEW gs, Commit(c, n, iat, wr, gs, Live, Denies) PROVE Shrunk
    BY <2>4, CommitShrinks
  <2>5. ASSUME NEW gs, Commit(c, n, iat, wr, gs, Drop(Live, {x}), Put(Denies, x, Live[x].expiresAt))
        PROVE  Shrunk
    <3>1. DOMAIN Drop(Live, {x}) = DOMAIN Live \ {x}
          /\ \A y \in DOMAIN Drop(Live, {x}) : Drop(Live, {x})[y] = Live[y]
      BY DEF Drop
    <3>2. DOMAIN Drop(Live, {x}) \subseteq DOMAIN Live
      BY <3>1
    <3>3. \A y \in DOMAIN Drop(Live, {x}) \intersect DOMAIN Put(Denies, x, Live[x].expiresAt) :
            y \in DOMAIN Denies /\ Put(Denies, x, Live[x].expiresAt)[y] = Denies[y]
      BY <2>3, <3>1
    <3>. QED BY <2>5, <3>1, <3>2, <3>3, CommitShrinks
  <2>. QED BY <2>2, <2>4, <2>5
<1>5. CASE \E x \in Ctl, role \in Role, exp \in Expiries \union {0} :
             ApproveInPlace(c, n, iat, x, role, exp, wr)
  <2>1. \E gs : Commit(c, n, iat, wr, gs, Live, Denies)
    BY <1>5 DEF ApproveInPlace
  <2>. QED BY <2>1, CommitShrinks
<1>6. CASE \E x \in Ctl, role \in Role, exp \in Expiries \union {0} :
             ApprovePending(c, n, iat, x, role, exp, wr)
  <2>1. PICK gs, x : Commit(c, n, iat, wr, gs, Drop(Live, {x}), Denies)
    BY <1>6 DEF ApprovePending
  <2>2. DOMAIN Drop(Live, {x}) \subseteq DOMAIN Live
        /\ \A y \in DOMAIN Drop(Live, {x}) : Drop(Live, {x})[y] = Live[y]
    BY DEF Drop
  <2>. QED BY <2>1, <2>2, CommitShrinks
<1>7. CASE \E x \in Ctl, role \in Role, exp \in Expiries \union {0}, key \in Keys :
             RegisterController(c, n, iat, x, key, role, exp, wr)
  <2>1. PICK x \in Ctl, role \in Role, exp \in Expiries \union {0}, key \in Keys :
          RegisterController(c, n, iat, x, key, role, exp, wr)
    BY <1>7
  <2>2. PICK gs : Commit(c, n, iat, wr, gs, Drop(Live, {x}), Drop(Denies, {x}))
    BY <2>1 DEF RegisterController
  <2>3. /\ DOMAIN Drop(Live, {x}) \subseteq DOMAIN Live
        /\ \A y \in DOMAIN Drop(Live, {x}) : Drop(Live, {x})[y] = Live[y]
        /\ DOMAIN Drop(Denies, {x}) \subseteq DOMAIN Denies
        /\ \A y \in DOMAIN Drop(Denies, {x}) : Drop(Denies, {x})[y] = Denies[y]
    BY DEF Drop
  <2>. QED BY <2>2, <2>3, CommitShrinks
<1>. QED BY <1>1, <1>2, <1>3, <1>4, <1>5, <1>6, <1>7 DEF OpenCmd

LEMMA EnrollShrinks ==
  ASSUME IInv, NEW c \in Ctl, NEW n, NEW iat, NEW wr, OpenEnroll(c, n, iat, wr)
  PROVE  Shrunk
<1>1. CASE EnrollApproved(c, n, iat, wr)
  BY <1>1, SpendOnlyShrinks, SpendPendingShrinks DEF EnrollApproved
<1>2. CASE \E key \in Keys, offer \in 0 .. issued, v2 \in BOOLEAN :
             EnrollRefused(c, n, iat, key, offer, v2, wr)
  <2>1. /\ now' = now /\ denied' = Denies
        /\ \/ pending' = Live
           \/ c \in DOMAIN Live /\ pending' = [Live EXCEPT ![c].window = Accept(@, n)]
    BY <1>2 DEF EnrollRefused, Pruned
  <2>. QED BY <2>1, PrunedShrinks, WindowShrinks DEF Pruned
<1>3. CASE \E key \in Keys, offer \in 0 .. issued : EnrollFirstOwner(c, n, iat, key, offer, wr)
  BY <1>3, PrunedShrinks DEF EnrollFirstOwner
<1>. QED BY <1>1, <1>2, <1>3 DEF OpenEnroll

LEMMA OthersShrink ==
  ASSUME IInv, \/ AnswerOnly \/ IssueInvitation \/ ClearInvitation \/ Lifecycle
               \/ Tick \/ UNCHANGED vars
  PROVE  Shrunk
<1>1. /\ now \in Nat /\ DOMAIN Nothing = {}
  BY LiveFacts DEF Nothing
<1>2. CASE AnswerOnly
  BY <1>2, PrunedShrinks DEF AnswerOnly
<1>3. CASE IssueInvitation \/ ClearInvitation \/ Tick \/ UNCHANGED vars
  BY <1>1, <1>3 DEF IssueInvitation, ClearInvitation, Tick, requests, ceremony, vars, Shrunk
<1>4. CASE Lifecycle
  <2>1. now' = now /\ (pending' = Nothing \/ UNCHANGED <<pending, denied>>)
    BY <1>4 DEF Lifecycle, Restart, PowerCut, GoDown, Forget, Load, RetireUnconfirmed,
                Retire, Create, ceremony
  <2>. QED BY <1>1, <2>1 DEF Shrunk
<1>. QED BY <1>2, <1>3, <1>4

LEMMA NextRequests == IInv /\ RequestsInv /\ [Next]_vars => RequestsInv'
<1>. SUFFICES ASSUME IInv, RequestsInv, [Next]_vars PROVE RequestsInv'
  OBVIOUS
<1>1. CASE Open
  <2>1. PICK c \in Ctl, n \in 1 .. MaxCtr, iat \in Times, wr \in Outcomes :
          \/ RefuseFutureIat(c, n, iat, wr)
          \/ OpenCmd(c, n, iat, wr)
          \/ OpenEnroll(c, n, iat, wr)
          \/ OpenRequest(c, n, iat, wr)
    BY <1>1 DEF Open
  <2>2. CASE RefuseFutureIat(c, n, iat, wr)
    BY <2>2, SpendOnlyShrinks, SpendPendingShrinks, ShrunkKeeps DEF RefuseFutureIat
  <2>3. CASE OpenCmd(c, n, iat, wr) \/ OpenEnroll(c, n, iat, wr)
    BY <2>3, CommandShrinks, EnrollShrinks, ShrunkKeeps
  <2>4. CASE OpenRequest(c, n, iat, wr)
    <3>1. PICK lan \in BOOLEAN, src \in Sources \union {Unknown} :
            \/ \E key \in Keys : RequestAccess(c, n, iat, key, lan, src, wr)
            \/ RequestAnswered(c, n, iat, lan, src, wr)
      BY <2>4 DEF OpenRequest
    <3>2. CASE \E key \in Keys : RequestAccess(c, n, iat, key, lan, src, wr)
      <4>1. n \in Nat
        BY ControlAssumption
      <4>. QED BY <3>2, <4>1, AskKeeps
    <3>3. CASE RequestAnswered(c, n, iat, lan, src, wr)
      BY <3>3, SpendOnlyShrinks, SpendPendingShrinks, ShrunkKeeps DEF RequestAnswered
    <3>. QED BY <3>1, <3>2, <3>3
  <2>. QED BY <2>1, <2>2, <2>3, <2>4
<1>2. CASE \/ AnswerOnly \/ IssueInvitation \/ ClearInvitation \/ Lifecycle
           \/ Tick \/ UNCHANGED vars
  BY <1>2, OthersShrink, ShrunkKeeps
<1>. QED BY <1>1, <1>2 DEF Next

LEMMA InitRequests == Init => RequestsInv
<1>. SUFFICES ASSUME Init PROVE RequestsInv
  OBVIOUS
<1>1. DOMAIN pending = {} /\ DOMAIN denied = {}
  BY DEF Init, Nothing
<1>2. Cardinality({}) = 0 /\ IsFiniteSet({})
  BY FS_EmptySet
<1>3. \A s \in Sources : {c \in DOMAIN pending : pending[c].src = s} = {}
  BY <1>1
<1>4. PendingBounded
  <2>1. 0 <= MaxPending /\ 0 <= MaxPerSource
    BY ControlAssumption
  <2>2. \A s \in Sources : Cardinality({c \in DOMAIN pending : pending[c].src = s}) = 0
    BY <1>2, <1>3
  <2>3. Cardinality(DOMAIN pending) = 0
    BY <1>1, <1>2
  <2>. QED BY <2>1, <2>2, <2>3 DEF PendingBounded
<1>. QED BY <1>1, <1>2, <1>4 DEF RequestsInv, DeniedNotPending

(* The pending table never exceeds its cap, nor any host its share; whom   *)
(* an owner denied is not listed before the deny ends; an invitation       *)
(* exists only without an owner, a pending request only with one - over    *)
(* any run of requests, refreshes, denies, failed writes and resets.       *)
THEOREM RequestsBounded == Spec => []RequestsInBounds
<1>1. Owned => IInv /\ CeremonyFitsState
  BY StateRules DEF Owned, CeremonyInv, CeremonyFitsState
<1>2. RequestsInv /\ CeremonyFitsState => RequestsInBounds
  BY DEF RequestsInv, RequestsInBounds
<1>. QED BY <1>1, <1>2, Ownership, InitRequests, NextRequests, PTL DEF Spec
=============================================================================
