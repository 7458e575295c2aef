-------------------------- MODULE ControlAuthority --------------------------
(***************************************************************************)
(* The admission authority of feral-controld (control/admit.go) over its   *)
(* durable grant store (control/store.go, control/fs.go): who may act on   *)
(* the device, which signed requests are spent, and what survives a crash, *)
(* a failed write, a power cut and a factory reset.                        *)
(*                                                                         *)
(* Every handler runs under Authority.mu, so it is one step here.  What is *)
(* read BEFORE that lock (the claim clock of authenticate) is OpenLag      *)
(* seconds old at most.  Envelopes are delivered in any order, any number  *)
(* of times; a controller may sign any counter and any iat.                *)
(***************************************************************************)
EXTENDS Integers, FiniteSets, ReplayWindow

CONSTANTS
  Ctl,              \* controller ids (key thumbprints)
  Keys,             \* encryption keys a request may carry
  Sources,          \* LAN source keys a request may come from
  Unknown,          \* the origin of a LAN request whose peer is not known
  Times,            \* iat values requests may claim
  Expiries,         \* expiry times owners may choose (0, none, always is)
  MaxCtr, MaxTime, MaxInv, MaxGen,    \* bounds: counters, clock, mintings
  MaxUnsure,        \* bound: disks a power cut may choose between
  Skew, Lifetime, Grace, Retention,   \* admission clock allowances
  OpenLag,          \* age of the claim clock when the lock is taken
  InvTTL, PendTTL, PendMaxLife, NewInterval, RefreshInterval,
  MaxPending, MaxPerSource, MaxActive, MaxRecords,
  WriteOutcomes,    \* what a durable write may come to
  CreateOutcomes,   \* what creating the directory may come to
  RetireOutcomes,   \* what retiring it may come to
  Watched           \* one envelope, [ctl, ctr, iat, gen], followed for life

Outcomes == {"ok", "unconfirmed", "fail"}

ASSUME ControlAssumption ==
  /\ WriteOutcomes \subseteq Outcomes /\ CreateOutcomes \subseteq Outcomes
  /\ RetireOutcomes \subseteq Outcomes
  /\ MaxCtr \in Nat /\ MaxTime \in Nat /\ MaxInv \in Nat /\ MaxGen \in Nat
  /\ MaxUnsure \in Nat
  /\ Skew \in Nat /\ Lifetime \in Nat /\ Grace \in Nat /\ OpenLag \in Nat
  /\ Retention \in Nat
  /\ InvTTL \in Nat /\ PendTTL \in Nat /\ PendMaxLife \in Nat
  /\ NewInterval \in Nat /\ RefreshInterval \in Nat
  /\ MaxPending \in Nat /\ MaxPerSource \in Nat
  /\ MaxActive \in Nat /\ MaxRecords \in Nat
  /\ Times \subseteq Nat /\ Expiries \subseteq Nat
  /\ Unknown \notin Sources
  /\ Watched \in [ctl : Ctl, ctr : Nat \ {0}, iat : Nat, gen : Nat]

VARIABLES
  now,        \* the wall clock, in seconds
  gens,       \* device identities minted so far
  disk,       \* what a restart of the process reads
  maybe,      \* what a power cut may leave: every write not yet fsynced
  lock,       \* "down", "none" (serving), "retired" or "locked"
  grants,     \* Store.grants: the records in memory
  inv,        \* Authority.inv: the invitation on offer
  issued,     \* invitations issued so far (their random values)
  pending, denied, lastNew,       \* Authority.pending, denied, lastNewPending
  runs,       \* how often the watched command was executed
  refused,    \* the watched command was answered with an authentic refusal
  claimed     \* a first owner was told it owns the device, and nobody let go

store    == <<disk, maybe, grants>>
ceremony == <<inv, issued, pending, denied, lastNew>>
requests == <<pending, denied, lastNew>>
history  == <<runs, refused, claimed>>
vars == <<now, gens, disk, maybe, lock, grants, inv, issued, pending, denied,
          lastNew, runs, refused, claimed>>

-----------------------------------------------------------------------------
(* Records and the functions that hold them.                               *)

Role  == {"owner", "controller"}
Tiers == {"controller", "owner", "internal"}

Grant == [role : Role, enc : Keys, byInv : BOOLEAN,
          expiresAt : Nat, revokedAt : Nat, window : Window]

Pending == [enc : Keys, src : Sources \union {Unknown}, createdAt : Nat,
            refreshedAt : Nat, expiresAt : Nat, window : Window]

NoInv == [id |-> 0, expiresAt |-> 0]

Put(f, c, r) == [x \in DOMAIN f \union {c} |-> IF x = c THEN r ELSE f[x]]
Drop(f, S)   == [x \in DOMAIN f \ S |-> f[x]]
Nothing      == [x \in {} |-> 0]

IsMap(f, S) == /\ DOMAIN f \subseteq Ctl
               /\ f = [x \in DOMAIN f |-> f[x]]
               /\ \A x \in DOMAIN f : f[x] \in S

-----------------------------------------------------------------------------
(* Authority of a record, and the state of the device.                     *)

Active(g) == g.revokedAt = 0 /\ (g.expiresAt = 0 \/ now < g.expiresAt)

ActiveOwner(g) == g.role = "owner" /\ Active(g)

HasOwner(gs) == \E c \in DOMAIN gs : ActiveOwner(gs[c])

State == IF lock # "none" THEN "locked"
         ELSE IF HasOwner(grants) THEN "enrolled" ELSE "legacy"

Permits(role, tier) == tier = "controller" \/ (tier = "owner" /\ role = "owner")

ActiveOthers(gs, c) == {x \in DOMAIN gs \ {c} : Active(gs[x])}

DemotesLastOwner(gs, c, role) ==
  /\ c \in DOMAIN gs /\ ActiveOwner(gs[c]) /\ role # "owner"
  /\ \A x \in DOMAIN gs \ {c} : ~ActiveOwner(gs[x])

(* When an inactive record stopped conferring authority.                   *)
InactiveSince(g) ==
  IF g.revokedAt = 0 \/ (g.expiresAt # 0 /\ g.expiresAt < g.revokedAt)
    THEN g.expiresAt ELSE g.revokedAt

(* evictableIn: the records inactive for longer than the retention, of     *)
(* which the longest inactive may go.                                      *)
Expendable(gs) == {c \in DOMAIN gs : /\ ~Active(gs[c])
                                     /\ now - InactiveSince(gs[c]) > Retention}

Evictable(gs) == {c \in Expendable(gs) : \A x \in Expendable(gs) :
                    InactiveSince(gs[c]) <= InactiveSince(gs[x])}

(* Mutant: a reactivated record starts with the window it is given.        *)
PutGrantNewWindow(gs, c, g) ==
  IF c \in DOMAIN gs \/ Cardinality(DOMAIN gs) < MaxRecords
    THEN {Put(gs, c, g)}
    ELSE {Put(Drop(gs, {x}), c, g) : x \in Evictable(gs)}

(* putGrant: the record of c becomes g but keeps the window it has; a new  *)
(* record may push out one evictable record at the cap.  Empty: no room.   *)
PutGrant(gs, c, g) ==
  IF c \in DOMAIN gs
    THEN {Put(gs, c, [g EXCEPT !.window = gs[c].window])}
    ELSE IF Cardinality(DOMAIN gs) < MaxRecords
           THEN {Put(gs, c, g)}
           ELSE {Put(Drop(gs, {x}), c, g) : x \in Evictable(gs)}

(* validateGrants, for what a bug in the handlers could break.             *)
ValidGrants(gs) ==
  /\ Cardinality(DOMAIN gs) <= MaxRecords
  /\ \A c \in DOMAIN gs : /\ ValidWindow(gs[c].window)
                          /\ gs[c].role = "owner" => gs[c].expiresAt = 0

-----------------------------------------------------------------------------
(* Durable writes.                                                         *)

Committed(wr) == wr \in {"ok", "unconfirmed"}

(* Mutant: memory takes the records before the write is known committed.   *)
UpdateMemoryFirst(gs, wr) ==
  /\ wr \in (IF ValidGrants(gs) THEN WriteOutcomes ELSE {"fail"})
  /\ wr = "unconfirmed" => Cardinality(maybe) < MaxUnsure
  /\ grants' = gs
  /\ IF Committed(wr)
       THEN /\ disk' = [disk EXCEPT !.grants = gs]
            /\ maybe' = (IF wr = "ok" THEN {d \in maybe : d.dir = "absent"}
                                      ELSE maybe) \union {disk'}
       ELSE UNCHANGED <<disk, maybe>>

(* Store.Update: validate, write and rename, then publish in memory.  "ok" *)
(* also fsynced the control directory; "unconfirmed" is ErrDurability: the *)
(* rename happened, so a restart reads gs, and a power cut may undo it.    *)
(* Neither fsyncs the PARENT, so a directory whose own creation was never  *)
(* confirmed stays unconfirmed.                                            *)
Update(gs, wr) ==
  /\ wr \in (IF ValidGrants(gs) THEN WriteOutcomes ELSE {"fail"})
  /\ wr = "unconfirmed" => Cardinality(maybe) < MaxUnsure
  /\ IF Committed(wr)
       THEN /\ grants' = gs
            /\ disk' = [disk EXCEPT !.grants = gs]
            /\ maybe' = (IF wr = "ok" THEN {d \in maybe : d.dir = "absent"}
                                      ELSE maybe) \union {disk'}
       ELSE UNCHANGED store

Spend(gs, c, n) == [gs EXCEPT ![c].window = Accept(@, n)]

-----------------------------------------------------------------------------
(* What every authenticated envelope goes through.                         *)

ClaimClocks == {t \in 1 .. now : t >= now - OpenLag}

InTime(iat) == \E t \in ClaimClocks : /\ t <= iat + Lifetime + Grace
                                      /\ iat <= t + Skew

FutureIat(iat) == \E t \in ClaimClocks : iat > t + Skew

IsWatched(c, n, iat) ==
  /\ c = Watched.ctl /\ n = Watched.ctr /\ iat = Watched.iat
  /\ disk.gen = Watched.gen

(* prunePending, which OpenFrom runs before any handler.                   *)
Live   == Drop(pending, {c \in DOMAIN pending : now >= pending[c].expiresAt})
Denies == Drop(denied, {c \in DOMAIN denied : now >= denied[c]})
Pruned == pending' = Live /\ denied' = Denies

(* A record of c whose window still takes counter n.                       *)
Fresh(c, n) == /\ lock = "none"
               /\ c \in DOMAIN grants
               /\ CheckCtr(grants[c].window, n)

(* An unknown controller with a pending request: its window is that one.   *)
FreshPending(c, n) == /\ lock = "none"
                      /\ c \notin DOMAIN grants
                      /\ c \in DOMAIN Live
                      /\ CheckCtr(Live[c].window, n)

Executes(c, n, iat, wr) ==
  runs' = IF wr = "ok" /\ IsWatched(c, n, iat) THEN runs + 1 ELSE runs

(* Authority.refuse and every answer that only spends the counter of a     *)
(* record: ErrDurability is tolerated, the denial stands.                  *)
SpendOnly(c, n, wr) ==
  /\ Update(Spend(grants, c, n), wr)
  /\ Pruned
  /\ UNCHANGED <<now, gens, lock, inv, issued, lastNew>>

(* The same for a pending request, in memory.                              *)
SpendPending(c, n) ==
  /\ pending' = [Live EXCEPT ![c].window = Accept(@, n)]
  /\ denied' = Denies
  /\ UNCHANGED <<now, gens, lock, store, inv, issued, lastNew, history>>

(* Replays, requests of keys with nothing to spend, and every other answer *)
(* that changes nothing still prune the ceremony tables.                   *)
AnswerOnly ==
  /\ lock = "none"
  /\ Pruned
  /\ UNCHANGED <<now, gens, lock, store, inv, issued, lastNew, history>>

(* refuseFutureIat, for a record and for a pending request.                *)
RefuseFutureIat(c, n, iat, wr) ==
  /\ FutureIat(iat)
  /\ \/ /\ Fresh(c, n)
        /\ SpendOnly(c, n, wr)
        /\ refused' = (refused \/ (Committed(wr) /\ IsWatched(c, n, iat)))
        /\ UNCHANGED <<runs, claimed>>
     \/ FreshPending(c, n) /\ SpendPending(c, n)

-----------------------------------------------------------------------------
(* Commands (op=cmd).                                                      *)

(* Mutant: the record must be of an owned device but may be revoked.       *)
AuthorizedInactive(c, tier) == State = "enrolled" /\ Permits(grants[c].role, tier)

Authorized(c, tier) == /\ State = "enrolled"
                       /\ Active(grants[c])
                       /\ Permits(grants[c].role, tier)

(* A command for the router: executed once its window write is confirmed.  *)
AdmitCmd(c, n, iat, tier, wr) ==
  /\ Fresh(c, n) /\ InTime(iat)
  /\ Authorized(c, tier)
  /\ SpendOnly(c, n, wr)
  /\ Executes(c, n, iat, wr)
  /\ UNCHANGED <<refused, claimed>>

(* access_revoked, not_approved or permission_denied.                      *)
RefuseCmd(c, n, iat, tier, wr) ==
  /\ Fresh(c, n) /\ InTime(iat)
  /\ ~Authorized(c, tier)
  /\ SpendOnly(c, n, wr)
  /\ refused' = (refused \/ (Committed(wr) /\ IsWatched(c, n, iat)))
  /\ UNCHANGED <<runs, claimed>>

(* controlCommand: gs is the outcome the command computed, written together *)
(* with the spent counter; the pending table and the denies follow any     *)
(* committed write, confirmed or not.                                      *)
Commit(c, n, iat, wr, gs, pend, deny) ==
  /\ Update(gs, wr)
  /\ pending' = IF Committed(wr) THEN pend ELSE Live
  /\ denied' = IF Committed(wr) THEN deny ELSE Denies
  /\ Executes(c, n, iat, wr)
  /\ UNCHANGED <<now, gens, lock, inv, issued, lastNew, refused>>

OwnerSigned(c, n, iat) == Fresh(c, n) /\ InTime(iat) /\ Authorized(c, "owner")

(* listControllers.                                                        *)
ListControllers(c, n, iat, wr) ==
  /\ OwnerSigned(c, n, iat)
  /\ Commit(c, n, iat, wr, Spend(grants, c, n), Live, Denies)
  /\ UNCHANGED claimed

(* A control command answered ok:false (invalid_request, not_pending,      *)
(* not_found, last_owner, too_many_controllers): only the counter moves.   *)
FailCommand(c, n, iat, wr) ==
  /\ OwnerSigned(c, n, iat)
  /\ SpendOnly(c, n, wr)
  /\ refused' = (refused \/ (wr = "ok" /\ IsWatched(c, n, iat)))
  /\ UNCHANGED <<runs, claimed>>

(* grantExpiry: in the future, and never for an owner.                     *)
MayExpire(role, exp) == exp = 0 \/ (exp > now /\ role = "controller")

(* approveController without a pending request: an active grant in place.  *)
ApproveInPlace(c, n, iat, x, role, exp, wr) ==
  LET gs == Spend(grants, c, n)
  IN  /\ OwnerSigned(c, n, iat) /\ MayExpire(role, exp)
      /\ x \notin DOMAIN Live
      /\ x \in DOMAIN gs /\ Active(gs[x])
      /\ ~DemotesLastOwner(gs, x, role)
      /\ Commit(c, n, iat, wr,
                [gs EXCEPT ![x].role = role, ![x].expiresAt = exp,
                           ![x].byInv = FALSE], Live, Denies)
      /\ UNCHANGED claimed

(* approveController of a pending request.                                 *)
ApprovePending(c, n, iat, x, role, exp, wr) ==
  LET gs == Spend(grants, c, n)
  IN  /\ OwnerSigned(c, n, iat) /\ MayExpire(role, exp)
      /\ x \in DOMAIN Live
      /\ ~DemotesLastOwner(gs, x, role)
      /\ Cardinality(ActiveOthers(gs, x)) < MaxActive
      /\ \E next \in PutGrant(gs, x,
              [role |-> role, enc |-> Live[x].enc, byInv |-> FALSE,
               expiresAt |-> exp, revokedAt |-> 0, window |-> Live[x].window]) :
           Commit(c, n, iat, wr, next, Drop(Live, {x}), Denies)
      /\ UNCHANGED claimed

(* registerController: the owner adds the keys it scanned.                 *)
RegisterController(c, n, iat, x, key, role, exp, wr) ==
  LET gs == Spend(grants, c, n)
      held == IF x \in DOMAIN Live THEN Live[x].window ELSE EmptyWindow
      fresh == [role |-> role, enc |-> key, byInv |-> FALSE,
                expiresAt |-> exp, revokedAt |-> 0, window |-> held]
      inPlace == x \in DOMAIN gs /\ Active(gs[x])
  IN  /\ OwnerSigned(c, n, iat) /\ MayExpire(role, exp)
      /\ x \in DOMAIN gs => gs[x].enc = key
      /\ ~DemotesLastOwner(gs, x, role)
      /\ inPlace \/ Cardinality(ActiveOthers(gs, x)) < MaxActive
      /\ \E next \in IF inPlace
                       THEN {[gs EXCEPT ![x].role = role, ![x].expiresAt = exp,
                                        ![x].byInv = FALSE]}
                       ELSE PutGrant(gs, x, fresh) :
           Commit(c, n, iat, wr, next, Drop(Live, {x}), Drop(Denies, {x}))
      /\ UNCHANGED claimed

(* An owner revokes anyone but the last active owner; a controller may     *)
(* revoke itself (isSelfRevoke); an expired grant is revoked durably.  A   *)
(* pending request of an inactive record is denied with it.                *)
RevokeController(c, n, iat, x, wr) ==
  LET gs == Spend(grants, c, n)
      lapsed == x \in DOMAIN gs /\ gs[x].revokedAt = 0 /\ ~Active(gs[x])
      active == x \in DOMAIN gs /\ Active(gs[x])
      denies == ~active /\ x \in DOMAIN Live
  IN  /\ Fresh(c, n) /\ InTime(iat)
      /\ Authorized(c, "owner") \/ (Authorized(c, "controller") /\ x = c)
      /\ active \/ lapsed \/ denies
      /\ ~(active /\ DemotesLastOwner(gs, x, "controller"))
      /\ Commit(c, n, iat, wr,
                IF active \/ lapsed THEN [gs EXCEPT ![x].revokedAt = now] ELSE gs,
                IF denies THEN Drop(Live, {x}) ELSE Live,
                IF denies THEN Put(Denies, x, Live[x].expiresAt) ELSE Denies)
      /\ UNCHANGED claimed

(* releaseOwnership: every record not yet revoked is, expired ones too.    *)
(* Mutant: only the owners are revoked.                                    *)
ReleasedOwners(gs) ==
  [x \in DOMAIN gs |-> IF gs[x].revokedAt = 0 /\ gs[x].role = "owner"
                         THEN [gs[x] EXCEPT !.revokedAt = now] ELSE gs[x]]

Released(gs) ==
  [x \in DOMAIN gs |-> IF gs[x].revokedAt = 0
                         THEN [gs[x] EXCEPT !.revokedAt = now] ELSE gs[x]]

ReleaseOwnership(c, n, iat, wr) ==
  /\ OwnerSigned(c, n, iat)
  /\ Commit(c, n, iat, wr, Released(Spend(grants, c, n)), Nothing, Nothing)
  /\ claimed' = (claimed /\ ~Committed(wr))

-----------------------------------------------------------------------------
(* Enrolment and access requests (op=enroll, op=requestAccess).            *)

(* IssueInvitation and EnsureInvitation, in StateLegacy only.              *)
IssueInvitation ==
  /\ State = "legacy" /\ issued < MaxInv
  /\ issued' = issued + 1
  /\ inv' = [id |-> issued + 1, expiresAt |-> now + InvTTL]
  /\ UNCHANGED <<now, gens, lock, store, requests, history>>

ClearInvitation ==
  /\ inv # NoInv
  /\ inv' = NoInv
  /\ UNCHANGED <<now, gens, lock, store, issued, requests, history>>

InvitationLive == inv # NoInv /\ now < inv.expiresAt

(* The idempotent enroll: a retry of a first-owner enroll whose write was  *)
(* committed, and every enroll without an invitation.                      *)
EnrollApproved(c, n, iat, wr) ==
  /\ InTime(iat)
  /\ \/ Fresh(c, n) /\ SpendOnly(c, n, wr) /\ UNCHANGED history
     \/ FreshPending(c, n) /\ SpendPending(c, n)

InvitationAccepted(offer, v2) ==
  State = "legacy" /\ ~v2 /\ InvitationLive /\ offer = inv.id

Retries(c, key) == /\ c \in DOMAIN grants /\ Active(grants[c])
                   /\ grants[c].byInv /\ grants[c].enc = key

(* invitation_invalid: spends where there is a window, and an expired      *)
(* invitation met in StateLegacy is dropped.                               *)
EnrollRefused(c, n, iat, key, offer, v2, wr) ==
  /\ lock = "none" /\ InTime(iat)
  /\ ~InvitationAccepted(offer, v2) /\ ~Retries(c, key)
  /\ inv' = IF State = "legacy" /\ ~v2 /\ ~InvitationLive THEN NoInv ELSE inv
  /\ IF c \in DOMAIN grants
       THEN /\ Fresh(c, n)
            /\ Update(Spend(grants, c, n), wr)
            /\ Pruned
       ELSE /\ c \in DOMAIN Live => CheckCtr(Live[c].window, n)
            /\ pending' = IF c \in DOMAIN Live
                            THEN [Live EXCEPT ![c].window = Accept(@, n)]
                            ELSE Live
            /\ denied' = Denies
            /\ UNCHANGED store
  /\ UNCHANGED <<now, gens, lock, issued, lastNew, history>>

(* The records once c is the first owner: in place, or appended.           *)
WithFirstOwner(gs, c, key, w) ==
  Put(gs, c, [role |-> "owner", enc |-> key, byInv |-> TRUE,
              expiresAt |-> 0, revokedAt |-> 0, window |-> w])

(* Mutant: only a confirmed write spends the invitation.                   *)
SpendInvitationConfirmed(wr) == inv' = IF wr = "ok" THEN NoInv ELSE inv

(* Any committed write spends the invitation, confirmed or not.            *)
SpendInvitation(wr) == inv' = IF Committed(wr) THEN NoInv ELSE inv

EnrollFirstOwner(c, n, iat, key, offer, wr) ==
  LET window == IF c \in DOMAIN grants THEN grants[c].window
                ELSE IF c \in DOMAIN Live THEN Live[c].window
                ELSE EmptyWindow
  IN  /\ InTime(iat)
      /\ InvitationAccepted(offer, FALSE)
      /\ CheckCtr(window, n)
      /\ Update(WithFirstOwner(grants, c, key, Accept(window, n)), wr)
      /\ SpendInvitation(wr)
      /\ claimed' = (claimed \/ wr = "ok")
      /\ Pruned
      /\ UNCHANGED <<now, gens, lock, issued, lastNew, runs, refused>>

(* An owner's deny, until the request it answered would have expired.      *)
DeniedNow(c) == c \in DOMAIN Denies

(* requestAccess: what may enter or refresh the table.                     *)

SourceFull(c, src) ==
  /\ src # Unknown
  /\ Cardinality({x \in DOMAIN Live \ {c} : Live[x].src = src}) >= MaxPerSource

MayAsk(c, lan, src) ==
  /\ State = "enrolled"
  /\ ~DeniedNow(c)
  /\ c \in DOMAIN grants => ~Active(grants[c])
  /\ lan
  /\ IF c \in DOMAIN Live
       THEN now - Live[c].refreshedAt >= RefreshInterval
       ELSE /\ Cardinality(DOMAIN Live) < MaxPending
            /\ lastNew = 0 \/ now - lastNew >= NewInterval
            /\ ~SourceFull(c, src)

Asked(c, key, src, window) ==
  LET old == c \in DOMAIN Live
      created == IF old THEN Live[c].createdAt ELSE now
      until == IF now + PendTTL <= created + PendMaxLife
                 THEN now + PendTTL ELSE created + PendMaxLife
  IN  [enc |-> key, src |-> IF old THEN Live[c].src ELSE src,
       createdAt |-> created, refreshedAt |-> now, expiresAt |-> until,
       window |-> window]

(* A request is recorded; a known record persists its window first, and    *)
(* an uncommitted write leaves no entry.                                   *)
RequestAccess(c, n, iat, key, lan, src, wr) ==
  LET held == IF c \in DOMAIN Live THEN Live[c].window ELSE EmptyWindow
      known == c \in DOMAIN grants
  IN  /\ lock = "none" /\ InTime(iat)
      /\ MayAsk(c, lan, src)
      /\ IF known THEN Fresh(c, n) /\ Update(Spend(grants, c, n), wr)
                  ELSE CheckCtr(held, n) /\ wr = "ok" /\ UNCHANGED store
      /\ pending' = IF Committed(wr)
                      THEN Put(Live, c, Asked(c, key, src,
                                 IF known THEN held ELSE Accept(held, n)))
                      ELSE Live
      /\ denied' = Denies
      /\ lastNew' = IF Committed(wr) /\ c \notin DOMAIN Live THEN now ELSE lastNew
      /\ UNCHANGED <<now, gens, lock, inv, issued, history>>

(* not_approved, rate_limited, or approved for an active grant.            *)
RequestAnswered(c, n, iat, lan, src, wr) ==
  /\ InTime(iat) /\ ~MayAsk(c, lan, src)
  /\ \/ Fresh(c, n) /\ SpendOnly(c, n, wr) /\ UNCHANGED history
     \/ FreshPending(c, n) /\ SpendPending(c, n)

-----------------------------------------------------------------------------
(* Factory reset, crashes, starts and time.                                *)

Forget == /\ grants' = Nothing
          /\ inv' = NoInv /\ pending' = Nothing

(* Mutant: the directory is removed before the tombstone is confirmed.     *)
RetireUnconfirmedDeletes ==
  /\ lock # "down" /\ "unconfirmed" \in RetireOutcomes
  /\ lock' = "retired"
  /\ Forget
  /\ disk' = [disk EXCEPT !.tomb = TRUE, !.dir = "absent"]
  /\ maybe' = maybe \union {disk', [disk EXCEPT !.dir = "absent"]}
  /\ UNCHANGED <<now, gens, issued, denied, lastNew, history>>

(* Store.Retire whose tombstone was renamed but not fsynced: locked, and   *)
(* nothing is deleted.  (A tombstone that was not written changes nothing.) *)
RetireUnconfirmed ==
  /\ lock # "down" /\ "unconfirmed" \in RetireOutcomes
  /\ lock' = "retired"
  /\ Forget
  /\ disk' = [disk EXCEPT !.tomb = TRUE]
  /\ maybe' = maybe \union {disk'}
  /\ UNCHANGED <<now, gens, issued, denied, lastNew, history>>

(* The tombstone is durable; then the directory is removed, wholly, partly *)
(* or without confirmation.                                                *)
Retire(del) ==
  /\ lock # "down" /\ del \in RetireOutcomes
  /\ lock' = "retired"
  /\ Forget
  /\ disk' = [disk EXCEPT !.tomb = TRUE,
                          !.dir = IF Committed(del) THEN "absent" ELSE "partial"]
  /\ maybe' = (IF del = "ok" THEN {}
                 ELSE {[d EXCEPT !.tomb = TRUE] : d \in maybe}) \union {disk'}
  /\ UNCHANGED <<now, gens, issued, denied, lastNew, history>>

(* The process ends; everything but the disk is gone.                      *)
GoDown == /\ lock' = "down"
          /\ Forget
          /\ denied' = Nothing /\ lastNew' = 0
          /\ UNCHANGED <<now, gens, issued, history>>

Restart == lock # "down" /\ GoDown /\ UNCHANGED <<disk, maybe>>

PowerCut == /\ GoDown
            /\ disk' \in maybe
            /\ maybe' = {disk'}

(* LoadStore and OpenStore: a tombstone locks before anything is read; a   *)
(* directory that cannot be trusted locks.                                 *)
Load ==
  /\ lock = "down"
  /\ disk.tomb \/ disk.dir # "absent"
  /\ lock' = IF disk.tomb THEN "retired"
             ELSE IF disk.dir = "ok" THEN "none" ELSE "locked"
  /\ grants' = IF lock' = "none" THEN disk.grants ELSE Nothing
  /\ UNCHANGED <<now, gens, disk, maybe, ceremony, history>>

(* InitDir, when and only when no directory exists: a new identity, in a   *)
(* staging directory renamed into place.  Whatever fails leaves the store  *)
(* locked, even after the rename.                                          *)
Create(wr) ==
  /\ lock = "down" /\ wr \in CreateOutcomes
  /\ ~disk.tomb /\ disk.dir = "absent" /\ gens < MaxGen
  /\ lock' = IF wr = "ok" THEN "none" ELSE "locked"
  /\ gens' = gens + 1
  /\ IF Committed(wr)
       THEN /\ disk' = [dir |-> "ok", tomb |-> FALSE, gen |-> gens + 1,
                        grants |-> Nothing]
            /\ maybe' = (IF wr = "ok" THEN {} ELSE maybe) \union {disk'}
       ELSE UNCHANGED <<disk, maybe>>
  /\ UNCHANGED <<now, grants, ceremony, history>>

Tick == /\ now < MaxTime
        /\ now' = now + 1
        /\ UNCHANGED <<gens, lock, store, ceremony, history>>

-----------------------------------------------------------------------------
Init ==
  /\ now = 1 /\ gens = 0 /\ lock = "down" /\ grants = Nothing
  /\ disk = [dir |-> "absent", tomb |-> FALSE, gen |-> 0, grants |-> Nothing]
  /\ maybe = {disk}
  /\ inv = NoInv /\ issued = 0
  /\ pending = Nothing /\ denied = Nothing /\ lastNew = 0
  /\ runs = 0 /\ refused = FALSE /\ claimed = FALSE

OpenCmd(c, n, iat, wr) ==
  \/ \E tier \in Tiers : AdmitCmd(c, n, iat, tier, wr)
  \/ \E tier \in Tiers : RefuseCmd(c, n, iat, tier, wr)
  \/ ListControllers(c, n, iat, wr)
  \/ FailCommand(c, n, iat, wr)
  \/ ReleaseOwnership(c, n, iat, wr)
  \/ \E x \in Ctl : RevokeController(c, n, iat, x, wr)
  \/ \E x \in Ctl, role \in Role, exp \in Expiries \union {0} :
       \/ ApproveInPlace(c, n, iat, x, role, exp, wr)
       \/ ApprovePending(c, n, iat, x, role, exp, wr)
       \/ \E key \in Keys : RegisterController(c, n, iat, x, key, role, exp, wr)

OpenEnroll(c, n, iat, wr) ==
  \/ EnrollApproved(c, n, iat, wr)
  \/ \E key \in Keys, offer \in 0 .. issued :
       \/ \E v2 \in BOOLEAN : EnrollRefused(c, n, iat, key, offer, v2, wr)
       \/ EnrollFirstOwner(c, n, iat, key, offer, wr)

OpenRequest(c, n, iat, wr) ==
  \E lan \in BOOLEAN, src \in Sources \union {Unknown} :
    \/ \E key \in Keys : RequestAccess(c, n, iat, key, lan, src, wr)
    \/ RequestAnswered(c, n, iat, lan, src, wr)

Open == \E c \in Ctl, n \in 1 .. MaxCtr, iat \in Times, wr \in Outcomes :
          \/ RefuseFutureIat(c, n, iat, wr)
          \/ OpenCmd(c, n, iat, wr)
          \/ OpenEnroll(c, n, iat, wr)
          \/ OpenRequest(c, n, iat, wr)

Lifecycle == \/ Restart \/ PowerCut \/ Load \/ RetireUnconfirmed
             \/ \E wr \in Outcomes : Create(wr) \/ Retire(wr)

Next == Open \/ AnswerOnly \/ IssueInvitation \/ ClearInvitation
          \/ Lifecycle \/ Tick

Spec == Init /\ [][Next]_vars

-----------------------------------------------------------------------------
(* Properties.                                                             *)

IsDisk(d) == /\ d = [dir |-> d.dir, tomb |-> d.tomb, gen |-> d.gen,
                     grants |-> d.grants]
             /\ d.dir \in {"absent", "partial", "ok"} /\ d.tomb \in BOOLEAN
             /\ d.gen \in Nat
             /\ IsMap(d.grants, Grant)

TypeOK ==
  /\ now \in Nat \ {0} /\ gens \in Nat
  /\ lock \in {"down", "none", "retired", "locked"}
  /\ IsMap(grants, Grant)
  /\ IsDisk(disk) /\ disk \in maybe /\ \A d \in maybe : IsDisk(d)
  /\ inv \in [id : Nat, expiresAt : Nat] /\ issued \in Nat
  /\ IsMap(pending, Pending) /\ IsMap(denied, Nat) /\ lastNew \in Nat
  /\ runs \in Nat /\ refused \in BOOLEAN /\ claimed \in BOOLEAN

(* A signed command is executed at most once, however often and in         *)
(* whatever order it is delivered, across restarts, failed and unconfirmed *)
(* writes, power cuts, revocation, eviction and re-registration.           *)
ExecutedAtMostOnce == runs <= 1

(* However old the clock its claims were checked against: if a command ran *)
(* a second time, its envelope had run out before the lock was taken.      *)
RerunsAreLate ==
  [][runs # 0 /\ runs' # runs => now > Watched.iat + Lifetime + Grace]_vars

(* An envelope that was authentically refused never becomes live by a      *)
(* later promotion, re-approval or enrolment of its signer.                *)
RefusedStaysRefused == [][refused => runs' = runs]_vars

(* No ctl, and no run of commands, leaves an owned device unowned except   *)
(* releaseOwnership, which leaves no record unrevoked and nobody waiting;  *)
(* a device without an owner gets one only from a live invitation, which   *)
(* is spent by it.                                                         *)
OwnershipChangesHands ==
  [][/\ State = "enrolled" /\ State' = "legacy" =>
          /\ \A c \in DOMAIN grants' : grants'[c].revokedAt # 0
          /\ pending' = Nothing /\ denied' = Nothing
     /\ State = "legacy" /\ State' = "enrolled" =>
          inv.id # 0 /\ now < inv.expiresAt /\ inv' = NoInv]_vars

(* Nobody holds authority on an unowned device, whatever the clock does:   *)
(* every record was durably revoked, the expired ones too.                 *)
UnownedMeansAllRevoked ==
  State = "legacy" => \A c \in DOMAIN grants : grants[c].revokedAt # 0

(* The invitation and the pending table never coexist: one is for a device *)
(* without an owner, the other needs an owner to answer it.                *)
CeremonyFitsState ==
  /\ inv # NoInv => State = "legacy"
  /\ DOMAIN pending # {} => State = "enrolled"

(* A requester the owner denied is not back in the table before the deny   *)
(* ends.                                                                   *)
DeniedNotPending ==
  \A c \in DOMAIN denied \intersect DOMAIN pending :
    now >= denied[c] \/ now >= pending[c].expiresAt

(* The table is bounded, and one LAN host cannot fill it.                  *)
PendingBounded ==
  /\ Cardinality(DOMAIN pending) <= MaxPending
  /\ \A s \in Sources :
       Cardinality({c \in DOMAIN pending : pending[c].src = s}) <= MaxPerSource

(* Requests for access: the table is bounded, for all and for one host, a  *)
(* denied requester stays out of it, and neither it nor the invitation     *)
(* outlives the state it belongs to (admit.go 1524-1660).                  *)
RequestsInBounds == PendingBounded /\ DeniedNotPending /\ CeremonyFitsState

(* Until it is released, a device that confirmed an owner has one on every *)
(* disk a restart or a power cut can find, or a reset tombstone.           *)
AcknowledgedOwnerSurvives ==
  claimed => \A d \in maybe : d.tomb \/ (d.dir = "ok" /\ HasOwner(d.grants))

(* c may regain authority: the last owner is gone and an invitation is     *)
(* live, or another active owner spends a counter on it.                   *)
Licensed(c) ==
  IF State = "legacy" THEN inv.id # 0 /\ now < inv.expiresAt
    ELSE \E o \in DOMAIN grants \ {c} :
           ActiveOwner(grants[o]) /\ grants'[o].window # grants[o].window

IsRevoked(gs, c) == c \in DOMAIN gs /\ gs[c].revokedAt # 0
IsRestored(gs, c) == c \in DOMAIN gs /\ gs[c].revokedAt = 0

(* A revocation is undone by nothing but a licence: not by a step of the   *)
(* clock, a handler, a restart or a start; and on disk only by a power cut *)
(* that takes back a write that was never confirmed.                       *)
RevocationSticks ==
  [][\A c \in DOMAIN grants \union DOMAIN disk.grants :
       /\ IsRevoked(grants, c) /\ IsRestored(grants', c) => Licensed(c)
       /\ IsRevoked(disk.grants, c) =>
            /\ lock = "down" => ~IsRestored(grants', c)
            /\ IsRestored(disk'.grants, c) =>
                 (lock' = "down" /\ disk' \in maybe) \/ Licensed(c)]_vars

(* What was revoked gets its authority back only from an owner or by an    *)
(* invitation, and without an owner nobody has any, whatever the clock     *)
(* does.  (A grant that expired and was not revoked is in force again when *)
(* the clock steps back: admit.go 1293 revokes it at the release.)         *)
NothingRevives == []UnownedMeansAllRevoked /\ RevocationSticks

(* The records in memory are the ones a restart of the process would read. *)
MemoryIsDisk == lock = "none" => disk.dir = "ok" /\ ~disk.tomb /\ grants = disk.grants

(* Serving means the identity is durable: no power cut makes the device    *)
(* mint a new one.                                                         *)
IdentityDurable == lock = "none" => \A d \in maybe : d.dir # "absent"
=============================================================================
