------------------------------- MODULE RelayV2 -------------------------------
(***************************************************************************)
(* The device-ID relay's session and the bindings of its peers             *)
(* (relayer/device_session.go, controlgate/relay_v2.go, gate.go): requests *)
(* of peers run concurrently, an admitted one binds its peer to the        *)
(* controller it speaks for, and notifications are sealed per controller   *)
(* and queued for the peers bound to it, while sockets and peers go away   *)
(* and grants are revoked on this and on the other routes.                 *)
(***************************************************************************)
EXTENDS Naturals, Sequences, FiniteSets

CONSTANTS
  Conns,      \* connection ids the relay gives to peers; one is never reused on a socket
  Ctls,       \* controllers
  Owner,      \* the one of them that is an owner
  Slots,      \* requests that may run at once
  Kinds,      \* what they ask: "command", "plain", "revoke", "system"
  Types,      \* what producers publish: "status" (a snapshot type), "mint", "notice"
  Depth,      \* v2QueueDepth
  PerCtl,     \* v2PeersPerCtl
  MaxSockets, \* bound on the sockets of a run
  MaxVersion, \* bound on what is published
  MaxAsks,    \* bound on the requests of a run
  MaxGrants   \* bound on the revocations and reactivations of a run

VARIABLES
  sock,       \* the session: its socket, its peers, the ids it has seen
  gone,       \* peers that left and whose disconnect callback is still to run
  asks,       \* the requests in their handlers
  bound,      \* bindings: peer -> binding
  spares,     \* senders of dropped bindings that still hold a copy
  grants,     \* active grants, controllers still to be unbound by other routes, changes so far
  pub,        \* the newest version published, the newest status kept (latest), seal counters
  inbox       \* what reached each peer

vars == <<sock, gone, asks, bound, spares, grants, pub, inbox>>

PeersOf(sockets) == (1..sockets) \X Conns
Live(p) == sock.up /\ p[1] = sock.gen /\ p[2] \in sock.peers
NoAsk == [pc |-> "free"]

Init ==
  /\ sock = [gen |-> 1, up |-> TRUE, peers |-> {}, seen |-> {}] /\ gone = {}
  /\ asks = [s \in Slots |-> NoAsk]
  /\ bound = << >> /\ spares = {}
  /\ grants = [active |-> Ctls, unbind |-> {}, changes |-> 0, asks |-> 0]
  /\ pub = [version |-> 0, latest |-> 0, seq |-> [c \in Ctls |-> 0], tick |-> 0]
  /\ inbox = [p \in PeersOf(MaxSockets) |-> << >>]

(****************************** Bindings ***********************************)

(* A dropped binding's sender is cancelled; the copy it holds may be gone  *)
(* to the socket already.                                                  *)
Drop(b, ps) == [p \in DOMAIN b \ ps |-> b[p]]
Held(ps) == {[peer |-> p, copy |-> bound[p].out] : p \in {q \in ps \cap DOMAIN bound : bound[q].out # << >>}}
Pruned == {p \in DOMAIN bound : ~Live(p)}
OfCtl(b, c) == {p \in DOMAIN b : b[p].ctl = c}
Unbind(c) == Drop(bound, OfCtl(bound, c))

Enqueue(b, copy) ==
  IF Len(b.queue) < Depth THEN [b EXCEPT !.queue = Append(@, copy)] ELSE [b EXCEPT !.missed = TRUE]
(* One copy is sealed for a controller and put in the queue of each of     *)
(* its peers ps; an owner's notification skips the others, and a grant     *)
(* that is no longer active loses its bindings.                            *)
Seals(c, type) == c \in grants.active /\ (type = "mint" => c = Owner)
Copy(b, type, v) == [type |-> type, v |-> v, seq |-> pub.seq[b.ctl] + 1, made |-> b.made]
Deliver(b, ps, type, v) ==
  LET live == {p \in DOMAIN b : b[p].ctl \in grants.active \/ p \notin ps} IN
  [p \in live |-> IF p \in ps /\ Seals(b[p].ctl, type) THEN Enqueue(b[p], Copy(b[p], type, v)) ELSE b[p]]
Sealed(b, ps, type) ==
  [c \in Ctls |-> pub.seq[c] + IF Seals(c, type) /\ \E p \in ps : p \in DOMAIN b /\ b[p].ctl = c THEN 1 ELSE 0]

(* bind: an old binding of the peer goes, and the least recently bound     *)
(* peers of the controller, until there is room.                           *)
Evicted(b, c) ==
  Drop(b, {p \in OfCtl(b, c) : Cardinality({q \in OfCtl(b, c) : b[q].tick > b[p].tick}) >= PerCtl - 1})
NewBinding(c, s) ==
  [ctl |-> c, tick |-> pub.tick + 1, queue |-> << >>, out |-> << >>, pending |-> TRUE, missed |-> FALSE, made |-> pub.tick + 1, by |-> s]
MayBindAnyPeer(p, c) == c \in grants.active \* mutant: the peer is not looked at again
MayBind(p, c) == Live(p) /\ c \in grants.active
Bound(p, c, s) ==
  LET b == Drop(bound, Pruned) IN
  IF p \in DOMAIN b /\ b[p].ctl = c THEN [b EXCEPT ![p].tick = pub.tick + 1]
  ELSE LET e == Evicted(Drop(b, {p}), c) IN [q \in DOMAIN e \cup {p} |-> IF q = p THEN NewBinding(c, s) ELSE e[q]]

(****************************** Requests ***********************************)

(* The read loop hands a request of a live peer to a handler of its own;   *)
(* a system message is not answered and does nothing.                      *)
Asked(k, p, ctl) ==
  IF k = "system" THEN NoAsk
  ELSE [pc |-> "admit", peer |-> p, kind |-> k, ctl |-> ctl, revoked |-> {}]
Arrive(s) ==
  /\ asks[s] = NoAsk /\ sock.up /\ grants.asks < MaxAsks
  /\ \E c \in sock.peers, k \in Kinds, ctl \in Ctls :
       asks' = [asks EXCEPT ![s] = Asked(k, <<sock.gen, c>>, ctl)]
  /\ grants' = [grants EXCEPT !.asks = @ + 1]
  /\ UNCHANGED <<sock, gone, bound, spares, pub, inbox>>

(* The authority admits an envelope of an active grant, which may revoke   *)
(* its own controller, or as an owner any; one that revoked itself and     *)
(* everything that is refused bind nothing.                                *)
Admit(s) ==
  /\ asks[s].pc = "admit"
  /\ IF asks[s].kind = "plain" \/ asks[s].ctl \notin grants.active
     THEN asks' = [asks EXCEPT ![s].pc = "reply"] /\ UNCHANGED grants
     ELSE IF asks[s].kind = "revoke"
          THEN \E c \in IF asks[s].ctl = Owner THEN Ctls ELSE {asks[s].ctl} :
                 /\ asks' = [asks EXCEPT ![s].pc = IF c = asks[s].ctl THEN "unbind" ELSE "bind", ![s].revoked = {c}]
                 /\ grants' = [grants EXCEPT !.active = @ \ {c}]
          ELSE asks' = [asks EXCEPT ![s].pc = "bind"] /\ UNCHANGED grants
  /\ UNCHANGED <<sock, gone, bound, spares, pub, inbox>>

(* admitted: the peer is bound to the principal, if both still stand.      *)
Bind(s) ==
  /\ asks[s].pc = "bind"
  /\ LET p == asks[s].peer c == asks[s].ctl IN
     IF MayBind(p, c)
     THEN /\ bound' = Bound(p, c, s) /\ pub' = [pub EXCEPT !.tick = @ + 1]
          /\ spares' = spares \cup Held({q \in DOMAIN bound : q \notin DOMAIN bound' \/ bound'[q].ctl # bound[q].ctl})
     ELSE UNCHANGED <<bound, pub, spares>>
  /\ asks' = [asks EXCEPT ![s].pc = IF asks[s].revoked = {} THEN "reply" ELSE "unbind"]
  /\ UNCHANGED <<sock, gone, grants, inbox>>

(* grantsChanged                                                           *)
UnbindRevoked(s) ==
  /\ asks[s].pc = "unbind"
  /\ \E c \in asks[s].revoked : spares' = spares \cup Held(OfCtl(bound, c)) /\ bound' = Unbind(c)
  /\ asks' = [asks EXCEPT ![s].pc = "reply", ![s].revoked = {}]
  /\ UNCHANGED <<sock, gone, grants, pub, inbox>>

(* The reply goes to this peer of this socket or to nobody.                *)
Reply(s) ==
  /\ asks[s].pc = "reply"
  /\ LET p == asks[s].peer IN
     inbox' = IF Live(p) THEN [inbox EXCEPT ![p] = Append(@, [type |-> "reply", v |-> 0, seq |-> s, made |-> 0])] ELSE inbox
  /\ asks' = [asks EXCEPT ![s].pc = "release"]
  /\ UNCHANGED <<sock, gone, bound, spares, grants, pub>>

(* releaseAfterReply: the snapshots first, then what was held.             *)
ReleasedBare(b) == b \* mutant: the binding gets no snapshot
Released(b) ==
  LET snap == Copy(b, "status", pub.latest)
      q == IF pub.latest = 0 THEN b.queue ELSE <<snap>> \o b.queue IN
  IF Len(q) > Depth THEN [b EXCEPT !.queue = SubSeq(q, 1, Depth), !.missed = TRUE] ELSE [b EXCEPT !.queue = q]
Release(s) ==
  /\ asks[s].pc = "release"
  /\ LET p == asks[s].peer IN
     IF p \notin DOMAIN bound \/ ~bound[p].pending THEN UNCHANGED <<bound, pub>>
     ELSE IF bound[p].ctl \notin grants.active /\ pub.latest # 0 THEN bound' = Drop(bound, {p}) /\ UNCHANGED pub
     ELSE /\ bound' = [bound EXCEPT ![p] = [Released(@) EXCEPT !.pending = FALSE]]
          /\ pub' = [pub EXCEPT !.seq[bound[p].ctl] = @ + IF pub.latest = 0 THEN 0 ELSE 1]
  /\ asks' = [asks EXCEPT ![s] = NoAsk]
  /\ UNCHANGED <<sock, gone, spares, grants, inbox>>

(*************************** Notifications *********************************)

(* Publish: a new status is kept for bindings made later and skips the     *)
(* pending ones, which get it with their snapshot; the rest is only sent.  *)
Targets(type) == {p \in DOMAIN bound : Live(p) /\ (type = "status" => ~bound[p].pending)}
Publish(type) ==
  /\ pub.version < MaxVersion
  /\ LET v == pub.version + 1
         b == Drop(bound, Pruned) IN
     /\ bound' = Deliver(b, Targets(type), type, v)
     /\ pub' = [pub EXCEPT !.version = v, !.seq = Sealed(b, Targets(type), type), !.latest = IF type = "status" THEN v ELSE @]
     /\ spares' = spares \cup Held(DOMAIN bound \ DOMAIN bound')
  /\ UNCHANGED <<sock, gone, asks, grants, inbox>>

(* drain: a released binding's sender takes a copy and sends it; a send    *)
(* that is not acknowledged is given up.                                   *)
Take(p) ==
  /\ p \in DOMAIN bound /\ ~bound[p].pending /\ bound[p].out = << >> /\ bound[p].queue # << >>
  /\ bound' = [bound EXCEPT ![p].out = <<Head(bound[p].queue)>>, ![p].queue = Tail(@)]
  /\ UNCHANGED <<sock, gone, asks, spares, grants, pub, inbox>>
Arrived(p, copy) == [inbox EXCEPT ![p] = Append(@, copy)]
Send(p) ==
  /\ p \in DOMAIN bound /\ bound[p].out # << >>
  /\ \/ Live(p) /\ inbox' = Arrived(p, Head(bound[p].out)) /\ bound' = [bound EXCEPT ![p].out = << >>]
     \/ inbox' = inbox /\ bound' = [bound EXCEPT ![p].out = << >>, ![p].missed = TRUE]
  /\ UNCHANGED <<sock, gone, asks, spares, grants, pub>>
SendSpare(x) ==
  /\ x \in spares /\ spares' = spares \ {x}
  /\ \/ Live(x.peer) /\ inbox' = Arrived(x.peer, Head(x.copy))
     \/ UNCHANGED inbox
  /\ UNCHANGED <<sock, gone, asks, bound, grants, pub>>

(************************ Peers, sockets and grants ************************)

PeerConnected(c) ==
  /\ sock.up /\ c \notin sock.seen /\ gone = {}
  /\ sock' = [sock EXCEPT !.peers = @ \cup {c}, !.seen = @ \cup {c}]
  /\ UNCHANGED <<gone, asks, bound, spares, grants, pub, inbox>>
PeerDisconnected(c) ==
  /\ sock.up /\ c \in sock.peers /\ gone = {}
  /\ sock' = [sock EXCEPT !.peers = @ \ {c}] /\ gone' = {<<sock.gen, c>>}
  /\ UNCHANGED <<asks, bound, spares, grants, pub, inbox>>
(* close: nobody is live any more, and every peer's callback runs.         *)
SessionCloses ==
  /\ sock.up /\ gone = {}
  /\ sock' = [sock EXCEPT !.up = FALSE, !.peers = {}] /\ gone' = {sock.gen} \X sock.peers
  /\ UNCHANGED <<asks, bound, spares, grants, pub, inbox>>
SessionOpens ==
  /\ ~sock.up /\ gone = {} /\ sock.gen < MaxSockets
  /\ sock' = [gen |-> sock.gen + 1, up |-> TRUE, peers |-> {}, seen |-> {}]
  /\ UNCHANGED <<gone, asks, bound, spares, grants, pub, inbox>>
Disconnected(p) ==
  /\ p \in gone /\ gone' = gone \ {p}
  /\ bound' = Drop(bound, {p}) /\ spares' = spares \cup Held({p})
  /\ UNCHANGED <<sock, asks, grants, pub, inbox>>

(* A revocation or a reactivation on another route commits, and its gate   *)
(* unbinds the controller afterwards.                                      *)
GrantChanges(c) ==
  /\ grants.changes < MaxGrants
  /\ grants' = [grants EXCEPT !.active = IF c \in @ THEN @ \ {c} ELSE @ \cup {c}, !.unbind = @ \cup {c}, !.changes = @ + 1]
  /\ UNCHANGED <<sock, gone, asks, bound, spares, pub, inbox>>
GrantsChanged(c) ==
  /\ c \in grants.unbind /\ grants' = [grants EXCEPT !.unbind = @ \ {c}]
  /\ bound' = Unbind(c) /\ spares' = spares \cup Held(OfCtl(bound, c))
  /\ UNCHANGED <<sock, gone, asks, pub, inbox>>

Handler(s) == Admit(s) \/ Bind(s) \/ UnbindRevoked(s) \/ Reply(s) \/ Release(s)
Sender(p) == Take(p) \/ Send(p)
Next ==
  \/ \E s \in Slots : Arrive(s) \/ Handler(s)
  \/ \E t \in Types : Publish(t)
  \/ \E p \in PeersOf(MaxSockets) : Sender(p) \/ Disconnected(p)
  \/ \E x \in spares : SendSpare(x)
  \/ \E c \in Conns : PeerConnected(c) \/ PeerDisconnected(c)
  \/ SessionCloses \/ SessionOpens
  \/ \E c \in Ctls : GrantChanges(c) \/ GrantsChanged(c)
Spec == Init /\ [][Next]_vars /\ \A s \in Slots : WF_vars(Handler(s)) /\ \A p \in PeersOf(MaxSockets) : WF_vars(Sender(p))

(***************************** Properties **********************************)

TypeOK ==
  /\ DOMAIN bound \subseteq PeersOf(MaxSockets) /\ gone \subseteq PeersOf(MaxSockets)
  /\ \A p \in DOMAIN bound : Len(bound[p].queue) <= Depth /\ Len(bound[p].out) <= 1
  /\ \A c \in Ctls : Cardinality(OfCtl(bound, c)) <= PerCtl

(* No binding outlives its peer: once the disconnect callbacks of a peer or*)
(* a socket have run nothing is queued for it, although a request of that  *)
(* peer may still be in its handler (bind rechecks Live under mu).         *)
NoBindingOfDead == \A p \in DOMAIN bound : Live(p) \/ p \in gone

(* No binding outlives its grant: it is there only until the route that    *)
(* revoked it has unbound it, whichever request was being admitted.        *)
Unbinding == grants.unbind \cup UNION {asks[s].revoked : s \in {t \in Slots : asks[t] # NoAsk}}
NoBindingOfRevoked == \A p \in DOMAIN bound : bound[p].ctl \in grants.active \cup Unbinding

(* No binding outlives its peer or its grant (relay_v2.go 132).            *)
BindingsLive == NoBindingOfDead /\ NoBindingOfRevoked

(* What a peer has got, is being sent or has in its queue.                 *)
Given(p) == inbox[p] \o bound[p].out \o bound[p].queue
(* A binding that lost no copy has the newest status on its way: what was  *)
(* published while it was pending is in its snapshot.                      *)
HasNewestStatus ==
  \A p \in DOMAIN bound :
    ~bound[p].pending /\ ~bound[p].missed /\ pub.latest # 0 =>
      \E i \in 1..Len(Given(p)) : Given(p)[i].type = "status" /\ Given(p)[i].v = pub.latest
Before(p, x, y) == \E i, j \in 1..Len(inbox[p]) : i < j /\ inbox[p][i] = x /\ inbox[p][j] = y
Heard(p) == {inbox[p][i] : i \in 1..Len(inbox[p])}
(* The status one binding delivers never goes back to an older one.        *)
StatusGoesForward ==
  \A p \in PeersOf(MaxSockets) : \A x, y \in Heard(p) :
    x.type = "status" /\ y.type = "status" /\ x.made = y.made /\ Before(p, x, y) => x.v < y.v
(* The doc's rule for controllers: of one run they keep the highest seq and*)
(* ignore older ones. A copy that its own binding delivers after one of a  *)
(* higher seq is never heard, held mint approvals among them.              *)
EveryCopyIsHeard ==
  \A p \in PeersOf(MaxSockets) : \A x, y \in Heard(p) : x.made = y.made /\ x.made # 0 /\ Before(p, x, y) => x.seq < y.seq
(* A notification never overtakes the reply to the request that made the   *)
(* binding.                                                                *)
ReplyBeforeNotice == \A p \in DOMAIN bound : ~bound[p].pending => \A s \in Slots : asks[s] # NoAsk /\ asks[s].pc = "reply" /\ asks[s].peer = p => bound[p].by # s
(* What is queued for a peer that stays reaches it or is given up.         *)
QueuesDrain == \A p \in PeersOf(MaxSockets) : []<>(p \notin DOMAIN bound \/ bound[p].pending \/ bound[p].queue = << >>)
=============================================================================
