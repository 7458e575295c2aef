------------------------------- MODULE Overlay -------------------------------
(***************************************************************************)
(* overlay/controller.go: one current overlay, and a queue of deliveries   *)
(* that one worker paints in order.  Functions of the controller's fields  *)
(* c; an overlay is known by its owner and its kind.                       *)
(***************************************************************************)
LOCAL INSTANCE Naturals
LOCAL INSTANCE Sequences

CONSTANTS MaxDeliveries, Nobody

(* told says how a show ended for the one who waits for it; screen is what *)
(* the page shows, and painted whether the last delivery reached it (only  *)
(* properties read the two).                                               *)
NewController(owners) ==
  [cur |-> Nobody, queue |-> << >>, busy |-> << >>, screen |-> Nobody, painted |-> TRUE, told |-> [o \in owners |-> "none"]]

Delivery(owner, kind, hide) == [owner |-> owner, kind |-> kind, hide |-> hide]
Tell(c, d, verdict) == IF d.hide \/ d.owner \notin DOMAIN c.told THEN c ELSE [c EXCEPT !.told[d.owner] = verdict]

(* enqueueLocked: a delivery of the same kind replaces the last one.       *)
Enqueue(c, d) ==
  LET n == Len(c.queue) IN
  IF n > 0 /\ c.queue[n].hide = d.hide /\ c.queue[n].kind = d.kind
  THEN [Tell(c, c.queue[n], "err") EXCEPT !.queue[n] = d]
  ELSE IF n >= MaxDeliveries
  THEN [Tell(c, Head(c.queue), "err") EXCEPT !.queue = Append(Tail(@), d)]
  ELSE [c EXCEPT !.queue = Append(@, d)]

(* ShowIf: live is the caller's condition, read under the controller's     *)
(* lock; an automatic show never covers the overlay of another.            *)
Admits(c, owner, automatic, live) == live /\ (automatic => c.cur \in {Nobody, owner})
Show(c, owner, kind) ==
  LET d == Delivery(owner, kind, FALSE)
      e == Enqueue([c EXCEPT !.cur = owner], d) IN
  Tell(e, d, "none")
HideOwned(c, owner) ==
  IF c.cur # owner THEN c
  ELSE Enqueue([c EXCEPT !.cur = Nobody], Delivery(owner, "x", TRUE))

(* The worker takes a delivery and paints it, which may fail.              *)
Taking(c) == c.queue # << >> /\ c.busy = << >>
Taken(c) == [c EXCEPT !.busy = <<Head(c.queue)>>, !.queue = Tail(@)]
Painting(c) == c.busy # << >>
Painted(c, ok) ==
  LET d == c.busy[1] IN
  Tell([c EXCEPT !.busy = << >>, !.painted = ok, !.screen = IF ~ok THEN @ ELSE IF d.hide THEN Nobody ELSE d.owner],
       d, IF ok THEN "ok" ELSE "err")

Settled(c) == c.queue = << >> /\ c.busy = << >>
=============================================================================
