---------------------------- MODULE Connectivity -----------------------------
(***************************************************************************)
(* feral-sys-monitord's connectivity watcher (connectivity.go), which      *)
(* replaces itself by a new generation whenever the verdict changes, and   *)
(* the goroutines that send its verdicts over D-Bus (mediator.go).         *)
(***************************************************************************)
EXTENDS Naturals, FiniteSets

CONSTANTS
  MaxGen,      \* generations of the connectivity watcher
  MayStop      \* BOOLEAN: the daemon may be told to end

ASSUME ConnectivityAssumption == MaxGen \in Nat

VARIABLES
  net,      \* the network answers a dial
  last,     \* lastConnected: "nil", "up", "down"
  gen,      \* the doneChan of the present, a number
  closed,   \* the channels that were closed
  watch,    \* the watcher goroutines, by the channel each captured
  canceled, \* the daemon's context: "no", "canceled", and "stopped" once Stop ran
  wired,    \* the mediator has registered its handlers
  notes,    \* connectivity notifications on their way, with their channel
  online    \* the last connectivity signal on the bus, and whether a later one was missed
net_vars == <<net, last, gen, closed, watch, canceled, wired, notes, online>>

Said(up) == IF up THEN "up" ELSE "down"
None == [pc |-> "none", got |-> "nil"]

NetInit ==
  /\ net \in BOOLEAN /\ last = "nil" /\ gen = 0 /\ closed = {} /\ canceled = "no"
  /\ watch = [g \in 0..MaxGen |-> IF g = 0 THEN [None EXCEPT !.pc = "dialing"] ELSE None]
  /\ wired = FALSE /\ notes = {} /\ online = [value |-> "nil", missed |-> FALSE]

Canceled == canceled # "no"
Goto(g, pc) == [watch EXCEPT ![g].pc = pc]
Retired(g) == Canceled \/ g \in closed
(* The first probe of all looks at the context too, a later one only at    *)
(* the channel.                                                            *)
Discarded(g) == IF last = "nil" THEN Retired(g) ELSE g \in closed

(* CheckConnectivity: the first target that answers settles it, and under  *)
(* a canceled context none does.                                           *)
Probe(g) ==
  /\ watch[g].pc = "dialing"
  /\ watch' = [watch EXCEPT ![g].pc = "dialed", ![g].got = Said(net /\ ~Canceled)]
  /\ UNCHANGED <<net, last, gen, closed, canceled, wired, notes, online>>

(* The verdict of a retired generation is dropped.  A change is notified   *)
(* under the channel of the moment, and ends the generation a little later.*)
Apply(g) ==
  /\ watch[g].pc = "dialed"
  /\ IF Discarded(g) THEN watch' = Goto(g, "ended") /\ UNCHANGED <<last, wired, notes>>
     ELSE LET v == watch[g].got IN
          /\ last' = v
          /\ notes' = IF wired /\ v # last THEN notes \cup {[chan |-> gen, value |-> v]} ELSE notes
          /\ watch' = [watch EXCEPT ![g].pc = IF last \notin {"nil", v} THEN "changed" ELSE "ticking"]
  /\ UNCHANGED <<net, gen, closed, canceled, wired, online>>
(* The seconds between two checks, and the pause before a restart, let the *)
(* handlers of a notification finish.                                      *)
Told == notes = {}
TickAgain(g) ==
  /\ watch[g].pc = "ticking" /\ Told
  /\ watch' = Goto(g, "dialing")
  /\ UNCHANGED <<net, last, gen, closed, canceled, wired, notes, online>>
(* The select may take a tick that is ready before the end that is too.    *)
End(g) ==
  /\ watch[g].pc = "ticking" /\ Retired(g)
  /\ watch' = Goto(g, "ended")
  /\ UNCHANGED <<net, last, gen, closed, canceled, wired, notes, online>>

(* restart: stop, a new channel, and a watcher that captures it.           *)
Close(g) ==
  /\ watch[g].pc = "changed" /\ Told
  /\ closed' = closed \cup {gen} /\ watch' = Goto(g, "closed")
  /\ UNCHANGED <<net, last, gen, canceled, wired, notes, online>>
RenewStays(g) == \* mutant: the old watcher does not return
  /\ watch[g].pc = "closed" /\ gen < MaxGen
  /\ gen' = gen + 1
  /\ watch' = [watch EXCEPT ![g].pc = "ticking", ![gen + 1].pc = "starting"]
  /\ UNCHANGED <<net, last, closed, canceled, wired, notes, online>>
Renew(g) ==
  /\ watch[g].pc = "closed" /\ gen < MaxGen
  /\ gen' = gen + 1
  /\ watch' = [watch EXCEPT ![g].pc = "ended", ![gen + 1].pc = "starting"]
  /\ UNCHANGED <<net, last, closed, canceled, wired, notes, online>>
Begin(g) ==
  /\ watch[g].pc = "starting"
  /\ watch' = Goto(g, IF last = "nil" THEN "dialing" ELSE "ticking")
  /\ UNCHANGED <<net, last, gen, closed, canceled, wired, notes, online>>
Watcher == \E g \in 0..MaxGen : 
  Probe(g) \/ Apply(g) \/ TickAgain(g) \/ End(g) \/ Close(g) \/ Renew(g) \/ Begin(g)
Ends == \E g \in 0..MaxGen : End(g)

(* A handler's goroutine gives up when its channel has been closed.  A     *)
(* send that fails is logged, and nothing repeats it.                      *)
Notify(n) ==
  /\ notes' = notes \ {n}
  /\ \/ (Canceled \/ n.chan \in closed) /\ UNCHANGED online
     \/ /\ ~Canceled /\ n.chan \notin closed
        /\ \/ online' = [value |-> n.value, missed |-> FALSE]
           \/ online' = [online EXCEPT !.missed = TRUE]
  /\ UNCHANGED <<net, last, gen, closed, watch, canceled, wired>>

Notified == \E n \in notes : Notify(n)
NetChanges == net' = ~net /\ UNCHANGED <<last, gen, closed, watch, canceled, wired, notes, online>>
Wire == ~wired /\ wired' = TRUE /\ UNCHANGED <<net, last, gen, closed, watch, canceled, notes, online>>
Cancel == MayStop /\ ~Canceled /\ canceled' = "canceled" /\ UNCHANGED <<net, last, gen, closed, watch, wired, notes, online>>
Stop == canceled = "canceled" /\ canceled' = "stopped" /\ closed' = closed \cup {gen} /\ UNCHANGED <<net, last, gen, watch, wired, notes, online>>

NetNext == Watcher \/ Notified \/ NetChanges \/ Wire \/ Cancel \/ Stop
NetSpec ==
  /\ NetInit /\ [][NetNext]_net_vars
  /\ WF_net_vars(Watcher) /\ SF_net_vars(Ends) /\ WF_net_vars(Notified)

(****************************** Properties *********************************)

(* At most one watcher dials in an open generation: the one that restarts  *)
(* itself has closed its channel first (restart, doneChan).                *)
OneWatcher ==
  /\ Cardinality({g \in 0..MaxGen : watch[g].pc \in {"dialing", "dialed", "ticking"}}) <= 1
  /\ gen \in 0..MaxGen /\ closed \subseteq 0..gen
(* When no notification is under way the bus has the last verdict, or none *)
(* at all (the first may come before the mediator), unless the send of the *)
(* last one failed: a restart never drops the notification of the change   *)
(* that caused it, and what a failed send missed the next one puts right.  *)
HeardIsLast == notes = {} /\ ~Canceled /\ ~online.missed => online.value \in {"nil", last}
(* Of the generations of the watcher one is online, and what was said last  *)
(* is the last verdict but for a failed send (connectivity.go 127-310).    *)
OneVoice == OneWatcher /\ HeardIsLast
(* Every watcher ends after the daemon's context did, also one started by  *)
(* a restart that came after Stop.                                         *)
WatchersEnd == Canceled ~> \A g \in 0..MaxGen : watch[g].pc \in {"none", "ended", "closed"}

=============================================================================
