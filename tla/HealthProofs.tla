----------------------------- MODULE HealthProofs ------------------------------
(***************************************************************************)
(* The device's health, in three proofs.                                   *)
(*                                                                         *)
(* The reporter (CdpHealth): "stuck" is said only of a page target that was*)
(* away for the whole threshold, since an episode is never older than the  *)
(* absence it reports.                                                     *)
(*                                                                         *)
(* The connectivity watcher, for any number of generations: one of them is *)
(* heard, and the bus has heard the last verdict when nothing is under way.*)
(* A generation starts the next one as its last act, so the open one is the*)
(* only one that acts (Generations); and a restart waits for the pause that*)
(* lets the notification of its change start, so at most one is under way, *)
(* it carries the last verdict, and its channel is open (News).            *)
(*                                                                         *)
(* The reboots (RebootChain), for any budgets: what the handlers count is  *)
(* what has happened (RamCounts, DiskCounts), and the last word about a GPU*)
(* that has recovered is its recovery, in whosever hands it is (Foretold). *)
(***************************************************************************)
EXTENDS CdpHealth, Connectivity, RebootChain, FiniteSetTheorems, SequenceTheorems, TLAPS

(****************************** The reporter *******************************)

(* An episode is never older than the absence it reports.                  *)
EpisodeWithinAbsence == since # Never => since <= apart

HealthInv == TypeOK /\ EpisodeWithinAbsence

LEMMA AgedInRange ==
  /\ \A a \in Ages : Aged(a) \in Ages
  /\ \A a \in 0 .. Threshold : Aged(a) \in 0 .. Threshold
  BY HealthAssumption DEF Aged, Ages, Never

LEMMA WireType ==
  ASSUME TypeOK, NEW word \in Words, NEW sent, Emit(word, sent)
  PROVE  wire' \in [Words -> Nat] /\ wire'["stuck"] + wire'["clear"] <= MaxWire
  BY HealthAssumption DEF TypeOK, Emit, Words

LEMMA HealthInit == Init => HealthInv
  <1>1. /\ Never \in Ages /\ 0 \in 0 .. Threshold
        /\ Silence \in [Words -> Nat]
        /\ Silence["stuck"] + Silence["clear"] <= MaxWire
    BY HealthAssumption DEF Ages, Silence, Words
  <1> QED
    BY <1>1 DEF Init, Started, HealthInv, TypeOK, EpisodeWithinAbsence

LEMMA HealthTick ==
  ASSUME TypeOK, EpisodeWithinAbsence,
         NEW sent \in BOOLEAN, TickHealthy(sent) \/ TickUnhealthy(sent)
  PROVE  HealthInv'
  <1>0. /\ 0 \in Ages /\ Never \in Ages /\ 0 \in 0 .. Threshold
        /\ \A a \in Ages : a = Never \/ a \in Nat
    BY HealthAssumption DEF Ages, Never
  <1>1. CASE TickHealthy(sent)
    <2>1. wire' \in [Words -> Nat] /\ wire'["stuck"] + wire'["clear"] <= MaxWire
      BY <1>1, WireType DEF TickHealthy, Words
    <2>2. since' = Never
      BY <1>1 DEF TickHealthy, EpisodeOver
    <2>3. /\ lastReported' \in Ages /\ lastConfirmed' \in Ages
          /\ reported' \in BOOLEAN /\ everConfirmed' \in BOOLEAN
      BY <1>0, <1>1 DEF TickHealthy, TypeOK
    <2> QED
      BY <1>0, <1>1, <2>1, <2>2, <2>3
      DEF TickHealthy, HealthInv, TypeOK, EpisodeWithinAbsence
  <1>2. CASE TickUnhealthy(sent)
    <2>1. wire' \in [Words -> Nat] /\ wire'["stuck"] + wire'["clear"] <= MaxWire
      BY <1>2, WireType DEF TickUnhealthy, Words
    <2>2. since' \in Ages /\ since' <= apart /\ apart' = apart
      BY <1>0, <1>2, HealthAssumption
      DEF TickUnhealthy, Apart, TypeOK, EpisodeWithinAbsence
    <2>3. lastReported' \in Ages /\ reported' \in BOOLEAN
      BY <1>0, <1>2 DEF TickUnhealthy, TypeOK
    <2> QED
      BY <1>2, <2>1, <2>2, <2>3
      DEF TickUnhealthy, HealthInv, TypeOK, EpisodeWithinAbsence
  <1> QED
    BY <1>1, <1>2

LEMMA HealthNext ==
  ASSUME HealthInv, [Next]_hvars
  PROVE  HealthInv'
  <1>0. TypeOK /\ EpisodeWithinAbsence
    BY DEF HealthInv
  <1> USE DEF HealthInv, TypeOK, EpisodeWithinAbsence, reporter
  <1>1. CASE Interval
    <2>1. /\ since' \in Ages /\ lastReported' \in Ages
          /\ lastConfirmed' \in Ages /\ apart' \in 0 .. Threshold
      BY <1>0, <1>1, AgedInRange DEF Interval
    <2>2. since' # Never => since' <= apart'
      BY <1>0, <1>1, HealthAssumption DEF Interval, Aged, Ages, Never
    <2> QED
      BY <1>0, <1>1, <2>1, <2>2 DEF Interval
  <1>2. CASE Poll
    BY <1>0, <1>2, HealthTick DEF Poll
  <1>3. CASE ControldRestart
    <2>1. Never \in Ages /\ 0 \in 0 .. Threshold
      BY HealthAssumption DEF Ages
    <2> QED
      BY <1>0, <1>3, <2>1 DEF ControldRestart
  <1>4. ASSUME NEW w \in Words, Deliver(w) PROVE HealthInv'
    <2>1. wire' \in [Words -> Nat] /\ wire'["stuck"] + wire'["clear"] <= MaxWire
      BY <1>0, <1>4, HealthAssumption DEF Deliver, Words
    <2>2. heard' \in {"nothing"} \union Words
      BY <1>4 DEF Deliver
    <2> QED
      BY <1>0, <1>4, <2>1, <2>2 DEF Deliver
  <1>5. CASE ListenerRestart
    <2>1. wire' \in [Words -> Nat] /\ wire'["stuck"] + wire'["clear"] <= MaxWire
      BY <1>5, HealthAssumption DEF ListenerRestart, Silence, Words
    <2> QED
      BY <1>0, <1>5, <2>1 DEF ListenerRestart
  <1>6. CASE PageMoves
    BY <1>0, <1>6 DEF PageMoves
  <1>7. CASE UNCHANGED hvars
    BY <1>0, <1>7 DEF hvars
  <1> QED
    BY <1>1, <1>2, <1>3, <1>4, <1>5, <1>6, <1>7 DEF Next

(* Every age stays within the threshold and the bus within its bound,      *)
(* whatever fails or restarts (TypeOK).                                    *)
THEOREM HealthTypes == Spec => []TypeOK
  <1>1. HealthInv => TypeOK
    BY DEF HealthInv
  <1> QED
    BY HealthInit, HealthNext, <1>1, PTL DEF Spec

(* For every threshold, and whatever sends were lost before, "stuck" goes  *)
(* out only when no poll saw the page target for the whole threshold       *)
(* (cdphealth.go 145-160).                                                 *)
THEOREM StuckSustained == Spec => StuckIsSustained
  <1>1. HealthInv /\ [Next]_hvars => [TickUnhealthy(TRUE) => apart >= Threshold]_hvars
    <2> SUFFICES ASSUME HealthInv, TickUnhealthy(TRUE) PROVE apart >= Threshold
      OBVIOUS
    <2>1. Apart >= Threshold
      BY DEF TickUnhealthy, NeedsReport
    <2> QED
      BY <2>1, HealthAssumption
      DEF HealthInv, TypeOK, EpisodeWithinAbsence, Apart, Ages, Never
  <1> QED
    BY HealthInit, HealthNext, <1>1, PTL DEF Spec, StuckIsSustained

(*********************** The connectivity watcher **************************)

Steps == {"none", "starting", "dialing", "dialed", "ticking", "changed", "closed", "ended"}
Verdicts == {"nil", "up", "down"}
Watch == [pc : Steps, got : Verdicts]

NetTypes ==
  /\ net \in BOOLEAN /\ last \in Verdicts /\ gen \in 0..MaxGen /\ wired \in BOOLEAN
  /\ closed \subseteq 0..gen /\ watch \in [0..MaxGen -> Watch]
  /\ canceled \in {"no", "canceled", "stopped"}
  /\ online \in [value : Verdicts, missed : BOOLEAN]

Generations ==
  \A g \in 0..MaxGen :
    /\ g < gen => watch[g].pc = "ended"
    /\ g > gen => watch[g].pc = "none"
    /\ watch[g].pc = "dialed" => watch[g].got # "nil"

(* One notification at most is under way; while the daemon lives its       *)
(* channel is open and it says the last verdict.                           *)
News ==
  /\ \A n \in notes : n = [chan |-> gen, value |-> last]
  /\ notes # {} => wired /\ watch[gen].pc \in {"ticking", "changed", "ended"}
  /\ notes # {} /\ ~Canceled => gen \notin closed
  /\ ~wired => online.value = "nil"
  /\ ~Canceled => (watch[gen].pc # "closed" => gen \notin closed) /\ watch[gen].pc # "ended"
  /\ ~Canceled /\ notes = {} /\ ~online.missed => online.value \in {"nil", last}

IInv == NetTypes /\ Generations /\ News

-----------------------------------------------------------------------------
LEMMA InitIInv == ASSUME MaxGen \in Nat, NetInit PROVE IInv
<1>1. /\ watch \in [0..MaxGen -> Watch] /\ watch[0].pc = "dialing"
      /\ \A g \in 0..MaxGen \ {0} : watch[g].pc = "none"
  <2>1. [None EXCEPT !.pc = "dialing"] = [pc |-> "dialing", got |-> "nil"]
    BY DEF None
  <2>. QED BY <2>1 DEF NetInit, None, Watch, Steps, Verdicts
<1>2. NetTypes
  <2>1. net \in BOOLEAN /\ wired \in BOOLEAN
    BY DEF NetInit
  <2>2. /\ last \in Verdicts /\ gen \in 0..MaxGen /\ closed \subseteq 0..gen /\ canceled = "no"
        /\ online \in [value : Verdicts, missed : BOOLEAN]
    BY DEF NetInit, Verdicts
  <2>. QED BY <1>1, <2>1, <2>2 DEF NetTypes
<1>3. Generations
  BY <1>1 DEF NetInit, Generations
<1>4. News
  BY <1>1 DEF NetInit, News
<1>. QED BY <1>2, <1>3, <1>4 DEF IInv

LEMMA GotoIs ==
  ASSUME NetTypes, NEW g \in 0..MaxGen, NEW pc \in Steps, watch' = Goto(g, pc)
  PROVE  /\ watch' \in [0..MaxGen -> Watch] /\ watch'[g].pc = pc /\ watch'[g].got = watch[g].got
         /\ \A h \in 0..MaxGen \ {g} : watch'[h] = watch[h]
BY DEF NetTypes, Goto, Watch

(* Whoever acts is the present generation.                                 *)
LEMMA ActorIsPresent ==
  ASSUME MaxGen \in Nat, IInv, NEW g \in 0..MaxGen, watch[g].pc \notin {"none", "ended"}
  PROVE  g = gen
BY DEF IInv, Generations, NetTypes

LEMMA ProbeKeeps == ASSUME MaxGen \in Nat, IInv, NEW g \in 0..MaxGen, Probe(g) PROVE IInv'
<1>1. g = gen
  BY ActorIsPresent DEF Probe
<1>2. /\ watch' \in [0..MaxGen -> Watch] /\ watch'[g].pc = "dialed" /\ watch'[g].got = Said(net /\ ~Canceled)
      /\ \A h \in 0..MaxGen \ {g} : watch'[h] = watch[h]
  BY DEF Probe, IInv, NetTypes, Watch, Said, Steps, Verdicts
<1>3. Said(net /\ ~Canceled) \in {"up", "down"}
  BY DEF Said
<1>4. watch[gen].pc = "dialing" /\ UNCHANGED <<net, last, gen, closed, canceled, wired, notes, online>>
  BY <1>1 DEF Probe
<1>. QED BY <1>1, <1>2, <1>3, <1>4 DEF IInv, NetTypes, Generations, News, Canceled

LEMMA ApplyKeeps == ASSUME MaxGen \in Nat, IInv, NEW g \in 0..MaxGen, Apply(g) PROVE IInv'
<1>1. g = gen /\ watch[g].pc = "dialed" /\ UNCHANGED <<net, gen, closed, canceled, online, wired>>
  BY ActorIsPresent DEF Apply
<1>2. notes = {}
  BY <1>1 DEF IInv, News
<1>3. CASE Discarded(g)
  <2>1. watch' = Goto(g, "ended") /\ UNCHANGED <<last, notes>>
    BY <1>3 DEF Apply
  <2>2. Canceled
    BY <1>1, <1>3 DEF Discarded, Retired, IInv, News
  <2>3. /\ watch' \in [0..MaxGen -> Watch] /\ watch'[g].pc = "ended"
        /\ \A h \in 0..MaxGen \ {g} : watch'[h] = watch[h]
    BY <2>1, GotoIs DEF IInv, Steps
  <2>. QED BY <1>1, <1>2, <2>1, <2>2, <2>3 DEF IInv, NetTypes, Generations, News, Canceled
<1>4. CASE ~Discarded(g)
  <2>. DEFINE v == watch[g].got
  <2>1. /\ last' = v /\ v \in {"up", "down"}
        /\ notes' = IF wired /\ v # last THEN {[chan |-> gen, value |-> v]} ELSE {}
    BY <1>1, <1>2, <1>4 DEF Apply, IInv, Generations, NetTypes, Watch, Verdicts
  <2>2. PICK pc \in {"changed", "ticking"} : watch' = Goto(g, pc)
    BY <1>4 DEF Apply, Goto
  <2>3. /\ watch' \in [0..MaxGen -> Watch] /\ watch'[g].pc = pc
        /\ \A h \in 0..MaxGen \ {g} : watch'[h] = watch[h]
    BY <2>2, GotoIs DEF IInv, Steps
  <2>4. NetTypes' /\ Generations'
    BY <1>1, <2>1, <2>3 DEF IInv, NetTypes, Generations, Verdicts
  <2>5. News'
    BY <1>1, <1>2, <1>4, <2>1, <2>3 DEF IInv, NetTypes, News, Canceled, Discarded, Retired
  <2>. QED BY <2>4, <2>5 DEF IInv
<1>. QED BY <1>3, <1>4

LEMMA TurnKeeps ==
  ASSUME MaxGen \in Nat, IInv, NEW g \in 0..MaxGen, TickAgain(g) \/ End(g) \/ Close(g) \/ Begin(g)
  PROVE  IInv'
<1>1. g = gen /\ UNCHANGED <<net, last, gen, canceled, wired, notes, online>>
  BY ActorIsPresent DEF TickAgain, End, Close, Begin
<1>2. CASE TickAgain(g) \/ End(g)
  <2>1. PICK pc \in {"ended", "dialing"} :
          /\ watch' = Goto(g, pc) /\ (pc = "ended" => Retired(g)) /\ (pc = "dialing" => notes = {})
          /\ closed' = closed /\ watch[g].pc = "ticking"
    BY <1>2 DEF TickAgain, End, Told
  <2>2. /\ watch' \in [0..MaxGen -> Watch] /\ watch'[g].pc = pc
        /\ \A h \in 0..MaxGen \ {g} : watch'[h] = watch[h]
    BY <2>1, GotoIs DEF IInv, Steps
  <2>. QED BY <1>1, <2>1, <2>2 DEF IInv, NetTypes, Generations, News, Canceled, Retired
<1>3. CASE Close(g)
  <2>1. /\ watch' = Goto(g, "closed") /\ notes = {} /\ closed' = closed \cup {gen}
        /\ watch[g].pc = "changed"
    BY <1>3 DEF Close, Told
  <2>2. /\ watch' \in [0..MaxGen -> Watch] /\ watch'[g].pc = "closed"
        /\ \A h \in 0..MaxGen \ {g} : watch'[h] = watch[h]
    BY <2>1, GotoIs DEF IInv, Steps
  <2>. QED BY <1>1, <2>1, <2>2 DEF IInv, NetTypes, Generations, News, Canceled
<1>4. CASE Begin(g)
  <2>1. PICK pc \in {"ticking", "dialing"} :
          watch' = Goto(g, pc) /\ closed' = closed /\ watch[g].pc = "starting"
    BY <1>4 DEF Begin
  <2>2. /\ watch' \in [0..MaxGen -> Watch] /\ watch'[g].pc = pc
        /\ \A h \in 0..MaxGen \ {g} : watch'[h] = watch[h]
    BY <2>1, GotoIs DEF IInv, Steps
  <2>. QED BY <1>1, <2>1, <2>2 DEF IInv, NetTypes, Generations, News, Canceled
<1>. QED BY <1>2, <1>3, <1>4

LEMMA RenewKeeps == ASSUME MaxGen \in Nat, IInv, NEW g \in 0..MaxGen, Renew(g) PROVE IInv'
<1>1. /\ g = gen /\ watch[g].pc = "closed" /\ gen < MaxGen /\ gen' = gen + 1
      /\ UNCHANGED <<net, last, closed, canceled, wired, notes, online>>
  BY ActorIsPresent DEF Renew
<1>2. gen + 1 \in 0..MaxGen /\ gen \in 0..MaxGen /\ closed \subseteq 0..gen
  BY <1>1 DEF IInv, NetTypes
<1>. DEFINE mid == [watch EXCEPT ![gen].pc = "ended"]
<1>3. watch' = [mid EXCEPT ![gen + 1].pc = "starting"]
  BY <1>1 DEF Renew
<1>4. /\ watch' \in [0..MaxGen -> Watch] /\ watch'[gen].pc = "ended" /\ watch'[gen + 1].pc = "starting"
      /\ \A h \in 0..MaxGen \ {gen, gen + 1} : watch'[h] = watch[h]
  <2>1. /\ mid \in [0..MaxGen -> Watch] /\ mid[gen].pc = "ended"
        /\ \A h \in 0..MaxGen \ {gen} : mid[h] = watch[h]
    BY <1>2 DEF IInv, NetTypes, Watch, Steps
  <2>2. gen + 1 # gen
    BY <1>2
  <2>. HIDE DEF mid
  <2>3. /\ watch' \in [0..MaxGen -> Watch] /\ watch'[gen + 1].pc = "starting"
        /\ \A h \in 0..MaxGen \ {gen + 1} : watch'[h] = mid[h]
    BY <1>2, <1>3, <2>1 DEF Watch, Steps
  <2>. QED BY <1>2, <2>1, <2>2, <2>3
<1>5. notes = {}
  BY <1>1 DEF IInv, News
<1>6. NetTypes'
  BY <1>1, <1>2, <1>4 DEF IInv, NetTypes
<1>7. Generations'
  BY <1>1, <1>2, <1>4 DEF IInv, NetTypes, Generations
<1>8. gen + 1 \notin closed
  BY <1>2
<1>9. News'
  BY <1>1, <1>4, <1>5, <1>8 DEF IInv, News, Canceled
<1>. QED BY <1>6, <1>7, <1>9 DEF IInv

LEMMA NotifyKeeps == ASSUME MaxGen \in Nat, IInv, NEW n \in notes, Notify(n) PROVE IInv'
<1>1. UNCHANGED <<net, last, gen, closed, watch, canceled, wired>> /\ notes' = notes \ {n}
  BY DEF Notify
<1>2. n = [chan |-> gen, value |-> last] /\ notes' = {}
  BY <1>1 DEF IInv, News
<1>3. /\ ~Canceled => online'.missed \/ online'.value = last
      /\ ~wired => online'.value = online.value
      /\ online' \in [value : Verdicts, missed : BOOLEAN]
  <2>1. wired /\ (~Canceled => gen \notin closed) /\ last \in Verdicts
    BY DEF IInv, News, NetTypes
  <2>2. online \in [value : Verdicts, missed : BOOLEAN]
    BY DEF IInv, NetTypes
  <2>3. CASE UNCHANGED online
    BY <1>2, <2>1, <2>2, <2>3 DEF Notify
  <2>4. CASE online' = [value |-> n.value, missed |-> FALSE]
    BY <1>2, <2>1, <2>4
  <2>5. CASE online' = [online EXCEPT !.missed = TRUE]
    <3>1. online'.missed = TRUE /\ online'.value = online.value
      BY <2>2, <2>5
    <3>. QED BY <2>1, <2>2, <2>5, <3>1
  <2>. QED BY <2>3, <2>4, <2>5 DEF Notify
<1>. QED BY <1>1, <1>2, <1>3 DEF IInv, NetTypes, Generations, News, Canceled

LEMMA AroundKeeps ==
  ASSUME MaxGen \in Nat, IInv, NetChanges \/ Wire \/ Cancel \/ Stop \/ UNCHANGED net_vars
  PROVE  IInv'
<1>1. UNCHANGED <<last, gen, watch, notes, online>>
  BY DEF NetChanges, Wire, Cancel, Stop, net_vars
<1>2. NetTypes' /\ Generations'
  <2>1. net' \in BOOLEAN /\ wired' \in BOOLEAN
    BY DEF IInv, NetTypes, NetChanges, Wire, Cancel, Stop, net_vars
  <2>2. closed' \subseteq 0..gen /\ canceled' \in {"no", "canceled", "stopped"}
    <3>1. CASE Stop
      BY <3>1 DEF IInv, NetTypes, Stop
    <3>2. CASE Cancel
      BY <3>2 DEF IInv, NetTypes, Cancel
    <3>3. CASE NetChanges \/ Wire \/ UNCHANGED net_vars
      <4>1. UNCHANGED <<closed, canceled>>
        BY <3>3 DEF NetChanges, Wire, net_vars
      <4>. QED BY <4>1 DEF IInv, NetTypes
    <3>. QED BY <3>1, <3>2, <3>3
  <2>. QED BY <1>1, <2>1, <2>2 DEF IInv, NetTypes, Generations
<1>3. News'
  <2>1. CASE NetChanges \/ UNCHANGED net_vars
    BY <1>1, <2>1 DEF IInv, News, NetChanges, net_vars, Canceled
  <2>2. CASE Wire
    BY <1>1, <2>2 DEF IInv, News, Wire, Canceled
  <2>3. CASE Cancel
    BY <1>1, <2>3 DEF IInv, News, Cancel, Canceled
  <2>4. CASE Stop
    BY <1>1, <2>4 DEF IInv, News, Stop, Canceled
  <2>. QED BY <2>1, <2>2, <2>3, <2>4
<1>. QED BY <1>2, <1>3 DEF IInv

LEMMA NextKeeps == ASSUME MaxGen \in Nat, IInv, [NetNext]_net_vars PROVE IInv'
BY ProbeKeeps, ApplyKeeps, TurnKeeps, RenewKeeps, NotifyKeeps, AroundKeeps
   DEF NetNext, Watcher, Notified

LEMMA OneSpeaks == ASSUME MaxGen \in Nat, IInv PROVE OneVoice
<1>. DEFINE S == {g \in 0..MaxGen : watch[g].pc \in {"dialing", "dialed", "ticking"}}
<1>1. S \subseteq {gen}
  BY ActorIsPresent
<1>2. Cardinality(S) <= 1
  <2>1. IsFiniteSet({gen}) /\ Cardinality({gen}) = 1
    BY FS_Singleton
  <2>2. Cardinality(S) <= Cardinality({gen})
    BY <1>1, <2>1, FS_Subset
  <2>. QED BY <2>1, <2>2
<1>. QED BY <1>2 DEF OneVoice, OneWatcher, HeardIsLast, IInv, NetTypes, News

(* One generation of the watcher is heard and the bus has heard its last   *)
(* verdict, for any number of changes, at any moment of a stop, a dial or a*)
(* notification (connectivity.go 127-310).                                 *)
THEOREM OneIsHeard == NetSpec => []OneVoice
<1>1. NetInit => IInv
  BY InitIInv, ConnectivityAssumption
<1>2. IInv /\ [NetNext]_net_vars => IInv'
  BY NextKeeps, ConnectivityAssumption
<1>3. IInv => OneVoice
  BY OneSpeaks, ConnectivityAssumption
<1>. QED BY <1>1, <1>2, <1>3, PTL DEF NetSpec

(****************************** The reboots ********************************)

Lapses == 0..Forever \cup {LongAgo}
Events == {"hang", "recover"}

RamShape == ram \in [monitoring : BOOLEAN, start : Lapses, cool : Nat, restart : Lapses]
DiskShape == disk \in [cool : Nat, cleaned : BOOLEAN]
GateShape == gate \in [holder : Nat, since : Lapses]
WorldShape ==
  world \in [update : Nat, updates : Nat, ram : {world.ram}, disk : {world.disk},
             restarted : Lapses, cleaned : Lapses, high : 0..Forever, heard : Nat, newest : Nat]
CmdShape ==
  cmd \in [reboots : {cmd.reboots}, fallback : {FALSE}, rebooted : {cmd.rebooted}]
GpuShape ==
  /\ timer \in [scheduled : BOOLEAN, st : {"none", "armed", "fired"}, left : {timer.left}]
  /\ gpu \in [hung : BOOLEAN, began : {gpu.began}, log : Seq(Events), read : Nat,
              alive : {gpu.alive}, told : {gpu.told}, lost : {gpu.lost}]
Shapes == RamShape /\ DiskShape /\ GateShape /\ WorldShape /\ CmdShape /\ GpuShape

(* What the handlers count is what has really happened: the restart they   *)
(* stamped, the time the usage was high, the cleanup and its cooldown.     *)
RamCounts ==
  /\ world.restarted = ram.restart
  /\ ram.monitoring => ram.start # LongAgo /\ ram.start <= world.high
DiskCounts ==
  disk.cleaned => world.cleaned # LongAgo /\ world.cleaned + disk.cool >= DiskCooldown

(* The last line about a GPU that has recovered is its recovery; it is     *)
(* somewhere between journal and timer, its send failed, or it is the      *)
(* newest that was handled; and while it is the last handled too no timer  *)
(* is armed.                                                               *)
LineCount == Len(gpu.log)
Numbered ==
  /\ gpu.read \in 0..LineCount /\ world.heard \in 0..LineCount /\ world.newest \in 0..LineCount
  /\ \A e \in gpu.told \cup bus : e.no \in 1..LineCount /\ e.says = gpu.log[e.no]
Whereabouts ==
  \/ LineCount = 0 \/ gpu.read < LineCount
  \/ \E e \in gpu.told \cup bus : e.no = LineCount
  \/ LineCount \in gpu.lost \/ world.newest = LineCount
Foretold ==
  /\ timer.st = "armed" => timer.scheduled
  /\ gpu.hung = FALSE =>
       /\ LineCount > 0 => gpu.log[LineCount] = "recover"
       /\ world.heard = LineCount => timer.st # "armed"
  /\ Numbered /\ Whereabouts

Earned == UpdateSpared /\ RamRebootEarned /\ DiskRebootEarned
RebootInv == Shapes /\ RamCounts /\ DiskCounts /\ Foretold /\ Earned

LEMMA Clocks ==
  /\ RamMonitor \in Nat /\ RamReboot \in Nat /\ RamCooldown \in Nat /\ MaxHold \in Nat
  /\ DiskCooldown \in Nat /\ DiskCooldown <= Forever /\ Forever \in Nat
  /\ LongAgo \in Nat /\ LongAgo > Forever /\ MaxHold <= Forever /\ RamReboot <= Forever
BY MachineAssumption DEF Forever

LEMMA AgesHave == 0 \in Lapses /\ LongAgo \in Lapses /\ 0 \in 0..Forever
BY Clocks DEF Lapses

LEMMA OlderIs ==
  /\ \A a \in Lapses : Older(a) \in Lapses /\ (Older(a) = LongAgo <=> a = LongAgo)
  /\ \A a \in 0..Forever : Older(a) \in 0..Forever /\ (Older(a) = a + 1 \/ (Older(a) = a /\ a = Forever))
  /\ \A a, b \in 0..Forever : a <= b => Older(a) <= Older(b)
BY Clocks DEF Lapses, Older

LEMMA Appended ==
  ASSUME NEW s \in Seq(Events), NEW x \in Events
  PROVE  /\ Append(s, x) \in Seq(Events) /\ Len(Append(s, x)) = Len(s) + 1
         /\ Append(s, x)[Len(s) + 1] = x
         /\ \A i \in 1..Len(s) : Append(s, x)[i] = s[i]
BY AppendProperties

LEMMA RebootInitInv == ChainInit => RebootInv
<1> SUFFICES ASSUME ChainInit PROVE RebootInv
  OBVIOUS
<1> USE Clocks
<1>1. Shapes
  <2>1. RamShape /\ DiskShape /\ GateShape
    BY DEF ChainInit, MachineInit, RamShape, DiskShape, GateShape, Lapses
  <2>2. WorldShape /\ CmdShape
    BY DEF ChainInit, MachineInit, WorldShape, CmdShape, Lapses
  <2>3. GpuShape
    BY DEF ChainInit, MachineInit, Journal!GpuInit, GpuShape, Events
  <2>. QED BY <2>1, <2>2, <2>3 DEF Shapes
<1>2. RamCounts /\ DiskCounts /\ Foretold
  BY DEF ChainInit, MachineInit, Journal!GpuInit, RamCounts, DiskCounts, Foretold,
         LineCount, Numbered, Whereabouts
<1>3. Earned
  BY DEF ChainInit, MachineInit, Earned, UpdateSpared, RamRebootEarned, DiskRebootEarned
<1>. QED BY <1>1, <1>2, <1>3 DEF RebootInv

LEMMA SeenIs ==
  ASSUME GateShape, WorldShape
  PROVE  /\ Seen \in [holder : Nat, since : Lapses] /\ Seen.holder = world.update
         /\ ~Holds(Seen) /\ world.update # 0 => Since(Seen.since) >= MaxHold
<1>1. Seen \in [holder : Nat, since : Lapses] /\ Seen.holder = world.update
  <2>1. CASE world.update = 0
    BY <2>1, Clocks DEF Seen, GateShape, WorldShape, Lapses
  <2>2. CASE world.update # 0 /\ gate.holder = world.update
    BY <2>2 DEF Seen, GateShape, WorldShape
  <2>3. CASE world.update # 0 /\ gate.holder # world.update
    BY <2>3, Clocks DEF Seen, GateShape, WorldShape, Lapses
  <2>. QED BY <2>1, <2>2, <2>3
<1>2. ASSUME ~Holds(Seen), world.update # 0 PROVE Since(Seen.since) >= MaxHold
  <2>1. ~(Seen.since < MaxHold) /\ Seen.since \in Lapses
    BY <1>1, <1>2 DEF Holds
  <2>. QED BY <2>1, Clocks DEF Since, Lapses
<1>. QED BY <1>1, <1>2

(* A reboot that the gate lets pass is earned if its reason is.            *)
LEMMA RebootKeeps ==
  ASSUME RebootInv, NEW why, cmd' = Reboot(cmd, Seen, why),
         why = "ram" => ram.restart # LongAgo /\ ram.restart < RamReboot /\ world.high >= RamMonitor,
         why = "disk" => world.cleaned # LongAgo /\ world.cleaned >= DiskCooldown
  PROVE  CmdShape' /\ Earned'
<1>0. GateShape /\ WorldShape /\ CmdShape /\ Earned /\ RamCounts
  BY DEF RebootInv, Shapes
<1>1. CASE Holds(Seen)
  BY <1>0, <1>1 DEF Reboot, CmdShape, Earned, UpdateSpared, RamRebootEarned, DiskRebootEarned
<1>2. CASE ~Holds(Seen)
  <2> DEFINE q == Request(why, Since(Seen.since))
  <2>1. cmd' = [cmd EXCEPT !.reboots = cmd.reboots \cup {q}]
    BY <1>2 DEF Reboot
  <2>2. /\ q.why = why /\ q.saw = world.update /\ q.since = Since(Seen.since)
        /\ q.restarted = Since(world.restarted) /\ q.cleaned = world.cleaned /\ q.high = world.high
    BY DEF Request
  <2> HIDE DEF q
  <2>3. cmd'.reboots = cmd.reboots \cup {q} /\ CmdShape'
    BY <1>0, <2>1 DEF CmdShape
  <2>4. q.saw # 0 => q.since >= MaxHold
    BY <1>0, <1>2, <2>2, SeenIs
  <2>5. q.why = "ram" => q.restarted < RamReboot /\ q.high >= RamMonitor
    BY <1>0, <2>2 DEF RamCounts, Since
  <2>6. q.why = "disk" => q.cleaned # LongAgo /\ q.cleaned >= DiskCooldown
    BY <2>2
  <2>. QED BY <1>0, <2>3, <2>4, <2>5, <2>6 DEF Earned, UpdateSpared, RamRebootEarned, DiskRebootEarned
<1>. QED BY <1>1, <1>2

LEMMA EarnedStays ==
  ASSUME Earned, cmd'.reboots \subseteq cmd.reboots
  PROVE  Earned'
BY DEF Earned, UpdateSpared, RamRebootEarned, DiskRebootEarned

LEMMA GpuStays ==
  ASSUME RebootInv, UNCHANGED <<timer, gpu, bus>>,
         world'.heard = world.heard, world'.newest = world.newest
  PROVE  GpuShape' /\ Foretold'
BY DEF RebootInv, Shapes, GpuShape, Foretold, LineCount, Numbered, Whereabouts

(* WouldReboot is of a restart that was made: Since of none is Forever.    *)
LEMMA MetricsKeeps ==
  ASSUME RebootInv, Metrics, UNCHANGED gpu
  PROVE  RebootInv'
<1>0. RamShape /\ DiskShape /\ GateShape /\ WorldShape /\ CmdShape /\ RamCounts /\ DiskCounts /\ Earned
  BY DEF RebootInv, Shapes
<1>1. UNCHANGED <<disk, timer, bus>> /\ MemoryCheck(Seen)
  BY DEF Metrics
<1>2. GpuShape' /\ Foretold'
  <2>1. world'.heard = world.heard /\ world'.newest = world.newest
    BY <1>0, <1>1 DEF MemoryCheck, WorldShape
  <2>. QED BY <1>1, <2>1, GpuStays
<1>3. DiskShape'
  BY <1>0, <1>1 DEF DiskShape
<1>a. CASE UNCHANGED <<ram, gate, cmd, world>>
  <2>1. Shapes'
    BY <1>0, <1>2, <1>3, <1>a DEF Shapes, RamShape, GateShape, WorldShape, CmdShape
  <2>2. RamCounts' /\ DiskCounts' /\ Earned'
    BY <1>0, <1>1, <1>a, EarnedStays DEF RamCounts, DiskCounts
  <2>. QED BY <1>2, <2>1, <2>2 DEF RebootInv
<1>b. CASE ram' = Unmonitored(ram) /\ world' = [world EXCEPT !.high = 0] /\ UNCHANGED <<gate, cmd>>
  <2>1. ram' = [ram EXCEPT !.monitoring = FALSE, !.start = LongAgo]
    BY <1>b DEF Unmonitored
  <2>2. RamShape' /\ ram'.monitoring = FALSE /\ ram'.restart = ram.restart
    BY <1>0, <2>1, AgesHave DEF RamShape
  <2>3. WorldShape' /\ world'.restarted = world.restarted /\ world'.cleaned = world.cleaned
    BY <1>0, <1>b, AgesHave DEF WorldShape
  <2>4. Shapes'
    BY <1>0, <1>2, <1>3, <1>b, <2>2, <2>3 DEF Shapes, GateShape, CmdShape
  <2>5. RamCounts' /\ DiskCounts' /\ Earned'
    BY <1>0, <1>1, <1>b, <2>2, <2>3, EarnedStays DEF RamCounts, DiskCounts
  <2>. QED BY <1>2, <2>4, <2>5 DEF RebootInv
<1>c. CASE ram' = [ram EXCEPT !.monitoring = TRUE, !.start = 0] /\ UNCHANGED <<gate, cmd, world>>
  <2>1. RamShape' /\ ram'.start = 0 /\ ram'.restart = ram.restart
    BY <1>0, <1>c, AgesHave DEF RamShape
  <2>2. Shapes'
    BY <1>0, <1>2, <1>3, <1>c, <2>1 DEF Shapes, GateShape, WorldShape, CmdShape
  <2>3. 0 # LongAgo /\ 0 <= world.high
    BY <1>0, Clocks DEF WorldShape
  <2>4. RamCounts' /\ DiskCounts' /\ Earned'
    BY <1>0, <1>1, <1>c, <2>1, <2>3, EarnedStays DEF RamCounts, DiskCounts
  <2>. QED BY <1>2, <2>2, <2>4 DEF RebootInv
<1>d. CASE /\ ram.monitoring /\ ~(ram.start < RamMonitor) /\ WouldReboot
           /\ gate' = Seen /\ cmd' = Reboot(cmd, Seen, "ram") /\ UNCHANGED <<ram, world>>
  <2>1. ram.restart # LongAgo /\ ram.restart < RamReboot
    BY <1>0, <1>d, Clocks DEF WouldReboot, Since, RamShape, Lapses
  <2>2. world.high >= RamMonitor
    BY <1>0, <1>d, Clocks DEF RamCounts, RamShape, WorldShape, Lapses
  <2>3. CmdShape' /\ Earned'
    BY <1>d, <2>1, <2>2, RebootKeeps
  <2>4. GateShape'
    BY <1>0, <1>d, SeenIs DEF GateShape
  <2>5. RamShape' /\ WorldShape' /\ RamCounts' /\ DiskCounts'
    BY <1>0, <1>1, <1>d DEF RamShape, WorldShape, RamCounts, DiskCounts
  <2>. QED BY <1>2, <1>3, <2>3, <2>4, <2>5 DEF RebootInv, Shapes
<1>e. CASE /\ ram' = [Unmonitored(ram) EXCEPT !.restart = 0, !.cool = RamCooldown]
           /\ world' = [world EXCEPT !.restarted = IF cmd.fallback THEN @ ELSE 0, !.high = 0]
           /\ UNCHANGED <<gate, cmd>>
  <2>1. ram' = [ram EXCEPT !.monitoring = FALSE, !.start = LongAgo, !.restart = 0, !.cool = RamCooldown]
    BY <1>0, <1>e DEF Unmonitored, RamShape
  <2>2. world' = [world EXCEPT !.restarted = 0, !.high = 0]
    BY <1>0, <1>e DEF CmdShape
  <2>3. RamShape' /\ ram'.monitoring = FALSE /\ ram'.restart = 0
    BY <1>0, <2>1, AgesHave, Clocks DEF RamShape
  <2>4. WorldShape' /\ world'.restarted = 0 /\ world'.cleaned = world.cleaned
    BY <1>0, <2>2, AgesHave DEF WorldShape
  <2>5. Shapes'
    BY <1>0, <1>2, <1>3, <1>e, <2>3, <2>4 DEF Shapes, GateShape, CmdShape
  <2>6. RamCounts' /\ DiskCounts' /\ Earned'
    BY <1>0, <1>1, <1>e, <2>3, <2>4, EarnedStays DEF RamCounts, DiskCounts
  <2>. QED BY <1>2, <2>5, <2>6 DEF RebootInv
<1>. QED BY <1>1, <1>a, <1>b, <1>c, <1>d, <1>e DEF MemoryCheck

LEMMA MetricsDiskKeeps ==
  ASSUME RebootInv, MetricsDisk, UNCHANGED gpu
  PROVE  RebootInv'
<1>0. RamShape /\ DiskShape /\ GateShape /\ WorldShape /\ CmdShape /\ RamCounts /\ DiskCounts /\ Earned
  BY DEF RebootInv, Shapes
<1>1. UNCHANGED <<ram, timer, bus>> /\ DiskCheck(Seen)
  BY DEF MetricsDisk
<1>2. GpuShape' /\ Foretold' /\ RamShape'
  <2>1. world'.heard = world.heard /\ world'.newest = world.newest
    BY <1>0, <1>1 DEF DiskCheck, WorldShape
  <2>. QED BY <1>0, <1>1, <2>1, GpuStays DEF RamShape
<1>3. gate' = gate \/ gate' = Seen
  BY <1>1 DEF DiskCheck
<1>4. GateShape'
  BY <1>0, <1>3, SeenIs DEF GateShape
<1>a. CASE UNCHANGED <<disk, cmd, world>>
  BY <1>0, <1>1, <1>2, <1>4, <1>a, EarnedStays
     DEF Shapes, DiskShape, WorldShape, CmdShape, RamCounts, DiskCounts, RebootInv
<1>b. CASE /\ ~CoolingDown(disk) /\ world.disk = "full" /\ disk.cleaned
           /\ cmd' = Reboot(cmd, Seen, "disk") /\ UNCHANGED <<disk, world>>
  <2>1. world.cleaned # LongAgo /\ world.cleaned >= DiskCooldown
    <3>1. disk.cool = 0
      BY <1>0, <1>b DEF CoolingDown, DiskShape
    <3>2. world.cleaned \in Nat
      BY <1>0, Clocks DEF WorldShape, Lapses
    <3>. QED BY <1>0, <1>b, <3>1, <3>2 DEF DiskCounts
  <2>2. CmdShape' /\ Earned'
    BY <1>b, <2>1, RebootKeeps
  <2>3. DiskShape' /\ WorldShape' /\ RamCounts' /\ DiskCounts'
    BY <1>0, <1>1, <1>b DEF DiskShape, WorldShape, RamCounts, DiskCounts
  <2>. QED BY <1>2, <1>4, <2>2, <2>3 DEF RebootInv, Shapes
<1>c. CASE /\ disk' = [cleaned |-> TRUE, cool |-> DiskCooldown]
           /\ world' = [world EXCEPT !.cleaned = 0] /\ UNCHANGED cmd
  <2>1. DiskShape' /\ disk'.cool = DiskCooldown
    BY <1>c, Clocks DEF DiskShape
  <2>2. WorldShape' /\ world'.cleaned = 0 /\ world'.restarted = world.restarted /\ world'.high = world.high
    BY <1>0, <1>c, AgesHave DEF WorldShape
  <2>3. DiskCounts'
    BY <2>1, <2>2, Clocks DEF DiskCounts
  <2>4. CmdShape' /\ Earned' /\ RamCounts'
    BY <1>0, <1>1, <1>c, <2>2, EarnedStays DEF CmdShape, RamCounts
  <2>. QED BY <1>2, <1>4, <2>1, <2>2, <2>3, <2>4 DEF RebootInv, Shapes
<1>d. CASE disk' = [disk EXCEPT !.cleaned = FALSE] /\ UNCHANGED <<cmd, world>>
  <2>1. DiskShape' /\ disk'.cleaned = FALSE
    BY <1>0, <1>d DEF DiskShape
  <2>2. WorldShape' /\ CmdShape' /\ Earned' /\ RamCounts' /\ DiskCounts'
    BY <1>0, <1>1, <1>d, <2>1, EarnedStays DEF WorldShape, CmdShape, RamCounts, DiskCounts
  <2>. QED BY <1>2, <1>4, <2>1, <2>2 DEF RebootInv, Shapes
<1>. QED BY <1>1, <1>a, <1>b, <1>c, <1>d DEF DiskCheck

(* What leaves the counts of memory and disk alone.                        *)
LEMMA CountsStay ==
  ASSUME RebootInv, UNCHANGED <<ram, disk>>, WorldShape',
         world'.restarted = world.restarted, world'.cleaned = world.cleaned, world'.high = world.high,
         GateShape', CmdShape', Earned', GpuShape', Foretold'
  PROVE  RebootInv'
BY DEF RebootInv, Shapes, RamShape, DiskShape, RamCounts, DiskCounts

(* A signal, in whatever order: a hang arms the timer, a recovery disarms  *)
(* it, and the last line of a GPU that has recovered is a recovery.        *)
LEMMA SignalKeeps ==
  ASSUME RebootInv, Signals, UNCHANGED gpu
  PROVE  RebootInv'
<1>0. GpuShape /\ Foretold /\ GateShape /\ WorldShape /\ CmdShape /\ Earned
  BY DEF RebootInv, Shapes
<1>1. PICK e \in bus :
        /\ bus' = bus \ {e} /\ UNCHANGED <<ram, disk, gate, cmd>>
        /\ timer' = IF e.says = "hang" THEN Schedule ELSE Recovery
        /\ world' = [world EXCEPT !.heard = e.no, !.newest = IF e.no > @ THEN e.no ELSE @]
  BY DEF Signals, Signal
<1>2. /\ LineCount \in Nat /\ e.no \in 1..LineCount /\ e.says = gpu.log[e.no]
      /\ e.says \in {"hang", "recover"}
  BY <1>0 DEF Foretold, Numbered, LineCount, GpuShape, Events
<1>w. /\ WorldShape' /\ world'.heard = e.no
      /\ world'.newest = IF e.no > world.newest THEN e.no ELSE world.newest
      /\ world'.restarted = world.restarted /\ world'.cleaned = world.cleaned /\ world'.high = world.high
  <2>1. PICK m \in Nat : m = IF e.no > world.newest THEN e.no ELSE world.newest
    BY <1>0, <1>2 DEF WorldShape
  <2>2. world' = [world EXCEPT !.heard = e.no, !.newest = m]
    BY <1>0, <1>1, <2>1 DEF WorldShape
  <2>3. e.no \in Nat
    BY <1>2
  <2>. QED BY <1>0, <2>1, <2>2, <2>3 DEF WorldShape
<1>3. /\ timer'.scheduled \in BOOLEAN /\ timer'.st \in {"none", "armed", "fired"}
      /\ timer' \in [scheduled : {timer'.scheduled}, st : {timer'.st}, left : {timer'.left}]
      /\ timer'.st = "armed" => timer'.scheduled
      /\ e.says = "recover" => timer'.st # "armed"
  <2>1. CASE e.says = "hang"
    <3>1. timer' = timer \/ timer' = Scheduled
      BY <1>1, <2>1 DEF Schedule
    <3>2. CASE timer' = timer
      BY <1>0, <2>1, <3>2 DEF GpuShape, Foretold
    <3>3. CASE timer' = Scheduled
      BY <2>1, <3>3 DEF Scheduled
    <3>. QED BY <3>1, <3>2, <3>3
  <2>2. CASE e.says # "hang"
    <3>1. CASE timer.st = "armed"
      <4>1. timer' = [timer EXCEPT !.scheduled = FALSE, !.st = "none"]
        BY <1>0, <1>1, <2>2, <3>1 DEF Recovery, Disarmed, Foretold
      <4>. QED BY <1>0, <4>1 DEF GpuShape
    <3>2. CASE timer.st # "armed"
      <4>1. timer' = timer
        BY <1>1, <2>2, <3>2 DEF Recovery, Disarmed
      <4>. QED BY <1>0, <3>2, <4>1 DEF GpuShape
    <3>. QED BY <3>1, <3>2
  <2>. QED BY <2>1, <2>2
<1>4. GpuShape'
  BY <1>0, <1>3 DEF GpuShape
<1>5. Foretold'
  <2>1. LineCount' = LineCount
    BY DEF LineCount
  <2>2. Numbered'
    BY <1>0, <1>1, <1>2, <1>w, <2>1 DEF Foretold, Numbered
  <2>3. Whereabouts'
    BY <1>0, <1>1, <1>2, <1>w, <2>1 DEF Foretold, Numbered, Whereabouts
  <2>4. gpu.hung = FALSE /\ world'.heard = LineCount => timer'.st # "armed"
    BY <1>0, <1>2, <1>3, <1>w DEF Foretold
  <2>. QED BY <1>0, <1>3, <2>1, <2>2, <2>3, <2>4 DEF Foretold
<1>6. GateShape' /\ CmdShape' /\ Earned'
  BY <1>0, <1>1, EarnedStays DEF GateShape, CmdShape
<1>. QED BY <1>1, <1>4, <1>5, <1>6, <1>w, CountsStay

LEMMA TimerKeeps ==
  ASSUME RebootInv, Fires \/ Fired, UNCHANGED gpu
  PROVE  RebootInv'
<1>0. GpuShape /\ Foretold /\ GateShape /\ WorldShape /\ CmdShape /\ Earned
  BY DEF RebootInv, Shapes
<1>1. /\ UNCHANGED <<ram, disk, world, bus>>
      /\ \/ timer' = [timer EXCEPT !.st = "fired"]
         \/ timer' = [timer EXCEPT !.scheduled = FALSE, !.st = "none"]
  BY DEF Fires, Fired
<1>2. GpuShape' /\ timer'.st # "armed"
  BY <1>0, <1>1 DEF GpuShape
<1>3. Foretold'
  BY <1>0, <1>1, <1>2 DEF Foretold, LineCount, Numbered, Whereabouts
<1>4. GateShape' /\ CmdShape' /\ Earned'
  <2>1. CASE Fires
    BY <1>0, <2>1, EarnedStays DEF Fires, GateShape, CmdShape
  <2>2. CASE Fired
    <3>1. gate' = Seen /\ cmd' = Reboot(cmd, Seen, "gpu")
      BY <2>2 DEF Fired
    <3>2. GateShape'
      BY <1>0, <3>1, SeenIs DEF GateShape
    <3>. QED BY <3>1, <3>2, RebootKeeps
  <2>. QED BY <2>1, <2>2
<1>. QED BY <1>0, <1>1, <1>2, <1>3, <1>4, CountsStay DEF WorldShape

LEMMA RebootingKeeps ==
  ASSUME RebootInv, Rebooting, UNCHANGED gpu
  PROVE  RebootInv'
<1>0. GateShape /\ WorldShape /\ CmdShape /\ Earned
  BY DEF RebootInv, Shapes
<1>1. PICK r \in cmd.reboots, ok \in BOOLEAN :
        cmd' = [cmd EXCEPT !.reboots = cmd.reboots \ {r}, !.rebooted = ok]
  BY DEF Rebooting, Executes
<1>2. UNCHANGED <<ram, disk, timer, gate, world, bus>>
  BY DEF Rebooting, Executes
<1>3. CmdShape' /\ Earned'
  BY <1>0, <1>1, EarnedStays DEF CmdShape
<1>. QED BY <1>0, <1>2, <1>3, CountsStay, GpuStays DEF GateShape, WorldShape

(* Time passes for the counts and for what they count alike.               *)
LEMMA TickKeeps ==
  ASSUME RebootInv, Tick, UNCHANGED gpu
  PROVE  RebootInv'
<1>0. /\ RamShape /\ DiskShape /\ GateShape /\ WorldShape /\ CmdShape /\ GpuShape
      /\ RamCounts /\ DiskCounts /\ Foretold /\ Earned
  BY DEF RebootInv, Shapes
<1>1. /\ ram' = [ram EXCEPT !.start = Older(@), !.restart = Older(@), !.cool = IF @ > 0 THEN @ - 1 ELSE 0]
      /\ disk' = [disk EXCEPT !.cool = IF @ > 0 THEN @ - 1 ELSE 0]
      /\ gate' = [gate EXCEPT !.since = Older(@)]
      /\ timer' = IF timer.st = "armed" THEN [timer EXCEPT !.left = @ - 1] ELSE timer
      /\ \E m, d : world' = [world EXCEPT !.ram = m, !.disk = d, !.restarted = Older(@),
                                          !.cleaned = Older(@), !.high = Older(@)]
      /\ UNCHANGED <<cmd, bus>>
  BY DEF Tick
<1>2. /\ RamShape' /\ ram'.monitoring = ram.monitoring
      /\ ram'.start = Older(ram.start) /\ ram'.restart = Older(ram.restart)
  <2>1. PICK c \in Nat : c = IF ram.cool > 0 THEN ram.cool - 1 ELSE 0
    BY <1>0 DEF RamShape
  <2>2. PICK s \in Lapses, t \in Lapses : s = Older(ram.start) /\ t = Older(ram.restart)
    BY <1>0, OlderIs DEF RamShape
  <2>3. ram' = [ram EXCEPT !.start = s, !.restart = t, !.cool = c]
    BY <1>0, <1>1, <2>1, <2>2 DEF RamShape
  <2>. QED BY <1>0, <2>2, <2>3 DEF RamShape
<1>3. DiskShape' /\ disk'.cleaned = disk.cleaned /\ disk'.cool + 1 >= disk.cool
  <2>1. PICK c \in Nat : c = IF disk.cool > 0 THEN disk.cool - 1 ELSE 0
    BY <1>0 DEF DiskShape
  <2>2. disk' = [disk EXCEPT !.cool = c]
    BY <1>0, <1>1, <2>1 DEF DiskShape
  <2>3. c + 1 >= disk.cool
    BY <1>0, <2>1 DEF DiskShape
  <2>. QED BY <1>0, <2>2, <2>3 DEF DiskShape
<1>4. GateShape'
  <2>1. PICK s \in Lapses : s = Older(gate.since)
    BY <1>0, OlderIs DEF GateShape
  <2>2. gate' = [gate EXCEPT !.since = s]
    BY <1>1, <2>1
  <2>. QED BY <1>0, <2>2 DEF GateShape
<1>5. /\ WorldShape' /\ world'.restarted = Older(world.restarted)
      /\ world'.cleaned = Older(world.cleaned) /\ world'.high = Older(world.high)
      /\ world'.heard = world.heard /\ world'.newest = world.newest
  <2>1. PICK m, d : world' = [world EXCEPT !.ram = m, !.disk = d, !.restarted = Older(@),
                                           !.cleaned = Older(@), !.high = Older(@)]
    BY <1>1
  <2>2. PICK s \in Lapses, t \in Lapses, h \in 0..Forever :
          s = Older(world.restarted) /\ t = Older(world.cleaned) /\ h = Older(world.high)
    BY <1>0, OlderIs DEF WorldShape
  <2>3. world' = [world EXCEPT !.ram = m, !.disk = d, !.restarted = s, !.cleaned = t, !.high = h]
    BY <1>0, <2>1, <2>2 DEF WorldShape
  <2>. QED BY <1>0, <2>2, <2>3 DEF WorldShape
<1>6. RamCounts'
  <2>1. ASSUME ram.monitoring PROVE ram'.start # LongAgo /\ ram'.start <= world'.high
    <3>1. ram.start \in 0..Forever /\ world.high \in 0..Forever /\ ram.start <= world.high
      BY <1>0, <2>1 DEF RamCounts, RamShape, WorldShape, Lapses
    <3>2. Older(ram.start) # LongAgo
      BY <3>1, OlderIs, Clocks
    <3>. QED BY <1>2, <1>5, <3>1, <3>2, OlderIs
  <2>. QED BY <1>0, <1>2, <1>5, <2>1 DEF RamCounts
<1>7. DiskCounts'
  <2> SUFFICES ASSUME disk.cleaned
               PROVE  world'.cleaned # LongAgo /\ world'.cleaned + disk'.cool >= DiskCooldown
    BY <1>3 DEF DiskCounts
  <2>1. /\ world.cleaned \in 0..Forever /\ disk.cool \in Nat /\ disk'.cool \in Nat
        /\ world.cleaned + disk.cool >= DiskCooldown
    BY <1>0, <1>3 DEF DiskCounts, DiskShape, WorldShape, Lapses
  <2>2. world'.cleaned # LongAgo
    BY <1>5, <2>1, OlderIs, Clocks
  <2>3. CASE world'.cleaned = world.cleaned + 1
    BY <1>3, <2>1, <2>2, <2>3, Clocks
  <2>4. CASE world'.cleaned = Forever
    BY <2>1, <2>2, <2>4, Clocks
  <2>. QED BY <1>5, <2>1, <2>2, <2>3, <2>4, OlderIs
<1>8. GpuShape' /\ timer'.st = timer.st /\ timer'.scheduled = timer.scheduled
  <2>1. timer' = timer \/ \E l : timer' = [timer EXCEPT !.left = l]
    BY <1>1
  <2>. QED BY <1>0, <1>1, <2>1 DEF GpuShape
<1>9. Foretold'
  BY <1>0, <1>1, <1>5, <1>8 DEF Foretold, LineCount, Numbered, Whereabouts
<1>10. CmdShape' /\ Earned'
  BY <1>0, <1>1, EarnedStays DEF CmdShape
<1>. QED BY <1>2, <1>3, <1>4, <1>5, <1>6, <1>7, <1>8, <1>9, <1>10 DEF RebootInv, Shapes

LEMMA AroundKeepsReboots ==
  ASSUME "fallback" \notin Levels, RebootInv, Around, UNCHANGED gpu
  PROVE  RebootInv'
<1>0. GateShape /\ WorldShape /\ CmdShape /\ Earned
  BY DEF RebootInv, Shapes
<1>1. UNCHANGED <<ram, disk, timer, gate, cmd, bus>>
  BY DEF Around, UpdateStarts, UpdateEnds, Fallback
<1>2. \/ world' = [world EXCEPT !.update = world.updates + 1, !.updates = world.updates + 1]
      \/ world' = [world EXCEPT !.update = 0]
  BY DEF Around, UpdateStarts, UpdateEnds, Fallback
<1>3. /\ WorldShape' /\ world'.restarted = world.restarted
      /\ world'.cleaned = world.cleaned /\ world'.high = world.high
      /\ world'.heard = world.heard /\ world'.newest = world.newest
  <2>1. PICK n \in Nat : n = world.updates + 1
    BY <1>0 DEF WorldShape
  <2>2. CASE world' = [world EXCEPT !.update = n, !.updates = n]
    BY <1>0, <2>2 DEF WorldShape
  <2>3. CASE world' = [world EXCEPT !.update = 0]
    BY <1>0, <2>3 DEF WorldShape
  <2>. QED BY <1>2, <2>1, <2>2, <2>3
<1>. QED BY <1>0, <1>1, <1>3, CountsStay, GpuStays, EarnedStays DEF GateShape, CmdShape

(* The journal: its last line goes from hand to hand, or its send fails.   *)
LEMMA JournalKeeps ==
  ASSUME RebootInv, Journal!GpuNext, UNCHANGED own_vars
  PROVE  RebootInv'
<1>0. GpuShape /\ Foretold /\ GateShape /\ WorldShape /\ CmdShape /\ Earned
  BY DEF RebootInv, Shapes
<1>1. UNCHANGED <<ram, disk, timer, gate, cmd, world>>
  BY DEF own_vars
<1>2. /\ gpu.log \in Seq(Events) /\ LineCount \in Nat /\ gpu.read \in Nat
      /\ "hang" \in Events /\ "recover" \in Events
  BY <1>0 DEF GpuShape, Events, LineCount
<1>3. Numbered /\ Whereabouts
  BY <1>0 DEF Foretold
<1>a. GateShape' /\ WorldShape' /\ CmdShape' /\ Earned'
  BY <1>0, <1>1, EarnedStays DEF GateShape, WorldShape, CmdShape
<1>b. ASSUME GpuShape', Foretold' PROVE RebootInv'
  BY <1>1, <1>a, <1>b, CountsStay
<1>4. CASE Journal!Hangs \/ Journal!Recovers
  <2>1. PICK says \in Events, hung \in BOOLEAN, began \in {gpu.began, Len(gpu.log) + 1} :
          /\ gpu' = [gpu EXCEPT !.hung = hung, !.began = began, !.log = Append(gpu.log, says)]
          /\ (hung = FALSE => says = "recover") /\ bus' = bus
    <3>1. CASE Journal!Hangs
      BY <1>2, <3>1 DEF Journal!Hangs
    <3>2. CASE Journal!Recovers
      <4>1. gpu' = [gpu EXCEPT !.hung = FALSE, !.log = Append(gpu.log, "recover")] /\ bus' = bus
        BY <3>2 DEF Journal!Recovers
      <4>2. gpu' = [gpu EXCEPT !.hung = FALSE, !.began = gpu.began, !.log = Append(gpu.log, "recover")]
        BY <1>0, <4>1 DEF GpuShape
      <4>. QED BY <1>2, <4>1, <4>2
    <3>. QED BY <1>4, <3>1, <3>2
  <2> DEFINE j == Append(gpu.log, says)
  <2>2. /\ j \in Seq(Events) /\ Len(j) = LineCount + 1 /\ j[LineCount + 1] = says
        /\ \A i \in 1..LineCount : j[i] = gpu.log[i]
    BY <1>2, Appended DEF LineCount
  <2>3. gpu' = [gpu EXCEPT !.hung = hung, !.began = began, !.log = j]
    BY <2>1
  <2> HIDE DEF j
  <2>4. GpuShape'
    BY <1>0, <1>1, <2>1, <2>2, <2>3 DEF GpuShape
  <2>5. /\ gpu'.log = j /\ gpu'.read = gpu.read /\ gpu'.told = gpu.told /\ gpu'.lost = gpu.lost
        /\ LineCount' = LineCount + 1 /\ (gpu'.hung = FALSE => says = "recover")
    BY <1>0, <2>1, <2>2, <2>3 DEF GpuShape, LineCount
  <2>6. Numbered'
    BY <1>1, <1>2, <1>3, <2>1, <2>2, <2>5 DEF Numbered
  <2>7. Whereabouts'
    BY <1>2, <1>3, <2>5 DEF Numbered, Whereabouts
  <2>8. world'.heard # LineCount'
    BY <1>1, <1>2, <1>3, <2>5 DEF Numbered
  <2>9. Foretold'
    BY <1>0, <1>1, <2>2, <2>5, <2>6, <2>7, <2>8 DEF Foretold
  <2>. QED BY <1>b, <2>4, <2>9
<1>c. ASSUME NEW told, NEW lost, NEW read \in Nat, NEW alive,
             gpu' = [gpu EXCEPT !.read = read, !.told = told, !.lost = lost, !.alive = alive],
             LineCount' = LineCount /\ gpu'.told = told /\ gpu'.read = read /\ gpu'.lost = lost
               => Numbered' /\ Whereabouts'
      PROVE  RebootInv'
  <2>1. GpuShape' /\ gpu'.log = gpu.log /\ gpu'.hung = gpu.hung
    BY <1>0, <1>1, <1>c DEF GpuShape
  <2>2. gpu'.told = told /\ gpu'.read = read /\ gpu'.lost = lost /\ LineCount' = LineCount
    BY <1>0, <1>c, <2>1 DEF GpuShape, LineCount
  <2>3. Foretold'
    BY <1>0, <1>1, <1>c, <2>1, <2>2 DEF Foretold
  <2>. QED BY <1>b, <2>1, <2>3
<1>5. CASE Journal!Scan
  <2> DEFINE n == gpu.read + 1
             t == gpu.told \cup {[no |-> n, says |-> gpu.log[n]]}
  <2>1. gpu' = [gpu EXCEPT !.read = n, !.told = t] /\ bus' = bus /\ gpu.read < LineCount
    BY <1>5 DEF Journal!Scan, Journal!Event, LineCount
  <2>2. /\ n \in 1..LineCount /\ n \in Nat /\ gpu.told \subseteq t
        /\ \E e \in t : e.no = n
        /\ \A e \in t : e \in gpu.told \/ (e.no = n /\ e.says = gpu.log[n])
    <3>1. n \in 1..LineCount /\ n \in Nat
      BY <1>2, <2>1
    <3> HIDE DEF n
    <3>2. [no |-> n, says |-> gpu.log[n]].no = n /\ [no |-> n, says |-> gpu.log[n]].says = gpu.log[n]
      OBVIOUS
    <3>. QED BY <3>1, <3>2
  <2> HIDE DEF n, t
  <2>3. gpu' = [gpu EXCEPT !.read = n, !.told = t, !.lost = gpu.lost, !.alive = gpu.alive]
    BY <1>0, <2>1 DEF GpuShape
  <2>4. ASSUME LineCount' = LineCount, gpu'.told = t, gpu'.read = n, gpu'.lost = gpu.lost, gpu'.log = gpu.log
        PROVE  Numbered' /\ Whereabouts'
    <3>1. Numbered'
      BY <1>1, <1>2, <1>3, <2>1, <2>2, <2>4 DEF Numbered
    <3>2. Whereabouts'
      BY <1>1, <1>2, <1>3, <2>1, <2>2, <2>4 DEF Numbered, Whereabouts
    <3>. QED BY <3>1, <3>2
  <2>5. gpu'.log = gpu.log
    BY <1>0, <2>3 DEF GpuShape
  <2>. QED BY <1>2, <1>c, <2>2, <2>3, <2>4, <2>5
<1>6. ASSUME NEW e \in gpu.told, Journal!Send(e) PROVE RebootInv'
  <2>1. PICK lost : /\ gpu' = [gpu EXCEPT !.told = gpu.told \ {e}, !.lost = lost]
                    /\ \/ lost = gpu.lost /\ bus' = bus \cup {e}
                       \/ lost = gpu.lost \cup {e.no} /\ bus' = bus
    <3>1. CASE bus' = bus \cup {e} /\ gpu' = [gpu EXCEPT !.told = gpu.told \ {e}]
      <4>1. gpu' = [gpu EXCEPT !.told = gpu.told \ {e}, !.lost = gpu.lost]
        BY <1>0, <3>1 DEF GpuShape
      <4>. QED BY <3>1, <4>1
    <3>. QED BY <1>6, <3>1 DEF Journal!Send
  <2>2. gpu' = [gpu EXCEPT !.read = gpu.read, !.told = gpu.told \ {e}, !.lost = lost, !.alive = gpu.alive]
    BY <1>0, <2>1 DEF GpuShape
  <2>3. gpu'.log = gpu.log
    BY <1>0, <2>2 DEF GpuShape
  <2>4. ASSUME LineCount' = LineCount, gpu'.told = gpu.told \ {e}, gpu'.read = gpu.read, gpu'.lost = lost
        PROVE  Numbered' /\ Whereabouts'
    <3>1. Numbered'
      BY <1>1, <1>3, <2>1, <2>3, <2>4 DEF Numbered
    <3>2. Whereabouts'
      BY <1>1, <1>3, <2>1, <2>4 DEF Whereabouts
    <3>. QED BY <3>1, <3>2
  <2>. QED BY <1>2, <1>c, <2>2, <2>4
<1>7. CASE Journal!Dies
  <2>1. gpu' = [gpu EXCEPT !.alive = FALSE] /\ bus' = bus
    BY <1>7 DEF Journal!Dies
  <2>2. gpu' = [gpu EXCEPT !.read = gpu.read, !.told = gpu.told, !.lost = gpu.lost, !.alive = FALSE]
    BY <1>0, <2>1 DEF GpuShape
  <2>3. gpu'.log = gpu.log
    BY <1>0, <2>2 DEF GpuShape
  <2>4. ASSUME LineCount' = LineCount, gpu'.told = gpu.told, gpu'.read = gpu.read, gpu'.lost = gpu.lost
        PROVE  Numbered' /\ Whereabouts'
    BY <1>1, <1>3, <2>1, <2>3, <2>4 DEF Numbered, Whereabouts
  <2>. QED BY <1>2, <1>c, <2>2, <2>4
<1>. QED BY <1>4, <1>5, <1>6, <1>7 DEF Journal!GpuNext, Journal!GpuWatcher

LEMMA ChainStep ==
  ASSUME "fallback" \notin Levels, RebootInv, [ChainNext]_chain_vars
  PROVE  RebootInv'
<1>1. CASE JournalStep
  BY <1>1, JournalKeeps DEF JournalStep
<1>2. CASE WatchdogStep
  BY <1>2, TickKeeps, MetricsKeeps, MetricsDiskKeeps, SignalKeeps, TimerKeeps, RebootingKeeps, AroundKeepsReboots
     DEF WatchdogStep, MachineNext, Handlers, Clock
<1>3. CASE UNCHANGED chain_vars
  <2>1. UNCHANGED <<ram, disk, timer, gate, cmd, world, gpu, bus>>
    BY <1>3 DEF chain_vars, machine_vars
  <2>2. GateShape' /\ WorldShape' /\ CmdShape' /\ Earned'
    BY <2>1, EarnedStays DEF RebootInv, Shapes, GateShape, WorldShape, CmdShape
  <2>. QED BY <2>1, <2>2, CountsStay, GpuStays
<1>. QED BY <1>1, <1>2, <1>3 DEF ChainNext

(* The watchdog reboots for memory only after a restart of the kiosk and   *)
(* the whole monitoring time since, for a disk only after a cleanup and its*)
(* cooldown, never during an update the gate knew of, and not for a GPU    *)
(* that has recovered (ram.go, disk.go, commands.go, gpu.go): for all      *)
(* budgets, updates and journals, if no restart is refused.                *)
THEOREM RebootsAreEarned ==
  ASSUME "fallback" \notin Levels
  PROVE  ChainSpec => []RebootsEarned
<1>1. ChainInit => RebootInv
  BY RebootInitInv
<1>2. RebootInv /\ [ChainNext]_chain_vars => RebootInv'
  BY ChainStep
<1>3. RebootInv => RebootsEarned
  <2>1. RebootInv => RecoveredIsSpared
    <3> SUFFICES ASSUME RebootInv, Journal!Quiet, ~gpu.hung, LineCount \notin gpu.lost,
                        world.heard = world.newest
                 PROVE  timer.st # "armed"
      BY DEF RecoveredIsSpared, LineCount
    <3>1. Foretold /\ Numbered /\ Whereabouts /\ gpu.hung = FALSE /\ LineCount \in Nat
      BY DEF RebootInv, Shapes, GpuShape, Foretold, LineCount
    <3>2. ~(gpu.read < LineCount) /\ gpu.told \cup bus = {}
      BY <3>1 DEF Journal!Quiet, LineCount
    <3>3. LineCount = 0 \/ world.newest = LineCount
      BY <3>1, <3>2 DEF Whereabouts
    <3>4. world.heard = LineCount
      BY <3>1, <3>3 DEF Numbered
    <3>. QED BY <3>1, <3>4 DEF Foretold
  <2>. QED BY <2>1 DEF RebootInv, Earned, RebootsEarned
<1>. QED BY <1>1, <1>2, <1>3, PTL DEF ChainSpec
===============================================================================
