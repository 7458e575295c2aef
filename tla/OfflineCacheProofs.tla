------------------------- MODULE OfflineCacheProofs -------------------------
(***************************************************************************)
(* For any sources, playlists, downloads, clears, budget and queue, and    *)
(* with Stop, restarts, heat and the playback cache or without:            *)
(*                                                                         *)
(*  - a clear that succeeded is not undone (ClearedStaysClearedHolds).     *)
(*    Once a source is owed a clear nothing still under way may revive it: *)
(*    every download and every probe of the worker that has passed its     *)
(*    sampling carries an epoch other than the source's (Unrevived);       *)
(*  - what a download leaves behind agrees (CacheAgreesHolds).  A promised *)
(*    source is served by a job or by the worker; one an observer believes *)
(*    live is served or a clear will speak of it; and a download that has  *)
(*    not yet told of its job is waited for by whoever holds the job       *)
(*    (Promises).                                                          *)
(*                                                                         *)
(* The parts of the invariant come first, then for each part one lemma for *)
(* the downloads, one for the clears, one for the worker and one for the   *)
(* rest, then the theorems.                                                *)
(***************************************************************************)
EXTENDS OfflineCache, FiniteSetTheorems, TLAPS

(* The types.                                                              *)

Recs == {"none", "snapshot", "auto", "expired"}
States == {"none", "queued", "downloading", "ready", "failed"}
Tellings == {"none", "queued", "downloading", "ready", "failed", "not_cached"}
Bys == Down \cup {"worker"}
Jobs == [src : Sources, by : Bys, auto : BOOLEAN, prev : States, ahead : SUBSET Sources]
WorkJobs ==
  [src : Sources \cup {"none"}, by : Bys \cup {"none"}, auto : BOOLEAN, prev : States, ahead : SUBSET Sources]
WorkerPcs ==
  {"idle", "gone", "prepare", "push", "announce", "reclaim", "capture", "publish", "report", "enforce"}
Workers ==
  [pc : WorkerPcs, job : WorkJobs,
   ep : Nat, asAuto : BOOLEAN, made : {"none", "auto", "snapshot", "failed"}]
Downloads ==
  [pc : {"idle", "probe", "enqueue", "tell"}, pl : BOOLEAN, plE : Nat, bad : BOOLEAN, body : SUBSET Sources,
   todo : SUBSET Sources, asked : SUBSET Sources, left : SUBSET Sources, ep : [Sources -> Nat]]
Clears ==
  [pc : {"idle", "reserve", "delete", "gc"}, keys : SUBSET Sources, pl : BOOLEAN, settled : SUBSET Sources,
   wait : SUBSET Bys, tell : SUBSET Sources, gone : BOOLEAN]

Types ==
  /\ rec \in [Sources -> Recs] /\ blobs \subseteq Sources /\ plrec \subseteq Sources
  /\ state \in [Sources -> States] /\ queue \subseteq Jobs
  /\ worker \in Workers /\ dl \in [Down -> Downloads] /\ clr \in [Clr -> Clears]
  /\ epoch \in [Sources -> Nat] /\ plEpoch \in Nat /\ clearSeq \in Nat
  /\ started \in BOOLEAN /\ captureMu \in BOOLEAN
  /\ intent \in {"none", "auto", "manual"}
  /\ playing \subseteq Sources /\ barrier \in Nat
  /\ told \in [Sources -> Tellings]
  /\ owed \in [Sources -> {"no", "clearing", "yes"}] /\ plOwed \in BOOLEAN /\ promised \subseteq Sources

Working3 == {"announce", "reclaim", "capture"}
Reporting == {"publish", "report"}
Prefetching == {"prepare", "push"}

(* One job per source, no more than the queue holds, and the state says it. *)
Lined ==
  /\ IsFiniteSet(queue) /\ Cardinality(queue) <= MaxQueue
  /\ \A s \in Sources : state[s] = "queued" <=> Queued(s)
  /\ \A i, j \in queue : i.src = j.src => i = j

(* What the worker's stage says of the state of its job.                   *)
AtStage ==
  /\ worker.pc \notin {"idle", "gone"} => Job_.src \in Sources
  /\ worker.pc \in Working3 => state[Job_.src] = "downloading" /\ worker.made = "none"
  /\ worker.pc = "publish" /\ ~Job_.auto => state[Job_.src] = "downloading" /\ worker.made # "auto"
  /\ worker.pc \in Reporting => worker.made # "none"
  /\ worker.pc = "gone" => ~started /\ queue = {}

(* Only what the worker holds is downloading.                              *)
InCapture ==
  \A s \in Sources : state[s] = "downloading" =>
    Job_.src = s /\ (worker.pc \in Working3 \/ (worker.pc = "publish" /\ ~Job_.auto))

(* A record has its bytes, and so does a capture under captureMu.          *)
Bytes ==
  /\ BlobsOfRecords
  /\ worker.pc = "capture" => captureMu /\ Job_.src \in blobs

(* A source that is owed a clear was cleared while the list that has it    *)
(* was on screen.                                                          *)
Sessions ==
  /\ barrier <= clearSeq
  /\ \A s \in playing : owed[s] # "no" => ClearedSinceBarrier(s)

(* No epoch is ahead of the sequence of clears.                            *)
Epochs ==
  /\ plEpoch <= clearSeq /\ worker.ep <= clearSeq
  /\ \A s \in Sources : epoch[s] <= clearSeq
  /\ \A d \in Down : dl[d].plE <= clearSeq /\ \A s \in Sources : dl[d].ep[s] <= clearSeq

(* Where the sources of a download and of a clear may be.                  *)
DownStage(d) ==
  /\ dl[d].todo \cap dl[d].asked = {} /\ dl[d].todo \cap dl[d].left = {} /\ dl[d].asked \cap dl[d].left = {}
  /\ dl[d].pc # "probe" => dl[d].asked = {}
  /\ dl[d].pc = "enqueue" => dl[d].todo = {}

TellsOf(c) == clr[c].tell \cup (clr[c].keys \cap clr[c].settled)
ClrStage(c) ==
  /\ clr[c].pc # "delete" => TellsOf(c) = {}
  /\ \A s, t \in clr[c].tell : s = t

DownStages == \A d \in Down : DownStage(d)
ClrStages == \A c \in Clr : ClrStage(c)
Stages == DownStages /\ ClrStages

(* Nothing under way brings a cleared source back.                         *)
Unrevived(s) ==
  /\ state[s] \notin Live
  /\ owed[s] = "yes" => rec[s] = "none"
  /\ worker.pc \in Prefetching /\ Job_.src = s => worker.ep # epoch[s]
  /\ \A d \in Down : s \in dl[d].asked \cup dl[d].left => dl[d].ep[s] # epoch[s]
ItemsCleared == \A s \in Sources : owed[s] # "no" => Unrevived(s)
PlaylistCleared ==
  plOwed =>
    /\ plrec = {}
    /\ \A d \in Down : dl[d].pc = "probe" /\ dl[d].pl => dl[d].plE # plEpoch
Cleared == ItemsCleared /\ PlaylistCleared

(* There is one speculative job and automaticKey names it.                 *)
Autos ==
  /\ \A j \in queue : j.auto => intent # "none" /\ autoKey = j.src
  /\ worker.pc \in Working3 /\ Job_.auto => intent # "none" /\ autoKey = Job_.src
  /\ worker.pc \in Prefetching => \A j \in queue : ~j.auto

(* Who will report on a source as a download.                              *)
ByJob(s) == \E j \in queue : j.src = s /\ (j.auto => intent = "manual")
ByWorker(s) ==
  /\ worker.pc \in Working3 \cup Reporting /\ Job_.src = s
  /\ IF worker.pc \in Working3 THEN Job_.auto => intent = "manual" ELSE worker.made # "auto"
Served(s) == ByJob(s) \/ ByWorker(s)

(* Whoever waits for the "queued" notification of a download.              *)
Pending(d, s) ==
  \/ \E j \in queue : j.src = s /\ j.by = d /\ ~j.auto
  \/ worker.pc = "announce" /\ Job_.src = s /\ Job_.by = d /\ ~Job_.auto
  \/ \E c \in Clr : d \in clr[c].wait /\ s \in TellsOf(c)

(* The same as sets, and the promises made to clients.                     *)
Serving == {s \in Sources : Served(s)}
ToldSoon == {s \in Sources : \E c \in Clr : s \in TellsOf(c)}
Barriers == {x \in Down \X Sources : Pending(x[1], x[2])}

Promises ==
  started =>
    /\ promised \subseteq Serving
    /\ \A s \in Sources : told[s] \in Live => s \in Serving \cup ToldSoon
    /\ \A d \in Down : dl[d].pc = "tell" => \E s \in Sources : dl[d].todo = {s} /\ <<d, s>> \in Barriers

IInv == Types /\ Lined /\ AtStage /\ InCapture /\ Bytes /\ Epochs /\ Stages /\ Sessions /\ Cleared /\ Autos /\ Promises

-----------------------------------------------------------------------------
LEMMA Shapes ==
  /\ NoJob \in WorkJobs
  /\ Idle \in Workers /\ NoDownload \in Downloads /\ NoClear \in Clears
<1>1. NoJob \in WorkJobs
  BY DEF NoJob, WorkJobs, States
<1>2. Idle \in Workers
  BY <1>1 DEF Idle, Workers, WorkerPcs
<1>3. NoDownload \in Downloads
  BY DEF NoDownload, Downloads
<1>4. NoClear \in Clears
  BY DEF NoClear, AClear, Clears
<1>. QED BY <1>1, <1>2, <1>3, <1>4

LEMMA ClearShape ==
  ASSUME NEW keys \in SUBSET Sources, NEW pl \in BOOLEAN, NEW pc \in {"idle", "reserve", "delete", "gc"}
  PROVE  AClear(keys, pl, pc) \in Clears
BY DEF AClear, Clears

(* Taking sources out of the queue leaves the other jobs, shorter only of  *)
(* what was ahead of them.                                                 *)
LEMMA WithoutIs ==
  ASSUME queue \subseteq Jobs, NEW keys \in SUBSET Sources
  PROVE  /\ Without(keys) \subseteq Jobs
         /\ \A k \in Without(keys) : \E j \in queue :
              j.src \notin keys /\ k.src = j.src /\ k.by = j.by /\ k.auto = j.auto
         /\ \A j \in queue : j.src \notin keys => \E k \in Without(keys) :
              k.src = j.src /\ k.by = j.by /\ k.auto = j.auto
         /\ (\A i, j \in queue : i.src = j.src => i = j) =>
              \A i, j \in Without(keys) : i.src = j.src => i = j
         /\ IsFiniteSet(queue) =>
              IsFiniteSet(Without(keys)) /\ Cardinality(Without(keys)) <= Cardinality(queue)
<1>. DEFINE short(j) == [j EXCEPT !.ahead = @ \ keys]
            kept == {k \in queue : k.src \notin keys}
            f == [j \in kept |-> short(j)]
<1>1. ASSUME NEW j \in Jobs
      PROVE  short(j) \in Jobs /\ short(j).src = j.src /\ short(j).by = j.by /\ short(j).auto = j.auto
  BY <1>1 DEF Jobs
<1>2. Without(keys) = {short(j) : j \in kept}
  BY DEF Without
<1>. HIDE DEF short
<1>3. Without(keys) \subseteq Jobs
  BY <1>1, <1>2
<1>4. \A k \in Without(keys) : \E j \in kept : k = short(j) /\ k.src = j.src /\ k.by = j.by /\ k.auto = j.auto
  BY <1>1, <1>2
<1>5. \A j \in kept : short(j) \in Without(keys) /\ short(j).src = j.src /\ short(j).by = j.by /\ short(j).auto = j.auto
  BY <1>1, <1>2
<1>6. ASSUME IsFiniteSet(queue)
      PROVE  IsFiniteSet(Without(keys)) /\ Cardinality(Without(keys)) <= Cardinality(queue)
  <2>1. IsFiniteSet(kept) /\ Cardinality(kept) <= Cardinality(queue)
    BY <1>6, FS_Subset
  <2>2. f \in Surjection(kept, Without(keys))
    BY <1>2 DEF Surjection
  <2>3. IsFiniteSet(Without(keys)) /\ Cardinality(Without(keys)) <= Cardinality(kept)
    BY <2>1, <2>2, FS_Surjection
  <2>. QED BY <2>1, <2>3, <1>6, FS_CardinalityType
<1>7. ASSUME \A i, j \in queue : i.src = j.src => i = j
      PROVE  \A i, j \in Without(keys) : i.src = j.src => i = j
  BY <1>7, <1>4
<1>. QED BY <1>3, <1>4, <1>5, <1>6, <1>7

LEMMA JobShape ==
  ASSUME Types, NEW s \in Sources, NEW by \in Bys, NEW auto \in BOOLEAN
  PROVE  Job(s, by, auto) \in Jobs
<1>1. {j.src : j \in queue} \subseteq Sources
  BY DEF Types, Jobs
<1>. QED BY <1>1 DEF Types, Job, Jobs

LEMMA TypesInit == Init => Types
<1>. SUFFICES ASSUME Init PROVE Types
  OBVIOUS
<1>1. rec \in [Sources -> Recs] /\ blobs \subseteq Sources /\ plrec \subseteq Sources
  BY DEF Init, Recs
<1>2. state \in [Sources -> States] /\ queue \subseteq Jobs
  BY DEF Init, States
<1>3. worker \in Workers /\ dl \in [Down -> Downloads] /\ clr \in [Clr -> Clears]
  BY Shapes DEF Init
<1>4. epoch \in [Sources -> Nat] /\ plEpoch \in Nat /\ clearSeq \in Nat
  BY DEF Init
<1>5. told \in [Sources -> Tellings] /\ owed \in [Sources -> {"no", "clearing", "yes"}]
  BY DEF Init, Tellings
<1>6. /\ started \in BOOLEAN /\ captureMu \in BOOLEAN /\ intent \in {"none", "auto", "manual"}
      /\ plOwed \in BOOLEAN /\ promised \subseteq Sources /\ playing \subseteq Sources /\ barrier \in Nat
  BY DEF Init
<1>. QED BY <1>1, <1>2, <1>3, <1>4, <1>5, <1>6 DEF Types

LEMMA TypesDownload ==
  ASSUME Types, NEW d \in Down, Download(d) PROVE Types'
<1>1. dl[d] \in Downloads
  BY DEF Types
<1>2. ASSUME NEW x \in Downloads, dl' = [dl EXCEPT ![d] = x] PROVE dl' \in [Down -> Downloads]
  BY <1>2 DEF Types
<1>3. CASE Begin(d)
  <2>1. \A pl \in BOOLEAN : \A body \in (IF pl THEN Bodies ELSE {{s} : s \in Items}) : body \in SUBSET Sources
    BY CacheAssumption
  <2>2. PICK pl \in BOOLEAN, body \in SUBSET Sources : dl' = [dl EXCEPT ![d] =
           [pc |-> "probe", pl |-> pl, plE |-> plEpoch, body |-> body,
            todo |-> body, asked |-> {}, left |-> {}, bad |-> FALSE, ep |-> [s \in Sources |-> 0]]]
    BY <1>3, <2>1 DEF Begin
  <2>3. dl' \in [Down -> Downloads]
    BY <2>2, <1>2 DEF Downloads, Types
  <2>. QED BY <2>3, <1>3 DEF Begin, Types, disk, mem, env
<1>4. ASSUME NEW s \in Sources, Sample(d, s) PROVE Types'
  <2>1. dl' = [dl EXCEPT ![d] = [dl[d] EXCEPT !.todo = @ \ {s}, !.asked = @ \cup {s}, !.ep[s] = epoch[s]]]
    BY <1>4 DEF Sample, Types
  <2>2. dl' \in [Down -> Downloads]
    BY <2>1, <1>1, <1>2 DEF Downloads, Types
  <2>. QED BY <2>2, <1>4 DEF Sample, Types, disk, mem, env
<1>5. ASSUME NEW s \in Sources, NEW ok \in Answers, Classified(d, s, ok) PROVE Types'
  <2>1. dl' = [dl EXCEPT ![d] = [dl[d] EXCEPT !.asked = @ \ {s}, !.left = IF ok = "eligible" THEN @ \cup {s} ELSE @,
           !.bad = IF ok = "failed" THEN TRUE ELSE @, !.ep[s] = IF ok = "eligible" THEN @ ELSE 0]]
    BY <1>5 DEF Classified, Types
  <2>2. CASE ok = "eligible"
    <3>1. dl' \in [Down -> Downloads]
      BY <2>1, <2>2, <1>1, <1>2 DEF Downloads, Types
    <3>. QED BY <3>1, <1>5 DEF Classified, Types, disk, mem, env
  <2>3. CASE ok = "failed"
    <3>1. dl' \in [Down -> Downloads]
      BY <2>1, <2>3, <1>1, <1>2 DEF Downloads, Types
    <3>. QED BY <3>1, <1>5 DEF Classified, Types, disk, mem, env
  <2>4. CASE ok \notin {"eligible", "failed"}
    <3>1. dl' \in [Down -> Downloads]
      BY <2>1, <2>4, <1>1, <1>2 DEF Downloads, Types
    <3>. QED BY <3>1, <1>5 DEF Classified, Types, disk, mem, env
  <2>. QED BY <2>2, <2>3, <2>4
<1>6. CASE SavePlaylist(d)
  <2>1. [dl[d] EXCEPT !.pc = "enqueue", !.bad = FALSE] \in Downloads /\ dl[d].body \in SUBSET Sources
    BY <1>1 DEF Downloads
  <2>2. dl' = [dl EXCEPT ![d] = [dl[d] EXCEPT !.pc = "enqueue", !.bad = FALSE]] \/ dl' = [dl EXCEPT ![d] = NoDownload]
    BY <1>6 DEF SavePlaylist
  <2>3. dl' \in [Down -> Downloads]
    BY <2>1, <2>2, <1>2, Shapes
  <2>4. plrec' \subseteq Sources
    BY <1>6, <2>1 DEF SavePlaylist, Types
  <2>. QED BY <2>3, <2>4, <1>6 DEF SavePlaylist, Types, mem, env
<1>7. ASSUME NEW s \in Sources, Enqueue(d, s) PROVE Types'
  <2>1. dl' = [dl EXCEPT ![d] = [dl[d] EXCEPT !.left = @ \ {s}, !.ep[s] = 0, !.pc = "tell", !.todo = {s}]]
    BY <1>7 DEF Enqueue, Types
  <2>2. dl' \in [Down -> Downloads]
    BY <2>1, <1>1, <1>2 DEF Downloads
  <2>3. queue' \subseteq Jobs
    BY <1>7, JobShape DEF Enqueue, Push, Types, Bys
  <2>4. state' \in [Sources -> States] /\ promised' \subseteq Sources
    BY <1>7 DEF Enqueue, Push, Types, States
  <2>. QED BY <2>2, <2>3, <2>4, <1>7 DEF Enqueue, Types, disk, env
<1>8. ASSUME NEW s \in Sources, Join(d, s) PROVE Types'
  <2>1. dl' = [dl EXCEPT ![d] = [dl[d] EXCEPT !.left = @ \ {s}, !.ep[s] = 0]]
    BY <1>8 DEF Join, Types
  <2>2. dl' \in [Down -> Downloads]
    BY <2>1, <1>1, <1>2 DEF Downloads
  <2>. QED BY <2>2, <1>8 DEF Join, Types, disk, env
<1>9. ASSUME NEW s \in Sources, Refused(d, s) PROVE Types'
  <2>1. PICK l \in SUBSET Sources : dl' = [dl EXCEPT ![d] = [dl[d] EXCEPT !.left = l]]
    BY <1>9, <1>1 DEF Refused, Downloads
  <2>2. dl' \in [Down -> Downloads]
    BY <2>1, <1>1, <1>2 DEF Downloads
  <2>. QED BY <2>2, <1>9 DEF Refused, Types, disk, mem, env
<1>10. CASE TellQueued(d)
  <2>1. dl' = [dl EXCEPT ![d] = [dl[d] EXCEPT !.pc = "enqueue", !.todo = {}]]
    BY <1>10 DEF TellQueued, Types
  <2>2. dl' \in [Down -> Downloads]
    BY <2>1, <1>1, <1>2 DEF Downloads
  <2>3. \A c \in Clr : [clr[c] EXCEPT !.wait = @ \ {d}] \in Clears
    BY DEF Types, Clears
  <2>4. clr' \in [Clr -> Clears]
    BY <1>10, <2>3 DEF TellQueued
  <2>5. told' \in [Sources -> Tellings]
    BY <1>10, <1>1 DEF TellQueued, Types, Downloads, Tellings
  <2>. QED BY <2>2, <2>4, <2>5, <1>10 DEF TellQueued, Types, disk, mem, env
<1>11. CASE Done(d)
  <2>1. dl' \in [Down -> Downloads]
    BY <1>11, <1>2, Shapes DEF Done
  <2>. QED BY <2>1, <1>11 DEF Done, Types, disk, mem, env
<1>. QED BY <1>3, <1>4, <1>5, <1>6, <1>7, <1>8, <1>9, <1>10, <1>11 DEF Download

LEMMA TypesClear ==
  ASSUME Types, NEW c \in Clr, Clear(c) PROVE Types'
<1>1. clr[c] \in Clears
  BY DEF Types
<1>2. ASSUME NEW x \in Clears, clr' = [clr EXCEPT ![c] = x] PROVE clr' \in [Clr -> Clears]
  BY <1>2 DEF Types
<1>3. CASE ClearPlaylist(c)
  <2>1. plrec \in SUBSET Sources
    BY DEF Types
  <2>2. clr' = [clr EXCEPT ![c] = NoClear] \/ clr' = [clr EXCEPT ![c] = AClear(plrec, TRUE, "reserve")]
    BY <1>3 DEF ClearPlaylist
  <2>3. clr' \in [Clr -> Clears]
    BY <2>1, <2>2, <1>2, Shapes, ClearShape
  <2>4. clearSeq' \in Nat /\ plEpoch' \in Nat
    BY <1>3 DEF ClearPlaylist, Types
  <2>. QED BY <2>3, <2>4, <1>3 DEF ClearPlaylist, Types, disk, env
<1>4. ASSUME NEW keys \in SUBSET Sources, NEW pl \in BOOLEAN, Reserve(c, keys, pl),
             UNCHANGED <<disk, worker, dl, captureMu, env, told, plOwed>>
      PROVE  Types'
  <2>1. CASE Busy(keys)
    <3>1. clr' \in [Clr -> Clears]
      BY <2>1, <1>4, <1>2, Shapes DEF Reserve
    <3>. QED BY <3>1, <2>1, <1>4 DEF Reserve, Types, disk, mem, env
  <2>2. CASE ~Busy(keys)
    <3>1. {j.by : j \in {k \in Dropped(keys) : ~BarrierClosed(k)}} \subseteq Bys
      BY DEF Dropped, Types, Jobs
    <3>2. Untold(keys) \in SUBSET Bys
      BY <3>1 DEF Untold
    <3>. DEFINE x == [AClear(keys, pl, "delete") EXCEPT !.wait = Untold(keys), !.settled = {s \in keys : state[s] # "none"}]
    <3>3. x \in Clears
      BY <3>2 DEF AClear, Clears
    <3>4. clr' = [clr EXCEPT ![c] = x]
      BY <2>2, <1>4 DEF Reserve
    <3>. HIDE DEF x
    <3>5. clr' \in [Clr -> Clears]
      BY <3>3, <3>4, <1>2
    <3>6. queue' \subseteq Jobs
      BY <2>2, <1>4, WithoutIs DEF Reserve, Types
    <3>7. epoch' \in [Sources -> Nat] /\ clearSeq' \in Nat
      BY <2>2, <1>4 DEF Reserve, Types
    <3>8. state' \in [Sources -> States] /\ owed' \in [Sources -> {"no", "clearing", "yes"}] /\ promised' \subseteq Sources
      BY <2>2, <1>4 DEF Reserve, Types, States
    <3>. QED BY <3>5, <3>6, <3>7, <3>8, <2>2, <1>4 DEF Reserve, Types, disk, env
  <2>. QED BY <2>1, <2>2
<1>5. ASSUME NEW s \in Sources, ClearItem(c, s) PROVE Types'
  BY <1>4, <1>5 DEF ClearItem
<1>6. CASE ClearMembers(c)
  BY <1>4, <1>6, <1>1 DEF ClearMembers, Clears
<1>7. ASSUME NEW s \in Sources, Delete(c, s) PROVE Types'
  <2>. DEFINE x == [clr[c] EXCEPT !.keys = @ \ {s}, !.gone = @ \/ rec[s] # "none",
                        !.tell = IF rec[s] # "none" \/ s \in clr[c].settled THEN {s} ELSE {}]
  <2>1. x \in Clears
    BY <1>1 DEF Clears
  <2>2. clr' = [clr EXCEPT ![c] = x]
    BY <1>7 DEF Delete, Types
  <2>. HIDE DEF x
  <2>3. clr' \in [Clr -> Clears]
    BY <2>1, <2>2, <1>2
  <2>4. rec' \in [Sources -> Recs] /\ owed' \in [Sources -> {"no", "clearing", "yes"}]
    BY <1>7 DEF Delete, Types, Recs
  <2>. QED BY <2>3, <2>4, <1>7 DEF Delete, Types, mem, env
<1>8. CASE TellCleared(c)
  <2>1. clr' = [clr EXCEPT ![c] = [clr[c] EXCEPT !.tell = {}]] /\ [clr[c] EXCEPT !.tell = {}] \in Clears
    BY <1>8, <1>1 DEF TellCleared, Types, Clears
  <2>2. clr' \in [Clr -> Clears]
    BY <2>1, <1>2
  <2>3. told' \in [Sources -> Tellings]
    BY <1>8, <1>1 DEF TellCleared, Types, Clears, Tellings
  <2>. QED BY <2>2, <2>3, <1>8 DEF TellCleared, Types, disk, mem, env
<1>9. CASE Close(c)
  <2>1. [clr[c] EXCEPT !.pc = "gc"] \in Clears
    BY <1>1 DEF Clears
  <2>2. clr' = [clr EXCEPT ![c] = [clr[c] EXCEPT !.pc = "gc"]] \/ clr' = [clr EXCEPT ![c] = NoClear]
    BY <1>9 DEF Close, Types
  <2>3. clr' \in [Clr -> Clears]
    BY <2>1, <2>2, <1>2, Shapes
  <2>4. clearSeq' \in Nat /\ plEpoch' \in Nat /\ plrec' \subseteq Sources /\ plOwed' \in BOOLEAN
    <3>1. CASE clr[c].pl
      BY <3>1, <1>9 DEF Close, Types
    <3>2. CASE ~clr[c].pl
      BY <3>2, <1>9 DEF Close, Types
    <3>. QED BY <3>1, <3>2
  <2>5. /\ rec' = rec /\ blobs' = blobs /\ state' = state /\ queue' = queue /\ epoch' = epoch
        /\ started' = started /\ intent' = intent /\ worker' = worker /\ dl' = dl /\ captureMu' = captureMu
        /\ told' = told /\ owed' = owed /\ promised' = promised /\ playing' = playing /\ barrier' = barrier
    BY <1>9 DEF Close, env
  <2>. QED BY <2>3, <2>4, <2>5 DEF Types
<1>10. CASE GC(c)
  <2>1. clr' \in [Clr -> Clears]
    BY <1>10, <1>2, Shapes DEF GC
  <2>. QED BY <2>1, <1>10 DEF GC, Referenced, Types, mem, env
<1>. QED BY <1>3, <1>5, <1>6, <1>7, <1>8, <1>9, <1>10 DEF Clear


LEMMA TypesEvict ==
  ASSUME Types, NEW s \in Sources, Evict(s)
  PROVE  /\ rec' \in [Sources -> Recs] /\ blobs' \subseteq Sources /\ plrec' \subseteq Sources
         /\ state' \in [Sources -> States] /\ told' \in [Sources -> Tellings]
         /\ queue' = queue /\ epoch' = epoch /\ plEpoch' = plEpoch /\ clearSeq' = clearSeq
         /\ started' = started /\ intent' = intent /\ autoKey' = autoKey
<1>1. rec' \in [Sources -> Recs] /\ blobs' \subseteq Sources /\ plrec' \subseteq Sources
  BY DEF Evict, Types, Recs
<1>2. state' \in [Sources -> States] /\ told' \in [Sources -> Tellings]
  BY DEF Evict, Types, States, Tellings
<1>3. /\ queue' = queue /\ epoch' = epoch /\ plEpoch' = plEpoch /\ clearSeq' = clearSeq
      /\ started' = started /\ intent' = intent /\ autoKey' = autoKey
  BY DEF Evict
<1>. QED BY <1>1, <1>2, <1>3

LEMMA TypesWork ==
  ASSUME Types, AtStage, Work PROVE Types'
<1>1. /\ worker \in Workers /\ worker.job \in WorkJobs /\ worker.pc \in WorkerPcs
      /\ worker.job.auto \in BOOLEAN /\ worker.job.prev \in States /\ worker.made \in {"none", "auto", "snapshot", "failed"}
  BY DEF Types, Workers, WorkJobs
<1>2. /\ \A pc \in WorkerPcs : \A job \in WorkJobs : \A ep \in Nat :
           /\ [Idle EXCEPT !.pc = pc, !.job = job, !.ep = ep] \in Workers
           /\ [Idle EXCEPT !.pc = pc, !.job = job] \in Workers
      /\ \A pc \in WorkerPcs : [Idle EXCEPT !.pc = pc] \in Workers /\ [worker EXCEPT !.pc = pc] \in Workers
      /\ \A pc \in WorkerPcs : \A asAuto \in BOOLEAN : [worker EXCEPT !.pc = pc, !.asAuto = asAuto] \in Workers
      /\ \A pc \in WorkerPcs : \A made \in {"none", "auto", "snapshot", "failed"} :
           [worker EXCEPT !.pc = pc, !.made = made] \in Workers
  BY <1>1, Shapes DEF Workers
<1>3. ASSUME NEW j \in Jobs PROVE [j EXCEPT !.ahead = {}] \in WorkJobs /\ Restored(j) \in States
  BY DEF Jobs, WorkJobs, Restored, States
<1>4. Restored(Job_) \in States /\ Speculative \in BOOLEAN
  BY <1>1 DEF Restored, States, Speculative
<1>5. CASE Dequeue
  <2>1. PICK j \in queue :
          /\ worker' = [Idle EXCEPT !.pc = "announce", !.job = [j EXCEPT !.ahead = {}]]
          /\ state' = [state EXCEPT ![j.src] = "downloading"] /\ queue' = Without({j.src})
    BY <1>5 DEF Dequeue
  <2>2. j \in Jobs /\ j.src \in Sources
    BY DEF Types, Jobs
  <2>3. worker' \in Workers
    BY <2>1, <2>2, <1>2, <1>3 DEF WorkerPcs
  <2>4. queue' \subseteq Jobs
    BY <2>1, <2>2, WithoutIs DEF Types
  <2>5. state' \in [Sources -> States]
    BY <2>1 DEF Types, States
  <2>. QED BY <2>3, <2>4, <2>5, <1>5 DEF Dequeue, Types, disk, env
<1>6. CASE Drain
  <2>1. CASE queue = {} /\ worker' = [Idle EXCEPT !.pc = "gone"] /\ UNCHANGED <<queue, state, intent>>
    <3>1. worker' \in Workers
      BY <2>1, <1>2 DEF WorkerPcs
    <3>. QED BY <3>1, <2>1, <1>6 DEF Drain, Types, disk, env
  <2>2. CASE ~(queue = {} /\ worker' = [Idle EXCEPT !.pc = "gone"] /\ UNCHANGED <<queue, state, intent>>)
    <3>1. PICK j \in queue : LET silent == j.auto /\ intent = "auto" IN
          /\ j.ahead = {} /\ queue' = Without({j.src}) /\ UNCHANGED worker
          /\ state' = [state EXCEPT ![j.src] = IF silent THEN Restored(j) ELSE "failed"]
          /\ intent' = IF silent THEN "none" ELSE intent
      BY <1>6, <2>2 DEF Drain
    <3>2. j \in Jobs /\ j.src \in Sources
      BY DEF Types, Jobs
    <3>3. queue' \subseteq Jobs
      BY <3>1, <3>2, WithoutIs DEF Types
    <3>4. state' \in [Sources -> States] /\ intent' \in {"none", "auto", "manual"}
      BY <3>1, <3>2, <1>3 DEF Types, States
    <3>. QED BY <3>1, <3>3, <3>4, <1>6 DEF Drain, Types, disk, env
  <2>. QED BY <2>1, <2>2
<1>7. CASE Announce
  <2>1. worker' \in Workers
    BY <1>7, <1>2 DEF Announce, WorkerPcs
  <2>2. told' \in [Sources -> Tellings]
    BY <1>7 DEF Announce, Types, Tellings
  <2>. QED BY <2>1, <2>2, <1>7 DEF Announce, Types, disk, mem, env
<1>8. CASE Reclaim
  <2>. DEFINE v == Victims({Job_.src}, Speculative)
  <2>1. CASE Usage < Room \/ v = {}
    <3>1. worker' = [worker EXCEPT !.pc = "capture", !.asAuto = Speculative] /\ captureMu' = TRUE /\ blobs' = blobs \cup {Job_.src}
          /\ UNCHANGED <<rec, plrec, mem, told>>
      BY <1>8, <2>1 DEF Reclaim
    <3>2. worker' \in Workers /\ blobs' \subseteq Sources
      BY <3>1, <1>2, <1>4, <1>8 DEF Reclaim, WorkerPcs, Types, AtStage
    <3>. QED BY <3>1, <3>2, <1>8 DEF Reclaim, Types, mem, env
  <2>2. CASE ~(Usage < Room \/ v = {})
    <3>1. PICK s \in v : Evict(s) /\ UNCHANGED <<worker, captureMu>>
      BY <1>8, <2>2 DEF Reclaim
    <3>2. s \in Sources
      BY DEF Victims, Expired
    <3>. QED BY <3>1, <3>2, TypesEvict, <1>8 DEF Reclaim, Types, env
  <2>. QED BY <2>1, <2>2
<1>9. CASE Retry
  <2>1. worker' \in Workers
    BY <1>9, <1>2 DEF Retry, WorkerPcs
  <2>. QED BY <2>1, <1>9 DEF Retry, Types, disk, mem, env
<1>10. CASE Captured
  <2>1. worker' \in Workers
    BY <1>10, <1>2 DEF Captured, WorkerPcs, Kept
  <2>2. rec' \in [Sources -> Recs] /\ state' \in [Sources -> States] /\ intent' \in {"none", "auto", "manual"}
    BY <1>10 DEF Captured, Kept, Types, Recs, States
  <2>. QED BY <2>1, <2>2, <1>10 DEF Captured, Types, env
<1>11. CASE CaptureFails
  <2>1. worker' \in Workers
    BY <1>11, <1>2, Shapes DEF CaptureFails, WorkerPcs
  <2>2. state' \in [Sources -> States] /\ intent' \in {"none", "auto", "manual"}
    BY <1>11, <1>4 DEF CaptureFails, Types, States
  <2>3. rec' \in [Sources -> Recs]
    BY <1>11 DEF CaptureFails, Types, Recs
  <2>. QED BY <2>1, <2>2, <2>3, <1>11 DEF CaptureFails, Types, env
<1>12. CASE Publish
  <2>1. worker' \in Workers
    BY <1>12, <1>2 DEF Publish, WorkerPcs
  <2>2. state' \in [Sources -> States]
    BY <1>12 DEF Publish, Outcome, Types, States
  <2>. QED BY <2>1, <2>2, <1>12 DEF Publish, Types, disk, env
<1>13. CASE Report
  <2>1. worker' \in Workers
    BY <1>13, <1>2, Shapes DEF Report, WorkerPcs
  <2>2. told' \in [Sources -> Tellings] /\ promised' \subseteq Sources
    BY <1>13 DEF Report, Outcome, Types, Tellings
  <2>. QED BY <2>1, <2>2, <1>13 DEF Report, Types, disk, mem, env
<1>14. CASE Enforce
  <2>. DEFINE v == Victims({Job_.src}, FALSE)
              last == {s \in {Job_.src} : rec[s] # "none"}
  <2>1. CASE Usage <= Room \/ (v = {} /\ last = {})
    <3>1. worker' = Idle /\ UNCHANGED <<disk, mem, told>>
      BY <1>14, <2>1 DEF Enforce
    <3>. QED BY <3>1, Shapes, <1>14 DEF Enforce, Types, disk, mem, env
  <2>2. CASE ~(Usage <= Room \/ (v = {} /\ last = {}))
    <3>1. PICK s \in IF v # {} THEN v ELSE last : Evict(s) /\ UNCHANGED worker
      BY <1>14, <2>2 DEF Enforce
    <3>2. s \in Sources
      BY <1>14 DEF Victims, Expired, Enforce, AtStage
    <3>. QED BY <3>1, <3>2, TypesEvict, <1>14 DEF Enforce, Types, env
  <2>. QED BY <2>1, <2>2
<1>15. CASE Prune
  <2>1. PICK s \in Sources : Evict(s)
    BY <1>15 DEF Prune, Expired
  <2>. QED BY <2>1, TypesEvict, <1>15 DEF Prune, Types, env
<1>16. CASE EnqueueAuto
  <2>1. worker' \in Workers
    BY <1>16, Shapes DEF EnqueueAuto
  <2>2. Job_.src \in Sources
    BY <1>16 DEF EnqueueAuto, AtStage
  <2>3. Job(Job_.src, "worker", TRUE) \in Jobs
    BY <2>2, JobShape DEF Bys
  <2>4. queue' \subseteq Jobs /\ state' \in [Sources -> States] /\ intent' \in {"none", "auto", "manual"}
    BY <1>16, <2>3 DEF EnqueueAuto, Push, Types, States
  <2>. QED BY <2>1, <2>4, <1>16 DEF EnqueueAuto, Types, disk, env
<1>17. ASSUME NEW s \in Sources, Prepare(s) PROVE Types'
  <2>1. [NoJob EXCEPT !.src = s] \in WorkJobs /\ epoch[s] \in Nat
    BY DEF NoJob, WorkJobs, States, Types
  <2>2. worker' \in Workers
    BY <1>17, <2>1, <1>2 DEF Prepare, WorkerPcs
  <2>. QED BY <2>2, <1>17 DEF Prepare, Types, disk, mem
<1>18. CASE Recheck
  <2>1. worker' \in Workers
    BY <1>18, <1>2, Shapes DEF Recheck, WorkerPcs
  <2>. QED BY <2>1, <1>18 DEF Recheck, Types, disk, mem, env
<1>. QED BY <1>5, <1>6, <1>7, <1>8, <1>9, <1>10, <1>11, <1>12, <1>13, <1>14, <1>15, <1>16, <1>17, <1>18 DEF Work

LEMMA TypesRest ==
  ASSUME Types, Stop \/ Restart \/ Weather PROVE Types'
<1>1. CASE Stop
  BY <1>1 DEF Stop, Types, disk, env
<1>2. CASE Restart
  <2>1. worker' \in Workers /\ dl' \in [Down -> Downloads] /\ clr' \in [Clr -> Clears]
    BY <1>2, Shapes DEF Restart, Start
  <2>2. state' \in [Sources -> States] /\ queue' \subseteq Jobs
    BY <1>2 DEF Restart, Start, Rebuilt, States
  <2>3. /\ epoch' \in [Sources -> Nat] /\ plEpoch' \in Nat /\ clearSeq' \in Nat
        /\ started' \in BOOLEAN /\ captureMu' \in BOOLEAN /\ intent' \in {"none", "auto", "manual"}
        /\ promised' \subseteq Sources /\ playing' \subseteq Sources /\ barrier' \in Nat
    BY <1>2 DEF Restart, Start
  <2>4. told' \in [Sources -> Tellings] /\ blobs' \subseteq Sources
    BY <1>2 DEF Restart, Start, Tellings, Types
  <2>. QED BY <2>1, <2>2, <2>3, <2>4, <1>2 DEF Restart, Types
<1>3. CASE Weather
  <2>1. rec' \in [Sources -> Recs]
    BY <1>3 DEF Weather, World, Types, Recs, env
  <2>2. playing' \subseteq Sources /\ barrier' \in Nat /\ owed' \in [Sources -> {"no", "clearing", "yes"}]
    BY <1>3 DEF Weather, World, Observe, Types, env
  <2>. QED BY <2>1, <2>2, <1>3 DEF Weather, Types, mem
<1>. QED BY <1>1, <1>2, <1>3


-----------------------------------------------------------------------------
(* What each kind of step leaves alone.                                    *)
LEMMA FrameDownload ==
  ASSUME NEW d \in Down, Download(d)
  PROVE  /\ rec' = rec /\ blobs' = blobs /\ epoch' = epoch /\ plEpoch' = plEpoch /\ clearSeq' = clearSeq
         /\ started' = started /\ autoKey' = autoKey /\ worker' = worker /\ captureMu' = captureMu
         /\ (state' = state /\ queue' = queue) \/ \E s \in Sources : Enqueue(d, s)
<1>1. CASE Begin(d)
  BY <1>1 DEF Begin, disk, mem
<1>2. CASE SavePlaylist(d)
  BY <1>2 DEF SavePlaylist, mem
<1>3. CASE TellQueued(d)
  BY <1>3 DEF TellQueued, disk, mem
<1>4. CASE Done(d)
  BY <1>4 DEF Done, disk, mem
<1>5. ASSUME NEW s \in Sources, Sample(d, s) \/ Refused(d, s) \/ \E ok \in Answers : Classified(d, s, ok)
      PROVE  /\ rec' = rec /\ blobs' = blobs /\ epoch' = epoch /\ plEpoch' = plEpoch /\ clearSeq' = clearSeq
             /\ started' = started /\ autoKey' = autoKey /\ worker' = worker /\ captureMu' = captureMu
             /\ state' = state /\ queue' = queue
  BY <1>5 DEF Sample, Refused, Classified, disk, mem
<1>6. ASSUME NEW s \in Sources, Enqueue(d, s) \/ Join(d, s)
      PROVE  /\ rec' = rec /\ blobs' = blobs /\ epoch' = epoch /\ plEpoch' = plEpoch /\ clearSeq' = clearSeq
             /\ started' = started /\ autoKey' = autoKey /\ worker' = worker /\ captureMu' = captureMu
             /\ (state' = state /\ queue' = queue) \/ Enqueue(d, s)
  BY <1>6 DEF Enqueue, Join, disk
<1>. QED BY <1>1, <1>2, <1>3, <1>4, <1>5, <1>6 DEF Download

Reserves(c, keys, pl) ==
  Reserve(c, keys, pl) /\ ~Busy(keys) /\ UNCHANGED <<disk, worker, dl, captureMu, env, told, plOwed>>

LEMMA FrameClear ==
  ASSUME Types, NEW c \in Clr, Clear(c)
  PROVE  /\ started' = started /\ intent' = intent /\ autoKey' = autoKey /\ worker' = worker /\ dl' = dl
         /\ captureMu' = captureMu
         /\ \/ state' = state /\ queue' = queue /\ epoch' = epoch
            \/ \E keys \in SUBSET Sources, pl \in BOOLEAN : Reserves(c, keys, pl)
<1>1. clr[c].keys \in SUBSET Sources
  BY DEF Types, Clears
<1>2. CASE ClearPlaylist(c)
  BY <1>2 DEF ClearPlaylist
<1>3. ASSUME NEW keys \in SUBSET Sources, NEW pl \in BOOLEAN, Reserve(c, keys, pl),
             UNCHANGED <<disk, worker, dl, captureMu, env, told, plOwed>>
      PROVE  /\ started' = started /\ intent' = intent /\ autoKey' = autoKey /\ worker' = worker /\ dl' = dl
             /\ captureMu' = captureMu
             /\ (state' = state /\ queue' = queue /\ epoch' = epoch) \/ Reserves(c, keys, pl)
  BY <1>3 DEF Reserve, Reserves, mem
<1>4. CASE ClearMembers(c)
  BY <1>4, <1>3, <1>1 DEF ClearMembers
<1>5. ASSUME NEW s \in Sources, ClearItem(c, s)
      PROVE  /\ started' = started /\ intent' = intent /\ autoKey' = autoKey /\ worker' = worker /\ dl' = dl
             /\ captureMu' = captureMu
             /\ (state' = state /\ queue' = queue /\ epoch' = epoch) \/ Reserves(c, {s}, FALSE)
  BY <1>5, <1>3 DEF ClearItem
<1>6. ASSUME TellCleared(c) \/ GC(c) \/ \E s \in Sources : Delete(c, s)
      PROVE  /\ started' = started /\ intent' = intent /\ autoKey' = autoKey /\ worker' = worker /\ dl' = dl
             /\ captureMu' = captureMu
             /\ state' = state /\ queue' = queue /\ epoch' = epoch
  BY <1>6 DEF TellCleared, GC, Delete, mem
<1>7. CASE Close(c)
  BY <1>7 DEF Close
<1>. QED BY <1>2, <1>4, <1>5, <1>6, <1>7 DEF Clear

LEMMA FrameWork ==
  ASSUME Work
  PROVE  /\ epoch' = epoch /\ plEpoch' = plEpoch /\ clearSeq' = clearSeq /\ started' = started
         /\ dl' = dl /\ clr' = clr /\ plrec' = plrec /\ plOwed' = plOwed
         /\ playing' = playing /\ barrier' = barrier /\ owed' = owed
<1>1. CASE Dequeue \/ Drain \/ CaptureFails \/ Publish \/ EnqueueAuto
  BY <1>1 DEF Dequeue, Drain, CaptureFails, Publish, EnqueueAuto, disk, env
<1>2. CASE Announce \/ Retry \/ Captured \/ Report \/ Recheck
  BY <1>2 DEF Announce, Retry, Captured, Report, Recheck, disk, mem, env
<1>3. CASE Reclaim
  BY <1>3 DEF Reclaim, mem, Evict, env
<1>4. CASE Enforce
  BY <1>4 DEF Enforce, disk, mem, Evict, env
<1>5. CASE Prune
  BY <1>5 DEF Prune, Evict, env
<1>6. CASE \E s \in Sources : Prepare(s)
  BY <1>6 DEF Prepare, disk, mem
<1>. QED BY <1>1, <1>2, <1>3, <1>4, <1>5, <1>6 DEF Work


-----------------------------------------------------------------------------
(* The queue: one job per source, at most MaxQueue of them, queued exactly *)
(* when the state says so.                                                 *)
LEMMA LinedWithout ==
  ASSUME Types, Lined, NEW keys \in SUBSET Sources, queue' = Without(keys),
         \A s \in Sources \ keys : state'[s] = state[s], \A s \in keys : state'[s] # "queued"
  PROVE  Lined'
<1>1. queue \subseteq Jobs /\ Cardinality(queue) \in Nat /\ MaxQueue \in Nat
  BY FS_CardinalityType, CacheAssumption DEF Types, Lined
<1>2. IsFiniteSet(queue') /\ Cardinality(queue') <= MaxQueue
  <2>1. IsFiniteSet(queue') /\ Cardinality(queue') <= Cardinality(queue)
    BY <1>1, WithoutIs DEF Lined
  <2>2. Cardinality(queue') \in Nat
    BY <2>1, FS_CardinalityType
  <2>. QED BY <2>1, <2>2, <1>1 DEF Lined
<1>3. \A i, j \in queue' : i.src = j.src => i = j
  BY <1>1, WithoutIs DEF Lined
<1>4. ASSUME NEW s \in Sources PROVE state'[s] = "queued" <=> \E j \in queue' : j.src = s
  <2>1. (\E j \in queue' : j.src = s) <=> (s \notin keys /\ \E j \in queue : j.src = s)
    BY <1>1, WithoutIs
  <2>2. state[s] = "queued" <=> \E j \in queue : j.src = s
    BY DEF Lined, Queued
  <2>. QED BY <2>1, <2>2
<1>. QED BY <1>2, <1>3, <1>4 DEF Lined, Queued

LEMMA LinedSame ==
  ASSUME Lined, queue' = queue, \A s \in Sources : state'[s] = "queued" <=> state[s] = "queued"
  PROVE  Lined'
BY DEF Lined, Queued

LEMMA LinedPush ==
  ASSUME Types, Lined, NEW s \in Sources, NEW by, NEW auto, Push(s, by, auto),
         state[s] \notin Live, Cardinality(queue) < MaxQueue
  PROVE  Lined'
<1>. DEFINE j == Job(s, by, auto)
<1>1. j.src = s
  BY DEF Job
<1>. HIDE DEF j
<1>2. queue' = queue \cup {j}
  BY DEF Push, j
<1>3. ~Queued(s)
  BY DEF Lined, Live
<1>4. IsFiniteSet(queue') /\ Cardinality(queue') <= Cardinality(queue) + 1 /\ Cardinality(queue) \in Nat
  <2>1. IsFiniteSet(queue) /\ Cardinality(queue) \in Nat
    BY FS_CardinalityType DEF Lined
  <2>2. /\ IsFiniteSet(queue \cup {j})
        /\ Cardinality(queue \cup {j}) = IF j \in queue THEN Cardinality(queue) ELSE Cardinality(queue) + 1
    BY <2>1, FS_AddElement
  <2>. QED BY <2>1, <2>2, <1>2
<1>5. IsFiniteSet(queue') /\ Cardinality(queue') <= MaxQueue
  <2>1. Cardinality(queue') \in Nat
    BY <1>4, FS_CardinalityType
  <2>. QED BY <2>1, <1>4, CacheAssumption
<1>6. \A i, k \in queue' : i.src = k.src => i = k
  BY <1>1, <1>2, <1>3 DEF Lined, Queued
<1>7. ASSUME NEW r \in Sources PROVE state'[r] = "queued" <=> \E k \in queue' : k.src = r
  <2>1. state'[r] = IF r = s THEN "queued" ELSE state[r]
    BY DEF Push, Types
  <2>. QED BY <2>1, <1>1, <1>2 DEF Lined, Queued
<1>. QED BY <1>5, <1>6, <1>7 DEF Lined, Queued

(* An eviction leaves a source in flight alone.                            *)
LEMMA LinedEvict ==
  ASSUME Types, Lined, NEW s \in Sources, Evict(s) PROVE Lined'
<1>1. \A r \in Sources : state'[r] = "queued" <=> state[r] = "queued"
  BY DEF Evict, Live, Types
<1>. QED BY <1>1, LinedSame DEF Evict

LEMMA LinedDownload ==
  ASSUME Types, Lined, NEW d \in Down, Download(d) PROVE Lined'
<1>1. CASE state' = state /\ queue' = queue
  BY <1>1, LinedSame
<1>2. ASSUME NEW s \in Sources, Enqueue(d, s) PROVE Lined'
  BY <1>2, LinedPush DEF Enqueue, Commits
<1>. QED BY <1>1, <1>2, FrameDownload

LEMMA LinedClear ==
  ASSUME Types, Lined, NEW c \in Clr, Clear(c) PROVE Lined'
<1>1. CASE state' = state /\ queue' = queue
  BY <1>1, LinedSame
<1>2. ASSUME NEW keys \in SUBSET Sources, NEW pl \in BOOLEAN, Reserves(c, keys, pl) PROVE Lined'
  <2>1. queue' = Without(keys) /\ state' = [s \in Sources |-> IF s \in keys THEN "none" ELSE state[s]]
    BY <1>2 DEF Reserves, Reserve
  <2>. QED BY <2>1, LinedWithout
<1>. QED BY <1>1, <1>2, FrameClear

LEMMA LinedWork ==
  ASSUME Types, Lined, AtStage, Work PROVE Lined'
<1>1. CASE Dequeue
  <2>1. PICK j \in queue : state' = [state EXCEPT ![j.src] = "downloading"] /\ queue' = Without({j.src})
    BY <1>1 DEF Dequeue
  <2>2. j.src \in Sources
    BY DEF Types, Jobs
  <2>3. \A s \in Sources \ {j.src} : state'[s] = state[s]
    BY <2>1 DEF Types
  <2>4. state'[j.src] # "queued"
    BY <2>1, <2>2 DEF Types
  <2>. QED BY <2>1, <2>2, <2>3, <2>4, LinedWithout
<1>2. CASE Drain
  <2>1. CASE queue = {} /\ worker' = [Idle EXCEPT !.pc = "gone"] /\ UNCHANGED <<queue, state, intent>>
    BY <2>1, LinedSame
  <2>2. CASE ~(queue = {} /\ worker' = [Idle EXCEPT !.pc = "gone"] /\ UNCHANGED <<queue, state, intent>>)
    <3>1. PICK j \in queue, st \in {"none", "failed"} : queue' = Without({j.src}) /\ state' = [state EXCEPT ![j.src] = st]
      BY <1>2, <2>2 DEF Drain, Restored
    <3>2. j.src \in Sources
      BY DEF Types, Jobs
    <3>3. \A s \in Sources \ {j.src} : state'[s] = state[s]
      BY <3>1 DEF Types
    <3>4. state'[j.src] # "queued"
      BY <3>1, <3>2 DEF Types
    <3>. QED BY <3>1, <3>2, <3>3, <3>4, LinedWithout
  <2>. QED BY <2>1, <2>2
<1>3. CASE Announce \/ Retry \/ Report \/ Recheck \/ \E s \in Sources : Prepare(s)
  <2>1. queue' = queue /\ state' = state
    BY <1>3 DEF Announce, Retry, Report, Recheck, Prepare, mem
  <2>. QED BY <2>1, LinedSame
<1>4. CASE Reclaim
  <2>1. (queue' = queue /\ state' = state) \/ \E s \in Sources : Evict(s)
    BY <1>4 DEF Reclaim, mem, Victims, Expired
  <2>. QED BY <2>1, LinedSame, LinedEvict
<1>5. CASE Captured \/ CaptureFails
  <2>1. queue' = queue /\ Job_.src \in Sources /\ state[Job_.src] = "downloading"
    BY <1>5 DEF Captured, CaptureFails, AtStage, Working3
  <2>2. \A s \in Sources \ {Job_.src} : state'[s] = state[s]
    BY <1>5 DEF Captured, CaptureFails, Types
  <2>3. state'[Job_.src] # "queued"
    BY <1>5, <2>1 DEF Captured, CaptureFails, Restored, Types
  <2>. QED BY <2>1, <2>2, <2>3, LinedSame
<1>6. CASE Publish
  <2>1. queue' = queue /\ Job_.src \in Sources /\ (~Job_.auto => state[Job_.src] = "downloading")
    BY <1>6 DEF Publish, AtStage
  <2>2. \A s \in Sources : state'[s] = "queued" <=> state[s] = "queued"
    BY <1>6, <2>1 DEF Publish, Outcome, Types
  <2>. QED BY <2>1, <2>2, LinedSame
<1>7. CASE Enforce
  <2>1. (queue' = queue /\ state' = state) \/ \E s \in Sources : Evict(s)
    BY <1>7 DEF Enforce, mem, Victims, Expired, AtStage
  <2>. QED BY <2>1, LinedSame, LinedEvict
<1>8. CASE Prune
  BY <1>8, LinedEvict DEF Prune, Expired
<1>9. CASE EnqueueAuto
  <2>1. Job_.src \in Sources
    BY <1>9 DEF EnqueueAuto, AtStage
  <2>2. CASE Commits(worker.ep, Job_.src)
    BY <1>9, <2>1, <2>2, LinedPush DEF EnqueueAuto, Commits
  <2>3. CASE ~Commits(worker.ep, Job_.src)
    BY <1>9, <2>3, LinedSame DEF EnqueueAuto
  <2>. QED BY <2>2, <2>3
<1>. QED BY <1>1, <1>2, <1>3, <1>4, <1>5, <1>6, <1>7, <1>8, <1>9 DEF Work

LEMMA LinedRest ==
  ASSUME Types, Lined, Stop \/ Restart \/ Weather PROVE Lined'
<1>1. CASE Stop \/ Weather
  BY <1>1, LinedSame DEF Stop, Weather, mem
<1>2. CASE Restart
  <2>1. queue' = {} /\ \A s \in Sources : state'[s] # "queued"
    BY <1>2 DEF Restart, Start, Rebuilt
  <2>2. IsFiniteSet(queue') /\ Cardinality(queue') <= MaxQueue
    BY <2>1, FS_EmptySet, CacheAssumption
  <2>. QED BY <2>1, <2>2 DEF Lined, Queued
<1>. QED BY <1>1, <1>2

(* The job the worker is about, and what the state says of it.             *)
LEMMA AtStageSame ==
  ASSUME AtStage, worker' = worker, started' => started, queue' = queue \/ worker.pc # "gone",
         worker.pc \notin {"idle", "gone"} => (state[Job_.src] = "downloading" => state'[Job_.src] = "downloading")
  PROVE  AtStage'
BY DEF AtStage, Job_, Working3, Reporting

LEMMA AtStageDownload ==
  ASSUME Types, Lined, AtStage, NEW d \in Down, Download(d) PROVE AtStage'
<1>1. CASE state' = state /\ queue' = queue
  BY <1>1, FrameDownload, AtStageSame
<1>2. ASSUME NEW s \in Sources, Enqueue(d, s) PROVE AtStage'
  <2>1. started /\ state[s] # "downloading" /\ state' = [state EXCEPT ![s] = "queued"]
    BY <1>2 DEF Enqueue, Commits, Live, Push
  <2>2. worker.pc # "gone"
    BY <2>1 DEF AtStage
  <2>3. \A r \in Sources : state[r] = "downloading" => state'[r] = "downloading"
    BY <2>1 DEF Types
  <2>. QED BY <2>2, <2>3, FrameDownload, AtStageSame DEF AtStage
<1>. QED BY <1>1, <1>2, FrameDownload

LEMMA AtStageClear ==
  ASSUME Types, Lined, AtStage, NEW c \in Clr, Clear(c) PROVE AtStage'
<1>1. CASE state' = state /\ queue' = queue
  BY <1>1, FrameClear, AtStageSame
<1>2. ASSUME NEW keys \in SUBSET Sources, NEW pl \in BOOLEAN, Reserves(c, keys, pl) PROVE AtStage'
  <2>1. queue' = Without(keys) /\ state' = [s \in Sources |-> IF s \in keys THEN "none" ELSE state[s]]
    BY <1>2 DEF Reserves, Reserve
  <2>2. \A r \in Sources : state[r] = "downloading" => state'[r] = "downloading"
    BY <2>1, <1>2 DEF Reserves, Busy
  <2>3. queue = {} => queue' = {}
    BY <2>1 DEF Without
  <2>. QED BY <2>2, <2>3, FrameClear, AtStageSame DEF AtStage
<1>. QED BY <1>1, <1>2, FrameClear

LEMMA AtStageEvict ==
  ASSUME Types, AtStage, NEW s \in Sources, Evict(s), worker' = worker PROVE AtStage'
<1>1. \A r \in Sources : state[r] = "downloading" => state'[r] = "downloading"
  BY DEF Evict, Live, Types
<1>. QED BY <1>1, AtStageSame DEF Evict, AtStage

LEMMA AtStageWork ==
  ASSUME Types, Lined, AtStage, Work PROVE AtStage'
<1>. USE DEF Working3, Reporting
<1>1. CASE Dequeue
  <2>1. PICK j \in queue : /\ state' = [state EXCEPT ![j.src] = "downloading"]
                          /\ worker' = [Idle EXCEPT !.pc = "announce", !.job = [j EXCEPT !.ahead = {}]]
    BY <1>1 DEF Dequeue
  <2>2. j.src \in Sources /\ [j EXCEPT !.ahead = {}].src = j.src
    BY DEF Types, Jobs
  <2>3. worker'.pc = "announce" /\ worker'.job.src = j.src /\ worker'.made = "none"
    BY <2>1, <2>2 DEF Idle
  <2>4. state'[j.src] = "downloading"
    BY <2>1, <2>2 DEF Types
  <2>. QED BY <2>2, <2>3, <2>4 DEF AtStage, Job_
<1>2. CASE Drain
  <2>1. CASE queue = {} /\ worker' = [Idle EXCEPT !.pc = "gone"] /\ UNCHANGED <<queue, state, intent>>
    BY <2>1, <1>2 DEF Drain, AtStage, Idle
  <2>2. CASE worker' = worker
    BY <2>2, <1>2 DEF Drain, AtStage, Idle
  <2>. QED BY <2>1, <2>2, <1>2 DEF Drain
<1>3. CASE Announce \/ Retry
  <2>1. worker' = [worker EXCEPT !.pc = "reclaim"] \/ (worker' = [worker EXCEPT !.pc = "reclaim"])
    BY <1>3 DEF Announce, Retry
  <2>2. state' = state /\ worker.pc \in Working3
    BY <1>3 DEF Announce, Retry, mem
  <2>3. worker'.pc = "reclaim" /\ worker'.job = worker.job /\ worker'.made = worker.made
    BY <2>1 DEF Types, Workers
  <2>. QED BY <2>2, <2>3 DEF AtStage, Job_
<1>4. CASE Reclaim
  <2>1. \/ worker' = [worker EXCEPT !.pc = "capture", !.asAuto = Speculative] /\ state' = state
        \/ worker' = worker /\ \E s \in Sources : Evict(s)
    BY <1>4 DEF Reclaim, mem, Victims, Expired
  <2>2. CASE worker' = [worker EXCEPT !.pc = "capture", !.asAuto = Speculative] /\ state' = state
    <3>1. worker'.pc = "capture" /\ worker'.job = worker.job /\ worker'.made = worker.made
      BY <2>2 DEF Types, Workers
    <3>. QED BY <2>2, <3>1, <1>4 DEF AtStage, Job_, Reclaim
  <2>. QED BY <2>1, <2>2, AtStageEvict
<1>5. CASE Captured
  <2>1. worker'.pc = "publish" /\ worker'.job = worker.job /\ worker'.made = Kept /\ Job_.src \in Sources
    BY <1>5 DEF Captured, Types, Workers, AtStage
  <2>2. ~Job_.auto => state' = state /\ Kept # "auto"
    BY <1>5 DEF Captured, Kept, Speculative
  <2>. QED BY <1>5, <2>1, <2>2 DEF AtStage, Job_, Captured, Kept
<1>6. CASE CaptureFails
  <2>1. CASE worker' = Idle
    BY <2>1 DEF AtStage, Idle
  <2>2. CASE worker' = [worker EXCEPT !.pc = "publish", !.made = "failed"]
    <3>1. worker'.pc = "publish" /\ worker'.job = worker.job /\ worker'.made = "failed" /\ Job_.src \in Sources
      BY <2>2, <1>6 DEF CaptureFails, Types, Workers, AtStage
    <3>2. ~Job_.auto => state' = state
      BY <1>6 DEF CaptureFails
    <3>. QED BY <1>6, <3>1, <3>2 DEF AtStage, Job_, CaptureFails
  <2>. QED BY <2>1, <2>2, <1>6 DEF CaptureFails
<1>7. CASE Publish
  <2>1. worker'.pc = "report" /\ worker'.job = worker.job /\ worker'.made = worker.made
    BY <1>7 DEF Publish, Types, Workers
  <2>. QED BY <1>7, <2>1 DEF AtStage, Job_, Publish
<1>8. CASE Report
  <2>1. worker' = Idle \/ (worker'.pc = "enforce" /\ worker'.job = worker.job)
    BY <1>8 DEF Report, Types, Workers
  <2>. QED BY <1>8, <2>1 DEF AtStage, Job_, Report, Idle
<1>9. CASE Enforce
  <2>1. worker' = Idle \/ (worker' = worker /\ \E s \in Sources : Evict(s))
    BY <1>9 DEF Enforce, Victims, Expired, AtStage
  <2>2. CASE worker' = Idle
    BY <2>2 DEF AtStage, Idle
  <2>. QED BY <2>1, <2>2, AtStageEvict
<1>10. CASE Prune
  BY <1>10, AtStageEvict DEF Prune, Expired
<1>11. CASE EnqueueAuto
  BY <1>11 DEF EnqueueAuto, AtStage, Idle
<1>12. ASSUME NEW s \in Sources, Prepare(s) PROVE AtStage'
  <2>1. worker'.pc = "prepare" /\ worker'.job.src = s
    BY <1>12 DEF Prepare, Idle, NoJob
  <2>. QED BY <2>1 DEF AtStage, Job_
<1>13. CASE Recheck
  <2>1. worker' = Idle \/ (worker'.pc = "push" /\ worker'.job = worker.job /\ Job_.src \in Sources)
    BY <1>13 DEF Recheck, Types, Workers, AtStage
  <2>. QED BY <2>1 DEF AtStage, Job_, Idle
<1>. QED BY <1>1, <1>2, <1>3, <1>4, <1>5, <1>6, <1>7, <1>8, <1>9, <1>10, <1>11, <1>12, <1>13 DEF Work

LEMMA AtStageRest ==
  ASSUME Types, AtStage, Stop \/ Restart \/ Weather PROVE AtStage'
<1>1. CASE Stop
  BY <1>1, AtStageSame DEF Stop
<1>2. CASE Weather
  BY <1>2, AtStageSame DEF Weather, mem
<1>3. CASE Restart
  BY <1>3 DEF Restart, Start, AtStage, Idle, Working3, Reporting
<1>. QED BY <1>1, <1>2, <1>3


-----------------------------------------------------------------------------
(* What each step of a download makes of it.                               *)
LEMMA SampleIs ==
  ASSUME Types, NEW d \in Down, NEW s \in Sources, Sample(d, s)
  PROVE  /\ dl'[d].pc = dl[d].pc /\ dl'[d].pl = dl[d].pl /\ dl'[d].plE = dl[d].plE /\ dl'[d].body = dl[d].body
         /\ dl'[d].todo = dl[d].todo \ {s} /\ dl'[d].asked = dl[d].asked \cup {s} /\ dl'[d].left = dl[d].left /\ dl'[d].ep = [dl[d].ep EXCEPT ![s] = epoch[s]]
         /\ \A e \in Down \ {d} : dl'[e] = dl[e]
<1>1. dl[d] \in Downloads
  BY DEF Types
<1>2. dl' = [dl EXCEPT ![d] = [dl[d] EXCEPT !.todo = @ \ {s}, !.asked = @ \cup {s}, !.ep[s] = epoch[s]]]
  BY DEF Sample, Types
<1>3. dl'[d] = [dl[d] EXCEPT !.todo = @ \ {s}, !.asked = @ \cup {s}, !.ep[s] = epoch[s]] /\ \A e \in Down \ {d} : dl'[e] = dl[e]
  BY <1>2 DEF Types
<1>. QED BY <1>1, <1>3 DEF Downloads

LEMMA ClassifiedStep ==
  ASSUME Types, NEW d \in Down, NEW s \in Sources, NEW ok \in Answers, Classified(d, s, ok)
  PROVE  /\ dl'[d].pc = dl[d].pc /\ dl'[d].pl = dl[d].pl /\ dl'[d].plE = dl[d].plE /\ dl'[d].body = dl[d].body
         /\ dl'[d].todo = dl[d].todo /\ dl'[d].asked = dl[d].asked \ {s}
         /\ \/ dl'[d].left = dl[d].left \cup {s} /\ dl'[d].ep = dl[d].ep
            \/ dl'[d].left = dl[d].left /\ dl'[d].ep = [dl[d].ep EXCEPT ![s] = 0]
         /\ \A e \in Down \ {d} : dl'[e] = dl[e]
         /\ dl[d].pc = "probe" /\ s \in dl[d].asked
<1>1. dl[d] \in Downloads /\ dl[d].pc = "probe" /\ s \in dl[d].asked
  BY DEF Types, Classified
<1>2. dl' = [dl EXCEPT ![d] = [dl[d] EXCEPT !.asked = @ \ {s}, !.left = IF ok = "eligible" THEN @ \cup {s} ELSE @,
           !.bad = IF ok = "failed" THEN TRUE ELSE @, !.ep[s] = IF ok = "eligible" THEN @ ELSE 0]]
  BY DEF Classified, Types
<1>3. dl'[d] = [dl[d] EXCEPT !.asked = @ \ {s}, !.left = IF ok = "eligible" THEN @ \cup {s} ELSE @,
           !.bad = IF ok = "failed" THEN TRUE ELSE @, !.ep[s] = IF ok = "eligible" THEN @ ELSE 0] /\ \A e \in Down \ {d} : dl'[e] = dl[e]
  BY <1>2 DEF Types
<1>4. CASE ok = "eligible"
  BY <1>1, <1>3, <1>4 DEF Downloads
<1>5. CASE ok # "eligible"
  BY <1>1, <1>3, <1>5 DEF Downloads
<1>. QED BY <1>4, <1>5

LEMMA ClassifiedIs ==
  ASSUME Types, NEW d \in Down, NEW s \in Sources, \E ok \in Answers : Classified(d, s, ok)
  PROVE  /\ dl'[d].pc = dl[d].pc /\ dl'[d].pl = dl[d].pl /\ dl'[d].plE = dl[d].plE /\ dl'[d].body = dl[d].body
         /\ dl'[d].todo = dl[d].todo /\ dl'[d].asked = dl[d].asked \ {s}
         /\ \/ dl'[d].left = dl[d].left \cup {s} /\ dl'[d].ep = dl[d].ep
            \/ dl'[d].left = dl[d].left /\ dl'[d].ep = [dl[d].ep EXCEPT ![s] = 0]
         /\ \A e \in Down \ {d} : dl'[e] = dl[e]
         /\ dl[d].pc = "probe" /\ s \in dl[d].asked
BY ClassifiedStep

LEMMA EnqueueIs ==
  ASSUME Types, NEW d \in Down, NEW s \in Sources, Enqueue(d, s)
  PROVE  /\ dl'[d].pc = "tell" /\ dl'[d].pl = dl[d].pl /\ dl'[d].plE = dl[d].plE /\ dl'[d].body = dl[d].body
         /\ dl'[d].todo = {s} /\ dl'[d].asked = dl[d].asked /\ dl'[d].left = dl[d].left \ {s} /\ dl'[d].ep = [dl[d].ep EXCEPT ![s] = 0]
         /\ \A e \in Down \ {d} : dl'[e] = dl[e]
<1>1. dl[d] \in Downloads
  BY DEF Types
<1>2. dl' = [dl EXCEPT ![d] = [dl[d] EXCEPT !.left = @ \ {s}, !.ep[s] = 0, !.pc = "tell", !.todo = {s}]]
  BY DEF Enqueue, Types
<1>3. dl'[d] = [dl[d] EXCEPT !.left = @ \ {s}, !.ep[s] = 0, !.pc = "tell", !.todo = {s}] /\ \A e \in Down \ {d} : dl'[e] = dl[e]
  BY <1>2 DEF Types
<1>. QED BY <1>1, <1>3 DEF Downloads

LEMMA JoinIs ==
  ASSUME Types, NEW d \in Down, NEW s \in Sources, Join(d, s)
  PROVE  /\ dl'[d].pc = dl[d].pc /\ dl'[d].pl = dl[d].pl /\ dl'[d].plE = dl[d].plE /\ dl'[d].body = dl[d].body
         /\ dl'[d].todo = dl[d].todo /\ dl'[d].asked = dl[d].asked /\ dl'[d].left = dl[d].left \ {s} /\ dl'[d].ep = [dl[d].ep EXCEPT ![s] = 0]
         /\ \A e \in Down \ {d} : dl'[e] = dl[e]
<1>1. dl[d] \in Downloads
  BY DEF Types
<1>2. dl' = [dl EXCEPT ![d] = [dl[d] EXCEPT !.left = @ \ {s}, !.ep[s] = 0]]
  BY DEF Join, Types
<1>3. dl'[d] = [dl[d] EXCEPT !.left = @ \ {s}, !.ep[s] = 0] /\ \A e \in Down \ {d} : dl'[e] = dl[e]
  BY <1>2 DEF Types
<1>. QED BY <1>1, <1>3 DEF Downloads

LEMMA TellQueuedIs ==
  ASSUME Types, NEW d \in Down, TellQueued(d)
  PROVE  /\ dl'[d].pc = "enqueue" /\ dl'[d].pl = dl[d].pl /\ dl'[d].plE = dl[d].plE /\ dl'[d].body = dl[d].body
         /\ dl'[d].todo = {} /\ dl'[d].asked = dl[d].asked /\ dl'[d].left = dl[d].left /\ dl'[d].ep = dl[d].ep
         /\ \A e \in Down \ {d} : dl'[e] = dl[e]
<1>1. dl[d] \in Downloads
  BY DEF Types
<1>2. dl' = [dl EXCEPT ![d] = [dl[d] EXCEPT !.pc = "enqueue", !.todo = {}]]
  BY DEF TellQueued, Types
<1>3. dl'[d] = [dl[d] EXCEPT !.pc = "enqueue", !.todo = {}] /\ \A e \in Down \ {d} : dl'[e] = dl[e]
  BY <1>2 DEF Types
<1>. QED BY <1>1, <1>3 DEF Downloads

LEMMA RefusedIs ==
  ASSUME Types, NEW d \in Down, NEW s \in Sources, Refused(d, s)
  PROVE  /\ dl'[d].pc = dl[d].pc /\ dl'[d].pl = dl[d].pl /\ dl'[d].plE = dl[d].plE /\ dl'[d].body = dl[d].body
         /\ dl'[d].todo = dl[d].todo /\ dl'[d].asked = dl[d].asked /\ dl'[d].left \subseteq dl[d].left /\ dl'[d].ep = dl[d].ep
         /\ \A e \in Down \ {d} : dl'[e] = dl[e]
<1>1. dl[d] \in Downloads
  BY DEF Types
<1>2. PICK l \in SUBSET dl[d].left : dl' = [dl EXCEPT ![d] = [dl[d] EXCEPT !.left = l]]
  BY <1>1 DEF Refused, Types
<1>3. dl'[d] = [dl[d] EXCEPT !.left = l] /\ \A e \in Down \ {d} : dl'[e] = dl[e]
  BY <1>2 DEF Types
<1>. QED BY <1>1, <1>3 DEF Downloads

LEMMA SavePlaylistIs ==
  ASSUME Types, NEW d \in Down, SavePlaylist(d)
  PROVE  /\ dl[d].pc = "probe" /\ dl[d].todo = {} /\ dl[d].asked = {}
         /\ \A e \in Down \ {d} : dl'[e] = dl[e]
         /\ \/ /\ dl'[d].pc = "enqueue" /\ dl'[d].pl = dl[d].pl /\ dl'[d].plE = dl[d].plE /\ dl'[d].body = dl[d].body
               /\ dl'[d].todo = {} /\ dl'[d].asked = {} /\ dl'[d].left = dl[d].left /\ dl'[d].ep = dl[d].ep
               /\ plrec' = plrec \/ (dl[d].pl /\ plEpoch = dl[d].plE)
            \/ dl'[d] = NoDownload /\ plrec' = plrec
<1>1. dl[d] \in Downloads
  BY DEF Types
<1>2. dl[d].pc = "probe" /\ dl[d].todo = {} /\ dl[d].asked = {}
  BY DEF SavePlaylist, Answered
<1>3. \/ dl' = [dl EXCEPT ![d] = [dl[d] EXCEPT !.pc = "enqueue", !.bad = FALSE]] /\ (plrec' = plrec \/ (dl[d].pl /\ plEpoch = dl[d].plE))
      \/ dl' = [dl EXCEPT ![d] = NoDownload] /\ plrec' = plrec
  <2>1. \/ /\ dl' = [dl EXCEPT ![d] = [dl[d] EXCEPT !.pc = "enqueue", !.bad = FALSE]]
           /\ plrec' = IF dl[d].pl THEN dl[d].body ELSE plrec
           /\ dl[d].pl => plEpoch = dl[d].plE
        \/ dl' = [dl EXCEPT ![d] = NoDownload] /\ plrec' = plrec
    BY DEF SavePlaylist, NotCleared
  <2>. QED BY <2>1, <1>1 DEF Downloads
<1>4. CASE dl' = [dl EXCEPT ![d] = [dl[d] EXCEPT !.pc = "enqueue", !.bad = FALSE]] /\ (plrec' = plrec \/ (dl[d].pl /\ plEpoch = dl[d].plE))
  <2>1. dl'[d] = [dl[d] EXCEPT !.pc = "enqueue", !.bad = FALSE] /\ \A e \in Down \ {d} : dl'[e] = dl[e]
    BY <1>4 DEF Types
  <2>2. /\ dl'[d].pc = "enqueue" /\ dl'[d].plE = dl[d].plE /\ dl'[d].body = dl[d].body /\ dl'[d].todo = dl[d].todo
        /\ dl'[d].asked = dl[d].asked /\ dl'[d].left = dl[d].left /\ dl'[d].ep = dl[d].ep
    BY <1>1, <2>1 DEF Downloads
  <2>3. dl'[d].pl = dl[d].pl
    BY <1>1, <2>1 DEF Downloads
  <2>. QED BY <1>2, <1>4, <2>1, <2>2, <2>3
<1>5. CASE dl' = [dl EXCEPT ![d] = NoDownload] /\ plrec' = plrec
  BY <1>2, <1>5 DEF Types
<1>. QED BY <1>3, <1>4, <1>5

LEMMA BeginIs ==
  ASSUME Types, NEW d \in Down, Begin(d)
  PROVE  /\ dl'[d].pc = "probe" /\ dl'[d].plE = plEpoch
         /\ dl'[d].asked = {} /\ dl'[d].left = {} /\ dl'[d].ep = [s \in Sources |-> 0]
         /\ \A e \in Down \ {d} : dl'[e] = dl[e]
         /\ dl[d].pc = "idle"
BY DEF Begin, Types, NoDownload

LEMMA DoneIs ==
  ASSUME Types, NEW d \in Down, Done(d)
  PROVE  dl[d].pc = "enqueue" /\ dl'[d] = NoDownload /\ \A e \in Down \ {d} : dl'[e] = dl[e]
BY DEF Done, Types

LEMMA NoDownloadIs ==
  /\ NoDownload.pc = "idle" /\ NoDownload.plE = 0 /\ NoDownload.todo = {} /\ NoDownload.asked = {}
  /\ NoDownload.left = {} /\ NoDownload.ep = [s \in Sources |-> 0]
BY DEF NoDownload

-----------------------------------------------------------------------------
(* Epochs only grow: whatever a download, the worker or a source holds is  *)
(* at most clearSeq.                                                       *)
LEMMA EpochsDownload ==
  ASSUME Types, Epochs, NEW d \in Down, Download(d) PROVE Epochs'
<1>1. ASSUME dl'[d].plE <= clearSeq, \A s \in Sources : dl'[d].ep[s] <= clearSeq, \A e \in Down \ {d} : dl'[e] = dl[e]
      PROVE  Epochs'
  BY <1>1, FrameDownload DEF Epochs
<1>. USE DEF Epochs
<1>2. 0 <= clearSeq /\ dl[d].ep \in [Sources -> Nat]
  BY DEF Types, Downloads
<1>3. CASE Begin(d)
  BY <1>1, <1>2, <1>3, BeginIs
<1>4. CASE SavePlaylist(d)
  BY <1>1, <1>2, <1>4, SavePlaylistIs, NoDownloadIs
<1>5. CASE TellQueued(d)
  BY <1>1, <1>5, TellQueuedIs
<1>6. CASE Done(d)
  BY <1>1, <1>2, <1>6, DoneIs, NoDownloadIs
<1>7. ASSUME NEW s \in Sources, Sample(d, s) PROVE Epochs'
  <2>1. /\ dl'[d].ep = [dl[d].ep EXCEPT ![s] = epoch[s]] /\ dl'[d].plE = dl[d].plE
        /\ \A e \in Down \ {d} : dl'[e] = dl[e]
    BY <1>7, SampleIs
  <2>2. \A r \in Sources : dl'[d].ep[r] <= clearSeq
    BY <2>1, <1>2
  <2>. QED BY <2>1, <2>2, <1>1
<1>8. ASSUME NEW s \in Sources, \E ok \in Answers : Classified(d, s, ok) PROVE Epochs'
  <2>1. /\ dl'[d].ep = dl[d].ep \/ dl'[d].ep = [dl[d].ep EXCEPT ![s] = 0]
        /\ dl'[d].plE = dl[d].plE /\ \A e \in Down \ {d} : dl'[e] = dl[e]
    BY <1>8, ClassifiedIs
  <2>2. \A r \in Sources : dl'[d].ep[r] <= clearSeq
    BY <2>1, <1>2
  <2>. QED BY <2>1, <2>2, <1>1
<1>9. ASSUME NEW s \in Sources, Enqueue(d, s) PROVE Epochs'
  <2>1. /\ dl'[d].ep = [dl[d].ep EXCEPT ![s] = 0] /\ dl'[d].plE = dl[d].plE
        /\ \A e \in Down \ {d} : dl'[e] = dl[e]
    BY <1>9, EnqueueIs
  <2>2. \A r \in Sources : dl'[d].ep[r] <= clearSeq
    BY <2>1, <1>2
  <2>. QED BY <2>1, <2>2, <1>1
<1>10. ASSUME NEW s \in Sources, Join(d, s) PROVE Epochs'
  <2>1. /\ dl'[d].ep = [dl[d].ep EXCEPT ![s] = 0] /\ dl'[d].plE = dl[d].plE
        /\ \A e \in Down \ {d} : dl'[e] = dl[e]
    BY <1>10, JoinIs
  <2>2. \A r \in Sources : dl'[d].ep[r] <= clearSeq
    BY <2>1, <1>2
  <2>. QED BY <2>1, <2>2, <1>1
<1>11. ASSUME NEW s \in Sources, Refused(d, s) PROVE Epochs'
  BY <1>1, <1>11, RefusedIs
<1>. QED BY <1>3, <1>4, <1>5, <1>6, <1>7, <1>8, <1>9, <1>10, <1>11 DEF Download

(* The two counters of a clear: they stay, or take the next number.        *)
LEMMA ClearCounts ==
  ASSUME Types, NEW c \in Clr, Clear(c)
  PROVE  /\ clearSeq' \in {clearSeq, clearSeq + 1} /\ plEpoch' \in {plEpoch, clearSeq'}
         /\ \A s \in Sources : epoch'[s] \in {epoch[s], clearSeq'}
         /\ plEpoch' = plEpoch \/ (plEpoch' = clearSeq' /\ clearSeq' = clearSeq + 1)
<1>1. CASE ClearPlaylist(c)
  BY <1>1 DEF ClearPlaylist, Types
<1>2. ASSUME NEW keys \in SUBSET Sources, NEW pl \in BOOLEAN, Reserve(c, keys, pl)
      PROVE  /\ clearSeq' \in {clearSeq, clearSeq + 1} /\ plEpoch' = plEpoch
             /\ \A s \in Sources : epoch'[s] \in {epoch[s], clearSeq'}
  BY <1>2 DEF Reserve, Types, mem
<1>3. clr[c].keys \in SUBSET Sources
  BY DEF Types, Clears
<1>4. CASE ClearMembers(c)
  BY <1>4, <1>3, <1>2 DEF ClearMembers
<1>5. ASSUME NEW s \in Sources, ClearItem(c, s) PROVE Reserve(c, {s}, FALSE)
  BY <1>5 DEF ClearItem
<1>6. CASE TellCleared(c) \/ GC(c) \/ \E s \in Sources : Delete(c, s)
  BY <1>6 DEF TellCleared, GC, Delete, mem, Types
<1>7. CASE Close(c)
  BY <1>7 DEF Close, Types
<1>. QED BY <1>1, <1>2, <1>4, <1>5, <1>6, <1>7 DEF Clear

LEMMA EpochsClear ==
  ASSUME Types, Epochs, NEW c \in Clr, Clear(c) PROVE Epochs'
<1>1. /\ clearSeq \in Nat /\ plEpoch \in Nat /\ worker.ep \in Nat
      /\ \A s \in Sources : epoch[s] \in Nat
      /\ \A d \in Down : dl[d].plE \in Nat /\ \A s \in Sources : dl[d].ep[s] \in Nat
  BY DEF Types, Workers, Downloads
<1>. QED BY <1>1, ClearCounts, FrameClear DEF Epochs

LEMMA EpochsRest ==
  ASSUME Types, Epochs, Stop \/ Restart \/ Weather PROVE Epochs'
<1>1. CASE Stop \/ Weather
  BY <1>1 DEF Stop, Weather, mem, Epochs
<1>2. CASE Restart
  BY <1>2, NoDownloadIs DEF Restart, Start, Epochs, Idle
<1>. QED BY <1>1, <1>2

(* What the worker holds of an epoch: what it had, nothing, or the present *)
(* one.                                                                    *)
LEMMA WorkerEpoch ==
  ASSUME Types, Work
  PROVE  \/ worker'.ep = worker.ep \/ worker'.ep = 0
         \/ \E s \in Sources : Prepare(s) /\ worker'.ep = epoch[s]
<1>1. worker \in Workers /\ Idle.ep = 0
  BY DEF Types, Idle
<1>2. CASE Dequeue
  BY <1>2 DEF Dequeue, Idle
<1>3. CASE Drain
  BY <1>3 DEF Drain, Idle
<1>4. CASE EnqueueAuto \/ Prune
  BY <1>1, <1>4 DEF EnqueueAuto, Prune
<1>5. CASE Announce \/ Retry \/ Publish \/ Recheck
  BY <1>1, <1>5 DEF Announce, Retry, Publish, Recheck, Workers
<1>6. CASE Captured
  BY <1>1, <1>6 DEF Captured, Workers
<1>7. CASE CaptureFails
  BY <1>1, <1>7 DEF CaptureFails, Workers
<1>8. CASE Report
  BY <1>1, <1>8 DEF Report, Workers
<1>9. CASE Reclaim
  <2>1. worker' = [worker EXCEPT !.pc = "capture", !.asAuto = Speculative] \/ worker' = worker
    BY <1>9 DEF Reclaim
  <2>. QED BY <2>1, <1>1 DEF Workers
<1>10. CASE Enforce
  <2>1. worker' = Idle \/ worker' = worker
    BY <1>10 DEF Enforce
  <2>. QED BY <2>1, <1>1
<1>11. ASSUME NEW s \in Sources, Prepare(s) PROVE worker'.ep = epoch[s]
  BY <1>11 DEF Prepare, Idle
<1>. QED BY <1>2, <1>3, <1>4, <1>5, <1>6, <1>7, <1>8, <1>9, <1>10, <1>11 DEF Work

LEMMA EpochsWork ==
  ASSUME Types, Epochs, Work PROVE Epochs'
BY WorkerEpoch, FrameWork DEF Epochs, Types


-----------------------------------------------------------------------------
(* The bytes of a record, and of the capture under way.                    *)
LEMMA BytesSame ==
  ASSUME Bytes, DOMAIN rec' = DOMAIN rec, blobs' = blobs, \A s \in DOMAIN rec : rec'[s] # "none" => rec[s] # "none",
         worker' = worker /\ captureMu' = captureMu
  PROVE  Bytes'
BY DEF Bytes, BlobsOfRecords, Job_

LEMMA BytesEvict ==
  ASSUME Types, Bytes, NEW s \in Sources, Evict(s), worker' = worker, worker.pc # "capture"
  PROVE  Bytes'
BY DEF Evict, Bytes, BlobsOfRecords, Types

LEMMA BytesDownload ==
  ASSUME Bytes, NEW d \in Down, Download(d) PROVE Bytes'
BY FrameDownload, BytesSame

LEMMA BytesClear ==
  ASSUME Types, Bytes, NEW c \in Clr, Clear(c) PROVE Bytes'
<1>1. CASE ClearPlaylist(c) \/ TellCleared(c) \/ Close(c)
  <2>1. rec' = rec /\ blobs' = blobs
    BY <1>1 DEF ClearPlaylist, TellCleared, Close, disk
  <2>. QED BY <2>1, FrameClear, BytesSame
<1>2. CASE ClearMembers(c) \/ \E s \in Sources : ClearItem(c, s)
  <2>1. rec' = rec /\ blobs' = blobs
    BY <1>2 DEF ClearMembers, ClearItem, disk
  <2>. QED BY <2>1, FrameClear, BytesSame
<1>3. ASSUME NEW s \in Sources, Delete(c, s) PROVE Bytes'
  <2>1. rec' = [rec EXCEPT ![s] = "none"] /\ blobs' = blobs
    BY <1>3 DEF Delete
  <2>2. DOMAIN rec' = DOMAIN rec /\ \A r \in DOMAIN rec : rec'[r] # "none" => rec[r] # "none"
    BY <2>1
  <2>. QED BY <2>1, <2>2, FrameClear, BytesSame
<1>4. CASE GC(c)
  <2>1. rec' = rec /\ blobs' = Referenced /\ worker' = worker /\ ~captureMu
    BY <1>4 DEF GC, GCFenced
  <2>. QED BY <2>1 DEF Bytes, BlobsOfRecords, Referenced
<1>. QED BY <1>1, <1>2, <1>3, <1>4 DEF Clear

LEMMA BytesWork ==
  ASSUME Types, AtStage, Bytes, Work PROVE Bytes'
<1>1. /\ worker \in Workers /\ rec \in [Sources -> Recs] /\ Idle.pc = "idle"
      /\ worker.pc \notin {"idle", "gone"} => Job_.src \in Sources
  BY DEF Types, Idle, AtStage
<1>2. ASSUME UNCHANGED <<rec, blobs, captureMu>>, worker'.pc # "capture" PROVE Bytes'
  BY <1>2 DEF Bytes, BlobsOfRecords
<1>3. CASE Dequeue \/ Drain \/ Announce \/ \E s \in Sources : Prepare(s)
  <2>1. UNCHANGED <<rec, blobs, captureMu>>
    BY <1>3 DEF Dequeue, Drain, Announce, Prepare, disk
  <2>2. worker'.pc # "capture"
    BY <1>1, <1>3 DEF Dequeue, Drain, Announce, Prepare, Workers, Idle
  <2>. QED BY <2>1, <2>2, <1>2
<1>4. CASE Publish \/ Report \/ EnqueueAuto \/ Recheck
  <2>1. UNCHANGED <<rec, blobs, captureMu>>
    BY <1>4 DEF Publish, Report, EnqueueAuto, Recheck, disk
  <2>2. worker'.pc # "capture"
    BY <1>1, <1>4 DEF Publish, Report, EnqueueAuto, Recheck, Workers
  <2>. QED BY <2>1, <2>2, <1>2
<1>5. CASE Reclaim
  <2>1. \/ /\ worker' = [worker EXCEPT !.pc = "capture", !.asAuto = Speculative]
           /\ captureMu' = TRUE /\ blobs' = blobs \cup {Job_.src} /\ rec' = rec
        \/ worker' = worker /\ \E s \in Sources : Evict(s)
    BY <1>5 DEF Reclaim, Victims, Expired
  <2>2. CASE /\ worker' = [worker EXCEPT !.pc = "capture", !.asAuto = Speculative]
             /\ captureMu' = TRUE /\ blobs' = blobs \cup {Job_.src} /\ rec' = rec
    <3>1. worker'.job = worker.job
      BY <2>2, <1>1 DEF Workers
    <3>. QED BY <2>2, <3>1 DEF Bytes, BlobsOfRecords, Job_
  <2>. QED BY <2>1, <2>2, <1>5, BytesEvict DEF Reclaim
<1>6. CASE Retry
  <2>1. rec' = rec /\ blobs' = blobs /\ worker'.pc # "capture"
    BY <1>1, <1>6 DEF Retry, disk, Workers
  <2>. QED BY <2>1 DEF Bytes, BlobsOfRecords
<1>10. CASE CaptureFails
  <2>1. /\ rec' = rec \/ \E r \in {"auto", "expired"} : rec' = [rec EXCEPT ![Job_.src] = r]
        /\ blobs' = blobs /\ worker'.pc # "capture" /\ Job_.src \in blobs
    BY <1>1, <1>10 DEF CaptureFails, Workers, Bytes
  <2>. QED BY <2>1, <1>1 DEF Bytes, BlobsOfRecords
<1>7. CASE Captured
  <2>1. /\ rec' = [rec EXCEPT ![Job_.src] = Kept] /\ blobs' = blobs /\ worker'.pc = "publish"
        /\ Job_.src \in blobs
    BY <1>1, <1>7 DEF Captured, Workers, Bytes
  <2>. QED BY <2>1, <1>1 DEF Bytes, BlobsOfRecords
<1>8. CASE Enforce
  <2>1. (worker' = Idle /\ rec' = rec /\ blobs' = blobs) \/ (worker' = worker /\ \E s \in Sources : Evict(s))
    BY <1>1, <1>8 DEF Enforce, Victims, Expired, disk
  <2>2. CASE worker' = Idle /\ rec' = rec /\ blobs' = blobs
    BY <2>2, <1>1 DEF Bytes, BlobsOfRecords
  <2>. QED BY <2>1, <2>2, <1>8, BytesEvict DEF Enforce
<1>9. CASE Prune
  BY <1>1, <1>9, BytesEvict DEF Prune, Expired
<1>. QED BY <1>3, <1>4, <1>5, <1>6, <1>7, <1>8, <1>9, <1>10 DEF Work

LEMMA BytesRest ==
  ASSUME Types, Bytes, Stop \/ Restart \/ Weather PROVE Bytes'
<1>1. CASE Stop
  BY <1>1, BytesSame DEF Stop, disk
<1>2. CASE Weather
  <2>1. blobs' = blobs /\ worker' = worker /\ captureMu' = captureMu
    BY <1>2 DEF Weather
  <2>2. DOMAIN rec' = DOMAIN rec /\ \A s \in DOMAIN rec : rec'[s] # "none" => rec[s] # "none"
    BY <1>2 DEF Weather, World, Types
  <2>. QED BY <2>1, <2>2, BytesSame
<1>3. CASE Restart
  BY <1>3 DEF Restart, Start, Bytes, BlobsOfRecords, Idle
<1>. QED BY <1>1, <1>2, <1>3

-----------------------------------------------------------------------------
(* What each step of a clear makes of it.                                  *)
LEMMA ClearPlaylistIs ==
  ASSUME Types, NEW c \in Clr, ClearPlaylist(c)
  PROVE  /\ clr[c] = NoClear /\ (clr'[c] = NoClear \/ clr'[c] = AClear(plrec, TRUE, "reserve"))
         /\ \A e \in Clr \ {c} : clr'[e] = clr[e]
BY DEF ClearPlaylist, Types

ReservedAs(c, keys) ==
  /\ ~Busy(keys)
  /\ clr'[c].pc = "delete" /\ clr'[c].tell = {} /\ clr'[c].keys = keys
  /\ clr'[c].wait = Untold(keys) /\ clr'[c].settled = {s \in keys : state[s] # "none"}

LEMMA ReserveIs ==
  ASSUME Types, NEW c \in Clr, NEW keys \in SUBSET Sources, NEW pl \in BOOLEAN, Reserve(c, keys, pl)
  PROVE  /\ \A e \in Clr \ {c} : clr'[e] = clr[e]
         /\ (clr'[c] = NoClear /\ UNCHANGED <<state, queue, epoch, clearSeq, owed, promised, started>>) \/ ReservedAs(c, keys)
<1>1. CASE Busy(keys)
  BY <1>1 DEF Reserve, Types, mem
<1>2. CASE ~Busy(keys)
  <2>. DEFINE x == [AClear(keys, pl, "delete") EXCEPT !.wait = Untold(keys), !.settled = {s \in keys : state[s] # "none"}]
  <2>1. clr' = [clr EXCEPT ![c] = x]
    BY <1>2 DEF Reserve
  <2>2. x.pc = "delete" /\ x.tell = {} /\ x.keys = keys /\ x.wait = Untold(keys) /\ x.settled = {s \in keys : state[s] # "none"}
    BY DEF AClear
  <2>. HIDE DEF x
  <2>. QED BY <2>1, <2>2, <1>2 DEF Types, ReservedAs
<1>. QED BY <1>1, <1>2

LEMMA DeleteIs ==
  ASSUME Types, NEW c \in Clr, NEW s \in Sources, Delete(c, s)
  PROVE  /\ \A e \in Clr \ {c} : clr'[e] = clr[e]
         /\ clr[c].pc = "delete" /\ clr[c].tell = {} /\ s \in clr[c].keys
         /\ clr'[c].pc = "delete" /\ clr'[c].keys = clr[c].keys \ {s} /\ clr'[c].settled = clr[c].settled
         /\ clr'[c].wait = clr[c].wait
         /\ clr'[c].tell \subseteq {s} /\ (s \in clr[c].settled => clr'[c].tell = {s})
<1>. DEFINE told2 == IF rec[s] # "none" \/ s \in clr[c].settled THEN {s} ELSE {}
            x == [clr[c] EXCEPT !.keys = @ \ {s}, !.gone = @ \/ rec[s] # "none", !.tell = told2]
<1>1. clr[c] \in Clears
  BY DEF Types
<1>2. clr' = [clr EXCEPT ![c] = x]
  BY DEF Delete, Types
<1>3. clr'[c] = x /\ \A e \in Clr \ {c} : clr'[e] = clr[e]
  BY <1>2 DEF Types
<1>4. told2 \subseteq {s} /\ (s \in clr[c].settled => told2 = {s})
  OBVIOUS
<1>. HIDE DEF told2
<1>5. /\ x.pc = clr[c].pc /\ x.keys = clr[c].keys \ {s} /\ x.settled = clr[c].settled
      /\ x.wait = clr[c].wait /\ x.tell = told2
  BY <1>1 DEF Clears
<1>6. clr[c].pc = "delete" /\ clr[c].tell = {} /\ s \in clr[c].keys
  BY DEF Delete, Clearing
<1>. QED BY <1>3, <1>4, <1>5, <1>6

LEMMA TellClearedIs ==
  ASSUME Types, NEW c \in Clr, TellCleared(c)
  PROVE  /\ \A e \in Clr \ {c} : clr'[e] = clr[e]
         /\ clr[c].pc = "delete" /\ clr[c].wait = {}
         /\ clr'[c].pc = "delete" /\ clr'[c].keys = clr[c].keys /\ clr'[c].settled = clr[c].settled
         /\ clr'[c].wait = clr[c].wait /\ clr'[c].tell = {}
<1>1. clr[c] \in Clears /\ clr[c].pc = "delete" /\ clr[c].wait = {}
  BY DEF Types, TellCleared, Clearing
<1>2. clr' = [clr EXCEPT ![c] = [clr[c] EXCEPT !.tell = {}]]
  BY DEF TellCleared, Types
<1>3. clr'[c] = [clr[c] EXCEPT !.tell = {}] /\ \A e \in Clr \ {c} : clr'[e] = clr[e]
  BY <1>2 DEF Types
<1>. QED BY <1>1, <1>3 DEF Clears

LEMMA CloseIs ==
  ASSUME Types, NEW c \in Clr, Close(c) \/ GC(c)
  PROVE  /\ \A e \in Clr \ {c} : clr'[e] = clr[e]
         /\ clr'[c].tell \cup (clr'[c].keys \cap clr'[c].settled) = {}
         /\ clr'[c].pc \in {"idle", "gc"}
         /\ GC(c) => clr[c].pc = "gc"
         /\ Close(c) => clr[c].tell = {} /\ clr[c].keys = {}
<1>1. clr[c] \in Clears /\ NoClear.tell = {} /\ NoClear.keys = {} /\ NoClear.pc = "idle"
  BY DEF Types, NoClear, AClear
<1>2. (GC(c) => clr[c].pc = "gc") /\ (Close(c) => clr[c].tell = {} /\ clr[c].keys = {})
  BY DEF GC, Close, Clearing
<1>3. (clr' = [clr EXCEPT ![c] = [clr[c] EXCEPT !.pc = "gc"]] /\ Close(c)) \/ clr' = [clr EXCEPT ![c] = NoClear]
  BY DEF Close, GC, Types
<1>4. CASE clr' = [clr EXCEPT ![c] = [clr[c] EXCEPT !.pc = "gc"]] /\ Close(c)
  <2>1. clr'[c] = [clr[c] EXCEPT !.pc = "gc"] /\ \A e \in Clr \ {c} : clr'[e] = clr[e]
    BY <1>4 DEF Types
  <2>. QED BY <1>1, <1>2, <1>4, <2>1 DEF Clears
<1>5. CASE clr' = [clr EXCEPT ![c] = NoClear]
  <2>1. clr'[c] = NoClear /\ \A e \in Clr \ {c} : clr'[e] = clr[e]
    BY <1>5 DEF Types
  <2>. QED BY <1>1, <1>2, <2>1
<1>. QED BY <1>3, <1>4, <1>5


-----------------------------------------------------------------------------
(* The sources of a download go from todo to asked to left, one place at a *)
(* time; a clear has something to tell only while it deletes.              *)
LEMMA DownStageDownload ==
  ASSUME Types, Stages, NEW d \in Down, Download(d) PROVE DownStages'
<1>1. ASSUME DownStage(d)', \A e \in Down \ {d} : dl'[e] = dl[e]
      PROVE  DownStages'
  BY <1>1 DEF Stages, DownStages, DownStage
<1>2. DownStage(d)
  BY DEF Stages, DownStages
<1>. USE DEF DownStage
<1>3. CASE Begin(d)
  <2>1. dl'[d].asked = {} /\ dl'[d].left = {} /\ dl'[d].pc = "probe" /\ \A e \in Down \ {d} : dl'[e] = dl[e]
    BY <1>3, BeginIs
  <2>. QED BY <1>1, <2>1
<1>4. CASE SavePlaylist(d)
  BY <1>1, <1>2, <1>4, SavePlaylistIs, NoDownloadIs
<1>5. CASE TellQueued(d)
  <2>1. dl[d].pc = "tell"
    BY <1>5 DEF TellQueued
  <2>. QED BY <1>1, <1>2, <1>5, <2>1, TellQueuedIs
<1>6. CASE Done(d)
  BY <1>1, <1>6, DoneIs, NoDownloadIs
<1>7. ASSUME NEW s \in Sources, Sample(d, s) PROVE DownStages'
  <2>1. dl[d].pc = "probe" /\ s \in dl[d].todo
    BY <1>7 DEF Sample
  <2>2. /\ dl'[d].pc = dl[d].pc /\ dl'[d].todo = dl[d].todo \ {s} /\ dl'[d].asked = dl[d].asked \cup {s}
        /\ dl'[d].left = dl[d].left /\ \A e \in Down \ {d} : dl'[e] = dl[e]
    BY <1>7, SampleIs
  <2>3. DownStage(d)'
    BY <2>1, <2>2, <1>2
  <2>. QED BY <2>2, <2>3, <1>1
<1>8. ASSUME NEW s \in Sources, \E ok \in Answers : Classified(d, s, ok) PROVE DownStages'
  <2>1. /\ dl'[d].pc = dl[d].pc /\ dl'[d].todo = dl[d].todo /\ dl'[d].asked = dl[d].asked \ {s}
        /\ dl'[d].left = dl[d].left \cup {s} \/ dl'[d].left = dl[d].left
        /\ \A e \in Down \ {d} : dl'[e] = dl[e]
        /\ dl[d].pc = "probe" /\ s \in dl[d].asked
    BY <1>8, ClassifiedIs
  <2>2. DownStage(d)'
    BY <2>1, <1>2
  <2>. QED BY <2>1, <2>2, <1>1
<1>9. ASSUME NEW s \in Sources, Enqueue(d, s) PROVE DownStages'
  <2>1. dl[d].pc = "enqueue" /\ s \in dl[d].left
    BY <1>9 DEF Enqueue
  <2>. QED BY <1>1, <1>2, <1>9, <2>1, EnqueueIs
<1>10. ASSUME NEW s \in Sources, Join(d, s) PROVE DownStages'
  BY <1>1, <1>2, <1>10, JoinIs
<1>11. ASSUME NEW s \in Sources, Refused(d, s) PROVE DownStages'
  BY <1>1, <1>2, <1>11, RefusedIs
<1>. QED BY <1>3, <1>4, <1>5, <1>6, <1>7, <1>8, <1>9, <1>10, <1>11 DEF Download

(* A download does to the clears only what TellQueued does.                *)
LEMMA FrameClrDownload ==
  ASSUME Types, NEW d \in Down, Download(d)
  PROVE  clr' = clr \/ (TellQueued(d) /\ \A c \in Clr :
           /\ clr'[c].pc = clr[c].pc /\ clr'[c].tell = clr[c].tell /\ clr'[c].keys = clr[c].keys
           /\ clr'[c].settled = clr[c].settled /\ clr'[c].wait = clr[c].wait \ {d})
<1>1. CASE TellQueued(d)
  <2>1. clr' = [c \in Clr |-> [clr[c] EXCEPT !.wait = @ \ {d}]]
    BY <1>1 DEF TellQueued
  <2>2. ASSUME NEW c \in Clr
        PROVE  /\ clr'[c].pc = clr[c].pc /\ clr'[c].tell = clr[c].tell /\ clr'[c].keys = clr[c].keys
               /\ clr'[c].settled = clr[c].settled /\ clr'[c].wait = clr[c].wait \ {d}
    BY <2>1 DEF Types, Clears
  <2>. QED BY <1>1, <2>2
<1>2. CASE Begin(d) \/ SavePlaylist(d) \/ Done(d)
  BY <1>2 DEF Begin, SavePlaylist, Done
<1>3. ASSUME NEW s \in Sources, Sample(d, s) \/ Enqueue(d, s) \/ Join(d, s) \/ Refused(d, s) \/ \E ok \in Answers : Classified(d, s, ok)
      PROVE  clr' = clr
  BY <1>3 DEF Sample, Enqueue, Join, Refused, Classified
<1>. QED BY <1>1, <1>2, <1>3 DEF Download

LEMMA StagesDownload ==
  ASSUME Types, Stages, NEW d \in Down, Download(d) PROVE Stages'
<1>1. ClrStages'
  BY FrameClrDownload DEF Stages, ClrStages, ClrStage, TellsOf
<1>. QED BY <1>1, DownStageDownload DEF Stages

LEMMA StagesClear ==
  ASSUME Types, Stages, NEW c \in Clr, Clear(c) PROVE Stages'
<1>1. ASSUME clr'[c].pc # "delete" => clr'[c].tell \cup (clr'[c].keys \cap clr'[c].settled) = {},
             \A s, t \in clr'[c].tell : s = t, \A e \in Clr \ {c} : clr'[e] = clr[e]
      PROVE  Stages'
  <2>1. DownStages'
    BY FrameClear DEF Stages, DownStages, DownStage
  <2>. QED BY <1>1, <2>1 DEF Stages, ClrStages, ClrStage, TellsOf
<1>2. /\ clr[c].keys \in SUBSET Sources
      /\ \A s, t \in clr[c].tell : s = t
      /\ NoClear.tell = {} /\ NoClear.settled = {} /\ NoClear.pc = "idle"
  BY DEF Types, Clears, NoClear, AClear, Stages, ClrStages, ClrStage
<1>3. CASE ClearPlaylist(c)
  <2>1. AClear(plrec, TRUE, "reserve").tell = {} /\ AClear(plrec, TRUE, "reserve").settled = {}
    BY DEF AClear
  <2>2. clr'[c].tell = {} /\ clr'[c].settled = {} /\ \A e \in Clr \ {c} : clr'[e] = clr[e]
    BY <1>2, <1>3, <2>1, ClearPlaylistIs
  <2>. QED BY <1>1, <2>2
<1>4. ASSUME NEW keys \in SUBSET Sources, NEW pl \in BOOLEAN, Reserve(c, keys, pl) PROVE Stages'
  <2>1. /\ clr'[c].tell = {} /\ \A e \in Clr \ {c} : clr'[e] = clr[e]
        /\ clr'[c].settled = {} \/ clr'[c].pc = "delete"
    <3>1. (clr'[c] = NoClear /\ UNCHANGED <<state, queue, epoch, clearSeq, owed, promised, started>>) \/ ReservedAs(c, keys)
      BY <1>4, ReserveIs
    <3>2. \A e \in Clr \ {c} : clr'[e] = clr[e]
      BY <1>4, ReserveIs
    <3>. QED BY <3>1, <3>2, <1>2 DEF ReservedAs
  <2>. QED BY <1>1, <2>1
<1>5. ASSUME NEW pl \in BOOLEAN, Reserve(c, clr[c].keys, pl) PROVE Stages'
  BY <1>5, <1>2, <1>4
<1>6. CASE ClearMembers(c)
  BY <1>5, <1>6 DEF ClearMembers
<1>7. ASSUME NEW s \in Sources, ClearItem(c, s) PROVE Stages'
  <2>1. Reserve(c, {s}, FALSE)
    BY <1>7 DEF ClearItem
  <2>. QED BY <2>1, <1>4
<1>8. ASSUME NEW s \in Sources, Delete(c, s) PROVE Stages'
  <2>1. clr'[c].pc = "delete" /\ clr'[c].tell \subseteq {s} /\ \A e \in Clr \ {c} : clr'[e] = clr[e]
    BY <1>8, DeleteIs
  <2>. QED BY <1>1, <2>1
<1>9. CASE TellCleared(c)
  <2>1. clr'[c].pc = "delete" /\ clr'[c].tell = {} /\ \A e \in Clr \ {c} : clr'[e] = clr[e]
    BY <1>9, TellClearedIs
  <2>. QED BY <1>1, <2>1
<1>10. CASE Close(c) \/ GC(c)
  <2>1. clr'[c].tell \cup (clr'[c].keys \cap clr'[c].settled) = {} /\ \A e \in Clr \ {c} : clr'[e] = clr[e]
    BY <1>10, CloseIs
  <2>2. clr'[c].tell = {}
    BY <2>1
  <2>. QED BY <1>1, <2>1, <2>2
<1>. QED BY <1>3, <1>6, <1>7, <1>8, <1>9, <1>10 DEF Clear

LEMMA StagesRest ==
  ASSUME Types, Stages, Work \/ Stop \/ Restart \/ Weather PROVE Stages'
<1>1. CASE Work
  BY <1>1, FrameWork DEF Stages, DownStages, DownStage, ClrStages, ClrStage, TellsOf
<1>2. CASE Stop \/ Weather
  BY <1>2 DEF Stop, Weather, Stages, DownStages, DownStage, ClrStages, ClrStage, TellsOf
<1>3. CASE Restart
  <2>1. \A d \in Down : dl'[d] = NoDownload
    BY <1>3 DEF Restart, Start
  <2>2. \A c \in Clr : clr'[c] = NoClear
    BY <1>3 DEF Restart, Start
  <2>3. NoClear.tell = {} /\ NoClear.settled = {}
    BY DEF NoClear, AClear
  <2>. QED BY <2>1, <2>2, <2>3, NoDownloadIs DEF Stages, DownStages, DownStage, ClrStages, ClrStage, TellsOf
<1>. QED BY <1>1, <1>2, <1>3


-----------------------------------------------------------------------------
(* The list on screen: a clear moves the epoch of a source beyond the      *)
(* barrier, and only another list moves the barrier.                       *)
LEMMA SessionsDownload ==
  ASSUME Types, Sessions, NEW d \in Down, Download(d) PROVE Sessions'
<1>1. epoch' = epoch /\ clearSeq' = clearSeq
  BY FrameDownload
<1>2. playing' = playing /\ barrier' = barrier /\ \A s \in Sources : owed'[s] # "no" => owed[s] # "no"
  <2>1. CASE Begin(d) \/ SavePlaylist(d) \/ TellQueued(d) \/ Done(d)
    BY <2>1 DEF Begin, SavePlaylist, TellQueued, Done, env
  <2>2. ASSUME NEW s \in Sources, Sample(d, s)
        PROVE  playing' = playing /\ barrier' = barrier /\ \A r \in Sources : owed'[r] # "no" => owed[r] # "no"
    BY <2>2 DEF Sample, env, Types
  <2>3. ASSUME NEW s \in Sources, Enqueue(d, s) \/ Join(d, s) \/ Refused(d, s) \/ \E a \in Answers : Classified(d, s, a)
        PROVE  playing' = playing /\ barrier' = barrier /\ owed' = owed
    BY <2>3 DEF Enqueue, Join, Refused, Classified, env
  <2>. QED BY <2>1, <2>2, <2>3 DEF Download
<1>. QED BY <1>1, <1>2 DEF Sessions, ClearedSinceBarrier, Types

LEMMA SessionsClear ==
  ASSUME Types, Sessions, NEW c \in Clr, Clear(c) PROVE Sessions'
<1>1. ASSUME NEW keys \in SUBSET Sources, NEW pl \in BOOLEAN, Reserve(c, keys, pl), UNCHANGED env
      PROVE  Sessions'
  <2>1. playing' = playing /\ barrier' = barrier
    BY <1>1 DEF env
  <2>2. CASE Busy(keys)
    BY <1>1, <2>1, <2>2 DEF Reserve, mem, Sessions, ClearedSinceBarrier
  <2>3. CASE ~Busy(keys)
    <3>1. /\ clearSeq' = clearSeq + 1
          /\ epoch' = [s \in Sources |-> IF s \in keys THEN clearSeq' ELSE epoch[s]]
          /\ owed' = [s \in Sources |-> IF s \in keys THEN "clearing" ELSE owed[s]]
      BY <1>1, <2>3 DEF Reserve
    <3>. QED BY <2>1, <3>1 DEF Sessions, ClearedSinceBarrier, Types
  <2>. QED BY <2>2, <2>3
<1>2. CASE ClearPlaylist(c) \/ TellCleared(c) \/ Close(c) \/ GC(c)
  <2>1. playing' = playing /\ barrier' = barrier /\ epoch' = epoch /\ owed' = owed /\ clearSeq' \in {clearSeq, clearSeq + 1}
    BY <1>2 DEF ClearPlaylist, TellCleared, Close, GC, env, mem
  <2>. QED BY <2>1 DEF Sessions, ClearedSinceBarrier, Types
<1>3. CASE ClearMembers(c)
  <2>1. clr[c].keys \in SUBSET Sources
    BY DEF Types, Clears
  <2>. QED BY <1>1, <1>3, <2>1 DEF ClearMembers
<1>4. ASSUME NEW s \in Sources, ClearItem(c, s) PROVE Sessions'
  BY <1>1, <1>4 DEF ClearItem
<1>5. ASSUME NEW s \in Sources, Delete(c, s) PROVE Sessions'
  <2>1. /\ playing' = playing /\ barrier' = barrier /\ epoch' = epoch /\ clearSeq' = clearSeq
        /\ \A r \in Sources : owed'[r] # "no" => owed[r] # "no"
    BY <1>5 DEF Delete, env, mem, Types
  <2>. QED BY <2>1 DEF Sessions, ClearedSinceBarrier, Types
<1>. QED BY <1>2, <1>3, <1>4, <1>5 DEF Clear

LEMMA SessionsWork ==
  ASSUME Sessions, Work PROVE Sessions'
BY FrameWork DEF Sessions, ClearedSinceBarrier

LEMMA SessionsRest ==
  ASSUME Types, Sessions, Stop \/ Restart \/ Weather PROVE Sessions'
<1>1. CASE Stop
  BY <1>1 DEF Stop, env, Sessions, ClearedSinceBarrier
<1>2. CASE Weather
  <2>1. clearSeq' = clearSeq /\ epoch' = epoch /\ clearSeq \in Nat
    BY <1>2 DEF Weather, mem, Types
  <2>2. CASE playing' = playing /\ barrier' = barrier /\ owed' = owed
    BY <2>1, <2>2 DEF Sessions, ClearedSinceBarrier
  <2>3. CASE barrier' = clearSeq /\ owed' = [s \in Sources |-> IF s \in playing' THEN "no" ELSE owed[s]] /\ playing' \subseteq Sources
    BY <2>1, <2>3 DEF Sessions
  <2>. QED BY <1>2, <2>2, <2>3 DEF Weather, World, Observe, env
<1>3. CASE Restart
  BY <1>3 DEF Restart, Start, Sessions
<1>. QED BY <1>1, <1>2, <1>3

-----------------------------------------------------------------------------
(* A source whose clear was promised: every epoch held for it is stale, so *)
(* nothing commits on it.                                                  *)
LEMMA FrameDownloadRest ==
  ASSUME NEW d \in Down, Download(d)
  PROVE  /\ owed' = owed \/ \E s \in Sources : Sample(d, s)
         /\ plOwed' = plOwed \/ Begin(d)
         /\ plrec' = plrec \/ SavePlaylist(d)
         /\ told' = told \/ TellQueued(d)
         /\ promised' = promised \/ \E s \in Sources : Enqueue(d, s) \/ Join(d, s)
         /\ intent' = intent \/ \E s \in Sources : Join(d, s)
<1>1. CASE Begin(d) \/ SavePlaylist(d) \/ TellQueued(d) \/ Done(d)
  BY <1>1 DEF Begin, SavePlaylist, TellQueued, Done, disk, mem
<1>2. ASSUME NEW s \in Sources, Enqueue(d, s) \/ Join(d, s)
      PROVE  owed' = owed /\ plOwed' = plOwed /\ plrec' = plrec /\ told' = told /\ (intent' = intent \/ Join(d, s))
  BY <1>2 DEF Enqueue, Join, disk
<1>3. ASSUME NEW s \in Sources, Sample(d, s) \/ Refused(d, s) \/ \E ok \in Answers : Classified(d, s, ok)
      PROVE  /\ plOwed' = plOwed /\ plrec' = plrec /\ told' = told /\ promised' = promised /\ intent' = intent
             /\ owed' = owed \/ Sample(d, s)
  BY <1>3 DEF Sample, Refused, Classified, disk, mem
<1>. QED BY <1>1, <1>2, <1>3 DEF Download

LEMMA ItemsClearedDownload ==
  ASSUME Types, Stages, ItemsCleared, NEW d \in Down, Download(d) PROVE ItemsCleared'
<1>1. ASSUME \A e \in Down \ {d} : dl'[e] = dl[e],
             \A r \in Sources : owed'[r] # "no" =>
               /\ owed'[r] = owed[r] /\ state'[r] = state[r]
               /\ r \in dl'[d].asked \cup dl'[d].left => r \in dl[d].asked \cup dl[d].left /\ dl'[d].ep[r] = dl[d].ep[r]
      PROVE  ItemsCleared'
  <2>1. SUFFICES ASSUME NEW r \in Sources, owed'[r] # "no" PROVE Unrevived(r)'
    BY DEF ItemsCleared
  <2>2. owed'[r] = owed[r] /\ state'[r] = state[r] /\ Unrevived(r)
    BY <1>1, <2>1 DEF ItemsCleared
  <2>3. /\ rec' = rec /\ worker' = worker /\ epoch' = epoch
    BY FrameDownload
  <2>4. \A e \in Down : r \in dl'[e].asked \cup dl'[e].left => dl'[e].ep[r] # epoch[r]
    BY <1>1, <2>1, <2>2 DEF Unrevived
  <2>. QED BY <2>2, <2>3, <2>4 DEF Unrevived, Job_
<1>2. DownStage(d) /\ dl[d].ep \in [Sources -> Nat] /\ owed \in [Sources -> {"no", "clearing", "yes"}]
  BY DEF Stages, DownStages, Types, Downloads
<1>3. CASE Begin(d)
  <2>1. owed' = owed /\ state' = state
    BY <1>3 DEF Begin, mem
  <2>. QED BY <1>1, <1>3, <2>1, BeginIs
<1>4. CASE SavePlaylist(d)
  <2>1. owed' = owed /\ state' = state
    BY <1>4 DEF SavePlaylist, mem
  <2>. QED BY <1>1, <1>4, <2>1, SavePlaylistIs, NoDownloadIs
<1>5. CASE TellQueued(d)
  <2>1. owed' = owed /\ state' = state
    BY <1>5 DEF TellQueued, mem
  <2>. QED BY <1>1, <1>5, <2>1, TellQueuedIs
<1>6. CASE Done(d)
  <2>1. owed' = owed /\ state' = state
    BY <1>6 DEF Done, mem
  <2>. QED BY <1>1, <1>6, <2>1, DoneIs, NoDownloadIs
<1>7. ASSUME NEW s \in Sources, Sample(d, s) PROVE ItemsCleared'
  <2>1. owed' = [owed EXCEPT ![s] = "no"] /\ state' = state
    BY <1>7 DEF Sample, mem
  <2>2. \A r \in Sources : owed'[r] # "no" => r # s /\ owed'[r] = owed[r]
    BY <2>1, <1>2
  <2>3. /\ dl'[d].asked = dl[d].asked \cup {s} /\ dl'[d].left = dl[d].left
        /\ dl'[d].ep = [dl[d].ep EXCEPT ![s] = epoch[s]]
        /\ \A e \in Down \ {d} : dl'[e] = dl[e]
    BY <1>7, SampleIs
  <2>4. \A r \in Sources : r # s => dl'[d].ep[r] = dl[d].ep[r]
    BY <2>3, <1>2
  <2>. QED BY <1>1, <2>1, <2>2, <2>3, <2>4
<1>8. ASSUME NEW s \in Sources, \E ok \in Answers : Classified(d, s, ok) PROVE ItemsCleared'
  <2>1. owed' = owed /\ state' = state
    BY <1>8 DEF Classified, mem
  <2>2. /\ dl'[d].asked = dl[d].asked \ {s}
        /\ \/ dl'[d].left = dl[d].left \cup {s} /\ dl'[d].ep = dl[d].ep
           \/ dl'[d].left = dl[d].left /\ dl'[d].ep = [dl[d].ep EXCEPT ![s] = 0]
        /\ \A e \in Down \ {d} : dl'[e] = dl[e] 
        /\ s \in dl[d].asked /\ s \notin dl[d].left
    BY <1>8, <1>2, ClassifiedIs DEF DownStage
  <2>3. CASE dl'[d].left = dl[d].left \cup {s} /\ dl'[d].ep = dl[d].ep
    BY <2>1, <2>2, <2>3, <1>1
  <2>4. CASE dl'[d].left = dl[d].left /\ dl'[d].ep = [dl[d].ep EXCEPT ![s] = 0]
    <3>1. \A r \in Sources : r # s => dl'[d].ep[r] = dl[d].ep[r]
      BY <2>4, <1>2
    <3>2. s \notin dl'[d].asked \cup dl'[d].left
      BY <2>2, <2>4
    <3>. QED BY <2>1, <2>2, <2>4, <3>1, <3>2, <1>1
  <2>. QED BY <2>2, <2>3, <2>4
<1>9. ASSUME NEW s \in Sources, Enqueue(d, s) PROVE ItemsCleared'
  <2>1. owed' = owed /\ state' = [state EXCEPT ![s] = "queued"] /\ epoch[s] = dl[d].ep[s] /\ s \in dl[d].left
    BY <1>9 DEF Enqueue, Push, Commits, Unchallenged
  <2>2. owed[s] = "no"
    BY <2>1 DEF ItemsCleared, Unrevived
  <2>3. \A r \in Sources : owed'[r] # "no" => r # s /\ state'[r] = state[r]
    BY <2>1, <2>2 DEF Types
  <2>4. /\ dl'[d].asked = dl[d].asked /\ dl'[d].left = dl[d].left \ {s}
        /\ dl'[d].ep = [dl[d].ep EXCEPT ![s] = 0]
        /\ \A e \in Down \ {d} : dl'[e] = dl[e]
    BY <1>9, EnqueueIs
  <2>5. \A r \in Sources : r # s => dl'[d].ep[r] = dl[d].ep[r]
    BY <2>4, <1>2
  <2>. QED BY <1>1, <2>1, <2>3, <2>4, <2>5
<1>10. ASSUME NEW s \in Sources, Join(d, s) PROVE ItemsCleared'
  <2>1. owed' = owed /\ state' = state /\ s \in dl[d].left /\ s \notin dl[d].asked
    BY <1>10, <1>2 DEF Join, DownStage
  <2>2. /\ dl'[d].asked = dl[d].asked /\ dl'[d].left = dl[d].left \ {s}
        /\ dl'[d].ep = [dl[d].ep EXCEPT ![s] = 0]
        /\ \A e \in Down \ {d} : dl'[e] = dl[e]
    BY <1>10, JoinIs
  <2>3. \A r \in Sources : r # s => dl'[d].ep[r] = dl[d].ep[r]
    BY <2>2, <1>2
  <2>. QED BY <1>1, <2>1, <2>2, <2>3
<1>11. ASSUME NEW s \in Sources, Refused(d, s) PROVE ItemsCleared'
  <2>1. owed' = owed /\ state' = state
    BY <1>11 DEF Refused, mem
  <2>. QED BY <1>1, <1>11, <2>1, RefusedIs
<1>. QED BY <1>3, <1>4, <1>5, <1>6, <1>7, <1>8, <1>9, <1>10, <1>11 DEF Download

LEMMA PlaylistClearedDownload ==
  ASSUME Types, PlaylistCleared, NEW d \in Down, Download(d) PROVE PlaylistCleared'
<1>1. ASSUME \A e \in Down \ {d} : dl'[e] = dl[e], plOwed' => plOwed /\ plrec' = plrec,
             dl'[d].pc = "probe" => dl[d].pc = "probe" /\ dl'[d].pl = dl[d].pl /\ dl'[d].plE = dl[d].plE
      PROVE  PlaylistCleared'
  BY <1>1, FrameDownload DEF PlaylistCleared
<1>2. CASE Begin(d)
  <2>1. plrec' = plrec /\ plEpoch' = plEpoch /\ (plOwed' => plOwed /\ ~dl'[d].pl)
    BY <1>2 DEF Begin, disk, mem
  <2>. QED BY <1>2, <2>1, BeginIs DEF PlaylistCleared
<1>3. ASSUME ~Begin(d), ~SavePlaylist(d) PROVE plOwed' = plOwed /\ plrec' = plrec
  BY <1>3, FrameDownloadRest
<1>4. CASE SavePlaylist(d)
  <2>1. plOwed' = plOwed
    BY <1>4 DEF SavePlaylist
  <2>2. plOwed' => plrec' = plrec
    BY <1>4, <2>1, SavePlaylistIs DEF PlaylistCleared
  <2>. QED BY <1>1, <1>4, <2>1, <2>2, SavePlaylistIs, NoDownloadIs
<1>5. CASE TellQueued(d)
  <2>1. plOwed' = plOwed /\ plrec' = plrec
    BY <1>5 DEF TellQueued, disk
  <2>. QED BY <1>1, <1>5, <2>1, TellQueuedIs
<1>6. CASE Done(d)
  <2>1. plOwed' = plOwed /\ plrec' = plrec
    BY <1>6 DEF Done, disk
  <2>. QED BY <1>1, <1>6, <2>1, DoneIs, NoDownloadIs
<1>7. ASSUME NEW s \in Sources, Sample(d, s) PROVE PlaylistCleared'
  <2>1. plOwed' = plOwed /\ plrec' = plrec
    BY <1>7 DEF Sample, disk
  <2>. QED BY <1>1, <1>7, <2>1, SampleIs
<1>8. ASSUME NEW s \in Sources, \E ok \in Answers : Classified(d, s, ok) PROVE PlaylistCleared'
  <2>1. plOwed' = plOwed /\ plrec' = plrec
    BY <1>8 DEF Classified, disk
  <2>. QED BY <1>1, <1>8, <2>1, ClassifiedIs
<1>9. ASSUME NEW s \in Sources, Enqueue(d, s) PROVE PlaylistCleared'
  <2>1. plOwed' = plOwed /\ plrec' = plrec
    BY <1>9 DEF Enqueue, disk
  <2>. QED BY <1>1, <1>9, <2>1, EnqueueIs
<1>10. ASSUME NEW s \in Sources, Join(d, s) PROVE PlaylistCleared'
  <2>1. plOwed' = plOwed /\ plrec' = plrec
    BY <1>10 DEF Join, disk
  <2>. QED BY <1>1, <1>10, <2>1, JoinIs
<1>11. ASSUME NEW s \in Sources, Refused(d, s) PROVE PlaylistCleared'
  <2>1. plOwed' = plOwed /\ plrec' = plrec
    BY <1>11 DEF Refused, disk
  <2>. QED BY <1>1, <1>11, <2>1, RefusedIs
<1>. QED BY <1>2, <1>4, <1>5, <1>6, <1>7, <1>8, <1>9, <1>10, <1>11 DEF Download

LEMMA ClearedClear ==
  ASSUME Types, Epochs, Cleared, NEW c \in Clr, Clear(c) PROVE Cleared'
<1>1. /\ clearSeq \in Nat /\ plEpoch \in Nat /\ worker.ep \in Nat /\ plEpoch <= clearSeq /\ worker.ep <= clearSeq
      /\ \A s \in Sources : epoch[s] \in Nat /\ epoch[s] <= clearSeq
      /\ \A d \in Down : /\ dl[d].plE \in Nat /\ dl[d].plE <= clearSeq
                         /\ \A s \in Sources : dl[d].ep[s] \in Nat /\ dl[d].ep[s] <= clearSeq
  BY DEF Types, Workers, Downloads, Epochs
<1>2. worker' = worker /\ dl' = dl
  BY FrameClear
<1>3. ASSUME owed' = owed, state' = state, rec' = rec, epoch' = epoch PROVE ItemsCleared'
  BY <1>2, <1>3 DEF Cleared, ItemsCleared, Unrevived, Job_
<1>4. ASSUME plOwed' = plOwed, plrec' = plrec PROVE PlaylistCleared'
  <2>1. plEpoch' = plEpoch \/ plEpoch' = clearSeq + 1
    BY ClearCounts
  <2>2. \A d \in Down : dl[d].plE # clearSeq + 1
    BY <1>1
  <2>. QED BY <1>2, <1>4, <2>1, <2>2 DEF Cleared, PlaylistCleared
<1>5. CASE ClearPlaylist(c) \/ TellCleared(c) \/ GC(c)
  <2>1. owed' = owed /\ state' = state /\ rec' = rec /\ epoch' = epoch /\ plOwed' = plOwed /\ plrec' = plrec
    BY <1>5 DEF ClearPlaylist, TellCleared, GC, disk, mem
  <2>. QED BY <2>1, <1>3, <1>4 DEF Cleared
<1>6. CASE Close(c)
  <2>1. owed' = owed /\ state' = state /\ rec' = rec /\ epoch' = epoch
    BY <1>6 DEF Close
  <2>2. PlaylistCleared'
    <3>1. CASE clr[c].pl
      <4>1. plrec' = {} /\ plEpoch' = clearSeq + 1
        BY <3>1, <1>6 DEF Close
      <4>2. \A d \in Down : dl[d].plE # clearSeq + 1
        BY <1>1
      <4>. QED BY <4>1, <4>2, <1>2 DEF PlaylistCleared
    <3>2. CASE ~clr[c].pl
      BY <3>2, <1>4, <1>6 DEF Close
    <3>. QED BY <3>1, <3>2
  <2>. QED BY <2>1, <2>2, <1>3 DEF Cleared
<1>7. ASSUME NEW s \in Sources, Delete(c, s) PROVE Cleared'
  <2>1. /\ owed' = [owed EXCEPT ![s] = IF @ = "clearing" THEN "yes" ELSE @] /\ state' = state
        /\ rec' = [rec EXCEPT ![s] = "none"] /\ epoch' = epoch /\ plOwed' = plOwed /\ plrec' = plrec
    BY <1>7 DEF Delete, mem
  <2>2. ASSUME NEW r \in Sources, owed'[r] # "no"
        PROVE  owed[r] # "no" /\ (owed'[r] = "yes" => rec'[r] = "none")
    BY <2>1, <2>2 DEF Types, Cleared, ItemsCleared, Unrevived
  <2>3. ItemsCleared'
    BY <2>1, <2>2, <1>2 DEF Cleared, ItemsCleared, Unrevived, Job_
  <2>. QED BY <2>1, <2>3, <1>4 DEF Cleared
<1>8. ASSUME NEW keys \in SUBSET Sources, NEW pl \in BOOLEAN, Reserve(c, keys, pl),
             UNCHANGED <<disk, worker, dl, captureMu, env, told, plOwed>>
      PROVE  Cleared'
  <2>1. rec' = rec /\ plrec' = plrec /\ plOwed' = plOwed
    BY <1>8 DEF disk
  <2>2. CASE Busy(keys)
    <3>1. owed' = owed /\ state' = state /\ epoch' = epoch
      BY <1>8, <2>2 DEF Reserve, mem
    <3>. QED BY <2>1, <3>1, <1>3, <1>4 DEF Cleared
  <2>3. CASE ~Busy(keys)
    <3>1. /\ epoch' = [s \in Sources |-> IF s \in keys THEN clearSeq' ELSE epoch[s]] /\ clearSeq' = clearSeq + 1
          /\ state' = [s \in Sources |-> IF s \in keys THEN "none" ELSE state[s]]
          /\ owed' = [s \in Sources |-> IF s \in keys THEN "clearing" ELSE owed[s]]
      BY <1>8, <2>3 DEF Reserve
    <3>2. SUFFICES ASSUME NEW s \in Sources, owed'[s] # "no" PROVE Unrevived(s)'
      BY <2>1, <1>4 DEF Cleared, ItemsCleared
    <3>3. CASE s \in keys
      <4>1. epoch'[s] = clearSeq + 1 /\ state'[s] = "none" /\ owed'[s] = "clearing"
        BY <3>1, <3>3
      <4>2. worker.ep # clearSeq + 1 /\ \A d \in Down : dl[d].ep[s] # clearSeq + 1
        BY <1>1
      <4>. QED BY <4>1, <4>2, <1>2 DEF Unrevived, Live
    <3>4. CASE s \notin keys
      <4>1. epoch'[s] = epoch[s] /\ state'[s] = state[s] /\ owed'[s] = owed[s]
        BY <3>1, <3>4
      <4>. QED BY <4>1, <3>2, <2>1, <1>2 DEF Cleared, ItemsCleared, Unrevived, Job_
    <3>. QED BY <3>3, <3>4
  <2>. QED BY <2>2, <2>3
<1>9. clr[c].keys \in SUBSET Sources
  BY DEF Types, Clears
<1>10. CASE ClearMembers(c)
  BY <1>8, <1>9, <1>10 DEF ClearMembers
<1>11. ASSUME NEW s \in Sources, ClearItem(c, s) PROVE Cleared'
  BY <1>8, <1>11 DEF ClearItem
<1>. QED BY <1>5, <1>6, <1>7, <1>10, <1>11 DEF Clear

LEMMA WorkerPrepares ==
  ASSUME Types, Work, worker'.pc \in Prefetching
  PROVE  \/ worker'.job = worker.job /\ worker'.ep = worker.ep /\ worker.pc \in Prefetching
         \/ \E s \in Sources : Prepare(s)
<1>. USE DEF Prefetching
<1>1. worker \in Workers /\ Idle.pc = "idle"
  BY DEF Types, Idle
<1>2. CASE Dequeue \/ Drain
  BY <1>1, <1>2 DEF Dequeue, Drain, Idle
<1>3. CASE Announce \/ Retry \/ Publish
  BY <1>1, <1>3 DEF Announce, Retry, Publish, Workers
<1>4. CASE Captured \/ CaptureFails
  BY <1>1, <1>4 DEF Captured, CaptureFails, Workers
<1>5. CASE Report \/ EnqueueAuto
  BY <1>1, <1>5 DEF Report, EnqueueAuto, Workers
<1>6. CASE Reclaim
  <2>1. worker' = [worker EXCEPT !.pc = "capture", !.asAuto = Speculative] \/ worker' = worker
    BY <1>6 DEF Reclaim
  <2>. QED BY <2>1, <1>1 DEF Workers
<1>7. CASE Enforce \/ Prune
  <2>1. worker' = Idle \/ worker' = worker
    BY <1>7 DEF Enforce, Prune
  <2>. QED BY <2>1, <1>1
<1>8. CASE Recheck
  BY <1>1, <1>8 DEF Recheck, Workers
<1>. QED BY <1>2, <1>3, <1>4, <1>5, <1>6, <1>7, <1>8 DEF Work

LEMMA ClearedWork ==
  ASSUME Types, Lined, AtStage, Sessions, Cleared, Work PROVE Cleared'
<1>1. PlaylistCleared'
  BY FrameWork DEF Cleared, PlaylistCleared
<1>2. ASSUME owed' = owed,
             \A s \in Sources : owed[s] # "no" => state'[s] \notin Live /\ (owed[s] = "yes" => rec'[s] = "none")
      PROVE  Cleared'
  <2>1. SUFFICES ASSUME NEW s \in Sources, owed[s] # "no" PROVE Unrevived(s)'
    BY <1>1, <1>2 DEF Cleared, ItemsCleared
  <2>2. Unrevived(s) /\ state'[s] \notin Live /\ (owed[s] = "yes" => rec'[s] = "none")
    BY <1>2, <2>1 DEF Cleared, ItemsCleared
  <2>3. ASSUME NEW r \in Sources, Prepare(r) PROVE worker'.job.src = r /\ owed[r] = "no"
    BY <2>3 DEF Prepare, Idle, NoJob, Sessions
  <2>4. worker'.pc \in Prefetching /\ worker'.job.src = s => worker'.ep # epoch[s]
    BY <1>2, <2>1, <2>2, <2>3, WorkerPrepares DEF Unrevived, Job_
  <2>5. worker'.pc \in Prefetching /\ Job_'.src = s => worker'.ep # epoch[s]
    BY <2>4 DEF Job_
  <2>. QED BY <1>2, <2>2, <2>5, FrameWork DEF Unrevived, Job_
<1>3. \A s \in Sources : owed[s] # "no" => state[s] \notin Live /\ (owed[s] = "yes" => rec[s] = "none")
  BY DEF Cleared, ItemsCleared, Unrevived
<1>4. ASSUME NEW s \in Sources, Evict(s), owed' = owed PROVE Cleared'
  BY <1>2, <1>3, <1>4 DEF Evict, Types, Live
<1>5. CASE Dequeue
  <2>1. PICK j \in queue : state' = [state EXCEPT ![j.src] = "downloading"]
    BY <1>5 DEF Dequeue
  <2>2. j.src \in Sources /\ state[j.src] = "queued"
    BY DEF Types, Jobs, Lined, Queued
  <2>3. rec' = rec /\ owed' = owed
    BY <1>5 DEF Dequeue, disk
  <2>4. owed[j.src] = "no"
    BY <2>2, <1>3 DEF Live
  <2>. QED BY <2>1, <2>3, <2>4, <1>2, <1>3 DEF Types
<1>6. CASE Drain
  <2>1. state' = state \/ \E j \in queue, st \in {"none", "failed"} : state' = [state EXCEPT ![j.src] = st]
    BY <1>6 DEF Drain, Restored
  <2>2. rec' = rec /\ owed' = owed
    BY <1>6 DEF Drain, disk
  <2>. QED BY <2>1, <2>2, <1>2, <1>3 DEF Types, Live
<1>7. CASE Announce \/ Retry \/ Report \/ Recheck \/ \E s \in Sources : Prepare(s)
  <2>1. rec' = rec /\ owed' = owed /\ state' = state
    BY <1>7 DEF Announce, Retry, Report, Recheck, Prepare, disk, mem
  <2>. QED BY <2>1, <1>2, <1>3
<1>8. CASE Reclaim
  <2>1. owed' = owed /\ ((rec' = rec /\ state' = state) \/ \E s \in Sources : Evict(s))
    BY <1>8 DEF Reclaim, Victims, Expired, mem
  <2>. QED BY <2>1, <1>2, <1>3, <1>4
<1>9. CASE Captured
  <2>1. Job_.src \in Sources /\ owed[Job_.src] = "no"
    BY <1>9, <1>3 DEF Captured, AtStage, Working3, Live
  <2>2. /\ owed' = owed /\ rec' = [rec EXCEPT ![Job_.src] = Kept]
        /\ state' = state \/ state' = [state EXCEPT ![Job_.src] = "ready"]
    BY <1>9 DEF Captured
  <2>. QED BY <2>1, <2>2, <1>2, <1>3 DEF Types
<1>10. CASE Publish
  <2>1. owed' = owed /\ rec' = rec
    BY <1>10 DEF Publish, disk
  <2>2. state' = state \/ \E st \in {"failed", "ready"} : state' = [state EXCEPT ![Job_.src] = st]
    BY <1>10 DEF Publish, Outcome
  <2>. QED BY <2>1, <2>2, <1>2, <1>3 DEF Types, Live
<1>14. CASE CaptureFails
  <2>1. Job_.src \in Sources /\ owed[Job_.src] = "no" /\ owed' = owed
    BY <1>14, <1>3 DEF CaptureFails, AtStage, Working3, Live
  <2>2. rec' = rec \/ \E r \in {"auto", "expired"} : rec' = [rec EXCEPT ![Job_.src] = r]
    BY <1>14 DEF CaptureFails
  <2>3. state' = state \/ \E st \in {"none", "failed"} : state' = [state EXCEPT ![Job_.src] = st]
    BY <1>14 DEF CaptureFails, Restored
  <2>. QED BY <2>1, <2>2, <2>3, <1>2, <1>3 DEF Types, Live
<1>11. CASE Enforce
  <2>1. owed' = owed /\ ((rec' = rec /\ state' = state) \/ \E s \in Sources : Evict(s))
    BY <1>11 DEF Enforce, Victims, Expired, mem, disk, AtStage
  <2>. QED BY <2>1, <1>2, <1>3, <1>4
<1>12. CASE Prune
  BY <1>12, <1>4 DEF Prune, Expired
<1>13. CASE EnqueueAuto
  <2>1. Job_.src \in Sources /\ rec' = rec /\ owed' = owed
    BY <1>13 DEF EnqueueAuto, AtStage, disk
  <2>2. state' = state \/ (epoch[Job_.src] = worker.ep /\ state' = [state EXCEPT ![Job_.src] = "queued"])
    BY <1>13 DEF EnqueueAuto, Push, Commits, Unchallenged
  <2>3. epoch[Job_.src] = worker.ep => owed[Job_.src] = "no"
    BY <1>13, <2>1 DEF EnqueueAuto, Cleared, ItemsCleared, Unrevived, Prefetching
  <2>. QED BY <2>1, <2>2, <2>3, <1>2, <1>3 DEF Types
<1>. QED BY <1>5, <1>6, <1>7, <1>8, <1>9, <1>10, <1>11, <1>12, <1>13, <1>14 DEF Work

LEMMA ClearedRest ==
  ASSUME Types, Cleared, Stop \/ Restart \/ Weather PROVE Cleared'
<1>1. CASE Stop
  BY <1>1 DEF Stop, disk, Cleared, ItemsCleared, Unrevived, PlaylistCleared, Job_
<1>2. CASE Weather
  <2>1. /\ state' = state /\ epoch' = epoch /\ plEpoch' = plEpoch /\ worker' = worker /\ dl' = dl
        /\ plOwed' = plOwed /\ plrec' = plrec
    BY <1>2 DEF Weather, mem
  <2>2. \A s \in Sources : rec[s] = "none" => rec'[s] = "none"
    BY <1>2 DEF Weather, World, Types
  <2>3. \A s \in Sources : owed'[s] # "no" => owed'[s] = owed[s]
    BY <1>2 DEF Weather, World, Observe, env, Types
  <2>. QED BY <2>1, <2>2, <2>3 DEF Cleared, ItemsCleared, Unrevived, PlaylistCleared, Job_
<1>3. CASE Restart
  <2>1. /\ worker' = Idle /\ rec' = rec /\ plrec' = plrec /\ owed' = owed /\ plOwed' = plOwed
        /\ \A d \in Down : dl'[d] = NoDownload
        /\ \A s \in Sources : state'[s] \in {"none", "ready"}
    BY <1>3 DEF Restart, Start, Rebuilt
  <2>. QED BY <2>1, NoDownloadIs DEF Cleared, ItemsCleared, Unrevived, PlaylistCleared, Idle, Live, Prefetching
<1>. QED BY <1>1, <1>2, <1>3


-----------------------------------------------------------------------------
(* automaticIntent describes the one speculative job there can be.         *)
LEMMA AutosQueue ==
  ASSUME Types, Autos, worker' = worker, autoKey' = autoKey, intent # "none" => intent' # "none",
         \A k \in queue' : k.auto => \E j \in queue : j.auto /\ j.src = k.src
  PROVE  Autos'
BY DEF Autos, Job_

LEMMA AutosDownload ==
  ASSUME Types, Autos, NEW d \in Down, Download(d) PROVE Autos'
<1>1. intent # "none" => intent' # "none"
  <2>1. ASSUME NEW s \in Sources, Join(d, s) PROVE intent # "none" => intent' # "none"
    BY <2>1 DEF Join
  <2>. QED BY <2>1, FrameDownloadRest
<1>2. CASE queue' = queue
  BY <1>1, <1>2, FrameDownload, AutosQueue
<1>3. ASSUME NEW s \in Sources, Enqueue(d, s) PROVE Autos'
  <2>1. Job(s, d, FALSE).auto = FALSE
    BY DEF Job
  <2>2. queue' = queue \cup {Job(s, d, FALSE)}
    BY <1>3 DEF Enqueue, Push
  <2>3. \A k \in queue' : k.auto => \E j \in queue : j.auto /\ j.src = k.src
    BY <2>1, <2>2
  <2>. QED BY <1>1, <2>3, FrameDownload, AutosQueue
<1>. QED BY <1>2, <1>3, FrameDownload

LEMMA AutosWithout ==
  ASSUME Types, NEW keys \in SUBSET Sources, queue' = Without(keys)
  PROVE  \A k \in queue' : k.auto => \E j \in queue : j.auto /\ j.src = k.src /\ j.src \notin keys
BY WithoutIs DEF Types

LEMMA AutosClear ==
  ASSUME Types, Autos, NEW c \in Clr, Clear(c) PROVE Autos'
<1>1. CASE queue' = queue
  BY <1>1, FrameClear, AutosQueue
<1>2. ASSUME NEW keys \in SUBSET Sources, NEW pl \in BOOLEAN, Reserves(c, keys, pl) PROVE Autos'
  <2>1. queue' = Without(keys)
    BY <1>2 DEF Reserves, Reserve
  <2>. QED BY <2>1, FrameClear, AutosQueue, AutosWithout
<1>. QED BY <1>1, <1>2, FrameClear

LEMMA AutosWork ==
  ASSUME Types, Lined, AtStage, Autos, Work PROVE Autos'
<1>1. /\ worker \in Workers /\ Idle.pc = "idle" /\ \A j \in queue : j.src \in Sources /\ j.src # "none"
      /\ \A j \in queue : state[j.src] = "queued"
      /\ worker.pc \in Working3 => state[Job_.src] = "downloading"
      /\ \A i, j \in queue : i.src = j.src => i = j
  BY CacheAssumption DEF Types, Idle, Jobs, Lined, Queued, AtStage
<1>2. CASE Dequeue
  <2>1. PICK j \in queue : /\ worker' = [Idle EXCEPT !.pc = "announce", !.job = [j EXCEPT !.ahead = {}]]
                          /\ queue' = Without({j.src})
    BY <1>2 DEF Dequeue
  <2>2. j \in Jobs
    BY DEF Types
  <2>3. worker'.pc = "announce" /\ worker'.job.src = j.src /\ worker'.job.auto = j.auto
    BY <2>1, <2>2 DEF Idle, Jobs
  <2>4. \A k \in queue' : k.auto => \E i \in queue : i.auto /\ i.src = k.src
    BY <2>1, <1>1, AutosWithout
  <2>5. intent' = intent /\ autoKey' = autoKey
    BY <1>2 DEF Dequeue
  <2>. QED BY <2>3, <2>4, <2>5 DEF Autos, Job_, Working3, Prefetching
<1>3. CASE Drain
  <2>1. worker.pc = "idle" /\ worker'.pc \in {"idle", "gone"} /\ autoKey' = autoKey
    BY <1>1, <1>3 DEF Drain, Idle
  <2>2. CASE queue' = queue /\ intent' = intent
    BY <2>1, <2>2 DEF Autos, Working3, Prefetching
  <2>3. ASSUME NEW j \in queue, queue' = Without({j.src}),
               intent' = IF j.auto /\ intent = "auto" THEN "none" ELSE intent
        PROVE  Autos'
    <3>1. \A k \in queue' : k.auto => \E i \in queue : i.auto /\ i.src = k.src /\ i.src # j.src
      BY <2>3, <1>1, AutosWithout
    <3>2. ASSUME NEW k \in queue', k.auto PROVE intent' # "none" /\ autoKey' = k.src
      <4>1. PICK i \in queue : i.auto /\ i.src = k.src /\ i.src # j.src
        BY <3>1, <3>2
      <4>2. intent # "none" /\ autoKey = i.src
        BY <4>1 DEF Autos
      <4>3. j.auto => autoKey = j.src
        BY DEF Autos
      <4>. QED BY <4>1, <4>2, <4>3, <2>1, <2>3
    <3>. QED BY <3>2, <2>1 DEF Autos, Working3, Prefetching
  <2>. QED BY <2>2, <2>3, <1>3 DEF Drain
<1>4. CASE Announce \/ Retry
  <2>1. worker'.pc = "reclaim" /\ worker'.job = worker.job /\ worker.pc \in Working3
    BY <1>1, <1>4 DEF Announce, Retry, Workers, Working3
  <2>2. queue' = queue /\ intent' = intent /\ autoKey' = autoKey
    BY <1>4 DEF Announce, Retry, mem
  <2>. QED BY <2>1, <2>2 DEF Autos, Job_, Prefetching
<1>5. CASE Reclaim
  <2>1. \/ worker' = [worker EXCEPT !.pc = "capture", !.asAuto = Speculative] 
        \/ worker' = worker
    BY <1>5 DEF Reclaim
  <2>2. worker'.job = worker.job /\ worker'.pc \notin Prefetching /\ worker.pc \in Working3
    BY <2>1, <1>1, <1>5 DEF Reclaim, Workers, Working3, Prefetching
  <2>3. queue' = queue /\ intent' = intent /\ autoKey' = autoKey
    BY <1>5 DEF Reclaim, mem, Evict
  <2>. QED BY <2>2, <2>3 DEF Autos, Job_
<1>6. CASE Captured \/ CaptureFails
  <2>1. /\ worker.pc \in Working3 /\ worker'.pc \in {"idle", "publish"} /\ autoKey' = autoKey /\ queue' = queue
        /\ intent' = IF Job_.auto THEN "none" ELSE intent
    BY <1>1, <1>6 DEF Captured, CaptureFails, Workers, Working3
  <2>2. Job_.auto => \A j \in queue : ~j.auto
    BY <1>1, <2>1 DEF Autos
  <2>. QED BY <2>1, <2>2 DEF Autos, Working3, Prefetching
<1>7. CASE Publish \/ Report
  <2>1. worker'.pc \in {"idle", "report", "enforce"}
    BY <1>1, <1>7 DEF Publish, Report, Workers
  <2>2. queue' = queue /\ intent' = intent /\ autoKey' = autoKey
    BY <1>7 DEF Publish, Report, mem
  <2>. QED BY <2>1, <2>2 DEF Autos, Working3, Prefetching
<1>8. CASE Enforce \/ Prune
  <2>1. worker.pc \in {"idle", "enforce"} /\ (worker' = Idle \/ worker' = worker)
    BY <1>1, <1>8 DEF Enforce, Prune
  <2>2. queue' = queue /\ intent' = intent /\ autoKey' = autoKey
    BY <1>8 DEF Enforce, Prune, mem, Evict
  <2>. QED BY <2>1, <2>2, <1>1 DEF Autos, Working3, Prefetching
<1>9. CASE EnqueueAuto
  <2>1. worker'.pc = "idle" /\ \A j \in queue : ~j.auto
    BY <1>1, <1>9 DEF EnqueueAuto, Autos, Prefetching
  <2>2. \/ queue' = queue
        \/ queue' = queue \cup {Job(Job_.src, "worker", TRUE)} /\ intent' = "auto" /\ autoKey' = Job_.src
    BY <1>9 DEF EnqueueAuto, Push
  <2>3. Job(Job_.src, "worker", TRUE).src = Job_.src
    BY DEF Job
  <2>4. \A j \in queue' : j.auto => intent' # "none" /\ autoKey' = j.src
    BY <2>1, <2>2, <2>3
  <2>. QED BY <2>1, <2>4 DEF Autos, Working3, Prefetching
<1>10. ASSUME NEW s \in Sources, Prepare(s) PROVE Autos'
  <2>1. queue' = queue /\ intent' = intent /\ autoKey' = autoKey /\ worker'.pc = "prepare"
    BY <1>10 DEF Prepare, mem, Idle
  <2>2. \A j \in queue : ~j.auto
    BY <1>1, <1>10 DEF Prepare, AutoPending, Autos, Live
  <2>. QED BY <2>1, <2>2 DEF Autos, Working3, Prefetching
<1>11. CASE Recheck
  <2>1. worker.pc = "prepare" /\ worker'.pc \in {"idle", "push"}
    BY <1>1, <1>11 DEF Recheck, Workers
  <2>2. queue' = queue /\ intent' = intent /\ autoKey' = autoKey
    BY <1>11 DEF Recheck, mem
  <2>. QED BY <2>1, <2>2 DEF Autos, Working3, Prefetching
<1>. QED BY <1>2, <1>3, <1>4, <1>5, <1>6, <1>7, <1>8, <1>9, <1>10, <1>11 DEF Work

LEMMA AutosRest ==
  ASSUME Autos, Stop \/ Restart \/ Weather PROVE Autos'
<1>1. CASE Stop \/ Weather
  BY <1>1 DEF Stop, Weather, mem, Autos, Job_
<1>2. CASE Restart
  BY <1>2 DEF Restart, Start, Autos, Idle, Working3, Prefetching
<1>. QED BY <1>1, <1>2


-----------------------------------------------------------------------------
(* A source is being captured only while the worker is about it.           *)
LEMMA InCaptureSame ==
  ASSUME Types, InCapture, worker' = worker,
         \A s \in Sources : state'[s] = "downloading" => state[s] = "downloading"
  PROVE  InCapture'
BY DEF InCapture, Job_

LEMMA InCaptureDownload ==
  ASSUME Types, InCapture, NEW d \in Down, Download(d) PROVE InCapture'
<1>1. CASE state' = state
  BY <1>1, FrameDownload, InCaptureSame
<1>2. ASSUME NEW s \in Sources, Enqueue(d, s) PROVE InCapture'
  <2>1. state' = [state EXCEPT ![s] = "queued"]
    BY <1>2 DEF Enqueue, Push
  <2>2. \A r \in Sources : state'[r] = "downloading" => state[r] = "downloading"
    BY <2>1 DEF Types
  <2>. QED BY <2>2, FrameDownload, InCaptureSame
<1>. QED BY <1>1, <1>2, FrameDownload

LEMMA InCaptureClear ==
  ASSUME Types, InCapture, NEW c \in Clr, Clear(c) PROVE InCapture'
<1>1. CASE state' = state
  BY <1>1, FrameClear, InCaptureSame
<1>2. ASSUME NEW keys \in SUBSET Sources, NEW pl \in BOOLEAN, Reserves(c, keys, pl) PROVE InCapture'
  <2>1. state' = [s \in Sources |-> IF s \in keys THEN "none" ELSE state[s]]
    BY <1>2 DEF Reserves, Reserve
  <2>2. \A r \in Sources : state'[r] = "downloading" => state[r] = "downloading"
    BY <2>1
  <2>. QED BY <2>2, FrameClear, InCaptureSame
<1>. QED BY <1>1, <1>2, FrameClear

LEMMA InCaptureWork ==
  ASSUME Types, AtStage, InCapture, Work PROVE InCapture'
<1>. USE DEF Working3
<1>1. /\ worker \in Workers /\ Idle.pc = "idle"
      /\ \A s \in Sources : worker.pc \notin {"announce", "reclaim", "capture", "publish"} => state[s] # "downloading"
  BY DEF Types, Idle, InCapture
<1>2. ASSUME \A s \in Sources : state'[s] # "downloading" PROVE InCapture'
  BY <1>2 DEF InCapture
<1>3. ASSUME NEW s \in Sources, Evict(s) PROVE \A r \in Sources : state'[r] = "downloading" => state[r] = "downloading"
  BY <1>3 DEF Evict, Types
<1>4. CASE Dequeue
  <2>1. PICK j \in queue : /\ state' = [state EXCEPT ![j.src] = "downloading"]
                          /\ worker' = [Idle EXCEPT !.pc = "announce", !.job = [j EXCEPT !.ahead = {}]]
    BY <1>4 DEF Dequeue
  <2>2. worker'.pc = "announce" /\ worker'.job.src = j.src
    BY <2>1 DEF Idle, Types, Jobs
  <2>3. \A s \in Sources : state[s] # "downloading"
    BY <1>1, <1>4 DEF Dequeue
  <2>. QED BY <2>1, <2>2, <2>3 DEF InCapture, Types, Job_
<1>5. CASE Drain
  <2>1. state' = state \/ \E j \in queue, st \in {"none", "failed"} : state' = [state EXCEPT ![j.src] = st]
    BY <1>5 DEF Drain, Restored
  <2>2. \A s \in Sources : state[s] # "downloading"
    BY <1>1, <1>5 DEF Drain
  <2>. QED BY <2>1, <2>2, <1>2 DEF Types
<1>6. CASE Announce \/ Retry
  <2>1. worker'.pc = "reclaim" /\ worker'.job = worker.job /\ state' = state /\ worker.pc \in Working3
    BY <1>1, <1>6 DEF Announce, Retry, Workers, mem
  <2>. QED BY <2>1 DEF InCapture, Job_
<1>7. CASE Reclaim
  <2>1. \/ worker' = [worker EXCEPT !.pc = "capture", !.asAuto = Speculative] /\ state' = state
        \/ worker' = worker /\ \E s \in Sources : Evict(s)
    BY <1>7 DEF Reclaim, mem, Victims, Expired
  <2>2. CASE worker' = [worker EXCEPT !.pc = "capture", !.asAuto = Speculative] /\ state' = state
    <3>1. worker'.pc = "capture" /\ worker'.job = worker.job
      BY <2>2, <1>1 DEF Workers
    <3>. QED BY <2>2, <3>1, <1>7 DEF InCapture, Job_, Reclaim
  <2>3. CASE worker' = worker /\ \E s \in Sources : Evict(s)
    BY <2>3, <1>3, InCaptureSame
  <2>. QED BY <2>1, <2>2, <2>3
<1>8. CASE Captured \/ CaptureFails
  <2>1. worker.pc = "capture" /\ Job_.src \in Sources
    BY <1>8 DEF Captured, CaptureFails, AtStage
  <2>2. CASE Job_.auto
    <3>1. \E st \in {"none", "failed", "ready"} : state' = [state EXCEPT ![Job_.src] = st]
      BY <1>8, <2>2 DEF Captured, CaptureFails, Restored
    <3>. QED BY <3>1, <2>1, <1>2 DEF Types, InCapture
  <2>3. CASE ~Job_.auto
    <3>1. state' = state /\ worker'.pc = "publish" /\ worker'.job = worker.job
      BY <1>1, <1>8, <2>3 DEF Captured, CaptureFails, Speculative, Workers
    <3>. QED BY <3>1, <2>3 DEF InCapture, Job_
  <2>. QED BY <2>2, <2>3
<1>9. CASE Publish
  <2>1. Job_.src \in Sources /\ worker.pc = "publish"
    BY <1>9 DEF Publish, AtStage
  <2>2. CASE Job_.auto
    BY <2>1, <2>2, <1>2, <1>9 DEF Publish, InCapture
  <2>3. CASE ~Job_.auto
    <3>1. \E st \in {"failed", "ready"} : state' = [state EXCEPT ![Job_.src] = st]
      BY <1>9, <2>3 DEF Publish, Outcome
    <3>. QED BY <3>1, <2>1, <1>2 DEF Types, InCapture
  <2>. QED BY <2>2, <2>3
<1>10. CASE Report \/ Recheck \/ \E s \in Sources : Prepare(s)
  <2>1. state' = state /\ worker.pc \notin {"announce", "reclaim", "capture", "publish"}
    BY <1>1, <1>10 DEF Report, Recheck, Prepare, mem
  <2>. QED BY <2>1, <1>1, <1>2
<1>11. CASE Enforce \/ Prune
  <2>1. (worker' = worker /\ \E s \in Sources : Evict(s)) \/ state' = state
    BY <1>11 DEF Enforce, Prune, Victims, Expired, mem, AtStage
  <2>2. \A s \in Sources : state[s] # "downloading"
    BY <1>1, <1>11 DEF Enforce, Prune
  <2>. QED BY <2>1, <2>2, <1>2, <1>3
<1>12. CASE EnqueueAuto
  <2>1. state' = state \/ state' = [state EXCEPT ![Job_.src] = "queued"]
    BY <1>12 DEF EnqueueAuto, Push
  <2>2. \A s \in Sources : state[s] # "downloading"
    BY <1>1, <1>12 DEF EnqueueAuto
  <2>. QED BY <2>1, <2>2, <1>2 DEF Types
<1>. QED BY <1>4, <1>5, <1>6, <1>7, <1>8, <1>9, <1>10, <1>11, <1>12 DEF Work

LEMMA InCaptureRest ==
  ASSUME Types, InCapture, Stop \/ Restart \/ Weather PROVE InCapture'
<1>1. CASE Stop \/ Weather
  BY <1>1 DEF Stop, Weather, mem, InCapture, Job_
<1>2. CASE Restart
  BY <1>2 DEF Restart, Start, Rebuilt, InCapture
<1>. QED BY <1>1, <1>2

-----------------------------------------------------------------------------
(* What was promised is served, what was told is told again, and a barrier *)
(* is waited for.                                                          *)
LEMMA PromisesKept ==
  ASSUME Types, Promises, started' => started, promised' \subseteq promised \cup Serving',
         promised' \cap Serving \subseteq Serving',
         \A s \in Sources : told'[s] \in Live =>
           \/ s \in Serving' \cup ToldSoon'
           \/ told[s] \in Live /\ s \notin Serving \cup ToldSoon,
         \A d \in Down : dl'[d].pc = "tell" =>
           \E s \in Sources : dl'[d].todo = {s} /\ <<d, s>> \in Barriers'
  PROVE  Promises'
BY DEF Promises

(* More jobs, the same worker, no clear forgotten.                         *)
LEMMA ServingGrows ==
  ASSUME Types, NEW s \in Sources, s \in Serving, worker' = worker,
         intent = "manual" => intent' = "manual",
         \A j \in queue : j.src = s => \E k \in queue' : k.src = s /\ k.auto = j.auto
  PROVE  s \in Serving'
BY DEF Serving, Served, ByJob, ByWorker, Job_

LEMMA ToldSoonIs ==
  /\ \A s \in Sources : s \in ToldSoon <=> \E c \in Clr : s \in TellsOf(c)
  /\ \A d \in Down, s \in Sources : <<d, s>> \in Barriers <=> Pending(d, s)
BY DEF ToldSoon, Barriers


LEMMA PromisesDownload ==
  ASSUME Types, Lined, AtStage, InCapture, Autos, Promises, NEW d \in Down, Download(d) PROVE Promises'
<1>1. \A j \in queue : j \in queue'
  BY FrameDownload DEF Enqueue, Push
<1>2. intent = "manual" => intent' = "manual"
  <2>1. ASSUME NEW s \in Sources, Join(d, s) PROVE intent = "manual" => intent' = "manual"
    BY <2>1 DEF Join
  <2>. QED BY <2>1, FrameDownloadRest
<1>3. Serving \subseteq Serving'
  <2>1. SUFFICES ASSUME NEW s \in Serving PROVE s \in Serving'
    OBVIOUS
  <2>2. s \in Sources
    BY DEF Serving
  <2>. QED BY <2>2, <1>1, <1>2, FrameDownload, ServingGrows
<1>4. ToldSoon \subseteq ToldSoon'
  BY FrameClrDownload DEF ToldSoon, TellsOf
<1>5. ASSUME NEW e \in Down, NEW s \in Sources, <<e, s>> \in Barriers, e # d \/ clr' = clr
      PROVE  <<e, s>> \in Barriers'
  <2>1. Pending(e, s)
    BY <1>5, ToldSoonIs
  <2>2. \A c \in Clr : e \in clr[c].wait /\ s \in TellsOf(c) => e \in clr'[c].wait /\ s \in TellsOf(c)'
    BY <1>5, FrameClrDownload DEF TellsOf
  <2>3. worker' = worker
    BY FrameDownload
  <2>4. Pending(e, s)'
    BY <2>1, <2>2, <2>3, <1>1 DEF Pending, Job_
  <2>. QED BY <2>4 DEF Barriers
<1>6. ASSUME NEW e \in Down \ {d}, started, dl'[e] = dl[e], dl'[e].pc = "tell"
      PROVE  \E s \in Sources : dl'[e].todo = {s} /\ <<e, s>> \in Barriers'
  <2>1. PICK s \in Sources : dl[e].todo = {s} /\ <<e, s>> \in Barriers
    BY <1>6 DEF Promises
  <2>. QED BY <2>1, <1>5, <1>6
<1>7. ASSUME \A e \in Down \ {d} : dl'[e] = dl[e], promised' \subseteq promised \cup Serving',
             started => (dl'[d].pc = "tell" => \E s \in Sources : dl'[d].todo = {s} /\ <<d, s>> \in Barriers'),
             started => \A s \in Sources : told'[s] \in Live => told[s] \in Live \/ s \in Serving' \cup ToldSoon'
      PROVE  Promises'
  <2>1. started' = started
    BY FrameDownload
  <2>. QED BY <2>1, <1>3, <1>4, <1>6, <1>7 DEF Promises
<1>8. CASE Begin(d)
  <2>1. told' = told /\ promised' = promised
    BY <1>8 DEF Begin
  <2>. QED BY <2>1, <1>7, <1>8, BeginIs
<1>9. CASE SavePlaylist(d)
  <2>1. told' = told /\ promised' = promised
    BY <1>9 DEF SavePlaylist
  <2>. QED BY <2>1, <1>7, <1>9, SavePlaylistIs, NoDownloadIs
<1>10. CASE TellQueued(d)
  <2>1. promised' = promised /\ dl[d].pc = "tell" /\ \E s \in dl[d].todo : told' = [told EXCEPT ![s] = "queued"]
    BY <1>10 DEF TellQueued
  <2>2. dl'[d].pc = "enqueue" /\ \A e \in Down \ {d} : dl'[e] = dl[e]
    BY <1>10, TellQueuedIs
  <2>3. ASSUME started, NEW r \in Sources, told'[r] \in Live, told[r] \notin Live PROVE r \in Serving' \cup ToldSoon'
    <3>1. PICK s \in Sources : dl[d].todo = {s} /\ <<d, s>> \in Barriers
      BY <2>1, <2>3 DEF Promises
    <3>2. r = s
      BY <3>1, <2>1, <2>3 DEF Types
    <3>3. Pending(d, s)
      BY <3>1, ToldSoonIs
    <3>4. s \in Serving \/ s \in ToldSoon
      BY <3>3 DEF Pending, Serving, ToldSoon, Served, ByJob, ByWorker, Working3
    <3>. QED BY <3>2, <3>4, <1>3, <1>4
  <2>. QED BY <2>1, <2>2, <2>3, <1>7
<1>11. CASE Done(d)
  <2>1. told' = told /\ promised' = promised
    BY <1>11 DEF Done
  <2>. QED BY <2>1, <1>7, <1>11, DoneIs, NoDownloadIs
<1>12. ASSUME NEW s \in Sources, Sample(d, s) PROVE Promises'
  <2>1. told' = told /\ promised' = promised /\ dl[d].pc = "probe"
    BY <1>12 DEF Sample
  <2>. QED BY <2>1, <1>7, <1>12, SampleIs
<1>13. ASSUME NEW s \in Sources, \E ok \in Answers : Classified(d, s, ok) PROVE Promises'
  <2>1. told' = told /\ promised' = promised
    BY <1>13 DEF Classified
  <2>. QED BY <2>1, <1>7, <1>13, ClassifiedIs
<1>14. ASSUME NEW s \in Sources, Enqueue(d, s) PROVE Promises'
  <2>1. told' = told /\ promised' = promised \cup {s} /\ queue' = queue \cup {Job(s, d, FALSE)}
    BY <1>14 DEF Enqueue, Push
  <2>2. Job(s, d, FALSE).src = s /\ Job(s, d, FALSE).by = d /\ Job(s, d, FALSE).auto = FALSE
    BY DEF Job
  <2>3. s \in Serving' /\ <<d, s>> \in Barriers'
    BY <2>1, <2>2 DEF Serving, Served, ByJob, Barriers, Pending
  <2>. QED BY <2>1, <2>3, <1>7, <1>14, EnqueueIs
<1>15. ASSUME NEW s \in Sources, Join(d, s) PROVE Promises'
  <2>1. /\ told' = told /\ promised' = promised \cup {s} /\ queue' = queue /\ worker' = worker
        /\ state[s] \in Live /\ dl[d].pc = "enqueue"
        /\ intent' = IF autoKey = s /\ intent = "auto" THEN "manual" ELSE intent
    BY <1>15 DEF Join
  <2>2. autoKey = s /\ intent # "none" => intent' = "manual"
    BY <2>1 DEF Types
  <2>3. CASE state[s] = "queued"
    <3>1. PICK j \in queue : j.src = s
      BY <2>3 DEF Lined, Queued
    <3>2. j.auto => intent' = "manual"
      BY <3>1, <2>2 DEF Autos
    <3>. QED BY <3>1, <3>2, <2>1, <1>7, <1>15, JoinIs DEF Serving, Served, ByJob
  <2>4. CASE state[s] = "downloading"
    <3>1. Job_.src = s /\ (worker.pc \in Working3 \/ (worker.pc = "publish" /\ ~Job_.auto))
      BY <2>4 DEF InCapture
    <3>2. worker.pc \in Working3 /\ Job_.auto => intent' = "manual"
      BY <3>1, <2>2 DEF Autos
    <3>3. worker.pc = "publish" /\ ~Job_.auto => worker.made # "auto"
      BY DEF AtStage
    <3>4. s \in Serving'
      BY <3>1, <3>2, <3>3, <2>1 DEF Serving, Served, ByWorker, Job_, Working3, Reporting
    <3>. QED BY <3>4, <2>1, <1>7, <1>15, JoinIs
  <2>. QED BY <2>1, <2>3, <2>4 DEF Live
<1>16. ASSUME NEW s \in Sources, Refused(d, s) PROVE Promises'
  <2>1. told' = told /\ promised' = promised /\ dl[d].pc = "enqueue"
    BY <1>16 DEF Refused
  <2>. QED BY <2>1, <1>7, <1>16, RefusedIs
<1>. QED BY <1>8, <1>9, <1>10, <1>11, <1>12, <1>13, <1>14, <1>15, <1>16 DEF Download

LEMMA PromisesRest ==
  ASSUME Types, Promises, Stop \/ Restart \/ Weather PROVE Promises'
<1>1. CASE Stop
  BY <1>1 DEF Stop, Promises
<1>2. CASE Weather
  <2>1. /\ started' = started /\ promised' = promised /\ told' = told /\ dl' = dl /\ clr' = clr
        /\ queue' = queue /\ worker' = worker /\ intent' = intent
    BY <1>2 DEF Weather, mem
  <2>2. Serving' = Serving
    BY <2>1 DEF Serving, Served, ByJob, ByWorker, Job_
  <2>3. ToldSoon' = ToldSoon
    BY <2>1 DEF ToldSoon, TellsOf
  <2>4. Barriers' = Barriers
    BY <2>1 DEF Barriers, Pending, TellsOf, Job_
  <2>. QED BY <2>1, <2>2, <2>3, <2>4 DEF Promises
<1>3. CASE Restart
  <2>1. promised' = {} /\ (\A s \in Sources : told'[s] = "none") /\ \A d \in Down : dl'[d] = NoDownload
    BY <1>3 DEF Restart, Start
  <2>. QED BY <2>1, NoDownloadIs DEF Promises, Live
<1>. QED BY <1>1, <1>2, <1>3


LEMMA PromisesClear ==
  ASSUME Types, Lined, AtStage, InCapture, Stages, Promises, NEW c \in Clr, Clear(c) PROVE Promises'
<1>1. /\ started' = started /\ intent' = intent /\ autoKey' = autoKey /\ worker' = worker /\ dl' = dl
  BY FrameClear
<1>2. clr[c].pc # "delete" => TellsOf(c) = {}
  BY DEF Stages, ClrStages, ClrStage
<1>3. NoClear.pc = "idle"
  BY DEF NoClear, AClear
(* A step of the clear that leaves the queue alone.                        *)
<1>4. ASSUME queue' = queue, promised' = promised, \A e \in Clr \ {c} : clr'[e] = clr[e],
             \A s \in TellsOf(c) : s \in TellsOf(c)' \/ told'[s] \notin Live,
             \A s \in TellsOf(c) : (s \in TellsOf(c)' /\ clr'[c].wait = clr[c].wait) \/ clr[c].wait = {},
             \A s \in Sources : told'[s] \in Live => told[s] \in Live
      PROVE  Promises'
  <2>1. Serving' = Serving
    BY <1>1, <1>4 DEF Serving, Served, ByJob, ByWorker, Job_
  <2>2. ASSUME NEW s \in ToldSoon, told'[s] \in Live PROVE s \in ToldSoon'
    <3>1. PICK e \in Clr : s \in TellsOf(e)
      BY <2>2 DEF ToldSoon
    <3>2. s \in TellsOf(e)'
      BY <3>1, <2>2, <1>4 DEF TellsOf
    <3>. QED BY <3>2 DEF ToldSoon
  <2>3. ASSUME NEW d \in Down, NEW s \in Sources, <<d, s>> \in Barriers PROVE <<d, s>> \in Barriers'
    <3>1. Pending(d, s)
      BY <2>3, ToldSoonIs
    <3>2. ASSUME NEW e \in Clr, d \in clr[e].wait, s \in TellsOf(e) PROVE d \in clr'[e].wait /\ s \in TellsOf(e)'
      BY <3>2, <1>4 DEF TellsOf
    <3>3. Pending(d, s)'
      BY <3>1, <3>2, <1>1, <1>4 DEF Pending, Job_
    <3>. QED BY <3>3 DEF Barriers
  <2>. QED BY <2>1, <2>2, <2>3, <1>1, <1>4 DEF Promises
<1>5. ASSUME clr[c].pc # "delete", queue' = queue, promised' = promised, told' = told, \A e \in Clr \ {c} : clr'[e] = clr[e]
      PROVE  Promises'
  BY <1>2, <1>4, <1>5
<1>6. CASE ClearPlaylist(c)
  <2>1. queue' = queue /\ promised' = promised /\ told' = told
    BY <1>6 DEF ClearPlaylist
  <2>. QED BY <2>1, <1>3, <1>5, <1>6, ClearPlaylistIs
<1>7. ASSUME NEW keys \in SUBSET Sources, NEW pl \in BOOLEAN, Reserve(c, keys, pl), clr[c].pc # "delete", told' = told
      PROVE  Promises'
  <2>1. /\ \A e \in Clr \ {c} : clr'[e] = clr[e]
        /\ (clr'[c] = NoClear /\ UNCHANGED <<state, queue, epoch, clearSeq, owed, promised, started>>) \/ ReservedAs(c, keys)
    BY <1>7, ReserveIs
  <2>2. CASE queue' = queue /\ promised' = promised
    BY <2>1, <2>2, <1>5, <1>7
  <2>3. CASE ReservedAs(c, keys)
    <3>1. ~Busy(keys) /\ clr'[c].tell = {} /\ clr'[c].keys = keys /\ clr'[c].wait = Untold(keys)
          /\ clr'[c].settled = {s \in keys : state[s] # "none"}
      BY <2>3 DEF ReservedAs
    <3>2. queue' = Without(keys) /\ promised' = promised \ keys
      BY <1>7, <3>1 DEF Reserve
    <3>3. TellsOf(c)' = {s \in keys : state[s] # "none"}
      BY <3>1 DEF TellsOf
    <3>4. \A j \in queue : j.src \notin keys => \E k \in queue' : k.src = j.src /\ k.by = j.by /\ k.auto = j.auto
      BY <3>2, WithoutIs DEF Types
    <3>5. ASSUME NEW s \in Serving, s \notin keys PROVE s \in Serving'
      <4>1. s \in Sources
        BY DEF Serving
      <4>. QED BY <3>4, <3>5, <4>1, <1>1, ServingGrows
    <3>6. ASSUME NEW s \in Serving, s \in keys PROVE s \in Serving' \cup ToldSoon'
      <4>1. CASE state[s] # "none"
        BY <4>1, <3>3, <3>6 DEF ToldSoon
      <4>2. CASE state[s] = "none"
        <5>1. ~ByJob(s)
          BY <4>2, <3>6 DEF Lined, Queued, ByJob
        <5>2. ByWorker(s)
          BY <5>1 DEF Serving, Served
        <5>3. ByWorker(s)'
          BY <5>2, <1>1, <4>2 DEF ByWorker, Job_
        <5>. QED BY <5>3, <3>6 DEF Serving, Served
      <4>. QED BY <4>1, <4>2
    <3>7. ASSUME NEW e \in Clr, TellsOf(e) # {} PROVE clr'[e] = clr[e]
      BY <3>7, <1>2, <1>7, <2>1
    <3>8. ToldSoon \subseteq ToldSoon'
      BY <3>7 DEF ToldSoon, TellsOf
    <3>9. ASSUME NEW d \in Down, NEW s \in Sources, <<d, s>> \in Barriers, dl[d].pc = "tell", dl[d].todo = {s}
          PROVE  <<d, s>> \in Barriers'
      <4>1. Pending(d, s)
        BY <3>9, ToldSoonIs
      <4>2. ASSUME NEW j \in queue, j.src = s, j.by = d, ~j.auto PROVE Pending(d, s)'
        <5>1. CASE s \notin keys
          BY <5>1, <4>2, <3>4 DEF Pending
        <5>2. CASE s \in keys
          <6>1. j \in Dropped(keys) /\ ~BarrierClosed(j)
            BY <5>2, <4>2, <3>9 DEF Dropped, BarrierClosed
          <6>2. d \in clr'[c].wait
            BY <6>1, <4>2, <3>1 DEF Untold
          <6>3. s \in TellsOf(c)'
            BY <5>2, <4>2, <3>3 DEF Lined, Queued
          <6>. QED BY <6>2, <6>3 DEF Pending
        <5>. QED BY <5>1, <5>2
      <4>3. ASSUME NEW e \in Clr, d \in clr[e].wait, s \in TellsOf(e) PROVE Pending(d, s)'
        BY <4>3, <3>7 DEF Pending, TellsOf
      <4>4. ASSUME worker.pc = "announce" /\ Job_.src = s /\ Job_.by = d /\ ~Job_.auto PROVE Pending(d, s)'
        BY <4>4, <1>1 DEF Pending, Job_
      <4>5. Pending(d, s)'
        BY <4>1, <4>2, <4>3, <4>4 DEF Pending
      <4>. QED BY <4>5 DEF Barriers
    <3>. QED BY <3>2, <3>5, <3>6, <3>8, <3>9, <1>1, <1>7 DEF Promises
  <2>. QED BY <2>1, <2>2, <2>3
<1>8. clr[c].keys \in SUBSET Sources
  BY DEF Types, Clears
<1>9. CASE ClearMembers(c)
  <2>1. clr[c].pc # "delete" /\ told' = told /\ Reserve(c, clr[c].keys, TRUE)
    BY <1>9 DEF ClearMembers, Clearing
  <2>. QED BY <2>1, <1>7, <1>8
<1>10. ASSUME NEW s \in Sources, ClearItem(c, s) PROVE Promises'
  <2>1. clr[c].pc # "delete" /\ told' = told /\ Reserve(c, {s}, FALSE)
    BY <1>3, <1>10 DEF ClearItem
  <2>. QED BY <2>1, <1>7
<1>11. ASSUME NEW s \in Sources, Delete(c, s) PROVE Promises'
  <2>1. queue' = queue /\ promised' = promised /\ told' = told
    BY <1>11 DEF Delete, mem
  <2>2. /\ \A e \in Clr \ {c} : clr'[e] = clr[e]
        /\ clr[c].tell = {} /\ clr'[c].keys = clr[c].keys \ {s} /\ clr'[c].settled = clr[c].settled
        /\ clr'[c].wait = clr[c].wait /\ (s \in clr[c].settled => clr'[c].tell = {s})
    BY <1>11, DeleteIs
  <2>3. TellsOf(c) \subseteq TellsOf(c)'
    BY <2>2 DEF TellsOf
  <2>. QED BY <2>1, <2>2, <2>3, <1>4
<1>12. CASE TellCleared(c)
  <2>1. queue' = queue /\ promised' = promised /\ clr[c].tell # {} /\ clr[c].wait = {}
        /\ \E s \in clr[c].tell : told' = [told EXCEPT ![s] = "not_cached"]
    BY <1>12 DEF TellCleared, mem
  <2>2. PICK s \in clr[c].tell : told' = [told EXCEPT ![s] = "not_cached"]
    BY <2>1
  <2>3. clr[c].tell = {s} /\ s \in Sources
    BY DEF Stages, ClrStages, ClrStage, Types, Clears
  <2>4. /\ \A e \in Clr \ {c} : clr'[e] = clr[e]
        /\ clr'[c].keys = clr[c].keys /\ clr'[c].settled = clr[c].settled
    BY <1>12, TellClearedIs
  <2>5. \A r \in TellsOf(c) : r \in TellsOf(c)' \/ r = s
    BY <2>3, <2>4 DEF TellsOf
  <2>6. told'[s] \notin Live /\ \A r \in Sources : told'[r] \in Live => told[r] \in Live
    BY <2>2, <2>3 DEF Types, Live
  <2>. QED BY <2>1, <2>4, <2>5, <2>6, <1>4
<1>13. CASE Close(c)
  <2>1. queue' = queue /\ promised' = promised /\ told' = told
    BY <1>13 DEF Close
  <2>2. TellsOf(c) = {}
    BY <1>13, CloseIs DEF TellsOf
  <2>. QED BY <2>1, <2>2, <1>4, <1>13, CloseIs
<1>14. CASE GC(c)
  <2>1. queue' = queue /\ promised' = promised /\ told' = told
    BY <1>14 DEF GC, mem
  <2>. QED BY <2>1, <1>5, <1>14, CloseIs
<1>. QED BY <1>6, <1>9, <1>10, <1>11, <1>12, <1>13, <1>14 DEF Clear

(* The worker: a job it takes stays served, a barrier ends with its        *)
(* notification, and what it gives up was promised to nobody.              *)
LEMMA PromisesWork ==
  ASSUME Types, Lined, AtStage, Autos, Promises, Work PROVE Promises'
<1>1. started' = started /\ dl' = dl /\ clr' = clr /\ ToldSoon' = ToldSoon
  BY FrameWork DEF ToldSoon, TellsOf
<1>2. /\ worker \in Workers /\ Idle.pc = "idle" /\ Job_.auto \in BOOLEAN
      /\ \A j \in queue : j.src \in Sources /\ state[j.src] = "queued" /\ j.auto \in BOOLEAN
      /\ worker.pc \in Working3 => Job_.src \in Sources /\ state[Job_.src] = "downloading"
      /\ \A j \in queue : j.auto => intent # "none" /\ autoKey = j.src
      /\ worker.pc \in Working3 /\ Job_.auto => intent # "none" /\ autoKey = Job_.src
  BY DEF Types, Idle, Jobs, Lined, Queued, AtStage, Autos, Working3, Workers, WorkJobs, Job_
<1>3. ASSUME promised' \subseteq promised, promised' \cap Serving \subseteq Serving',
             \A s \in Sources : told'[s] \in Live => s \in Serving' \/
               (told[s] \in Live /\ (s \in Serving => s \in Serving')),
             started => \A d \in Down, s \in Sources :
               <<d, s>> \in Barriers /\ dl[d].pc = "tell" /\ dl[d].todo = {s} => <<d, s>> \in Barriers'
      PROVE  Promises'
  BY <1>1, <1>3 DEF Promises
<1>4. ASSUME queue' = queue, \A j \in queue : j.auto /\ intent = "manual" => intent' = "manual",
             NEW s \in Sources, ByJob(s)
      PROVE  s \in Serving'
  BY <1>4 DEF ByJob, Serving, Served
<1>5. ASSUME queue' = queue, NEW d \in Down, NEW s \in Sources, <<d, s>> \in Barriers,
             worker.pc = "announce" /\ Job_.src = s /\ Job_.by = d /\ ~Job_.auto => FALSE
      PROVE  <<d, s>> \in Barriers'
  <2>1. Pending(d, s)
    BY <1>5, ToldSoonIs
  <2>2. Pending(d, s)'
    BY <2>1, <1>1, <1>5 DEF Pending, TellsOf
  <2>. QED BY <2>2 DEF Barriers
<1>6. ASSUME queue' = queue, promised' = promised, worker.pc # "announce", Serving \subseteq Serving',
             \A s \in Sources : told'[s] \in Live => told[s] \in Live
      PROVE  Promises'
  BY <1>3, <1>5, <1>6
<1>7. ASSUME NEW s \in Sources, Evict(s)
      PROVE  queue' = queue /\ intent' = intent /\ \A r \in Sources : told'[r] \in Live => told[r] \in Live
  BY <1>7 DEF Evict, Types, Live
<1>8. ASSUME queue' = queue, intent' = intent, worker'.pc \in Working3, worker.pc \in Working3, worker'.job = worker.job
      PROVE  Serving' = Serving
  BY <1>8 DEF Serving, Served, ByJob, ByWorker, Job_
<1>9. CASE Dequeue
  <2>1. PICK j \in queue : /\ worker' = [Idle EXCEPT !.pc = "announce", !.job = [j EXCEPT !.ahead = {}]]
                          /\ queue' = Without({j.src})
    BY <1>9 DEF Dequeue
  <2>2. j \in Jobs
    BY DEF Types
  <2>3. worker'.pc = "announce" /\ worker'.job.src = j.src /\ worker'.job.auto = j.auto /\ worker'.job.by = j.by
    BY <2>1, <2>2 DEF Idle, Jobs
  <2>4. intent' = intent /\ told' = told /\ promised' = promised /\ worker.pc = "idle"
    BY <1>2, <1>9 DEF Dequeue
  <2>5. ASSUME NEW k \in queue, k # j PROVE \E i \in queue' : i.src = k.src /\ i.by = k.by /\ i.auto = k.auto
    <3>1. k.src \notin {j.src} /\ {j.src} \in SUBSET Sources
      BY <2>5, <1>2 DEF Lined
    <3>. QED BY <3>1, <2>1, WithoutIs DEF Types
  <2>6. ASSUME NEW s \in Serving PROVE s \in Serving'
    <3>1. PICK k \in queue : k.src = s /\ (k.auto => intent = "manual")
      BY <2>4 DEF Serving, Served, ByJob, ByWorker, Working3, Reporting
    <3>2. CASE k = j
      <4>1. ByWorker(s)'
        BY <3>1, <3>2, <2>3, <2>4 DEF ByWorker, Job_, Working3
      <4>. QED BY <4>1, <3>1, <1>2 DEF Serving, Served
    <3>3. CASE k # j
      <4>1. ByJob(s)'
        BY <3>1, <3>3, <2>4, <2>5 DEF ByJob
      <4>. QED BY <4>1, <3>1, <1>2 DEF Serving, Served
    <3>. QED BY <3>2, <3>3
  <2>7. ASSUME NEW d \in Down, NEW s \in Sources, <<d, s>> \in Barriers PROVE <<d, s>> \in Barriers'
    <3>1. Pending(d, s)
      BY <2>7, ToldSoonIs
    <3>2. ASSUME NEW k \in queue, k.src = s, k.by = d, ~k.auto PROVE Pending(d, s)'
      <4>1. CASE k = j
        BY <4>1, <3>2, <2>3 DEF Pending, Job_
      <4>2. CASE k # j
        BY <4>2, <3>2, <2>5 DEF Pending
      <4>. QED BY <4>1, <4>2
    <3>3. ASSUME NEW c \in Clr, d \in clr[c].wait, s \in TellsOf(c) PROVE Pending(d, s)'
      BY <3>3, <1>1 DEF Pending, TellsOf
    <3>4. Pending(d, s)'
      BY <3>1, <3>2, <3>3, <2>4 DEF Pending
    <3>. QED BY <3>4 DEF Barriers
  <2>. QED BY <2>4, <2>6, <2>7, <1>3
<1>10. CASE Drain
  BY <1>1, <1>10 DEF Drain, Promises
<1>11. CASE Announce
  <2>1. worker'.pc = "reclaim" /\ worker'.job = worker.job /\ worker.pc = "announce"
    BY <1>2, <1>11 DEF Announce, Workers
  <2>2. /\ queue' = queue /\ intent' = intent /\ promised' = promised
        /\ told' = IF Speculative THEN told ELSE [told EXCEPT ![Job_.src] = "downloading"]
    BY <1>11 DEF Announce, mem
  <2>3. Serving' = Serving
    BY <2>1, <2>2, <1>8 DEF Working3
  <2>4. ~Speculative => Job_.src \in Serving
    BY <1>2, <2>1 DEF Speculative, Serving, Served, ByWorker, Working3, Types
  <2>5. \A s \in Sources : told'[s] \in Live => s \in Serving \/ told[s] \in Live
    BY <2>2, <2>4 DEF Types
  <2>6. ASSUME started, NEW d \in Down, NEW s \in Sources, <<d, s>> \in Barriers, dl[d].pc = "tell", dl[d].todo = {s}
        PROVE  <<d, s>> \in Barriers'
    <3>1. BarrierClosed(Job_)
      BY <1>11, <2>6 DEF Announce
    <3>2. ~(Job_.src = s /\ Job_.by = d)
      BY <3>1, <2>6 DEF BarrierClosed
    <3>. QED BY <3>2, <2>2, <2>6, <1>5
  <2>. QED BY <2>2, <2>3, <2>5, <2>6, <1>3
<1>12. CASE Reclaim
  <2>1. worker.pc = "reclaim" /\ promised' = promised
    BY <1>12 DEF Reclaim
  <2>2. \/ worker' = [worker EXCEPT !.pc = "capture", !.asAuto = Speculative] /\ queue' = queue /\ intent' = intent /\ told' = told
        \/ worker' = worker /\ \E s \in Sources : Evict(s)
    BY <1>12 DEF Reclaim, Victims, Expired, mem
  <2>3. queue' = queue /\ intent' = intent /\ \A s \in Sources : told'[s] \in Live => told[s] \in Live
    BY <2>2, <1>7
  <2>4. worker'.pc \in Working3 /\ worker'.job = worker.job
    BY <2>1, <2>2, <1>2 DEF Workers, Working3
  <2>5. Serving' = Serving
    BY <2>1, <2>3, <2>4, <1>8 DEF Working3
  <2>. QED BY <2>1, <2>3, <2>5, <1>6
<1>13. CASE Retry
  <2>1. /\ worker.pc = "capture" /\ worker'.pc = "reclaim" /\ worker'.job = worker.job
        /\ queue' = queue /\ intent' = intent /\ promised' = promised /\ told' = told
    BY <1>2, <1>13 DEF Retry, Workers, mem
  <2>2. Serving' = Serving
    BY <2>1, <1>8 DEF Working3
  <2>. QED BY <2>1, <2>2, <1>6
<1>14. CASE Captured \/ CaptureFails
  <2>1. /\ worker.pc = "capture" /\ queue' = queue /\ promised' = promised /\ told' = told
        /\ intent' = IF Job_.auto THEN "none" ELSE intent
    BY <1>14 DEF Captured, CaptureFails
  <2>2. Job_.auto => \A j \in queue : ~j.auto
    BY <1>2, <2>1 DEF Working3
  <2>3. ASSUME NEW s \in Sources, ByWorker(s) PROVE s \in Serving'
    <3>1. Job_.src = s /\ ~Speculative
      BY <2>1, <2>3 DEF ByWorker, Speculative, Working3
    <3>2. worker'.pc = "publish" /\ worker'.job = worker.job /\ worker'.made # "auto"
      BY <1>2, <1>14, <3>1 DEF Captured, CaptureFails, Kept, Workers
    <3>. QED BY <3>1, <3>2 DEF Serving, Served, ByWorker, Job_, Working3, Reporting
  <2>4. Serving \subseteq Serving'
    BY <2>1, <2>2, <2>3, <1>4 DEF Serving, Served
  <2>. QED BY <2>1, <2>4, <1>6
<1>15. CASE Publish
  <2>1. /\ worker.pc = "publish" /\ worker'.pc = "report" /\ worker'.job = worker.job /\ worker'.made = worker.made
        /\ queue' = queue /\ intent' = intent /\ promised' = promised /\ told' = told
    BY <1>2, <1>15 DEF Publish, Workers
  <2>2. Serving' = Serving
    BY <2>1 DEF Serving, Served, ByJob, ByWorker, Job_, Working3, Reporting
  <2>. QED BY <2>1, <2>2, <1>6
<1>16. CASE Report
  <2>1. /\ worker.pc = "report" /\ queue' = queue /\ intent' = intent /\ promised' = promised \ {Job_.src}
        /\ told' = IF worker.made = "auto" THEN told ELSE [told EXCEPT ![Job_.src] = Outcome]
    BY <1>16 DEF Report, mem
  <2>2. Outcome \notin Live
    BY DEF Outcome, Live
  <2>3. ASSUME NEW s \in Serving, s = Job_.src => worker.made = "auto" PROVE s \in Serving'
    <3>1. ~ByWorker(s)
      BY <2>1, <2>3 DEF ByWorker, Working3
    <3>. QED BY <3>1, <2>1, <1>4 DEF Serving, Served
  <2>4. \A s \in Sources : told'[s] \in Live => told[s] \in Live /\ (s = Job_.src => worker.made = "auto")
    BY <2>1, <2>2 DEF Types
  <2>5. \A d \in Down, s \in Sources : <<d, s>> \in Barriers => <<d, s>> \in Barriers'
    BY <2>1, <1>5
  <2>. QED BY <2>1, <2>3, <2>4, <2>5, <1>3
<1>17. CASE Enforce \/ Prune
  <2>1. worker.pc \in {"enforce", "idle"} /\ promised' = promised
    BY <1>2, <1>17 DEF Enforce, Prune
  <2>2. (queue' = queue /\ intent' = intent /\ told' = told) \/ \E s \in Sources : Evict(s)
    BY <1>17 DEF Enforce, Prune, Victims, Expired, mem, AtStage
  <2>3. queue' = queue /\ intent' = intent /\ \A s \in Sources : told'[s] \in Live => told[s] \in Live
    BY <2>2, <1>7
  <2>4. Serving \subseteq Serving'
    BY <2>1, <2>3, <1>4 DEF Serving, Served, ByWorker, Working3, Reporting
  <2>. QED BY <2>1, <2>3, <2>4, <1>6
<1>18. CASE EnqueueAuto
  <2>1. /\ worker.pc = "push" /\ promised' = promised /\ told' = told
        /\ queue' = queue \/ queue' = queue \cup {Job(Job_.src, "worker", TRUE)}
    BY <1>18 DEF EnqueueAuto, Push
  <2>2. queue \subseteq queue' /\ \A j \in queue : ~j.auto
    BY <2>1 DEF Autos, Prefetching
  <2>3. Serving \subseteq Serving'
    BY <2>1, <2>2 DEF Serving, Served, ByJob, ByWorker, Working3, Reporting
  <2>4. ASSUME NEW d \in Down, NEW s \in Sources, <<d, s>> \in Barriers PROVE <<d, s>> \in Barriers'
    <3>1. Pending(d, s)
      BY <2>4, ToldSoonIs
    <3>2. Pending(d, s)'
      BY <3>1, <2>1, <2>2, <1>1 DEF Pending, TellsOf
    <3>. QED BY <3>2 DEF Barriers
  <2>. QED BY <2>1, <2>3, <2>4, <1>3
<1>19. ASSUME NEW r \in Sources, Prepare(r) PROVE Promises'
  <2>1. worker.pc = "idle" /\ queue' = queue /\ intent' = intent /\ promised' = promised /\ told' = told
    BY <1>2, <1>19 DEF Prepare, mem
  <2>2. Serving \subseteq Serving'
    BY <2>1, <1>4 DEF Serving, Served, ByWorker, Working3, Reporting
  <2>. QED BY <2>1, <2>2, <1>6
<1>20. CASE Recheck
  <2>1. worker.pc = "prepare" /\ queue' = queue /\ intent' = intent /\ promised' = promised /\ told' = told
    BY <1>20 DEF Recheck, mem
  <2>2. Serving \subseteq Serving'
    BY <2>1, <1>4 DEF Serving, Served, ByWorker, Working3, Reporting
  <2>. QED BY <2>1, <2>2, <1>6
<1>. QED BY <1>9, <1>10, <1>11, <1>12, <1>13, <1>14, <1>15, <1>16, <1>17, <1>18, <1>19, <1>20 DEF Work

-----------------------------------------------------------------------------
(* A fresh service: nothing stored, queued, asked for or promised.         *)
LEMMA Starts == Init => IInv
<1>. SUFFICES ASSUME Init PROVE IInv
  OBVIOUS
<1>1. Types
  BY TypesInit
<1>2. /\ queue = {} /\ worker.pc = "idle" /\ worker.ep = 0
      /\ \A s \in Sources : state[s] = "none" /\ rec[s] = "none" /\ epoch[s] = 0 /\ told[s] = "none" /\ owed[s] = "no"
      /\ plEpoch = 0 /\ clearSeq = 0 /\ plOwed = FALSE /\ promised = {} /\ blobs = {} /\ plrec = {}
      /\ playing = {} /\ barrier = 0
      /\ DOMAIN rec = Sources
  BY DEF Init, Idle
<1>3. \A d \in Down : dl[d] = NoDownload
  BY DEF Init
<1>4. \A c \in Clr : clr[c] = NoClear
  BY DEF Init
<1>5. /\ NoDownload.pc = "idle" /\ NoDownload.plE = 0 /\ (\A s \in Sources : NoDownload.ep[s] = 0)
      /\ NoDownload.todo = {} /\ NoDownload.asked = {} /\ NoDownload.left = {}
  BY DEF NoDownload
<1>6. NoClear.tell = {} /\ NoClear.keys = {}
  BY DEF NoClear, AClear
<1>7. Lined
  BY <1>2, FS_EmptySet, CacheAssumption DEF Lined, Queued
<1>8. AtStage /\ InCapture /\ Bytes
  BY <1>2 DEF AtStage, InCapture, Bytes, BlobsOfRecords, Working3, Reporting
<1>9. Epochs
  BY <1>2, <1>3, <1>5 DEF Epochs
<1>10. Stages
  BY <1>3, <1>4, <1>5, <1>6 DEF Stages, DownStages, ClrStages, DownStage, ClrStage, TellsOf
<1>11. Sessions /\ Cleared /\ Autos
  BY <1>2 DEF Sessions, Cleared, ItemsCleared, PlaylistCleared, Autos, Working3, Prefetching
<1>12. Promises
  BY <1>2, <1>3, <1>5 DEF Promises, Live
<1>. QED BY <1>1, <1>7, <1>8, <1>9, <1>10, <1>11, <1>12 DEF IInv

LEMMA StepsDownload ==
  ASSUME IInv, NEW d \in Down, Download(d) PROVE IInv'
<1>. USE DEF IInv
<1>1. Types' /\ Lined' /\ AtStage' /\ InCapture'
  BY TypesDownload, LinedDownload, AtStageDownload, InCaptureDownload
<1>2. Bytes' /\ Epochs' /\ Stages'
  BY BytesDownload, EpochsDownload, StagesDownload
<1>5. Sessions'
  BY SessionsDownload
<1>3. Cleared'
  BY ItemsClearedDownload, PlaylistClearedDownload DEF Cleared
<1>4. Autos' /\ Promises'
  BY AutosDownload, PromisesDownload
<1>. QED BY <1>1, <1>2, <1>3, <1>4, <1>5

LEMMA StepsClear ==
  ASSUME IInv, NEW c \in Clr, Clear(c) PROVE IInv'
<1>. USE DEF IInv
<1>1. Types' /\ Lined' /\ AtStage' /\ InCapture'
  BY TypesClear, LinedClear, AtStageClear, InCaptureClear
<1>2. Bytes' /\ Epochs' /\ Stages'
  BY BytesClear, EpochsClear, StagesClear
<1>5. Sessions'
  BY SessionsClear
<1>3. Cleared' /\ Autos' /\ Promises'
  BY ClearedClear, AutosClear, PromisesClear
<1>. QED BY <1>1, <1>2, <1>3, <1>5

LEMMA StepsWork ==
  ASSUME IInv, Work PROVE IInv'
<1>. USE DEF IInv
<1>1. Types' /\ Lined' /\ AtStage' /\ InCapture'
  BY TypesWork, LinedWork, AtStageWork, InCaptureWork
<1>2. Bytes' /\ Epochs' /\ Stages'
  BY BytesWork, EpochsWork, StagesRest
<1>5. Sessions'
  BY SessionsWork
<1>3. Cleared' /\ Autos' /\ Promises'
  BY ClearedWork, AutosWork, PromisesWork
<1>. QED BY <1>1, <1>2, <1>3, <1>5

LEMMA StepsRest ==
  ASSUME IInv, Stop \/ Restart \/ Weather PROVE IInv'
<1>. USE DEF IInv
<1>1. Types' /\ Lined' /\ AtStage' /\ InCapture'
  BY TypesRest, LinedRest, AtStageRest, InCaptureRest
<1>2. Bytes' /\ Epochs' /\ Stages'
  BY BytesRest, EpochsRest, StagesRest
<1>5. Sessions'
  BY SessionsRest
<1>3. Cleared' /\ Autos' /\ Promises'
  BY ClearedRest, AutosRest, PromisesRest
<1>. QED BY <1>1, <1>2, <1>3, <1>5

LEMMA Stutters ==
  ASSUME IInv, UNCHANGED vars PROVE IInv'
<1>1. /\ rec' = rec /\ blobs' = blobs /\ plrec' = plrec /\ state' = state /\ queue' = queue
      /\ worker' = worker /\ dl' = dl /\ clr' = clr /\ epoch' = epoch /\ plEpoch' = plEpoch
      /\ clearSeq' = clearSeq /\ started' = started /\ captureMu' = captureMu /\ intent' = intent
      /\ playing' = playing /\ barrier' = barrier
      /\ autoKey' = autoKey /\ told' = told /\ owed' = owed /\ plOwed' = plOwed /\ promised' = promised
  BY DEF vars, disk, mem, env
<1>2. Job_' = Job_
  BY <1>1 DEF Job_
<1>3. Types'
  BY <1>1 DEF IInv, Types
<1>4. Lined' /\ AtStage' /\ InCapture'
  BY <1>1, <1>2 DEF IInv, Lined, Queued, AtStage, InCapture
<1>5. Bytes' /\ Epochs'
  BY <1>1, <1>2 DEF IInv, Bytes, BlobsOfRecords, Epochs
<1>6. Stages'
  BY <1>1 DEF IInv, Stages, DownStages, DownStage, ClrStages, ClrStage, TellsOf
<1>7. Cleared' /\ Autos' /\ Sessions'
  BY <1>1, <1>2 DEF IInv, Cleared, ItemsCleared, PlaylistCleared, Unrevived, Autos, Sessions, ClearedSinceBarrier
<1>8. Serving' = Serving
  BY <1>1, <1>2 DEF Serving, Served, ByJob, ByWorker
<1>9. ToldSoon' = ToldSoon
  BY <1>1 DEF ToldSoon, TellsOf
<1>10. Barriers' = Barriers
  BY <1>1, <1>2 DEF Barriers, Pending, TellsOf
<1>11. Promises'
  BY <1>1, <1>8, <1>9, <1>10 DEF IInv, Promises
<1>. QED BY <1>3, <1>4, <1>5, <1>6, <1>7, <1>11 DEF IInv

LEMMA Steps == IInv /\ [Next]_vars => IInv'
BY StepsDownload, StepsClear, StepsWork, StepsRest, Stutters DEF Next

(* Types, the queue, the stage the worker is at, the bytes on the disk,    *)
(* the epochs, the clears under way and the promises made to clients fit   *)
(* together in every state the offline cache reaches.                      *)
THEOREM CacheInvariant == Spec => []IInv
<1>1. Init => IInv
  BY Starts
<1>2. IInv /\ [Next]_vars => IInv'
  BY Steps
<1>. QED BY <1>1, <1>2, PTL DEF Spec

LEMMA ClearedFollows == IInv => ClearedStaysCleared
<1>. SUFFICES ASSUME IInv PROVE ClearedStaysCleared
  OBVIOUS
<1>1. DOMAIN rec = Sources
  BY DEF IInv, Types
<1>2. ASSUME NEW s \in Sources, owed[s] = "yes" PROVE rec[s] = "none" /\ ~Queued(s) /\ ~Capturing(s)
  <2>1. state[s] \notin Live /\ rec[s] = "none"
    BY <1>2 DEF IInv, Cleared, ItemsCleared, Unrevived
  <2>2. ~Queued(s)
    BY <2>1 DEF IInv, Lined, Live
  <2>3. ~Capturing(s)
    BY <2>1 DEF IInv, AtStage, Working3, Capturing, Live
  <2>. QED BY <2>1, <2>2, <2>3
<1>3. plOwed => plrec = {}
  BY DEF IInv, Cleared, PlaylistCleared
<1>. QED BY <1>1, <1>2, <1>3 DEF ClearedStaysCleared

(* Once a clear has said it succeeded, no interleaving of downloads,       *)
(* probes that answer late, the worker's own prefetch, evictions and       *)
(* restarts leaves a record or a job of the item, nor the playlist's       *)
(* record, until somebody asks for it again (downloadEpoch,                *)
(* playlistClearEpoch, reserveForClear).                                   *)
THEOREM ClearedStaysClearedHolds == Spec => []ClearedStaysCleared
<1>1. IInv => ClearedStaysCleared
  BY ClearedFollows
<1>. QED BY <1>1, CacheInvariant, PTL

LEMMA ServedIs ==
  ASSUME IInv, NEW s \in Serving
  PROVE  state[s] \in Live \/ (Working(s) /\ worker.made \notin {"none", "auto"})
<1>1. s \in Sources /\ Served(s)
  BY DEF Serving
<1>2. CASE ByJob(s)
  BY <1>1, <1>2 DEF ByJob, IInv, Lined, Queued, Live
<1>3. CASE ByWorker(s) /\ worker.pc \in Working3
  BY <1>1, <1>3 DEF ByWorker, IInv, AtStage, Live
<1>4. CASE ByWorker(s) /\ worker.pc \notin Working3
  BY <1>1, <1>4 DEF ByWorker, IInv, AtStage, Reporting, Working, Working3
<1>. QED BY <1>1, <1>2, <1>3, <1>4 DEF Served

LEMMA AgreesFollows == IInv => CacheAgrees
<1>. SUFFICES ASSUME IInv PROVE CacheAgrees
  OBVIOUS
<1>1. DOMAIN rec = Sources /\ DOMAIN clr = Clr
  BY DEF IInv, Types
<1>2. TypeOK
  BY <1>1 DEF IInv, Types, Recs, States, Lined, TypeOK
<1>3. BlobsOfRecords
  BY DEF IInv, Bytes
<1>4. NobodyStranded
  <2>1. SUFFICES ASSUME started, NEW s \in Sources, told[s] \in Live
                 PROVE  state[s] \in Live \/ Working(s) \/ Telling(s)
    BY <1>1 DEF NobodyStranded
  <2>2. s \in Serving \/ s \in ToldSoon
    BY <2>1 DEF IInv, Promises
  <2>3. s \in ToldSoon => Telling(s)
    BY <1>1 DEF ToldSoon, TellsOf, Telling
  <2>. QED BY <2>2, <2>3, ServedIs
<1>5. AcceptedIsServed
  BY ServedIs DEF IInv, Promises, AcceptedIsServed
<1>6. NothingAfterDrain
  BY DEF IInv, AtStage, NothingAfterDrain
<1>. QED BY <1>2, <1>3, <1>4, <1>5, <1>6 DEF CacheAgrees

(* The queue and the state map agree, every record has its bytes, nobody   *)
(* is left looking at "queued" or "downloading" for work that is gone, an  *)
(* accepted download ends in a report of its own, and a worker that has    *)
(* drained leaves nothing behind, for any number of sources, downloads     *)
(* and clears, any queue and any budget.                                   *)
THEOREM CacheAgreesHolds == Spec => []CacheAgrees
<1>1. IInv => CacheAgrees
  BY AgreesFollows
<1>. QED BY <1>1, CacheInvariant, PTL
=============================================================================
