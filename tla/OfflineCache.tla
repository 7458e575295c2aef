---------------------------- MODULE OfflineCache ----------------------------
(***************************************************************************)
(* feral-controld/offlinecache/service.go: downloads of items and of one   *)
(* playlist, clears, the single capture worker, eviction, GC, playback     *)
(* cache, Stop and restart.  A step is a critical section of s.mu,         *)
(* playlistRecordMu or captureMu, or the stretch between two of them.      *)
(* Left out: byte counts (a record is one unit), reasons, paging, the      *)
(* recency order among victims (any of them may go), the order in which a  *)
(* playlist's eligible items are queued, and the back-off of the playback  *)
(* cache (attempts), so that it prefetches more often than the code does.  *)
(***************************************************************************)
EXTENDS Naturals, FiniteSets

CONSTANTS
  Sources,        \* source URLs, already hashed to their keys
  Items,          \* those downloaded and cleared one by one
  Software,       \* those that classify as software, the others as media
  Bodies,         \* the versions of the playlist: sets of sources
  Down, Clr,      \* concurrent download and clear commands
  Events,         \* what happens besides: "playing" (the playback cache is
                  \* on), "heat", "stop", "restart"
  Room,           \* records the disk budget holds
  MaxQueue,       \* maxQueueLen
  MaxClears       \* bound on clearSeq

ASSUME CacheAssumption ==
  /\ Items \subseteq Sources /\ Bodies \subseteq SUBSET Sources
  /\ "none" \notin Sources /\ MaxQueue \in Nat

VARIABLES
  rec,       \* item records: "none", "snapshot", "auto" or "expired"
  blobs,     \* sources whose bytes are in the blob store
  plrec,     \* the playlist record: its members, {} when there is none
  state,     \* s.state
  queue,     \* the jobs of the FIFO, each with the sources queued ahead of it
  worker, dl, clr,
  epoch, plEpoch, clearSeq,
  started, captureMu,
  intent, autoKey,      \* automaticIntent and automaticKey
  playing,   \* p.sources: the sources of the list last seen on screen
  ready,     \* p.ready: the player reported it, and it plays
  barrier,   \* p.clearBarrier: clearSeq when that list came on screen
  stale,     \* p.generation moved on since the worker took its copy
  heat,      \* what the admission gate blocks: "none", "software" or "all"
  told,      \* the last state an observer heard of each source
  owed,      \* ghost: a clear of the source was promised ("yes"), and since
             \* then no download has begun on it and no other list that has
             \* it came on screen
  plOwed,    \* the same of the playlist record
  promised   \* ghost: explicit downloads accepted and not yet reported on

disk == <<rec, blobs, plrec>>
mem == <<state, queue, epoch, plEpoch, clearSeq, started, intent, autoKey>>
env == <<playing, ready, barrier, stale, heat>>
vars == <<disk, mem, worker, dl, clr, captureMu, env, told, owed, plOwed, promised>>

Live == {"queued", "downloading"}
NoJob == [src |-> "none", by |-> "none", auto |-> FALSE, prev |-> "none", ahead |-> {}]
Idle == [pc |-> "idle", job |-> NoJob, ep |-> 0, asAuto |-> FALSE, made |-> "none"]
NoDownload ==
  [pc |-> "idle", pl |-> FALSE, plE |-> 0, body |-> {}, todo |-> {}, asked |-> {}, left |-> {},
   bad |-> FALSE, ep |-> [s \in Sources |-> 0]]
AClear(keys, pl, pc) ==
  [pc |-> pc, keys |-> keys, pl |-> pl, settled |-> {}, wait |-> {}, tell |-> {}, gone |-> FALSE]
NoClear == AClear({}, FALSE, "idle")
Job(s, by, auto) ==
  [src |-> s, by |-> by, auto |-> auto, prev |-> state[s], ahead |-> {j.src : j \in queue}]
(* The queue without the jobs of some sources.                             *)
Without(keys) == {[j EXCEPT !.ahead = @ \ keys] : j \in {k \in queue : k.src \notin keys}}
ClassOf(s) == IF s \in Software THEN "software" ELSE "media"

-----------------------------------------------------------------------------
(* What Start makes of the disk: incomplete and unreferenced blobs go, and *)
(* the state of every readable record is rebuilt.                          *)
Rebuilt == [s \in Sources |-> IF rec[s] = "none" THEN "none" ELSE "ready"]
Start ==
  /\ worker' = Idle /\ queue' = {} /\ state' = Rebuilt
  /\ dl' = [d \in Down |-> NoDownload] /\ clr' = [c \in Clr |-> NoClear]
  /\ epoch' = [s \in Sources |-> 0] /\ plEpoch' = 0 /\ clearSeq' = 0
  /\ started' = TRUE /\ captureMu' = FALSE /\ intent' = "none" /\ autoKey' = "none"
  /\ told' = [s \in Sources |-> "none"]
  /\ blobs' = {s \in blobs : rec[s] # "none"} /\ promised' = {}

Init ==
  /\ rec = [s \in Sources |-> "none"] /\ blobs = {} /\ plrec = {}
  /\ state = [s \in Sources |-> "none"] /\ queue = {} /\ worker = Idle
  /\ dl = [d \in Down |-> NoDownload] /\ clr = [c \in Clr |-> NoClear]
  /\ epoch = [s \in Sources |-> 0] /\ plEpoch = 0 /\ clearSeq = 0
  /\ started = TRUE /\ captureMu = FALSE /\ intent = "none" /\ autoKey = "none"
  /\ playing = {} /\ ready = FALSE /\ barrier = 0 /\ stale = TRUE /\ heat = "none"
  /\ told = [s \in Sources |-> "none"]
  /\ owed = [s \in Sources |-> "no"] /\ plOwed = FALSE /\ promised = {}

(* A crash or a deploy at any point, and the next Start, which knows of no *)
(* list on screen yet.                                                     *)
Restart ==
  /\ "restart" \in Events /\ Start
  /\ playing' = {} /\ ready' = FALSE /\ barrier' = 0 /\ stale' = TRUE
  /\ UNCHANGED <<rec, plrec, heat, owed, plOwed>>

-----------------------------------------------------------------------------
(* DownloadItem is a download of one source with no playlist to save.      *)
Begin(d) ==
  /\ dl[d] = NoDownload /\ started
  /\ \E ofPlaylist \in BOOLEAN :
       \E body \in IF ofPlaylist THEN Bodies ELSE {{s} : s \in Items} :
         dl' = [dl EXCEPT ![d] =
           [pc |-> "probe", pl |-> ofPlaylist, plE |-> plEpoch, body |-> body,
            todo |-> body, asked |-> {}, left |-> {}, bad |-> FALSE, ep |-> [s \in Sources |-> 0]]]
  /\ plOwed' = (plOwed /\ ~dl'[d].pl)
  /\ UNCHANGED <<disk, mem, worker, clr, captureMu, env, told, owed, promised>>

(* The epoch of each item is read just before its own probe.               *)
Sample(d, s) ==
  /\ dl[d].pc = "probe" /\ s \in dl[d].todo
  /\ dl' = [dl EXCEPT ![d].todo = @ \ {s}, ![d].asked = @ \cup {s},
                      ![d].ep[s] = epoch[s]]
  /\ owed' = [owed EXCEPT ![s] = "no"]
  /\ UNCHANGED <<disk, mem, worker, clr, captureMu, env, told, plOwed, promised>>

(* The probe answers with a class worth capturing, or with one that is not *)
(* (streaming, inline), or it fails.                                       *)
Answers == {"eligible", "excluded", "failed"}
Classified(d, s, answer) ==
  /\ dl[d].pc = "probe" /\ s \in dl[d].asked
  /\ dl' = [dl EXCEPT ![d] = [dl[d] EXCEPT
       !.asked = @ \ {s}, !.left = IF answer = "eligible" THEN @ \cup {s} ELSE @,
       !.bad = IF answer = "failed" THEN TRUE ELSE @, !.ep[s] = IF answer = "eligible" THEN @ ELSE 0]]
  /\ UNCHANGED <<disk, mem, worker, clr, captureMu, env, told, owed, plOwed, promised>>

Answered(d) == dl[d].pc = "probe" /\ dl[d].todo = {} /\ dl[d].asked = {}

(* The playlist record is written under playlistRecordMu unless a clear of *)
(* the playlist came since the download began.  Before that, failed probes *)
(* that left nothing to queue are an error; a playlist of excluded items   *)
(* only is saved.  Any of it, or a failed write, ends the download.        *)
NotCleared(d) == plEpoch = dl[d].plE
Broken(d) == dl[d].left = {} /\ dl[d].bad
SavePlaylist(d) ==
  /\ Answered(d)
  /\ \/ /\ dl[d].pl => ~Broken(d) /\ NotCleared(d)
        /\ plrec' = IF dl[d].pl THEN dl[d].body ELSE plrec
        /\ dl' = [dl EXCEPT ![d] = [dl[d] EXCEPT !.pc = "enqueue", !.bad = FALSE]]
     \/ /\ dl[d].pl
        /\ dl' = [dl EXCEPT ![d] = NoDownload] /\ UNCHANGED plrec
  /\ UNCHANGED <<rec, blobs, mem, worker, clr, captureMu, env, told, owed, plOwed, promised>>

(* The commit of enqueueCapture under s.mu.  Its read-locked first phase   *)
(* has the same outcomes and is not a step of its own.                     *)
UnchallengedAlways(ep, s) == TRUE \* mutant
Unchallenged(ep, s) == epoch[s] = ep
Push(s, by, auto) ==
  /\ queue' = queue \cup {Job(s, by, auto)}
  /\ state' = [state EXCEPT ![s] = "queued"]
Commits(ep, s) == started /\ state[s] \notin Live /\ Unchallenged(ep, s) /\ Cardinality(queue) < MaxQueue

Enqueue(d, s) ==
  /\ dl[d].pc = "enqueue" /\ s \in dl[d].left
  /\ Commits(dl[d].ep[s], s)
  /\ Push(s, d, FALSE)
  /\ promised' = promised \cup {s}
  /\ dl' = [dl EXCEPT ![d].left = @ \ {s}, ![d].ep[s] = 0,
                      ![d].pc = "tell", ![d].todo = {s}]
  /\ UNCHANGED <<disk, epoch, plEpoch, clearSeq, started, intent, autoKey, worker, clr, captureMu, env, told, owed, plOwed>>

(* The source is already queued or being captured; a speculative capture   *)
(* becomes a download.                                                     *)
Join(d, s) ==
  /\ dl[d].pc = "enqueue" /\ s \in dl[d].left
  /\ started /\ state[s] \in Live
  /\ intent' = IF autoKey = s /\ intent = "auto" THEN "manual" ELSE intent
  /\ promised' = promised \cup {s}
  /\ dl' = [dl EXCEPT ![d].left = @ \ {s}, ![d].ep[s] = 0]
  /\ UNCHANGED <<disk, state, queue, epoch, plEpoch, clearSeq, started, autoKey, worker, clr, captureMu, env, told, owed, plOwed>>

(* A clear won, or the service stopped or the queue is full, which ends    *)
(* the loop.                                                               *)
Refused(d, s) ==
  /\ dl[d].pc = "enqueue" /\ s \in dl[d].left
  /\ ~Commits(dl[d].ep[s], s) /\ (started => state[s] \notin Live)
  /\ dl' = [dl EXCEPT ![d].left = IF started /\ ~Unchallenged(dl[d].ep[s], s) THEN @ \ {s} ELSE {}]
  /\ UNCHANGED <<disk, mem, worker, clr, captureMu, env, told, owed, plOwed, promised>>

(* The "queued" notification leaves after the lock, then the barrier that  *)
(* the worker and a clear of the job wait for is closed.                   *)
TellQueued(d) ==
  /\ dl[d].pc = "tell"
  /\ \E s \in dl[d].todo : told' = [told EXCEPT ![s] = "queued"]
  /\ dl' = [dl EXCEPT ![d].pc = "enqueue", ![d].todo = {}]
  /\ clr' = [c \in Clr |-> [clr[c] EXCEPT !.wait = @ \ {d}]]
  /\ UNCHANGED <<disk, mem, worker, captureMu, env, owed, plOwed, promised>>

Done(d) ==
  /\ dl[d].pc = "enqueue" /\ dl[d].left = {}
  /\ dl' = [dl EXCEPT ![d] = NoDownload]
  /\ UNCHANGED <<disk, mem, worker, clr, captureMu, env, told, owed, plOwed, promised>>

Download(d) ==
  \/ Begin(d) \/ SavePlaylist(d) \/ TellQueued(d) \/ Done(d)
  \/ \E s \in Sources :
       Sample(d, s) \/ Enqueue(d, s) \/ Join(d, s) \/ Refused(d, s)
         \/ \E answer \in Answers : Classified(d, s, answer)

-----------------------------------------------------------------------------
Clearing(c, pc) == clr[c].pc = pc

(* markPlaylistCleared and the membership snapshot, one critical section   *)
(* of playlistRecordMu.                                                    *)
ClearPlaylist(c) ==
  /\ clr[c] = NoClear /\ clearSeq < MaxClears
  /\ clearSeq' = clearSeq + 1 /\ plEpoch' = clearSeq'
  /\ clr' = [clr EXCEPT ![c] = IF plrec = {} THEN NoClear ELSE AClear(plrec, TRUE, "reserve")]
  /\ UNCHANGED <<disk, state, queue, epoch, started, intent, autoKey, worker, dl, captureMu, env, told, owed, plOwed, promised>>

(* reserveForClear: one capture under way refuses the whole clear; if not, *)
(* the jobs are dropped, the tracking ends and the epochs move on.         *)
Busy(keys) == \E s \in keys : state[s] = "downloading"
Dropped(keys) == {j \in queue : j.src \in keys}
BarrierClosed(j) == \A d \in {j.by} \cap Down : dl[d].pc = "tell" => dl[d].todo # {j.src}
Untold(keys) == {j.by : j \in {k \in Dropped(keys) : ~BarrierClosed(k)}}
Reserve(c, keys, pl) ==
  IF Busy(keys) THEN clr' = [clr EXCEPT ![c] = NoClear] /\ UNCHANGED <<mem, owed, promised>>
  ELSE /\ clearSeq < MaxClears /\ clearSeq' = clearSeq + 1
       /\ epoch' = [s \in Sources |-> IF s \in keys THEN clearSeq' ELSE epoch[s]]
       /\ queue' = Without(keys)
       /\ state' = [s \in Sources |-> IF s \in keys THEN "none" ELSE state[s]]
       /\ clr' = [clr EXCEPT ![c] = [AClear(keys, pl, "delete") EXCEPT
                     !.wait = Untold(keys), !.settled = {s \in keys : state[s] # "none"}]]
       /\ owed' = [s \in Sources |-> IF s \in keys THEN "clearing" ELSE owed[s]]
       /\ promised' = promised \ keys
       /\ UNCHANGED <<plEpoch, started, intent, autoKey>>

ClearItem(c, s) ==
  /\ s \in Items /\ clr[c] = NoClear /\ Reserve(c, {s}, FALSE)
  /\ UNCHANGED <<disk, worker, dl, captureMu, env, told, plOwed>>

ClearMembers(c) ==
  /\ Clearing(c, "reserve") /\ Reserve(c, clr[c].keys, TRUE)
  /\ UNCHANGED <<disk, worker, dl, captureMu, env, told, plOwed>>

(* DeleteItem of one member, then not_cached if that changed anything.     *)
Delete(c, s) ==
  /\ Clearing(c, "delete") /\ clr[c].tell = {} /\ s \in clr[c].keys
  /\ clr[c].pl => clr[c].wait = {}
  /\ rec' = [rec EXCEPT ![s] = "none"]
  /\ clr' = [clr EXCEPT ![c].keys = @ \ {s}, ![c].gone = @ \/ rec[s] # "none",
                        ![c].tell = IF rec[s] # "none" \/ s \in clr[c].settled THEN {s} ELSE {}]
  /\ owed' = [owed EXCEPT ![s] = IF @ = "clearing" THEN "yes" ELSE @]
  /\ UNCHANGED <<blobs, plrec, mem, worker, dl, captureMu, env, told, plOwed, promised>>

TellCleared(c) ==
  /\ Clearing(c, "delete") /\ clr[c].tell # {} /\ clr[c].wait = {}
  /\ \E s \in clr[c].tell : told' = [told EXCEPT ![s] = "not_cached"]
  /\ clr' = [clr EXCEPT ![c].tell = {}]
  /\ UNCHANGED <<disk, mem, worker, dl, captureMu, env, owed, plOwed, promised>>

(* The playlist's second bump and the deletion of its record.              *)
Close(c) ==
  /\ Clearing(c, "delete") /\ clr[c].keys = {} /\ clr[c].tell = {}
  /\ IF clr[c].pl
     THEN /\ clearSeq < MaxClears /\ clearSeq' = clearSeq + 1 /\ plEpoch' = clearSeq'
          /\ plrec' = {} /\ plOwed' = TRUE
     ELSE UNCHANGED <<clearSeq, plEpoch, plrec, plOwed>>
  /\ clr' = [clr EXCEPT ![c] = IF clr[c].pl \/ clr[c].gone THEN [@ EXCEPT !.pc = "gc"] ELSE NoClear]
  /\ UNCHANGED <<rec, blobs, state, queue, epoch, started, intent, autoKey, worker, dl, captureMu, env, told, owed, promised>>

Referenced == {s \in blobs : rec[s] # "none"}
GCUnfenced == TRUE \* mutant
GCFenced == ~captureMu
GC(c) ==
  /\ Clearing(c, "gc") /\ GCFenced
  /\ blobs' = Referenced
  /\ clr' = [clr EXCEPT ![c] = NoClear]
  /\ UNCHANGED <<rec, plrec, mem, worker, dl, captureMu, env, told, owed, plOwed, promised>>

Clear(c) ==
  \/ ClearPlaylist(c) \/ ClearMembers(c) \/ TellCleared(c) \/ Close(c) \/ GC(c)
  \/ \E s \in Sources : ClearItem(c, s) \/ Delete(c, s)

-----------------------------------------------------------------------------
(* dequeueAdmitted: the first job the gate admits now; pop and             *)
(* StateDownloading are one critical section.  A stopped worker drains     *)
(* everything, ungated.                                                    *)
Admitted(j) == heat = "none" \/ (heat = "software" /\ ClassOf(j.src) = "media")
FirstAdmittedHead(j) == Admitted(j) /\ j.ahead = {} \* mutant
FirstAdmitted(j) == Admitted(j) /\ \A k \in queue : Admitted(k) => k.src \notin j.ahead

Dequeue ==
  /\ worker = Idle /\ started
  /\ \E j \in queue :
       /\ FirstAdmitted(j)
       /\ worker' = [Idle EXCEPT !.pc = "announce", !.job = [j EXCEPT !.ahead = {}]]
       /\ state' = [state EXCEPT ![j.src] = "downloading"]
       /\ queue' = Without({j.src})
  /\ UNCHANGED <<disk, epoch, plEpoch, clearSeq, started, intent, autoKey, dl, clr, captureMu, env, told, owed, plOwed, promised>>

(* The drain after Stop settles jobs silently; an empty queue ends it.     *)
Restored(j) == IF j.prev = "failed" THEN "failed" ELSE "none"
Drain ==
  /\ worker = Idle /\ ~started
  /\ \/ queue = {} /\ worker' = [Idle EXCEPT !.pc = "gone"] /\ UNCHANGED <<queue, state, intent>>
     \/ \E j \in queue :
          LET silent == j.auto /\ intent = "auto" IN
          /\ j.ahead = {} /\ queue' = Without({j.src}) /\ UNCHANGED worker
          /\ state' = [state EXCEPT ![j.src] = IF silent THEN Restored(j) ELSE "failed"]
          /\ intent' = IF silent THEN "none" ELSE intent
  /\ UNCHANGED <<disk, epoch, plEpoch, clearSeq, started, autoKey, dl, clr, captureMu, env, told, owed, plOwed, promised>>

Job_ == worker.job
Speculative == Job_.auto /\ intent = "auto"

Announce ==
  /\ worker.pc = "announce" /\ (BarrierClosed(Job_) \/ ~started)
  /\ told' = IF Speculative THEN told ELSE [told EXCEPT ![Job_.src] = "downloading"]
  /\ worker' = [worker EXCEPT !.pc = "reclaim"]
  /\ UNCHANGED <<disk, mem, dl, clr, captureMu, env, owed, plOwed, promised>>

(* Eviction: what may go, and the notification that is withheld from a     *)
(* source somebody is downloading.  Its GC takes captureMu itself.         *)
Expired == {s \in Sources : rec[s] = "expired"}
Victims(keep, spare) ==
  LET ok == {s \in Sources : /\ rec[s] # "none"
                             /\ rec[s] = "expired" \/ s \notin keep
                             /\ spare => rec[s] # "snapshot" /\ (rec[s] = "expired" \/ s \notin playing)}
  IN IF Expired # {} THEN Expired ELSE ok
Usage == Cardinality({s \in Sources : rec[s] # "none"})
Evict(s) ==
  /\ rec' = [rec EXCEPT ![s] = "none"]
  /\ blobs' = {b \in blobs : rec'[b] # "none"}
  /\ IF state[s] \in Live THEN UNCHANGED <<state, told>>
     ELSE /\ state' = [state EXCEPT ![s] = "none"]
          /\ told' = [told EXCEPT ![s] = "not_cached"]
  /\ UNCHANGED <<plrec, queue, epoch, plEpoch, clearSeq, started, intent, autoKey>>

(* reclaimDiskForCapture: headroom before the capture, never at the cost   *)
(* of the item itself; nothing left to take is no error.  Then the capture  *)
(* writes its blobs while it holds captureMu; no record names them before  *)
(* SaveItem.                                                               *)
Reclaim ==
  /\ worker.pc = "reclaim" /\ ~captureMu
  /\ LET v == Victims({Job_.src}, Speculative) IN
     IF Usage < Room \/ v = {}
     THEN /\ worker' = [worker EXCEPT !.pc = "capture", !.asAuto = Speculative]
          /\ captureMu' = TRUE /\ blobs' = blobs \cup {Job_.src}
          /\ UNCHANGED <<rec, plrec, mem, told>>
     ELSE \E s \in v : Evict(s) /\ UNCHANGED <<worker, captureMu>>
  /\ UNCHANGED <<dl, clr, env, owed, plOwed, promised>>

(* The capture returns.  An automatic capture that was joined and failed   *)
(* is tried again as a download; one that succeeded is saved once more as  *)
(* a snapshot, in the critical section that publishes the outcome.         *)
Retry ==
  /\ worker.pc = "capture" /\ worker.asAuto /\ ~Speculative
  /\ worker' = [worker EXCEPT !.pc = "reclaim"] /\ captureMu' = FALSE
  /\ UNCHANGED <<disk, mem, dl, clr, env, told, owed, plOwed, promised>>

Kept == IF Speculative THEN "auto" ELSE "snapshot"
Captured ==
  /\ worker.pc = "capture"
  /\ rec' = [rec EXCEPT ![Job_.src] = Kept]
  /\ state' = IF Job_.auto THEN [state EXCEPT ![Job_.src] = "ready"] ELSE state
  /\ intent' = IF Job_.auto THEN "none" ELSE intent
  /\ worker' = [worker EXCEPT !.pc = "publish", !.made = Kept]
  /\ captureMu' = FALSE
  /\ UNCHANGED <<blobs, plrec, queue, epoch, plEpoch, clearSeq, started, autoKey, dl, clr, env, told, owed, plOwed, promised>>

(* It fails; or it wrote its record and is no success: a speculative one   *)
(* that outlived its lifetime (errAutomaticUncacheable), or one that was   *)
(* joined and could not be saved again as a snapshot.                      *)
CaptureFails ==
  /\ worker.pc = "capture"
  /\ \/ (worker.asAuto => Speculative) /\ UNCHANGED rec
     \/ worker.asAuto /\ rec' = [rec EXCEPT ![Job_.src] = IF Speculative THEN "expired" ELSE "auto"]
  /\ state' = IF ~Job_.auto THEN state
              ELSE [state EXCEPT ![Job_.src] = IF Speculative THEN Restored(Job_) ELSE "failed"]
  /\ intent' = IF Job_.auto THEN "none" ELSE intent
  /\ worker' = IF Speculative THEN Idle ELSE [worker EXCEPT !.pc = "publish", !.made = "failed"]
  /\ captureMu' = FALSE
  /\ UNCHANGED <<blobs, plrec, queue, epoch, plEpoch, clearSeq, started, autoKey, dl, clr, env, told, owed, plOwed, promised>>

(* notify: the state under s.mu first, the observer after it.              *)
Outcome == IF worker.made = "failed" THEN "failed" ELSE "ready"
Publish ==
  /\ worker.pc = "publish"
  /\ state' = IF Job_.auto THEN state ELSE [state EXCEPT ![Job_.src] = Outcome]
  /\ worker' = [worker EXCEPT !.pc = "report"]
  /\ UNCHANGED <<disk, queue, epoch, plEpoch, clearSeq, started, intent, autoKey, dl, clr, captureMu, env, told, owed, plOwed, promised>>

Report ==
  /\ worker.pc = "report"
  /\ told' = IF worker.made = "auto" THEN told ELSE [told EXCEPT ![Job_.src] = Outcome]
  /\ promised' = promised \ {Job_.src}
  /\ worker' = IF worker.made = "failed" THEN Idle ELSE [worker EXCEPT !.pc = "enforce"]
  /\ UNCHANGED <<disk, mem, dl, clr, captureMu, env, owed, plOwed>>

(* enforceDiskLimit: the item just captured goes last, but it goes.        *)
Enforce ==
  /\ worker.pc = "enforce" /\ ~captureMu
  /\ LET v == Victims({Job_.src}, FALSE)
         last == {s \in {Job_.src} : rec[s] # "none"} IN
     IF Usage <= Room \/ (v = {} /\ last = {})
     THEN worker' = Idle /\ UNCHANGED <<disk, mem, told>>
     ELSE \E s \in IF v # {} THEN v ELSE last : Evict(s) /\ UNCHANGED worker
  /\ UNCHANGED <<dl, clr, captureMu, env, owed, plOwed, promised>>

(* pruneExpiredAutomatic, between jobs.                                    *)
Prune ==
  /\ worker = Idle /\ started /\ ~captureMu
  /\ \E s \in Expired : Evict(s)
  /\ UNCHANGED <<worker, dl, clr, captureMu, env, owed, plOwed, promised>>

(* playbackCache.prepare: with nothing admissible queued and no automatic  *)
(* capture pending the worker itself probes one uncached source of the     *)
(* list on screen, but none that was cleared while that list was there.    *)
(* After the probe it looks at the list and at the clears again, and then, *)
(* having let go of p.mu, it queues the source.                            *)
AutoPending == intent # "none" /\ autoKey # "none" /\ state[autoKey] \in Live
ClearedSinceBarrierNever(s) == FALSE \* mutant
ClearedSinceBarrier(s) == epoch[s] > barrier
Prepare(s) ==
  /\ worker = Idle /\ started /\ (\A j \in queue : ~Admitted(j)) /\ ~AutoPending
  /\ ready /\ s \in playing \ Software /\ ~ClearedSinceBarrier(s) /\ rec[s] \notin {"snapshot", "auto"}
  /\ worker' = [Idle EXCEPT !.pc = "prepare", !.job = [NoJob EXCEPT !.src = s], !.ep = epoch[s]]
  /\ stale' = FALSE
  /\ UNCHANGED <<disk, mem, dl, clr, captureMu, playing, ready, barrier, heat, told, owed, plOwed, promised>>

Recheck ==
  /\ worker.pc = "prepare"
  /\ \/ ~stale /\ ~ClearedSinceBarrier(Job_.src) /\ worker' = [worker EXCEPT !.pc = "push"]
     \/ worker' = Idle \* or the probe failed, or found no media
  /\ UNCHANGED <<disk, mem, dl, clr, captureMu, env, told, owed, plOwed, promised>>

EnqueueAuto ==
  /\ worker.pc = "push"
  /\ LET s == Job_.src IN
     IF Commits(worker.ep, s)
     THEN Push(s, "worker", TRUE) /\ intent' = "auto" /\ autoKey' = s
     ELSE UNCHANGED <<queue, state, intent, autoKey>>
  /\ worker' = Idle
  /\ UNCHANGED <<disk, epoch, plEpoch, clearSeq, started, dl, clr, captureMu, env, told, owed, plOwed, promised>>

Work ==
  \/ Dequeue \/ Drain \/ Announce \/ Reclaim \/ Retry \/ Captured
  \/ CaptureFails \/ Publish \/ Report \/ Enforce \/ Prune \/ Recheck \/ EnqueueAuto
  \/ \E s \in Sources : Prepare(s)

Stop ==
  /\ "stop" \in Events
  /\ started /\ started' = FALSE
  /\ UNCHANGED <<disk, state, queue, epoch, plEpoch, clearSeq, intent, autoKey, worker, dl, clr, captureMu, env, told, owed, plOwed, promised>>

(* playbackCache.observe: no status suspends the session and keeps its     *)
(* list and barrier; only another list starts a session of its own.  What  *)
(* was cleared before that may be prefetched again.  (It also cancels the  *)
(* speculative capture of a source it does not have: CaptureFails.)        *)
Observe ==
  /\ "playing" \in Events /\ UNCHANGED heat
  /\ \/ ready' = FALSE /\ stale' = TRUE /\ UNCHANGED <<playing, barrier, owed>>
     \/ ready' = ~ready /\ UNCHANGED <<playing, barrier, stale, owed>>
     \/ /\ playing' \in SUBSET Sources \ {playing} /\ ready' \in BOOLEAN
        /\ barrier' = clearSeq /\ stale' = TRUE
        /\ owed' = [s \in Sources |-> IF s \in playing' THEN "no" ELSE owed[s]]

(* Pressure and the age of automatic records.                              *)
World ==
  \/ Observe /\ UNCHANGED rec
  \/ "heat" \in Events /\ heat' \in {"none", "software", "all"} \ {heat}
     /\ UNCHANGED <<playing, ready, barrier, stale, rec, owed>>
  \/ \E s \in Sources : rec[s] = "auto" /\ rec' = [rec EXCEPT ![s] = "expired"]
                        /\ UNCHANGED <<env, owed>>
Weather == World /\ UNCHANGED <<blobs, plrec, mem, worker, dl, clr, captureMu, told, plOwed, promised>>

Next == Work \/ Stop \/ Restart \/ Weather \/ (\E d \in Down : Download(d)) \/ (\E c \in Clr : Clear(c))
Spec == Init /\ [][Next]_vars

(* The worker keeps working; nobody else has to.                           *)
FairSpec == Spec /\ WF_vars(Work)

-----------------------------------------------------------------------------
Capturing(s) == worker.pc \in {"announce", "reclaim", "capture"} /\ Job_.src = s
Working(s) == Capturing(s) \/ (worker.pc \in {"publish", "report"} /\ Job_.src = s)
Queued(s) == \E j \in queue : j.src = s
Telling(s) == \E c \in DOMAIN clr : s \in clr[c].tell \/ (s \in clr[c].keys \cap clr[c].settled)

(* Bookkeeping: one job per source, in the queue exactly while its state   *)
(* says queued; the queue and the record set are of known kinds.           *)
TypeOK ==
  /\ rec \in [DOMAIN rec -> {"none", "snapshot", "auto", "expired"}]
  /\ state \in [DOMAIN rec -> {"none", "queued", "downloading", "ready", "failed"}]
  /\ Cardinality(queue) <= MaxQueue
  /\ \A s \in DOMAIN rec : (state[s] = "queued") <=> Queued(s)
  /\ \A i, j \in queue : i.src = j.src => i = j

(* A clear that said it succeeded is not undone: no record and no job for  *)
(* the source until a download begins after it or another list with it     *)
(* comes on screen, and no playlist record until a download of that        *)
(* (downloadEpoch, clearBarrier, playlistClearEpoch, reserveForClear).     *)
ClearedStaysCleared ==
  /\ \A s \in DOMAIN rec : owed[s] = "yes" => rec[s] = "none" /\ ~Queued(s) /\ ~Capturing(s)
  /\ plOwed => plrec = {}

(* A record's bytes are there, whatever clears, evictions and restarts     *)
(* sweep while captures write (captureMu).                                 *)
BlobsOfRecords == \A s \in DOMAIN rec : rec[s] # "none" => s \in blobs

(* Nobody is left looking at "queued" or "downloading" for work that is    *)
(* gone: either it is under way or another notification is coming          *)
(* (queuedNotified, awaitQueuedNotifications).                             *)
NobodyStranded ==
  started => \A s \in DOMAIN rec :
    told[s] \in Live => state[s] \in Live \/ Working(s) \/ Telling(s)

(* A download that was accepted, as a job of its own or by joining a       *)
(* speculative capture, ends in a report on a snapshot: it is never lost   *)
(* and never settled as the playback cache's own.                          *)
AcceptedIsServed ==
  started => \A s \in promised :
    state[s] \in Live \/ (Working(s) /\ worker.made \notin {"none", "auto"})

(* Once the worker has drained and gone nothing waits for it.              *)
NothingAfterDrain == worker.pc = "gone" => queue = {}

(* What a download leaves behind, in the queue, on the disk and on a       *)
(* client's screen, agrees, whatever raced it.                             *)
CacheAgrees ==
  TypeOK /\ BlobsOfRecords /\ NobodyStranded /\ AcceptedIsServed /\ NothingAfterDrain

(* Software deferred by heat does not hold up media behind it: a media job *)
(* leaves the queue unless the gate closes for everything.                 *)
MediaNotStarved ==
  \A s \in Sources \ Software :
    state[s] = "queued" ~> (state[s] # "queued" \/ heat = "all" \/ ~started)

(* Status reports what is in flight; an explicit download in flight is     *)
(* never taken for a speculative capture (itemStatus).                     *)
Hidden(s) == autoKey = s /\ intent = "auto"
InFlightReported == \A s \in promised : state[s] \in Live => ~Hidden(s)
=============================================================================
