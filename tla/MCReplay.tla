------------------------------ MODULE MCReplay -------------------------------
(***************************************************************************)
(* Scenes of the offline replay: iframes under scopes that come and go     *)
(* (one dial at a time: PageProofs has them all), requests of every kind, a*)
(* burst that fills both admissions, and captures that stay while          *)
(* connections are lost and dialed again.  A scene is the system of Replay *)
(* within its own bounds.                                                  *)
(***************************************************************************)
EXTENDS Replay

VARIABLE scene
mcvars == <<scene, replay_vars>>

Bound(st, ks, rs, gs, fs) == [stores |-> st, kinds |-> ks, reqs |-> rs, gens |-> gs, faults |-> fs]
Bounds ==
  [frames |-> Bound({"none", "all"}, {}, {}, 2, 1),
   asks   |-> Bound({"none", "all"}, {"miss"}, {1}, 2, 1),
   kinds  |-> Bound({"some", "auto", "all"}, Kinds, {1}, 2, 0),
   burst  |-> Bound({"all"}, {"hit"}, {1, 2, 3}, 2, 0),
   live   |-> Bound({"none", "all"}, {"hit"}, {1}, 4, 1)]

Within(b) ==
  /\ store \in b.stores /\ faults <= b.faults
  /\ \A g \in Gens : sock[g] # "none" => g <= b.gens
  /\ \A r \in Reqs : req[r] # NoReq => r \in b.reqs /\ req[r].kind \in b.kinds
  /\ scene = "frames" => pc.sync[1] \notin {"dial", "attach", "auto"} \/ pc.hook[1] = "idle"
  /\ scene = "frames" \/ \A k \in Kids : kid[k] = "none"

MCInit == scene \in DOMAIN Bounds /\ ReplayInit /\ Within(Bounds[scene])
MCNext == UNCHANGED scene /\ ReplayNext /\ Within(Bounds[scene])'
MCSpec ==
  /\ MCInit /\ [][MCNext]_mcvars
  /\ WF_replay_vars(scene = "live" /\ (SyncPlaylist \/ DialAndAttach("sync")))
  /\ SF_replay_vars(scene = "live" /\ DialAndAttach("hook"))
  /\ WF_replay_vars(scene = "live" /\ Tick)
  /\ SF_retiring(scene = "live" /\ RetireRoot) /\ WF_retiring(scene = "live" /\ NotifyScopeLost)
  /\ WF_req(scene = "live" /\ (Decide(1) \/ Reply(1)))

(* When the captures stay, every paused request is answered or released;   *)
(* only one whose own Fetch call was refused may wait, and no longer than  *)
(* the interception that paused it (replay.go 1435, 1491, 1512 log, and    *)
(* nobody retries).  Replay comes back on the connection that is left.     *)
Refused(r) == /\ req[r] # NoReq /\ req[r].st = "dropped" /\ req[r].path = "refused"
              /\ <<req[r].g, req[r].t>> \in armed
Answered == <>[][FALSE]_store =>
  ((scene = "live" /\ req[1] # NoReq) ~> (scene # "live" \/ req[1] = NoReq \/ Refused(1)))
Restored == <>[](store = "all") => <>[](scene # "live" \/ (scope.on /\ <<target["root"], "root">> \in armed))
ReplayServes == Answered /\ Restored
=============================================================================
