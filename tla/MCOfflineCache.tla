--------------------------- MODULE MCOfflineCache ---------------------------
(***************************************************************************)
(* OfflineCache in five scenes, one per group of interleavings; a scene is *)
(* chosen at the start and never left, so their state spaces add up.  The  *)
(* constants of the cfg are the scene "hot": heat, a software and a media  *)
(* source, more records than fit.                                          *)
(***************************************************************************)
EXTENDS OfflineCache

VARIABLE scene

One == {"a"}

(* Two downloads and a clear of one item.                                  *)
Items1 == INSTANCE OfflineCache WITH
  Sources <- One, Items <- One, Software <- {}, Bodies <- {}, Down <- {"d1", "d2"}, Clr <- {"c"},
  Events <- {}, Room <- 1, MaxQueue <- 1, MaxClears <- 1
(* A download and a full clear of the playlist, three bumps of clearSeq.   *)
Lists == INSTANCE OfflineCache WITH
  Sources <- One, Items <- {}, Software <- {}, Bodies <- {One}, Down <- {"d1"}, Clr <- {"c"},
  Events <- {}, Room <- 1, MaxQueue <- 1, MaxClears <- 3
(* The playback cache, an explicit download and a clear.                   *)
Playing == INSTANCE OfflineCache WITH
  Sources <- One, Items <- One, Software <- {}, Bodies <- {}, Down <- {"d1"}, Clr <- {"c"},
  Events <- {"playing"}, Room <- 1, MaxQueue <- 1, MaxClears <- 1
(* Stop, the drain and restarts.                                           *)
Stops == INSTANCE OfflineCache WITH
  Sources <- One, Items <- One, Software <- {}, Bodies <- {}, Down <- {"d1"}, Clr <- {"c"},
  Events <- {"stop", "restart"}, Room <- 1, MaxQueue <- 1, MaxClears <- 1

MCInit ==
  \/ scene = "items" /\ Items1!Init
  \/ scene = "lists" /\ Lists!Init
  \/ scene = "playing" /\ Playing!Init
  \/ scene = "stops" /\ Stops!Init
  \/ scene = "hot" /\ Init

MCNext ==
  /\ UNCHANGED scene
  /\ \/ scene = "items" /\ Items1!Next
     \/ scene = "lists" /\ Lists!Next
     \/ scene = "playing" /\ Playing!Next
     \/ scene = "stops" /\ Stops!Next
     \/ scene = "hot" /\ Next

mcvars == <<scene, vars>>
MCSpec == MCInit /\ [][MCNext]_mcvars /\ WF_mcvars(scene = "hot" /\ Work /\ UNCHANGED scene)

(* Deferred software does not hold up media behind it (dequeueAdmitted).   *)
DeferredLetsPass == (scene = "hot") => MediaNotStarved
=============================================================================
