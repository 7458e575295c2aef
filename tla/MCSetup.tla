------------------------------- MODULE MCSetup -------------------------------
(***************************************************************************)
(* Scenes of the setup state machine: which faults, changes of the network *)
(* and people meet in each; "home" has the constants of the cfg.  ticked   *)
(* and handled are parities that state the fairness of the loop in that    *)
(* scene, which checks liveness.                                           *)
(***************************************************************************)
EXTENDS Provisioning

VARIABLES scene, ticked, handled
mcvars == <<scene, m, dev, events, requests, ticked, handled>>

Raises == INSTANCE Provisioning WITH Failing <- {"up", "down", "portal"}, Worlds <- {"near"},
  People <- {"join"}, Profile <- FALSE, AtBoot <- FALSE, MaxRequests <- 1
Boots == INSTANCE Provisioning WITH Failing <- {"probe"}, Worlds <- {"link", "flap", "inet", "near"},
  People <- {}, Profile <- TRUE, AtBoot <- TRUE, MaxRequests <- 1
Crashes == INSTANCE Provisioning WITH Failing <- {"auto", "down"}, Worlds <- {"link"},
  People <- {"rescan", "crash"}, Profile <- FALSE, AtBoot <- FALSE, MaxRequests <- 2
Claimed == INSTANCE Provisioning WITH Failing <- {"conn"}, Worlds <- {"flap", "inet", "claim"},
  People <- {"portal"}, Profile <- TRUE, AtBoot <- FALSE, MaxRequests <- 1
Wired == INSTANCE Provisioning WITH Failing <- {"up"}, Worlds <- {"wire", "near"},
  People <- {"setup"}, Profile <- FALSE, AtBoot <- FALSE, MaxRequests <- 1
Phones == INSTANCE Provisioning WITH Failing <- {"url", "down"}, Worlds <- {"near"},
  People <- {"portal", "panic"}, Profile <- TRUE, AtBoot <- FALSE, MaxRequests <- 1
User == INSTANCE Provisioning WITH Failing <- {"down"}, Worlds <- {"inet", "near", "link"},
  People <- {"setup", "panic"}, Profile <- TRUE, AtBoot <- TRUE, MaxRequests <- 1

MCInit ==
  /\ ticked = FALSE /\ handled = FALSE
  /\ \/ scene = "raises" /\ Raises!SetupInit
     \/ scene = "boots" /\ Boots!SetupInit
     \/ scene = "crashes" /\ Crashes!SetupInit
     \/ scene = "claimed" /\ Claimed!SetupInit
     \/ scene = "wired" /\ Wired!SetupInit
     \/ scene = "phones" /\ Phones!SetupInit
     \/ scene = "user" /\ User!SetupInit
     \/ scene = "home" /\ SetupInit
MCNext ==
  /\ UNCHANGED scene
  /\ \/ /\ UNCHANGED <<ticked, handled>>
        /\ \/ scene = "raises" /\ Raises!SetupNext
           \/ scene = "boots" /\ Boots!SetupNext
           \/ scene = "crashes" /\ Crashes!SetupNext
           \/ scene = "claimed" /\ Claimed!SetupNext
           \/ scene = "wired" /\ Wired!SetupNext
           \/ scene = "phones" /\ Phones!SetupNext
           \/ scene = "user" /\ User!SetupNext
     \/ scene = "home" /\ Loop /\ handled' = ~handled /\ UNCHANGED ticked
     \/ scene = "home" /\ Tick /\ ticked' = ~ticked /\ UNCHANGED handled
     \/ scene = "home" /\ Surroundings /\ UNCHANGED <<ticked, handled>>

(* Only a tick changes ticked and only the loop changes handled.           *)
TickTurn == scene = "home" /\ m.st # "starting" /\ Len(events) <= 2 /\ ticked' = ~ticked
LoopTurn == scene = "home" /\ (m.st = "starting" \/ events # << >>) /\ handled' = ~handled
MCSpec ==
  /\ MCInit /\ [][MCNext]_mcvars
  /\ WF_ticked(TickTurn) /\ WF_handled(LoopTurn)
  /\ WF_mcvars(scene = "home" /\ Associates /\ UNCHANGED <<scene, ticked, handled>>)

(* A frame without network offers setup, one whose network returns joins it*)
(* and goes on trying however its blinks fail (3291; session.go 853, 929), *)
(* and an episode of raises ends (session.go 1165).                        *)
SetupEnds ==
  /\ scene = "home" => OffersSetup /\ HomeComesBack /\ BlinksGoOn
  /\ [](scene \in {"boots", "claimed", "home"} => EpisodeBounded)
=============================================================================
