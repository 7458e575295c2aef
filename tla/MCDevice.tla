------------------------------ MODULE MCDevice -------------------------------
(***************************************************************************)
(* Scenes of the screen.  Of mint pairing: a start that races a join and a *)
(* reset ("race", the constants of the cfg); joins and display grants under*)
(* a reset; painters that fail; another overlay, with everything fair.  Of *)
(* the player page: connectivity that must reach it, documents that replace*)
(* each other, navigations with and without a Chromium that restarts under *)
(* them, and three that supersede each other on a page without handler.    *)
(***************************************************************************)
EXTENDS MintPairing, PlayerSession

VARIABLE scene
mint_vars == vars
mcvars == <<scene, mint_vars, page_vars>>

Grants == INSTANCE MintPairing WITH Starts <- {}, Joins <- {"j", "k"}, Pairs <- {"j", "k"}, Displays <- {"k"}, SameSite <- TRUE,
          Faults <- {"revoke", "create", "gone"}, Resets <- TRUE, Other <- "none"
Painters == INSTANCE MintPairing WITH Starts <- {"a", "b"}, Joins <- {}, Pairs <- {"a", "b"}, Displays <- {}, SameSite <- FALSE,
          Faults <- {"paint", "broker"}, Resets <- FALSE, Other <- "none"
Screens == INSTANCE MintPairing WITH Starts <- {"a"}, Joins <- {}, Pairs <- {"a"}, Displays <- {}, SameSite <- FALSE,
          Faults <- {}, Resets <- FALSE, Other <- "ui"

Net == INSTANCE PlayerSession WITH Asks <- 0, Gates <- {}, Edges <- 1, MaxDocs <- 2,
         PageFaults <- {"restart", "reload"}, Races <- 1, Steps <- {"push"}
Docs == INSTANCE PlayerSession WITH Asks <- 0, Gates <- {}, Edges <- 0, MaxDocs <- 2,
         PageFaults <- {"restart", "reload"}, Races <- 1, Steps <- {"policy", "content"}
Two == INSTANCE PlayerSession WITH Asks <- 2, Gates <- {"overlay", "route", "error"}, Edges <- 0, MaxDocs <- 1,
         PageFaults <- {}, Races <- 0, Steps <- {}
Three == INSTANCE PlayerSession WITH Asks <- 3, Gates <- {}, Edges <- 0, MaxDocs <- 1,
         PageFaults <- {"never"}, Races <- 0, Steps <- {}

MCInit ==
  \/ /\ Three!PageInit
     /\ \/ scene = "race" /\ Init
        \/ scene = "grants" /\ Grants!Init
        \/ scene = "painters" /\ Painters!Init
        \/ scene = "screens" /\ Screens!Init
  \/ /\ Screens!Init
     /\ \/ scene = "net" /\ Net!PageInit
        \/ scene = "docs" /\ Docs!PageInit
        \/ scene = "lost" /\ PageInit
        \/ scene = "two" /\ Two!PageInit
        \/ scene = "three" /\ Three!PageInit
(* A pairing runs out of time in the other scenes, not in the race; and a  *)
(* create not among the painters.                                          *)
MintScenes ==
  /\ UNCHANGED <<scene, page_vars>>
  /\ \/ scene = "race" /\ Next /\ \A p \in DOMAIN pr : pr'[p].ctx # "expired"
     \/ scene = "grants" /\ Grants!Next
     \/ scene = "painters" /\ Painters!Next /\ \A p \in DOMAIN pr : ~pr'[p].lost
     \/ scene = "screens" /\ Screens!Next
PageScenes ==
  /\ UNCHANGED <<scene, mint_vars>>
  /\ \/ scene = "net" /\ Net!PageNext
     \/ scene = "docs" /\ Docs!PageNext
     \/ scene = "lost" /\ PageNext
     \/ scene = "two" /\ Two!PageNext
     \/ scene = "three" /\ Three!PageNext

(* The fairness of PlayerSession; the last scene is for safety only.      *)
Fair == scene \in {"net", "docs", "lost", "two"}
MCSpec ==
  /\ MCInit /\ [][MintScenes \/ PageScenes]_mcvars
  /\ WF_mint_vars(scene = "screens" /\ Screens!Handler("a"))
  /\ WF_pr(scene = "screens" /\ Screens!Worker("a"))
  /\ WF_ov(scene = "screens" /\ Screens!Paint)
  /\ WF_page_vars(Fair /\ Net!Client)
  /\ WF_page_vars(scene \in {"lost", "two"} /\ NavWorker)
  /\ WF_page_vars(scene \in {"net", "docs"} /\ Net!Pusher)
  /\ WF_page_vars(Fair /\ Net!Poll) /\ WF_page_vars(scene \in {"net", "docs"} /\ Net!PollObserves)
  /\ \A g \in Ids : WF_page_vars(\/ scene = "net" /\ g <= Net!Cur /\ Net!Readiness(g)
                                 \/ scene = "docs" /\ g <= Docs!Cur /\ Docs!Readiness(g)
                                 \/ scene \in {"lost", "two"} /\ g <= Cur /\ Readiness(g))
  /\ WF_page_vars(scene = "net" /\ Net!Signal)
  /\ WF_page_vars(Fair /\ Net!HandlerInstalled)
  /\ WF_page_vars(Fair /\ Net!Commits)

(* The painters' turn comes back, and a worker that was cancelled ends: a  *)
(* cancelled context stays so, and so does a worker that has ended.        *)
TurnsEnd ==
  /\ []<>(scene # "screens" \/ lock = Nobody)
  /\ []<>(scene # "screens" \/ pr["a"].ctx # "canceled" \/ pr["a"].pc = "done")

(* A page that stays is told content and level, and every navigation is    *)
(* answered.                                                               *)
PageIsServed ==
  /\ \A n \in 1..2 : []<>(~Fair \/ nav.asked < n \/ nav.done[n] # << >>)
  /\ []<>(scene # "docs" \/ ~doc.handler \/ doc.raced \/ doc.content = "ok")
  /\ []<>(scene # "net" \/ ~doc.handler \/ doc.raced \/ doc.level = conn.level)
=============================================================================
