------------------------------- MODULE MCNet ---------------------------------
(***************************************************************************)
(* Scenes of the relay sockets (Relayer: the legacy relay that retires, the*)
(* legacy relay with every other error and a shutdown, the device-ID       *)
(* relay), beside those of the peers behind one (MCRelayV2).  The constants*)
(* of the cfg are those of "odd" and of "mint".                            *)
(***************************************************************************)
EXTENDS MCRelayV2, Relayer

mcvars == <<scene, line_vars, peer_vars>>

Legacy == {"beat", "edge", "boot"}
Retire == INSTANCE Relayer WITH V2 <- FALSE, Callers <- Legacy, Worlds <- {"ok", "gone", "down"},
            MaxWorld <- 3, MaxDials <- 2, MaxTries <- 1, MayStop <- FALSE
Device == INSTANCE Relayer WITH V2 <- TRUE, Callers <- {"boot"}, Worlds <- {"ok", "down"},
            MaxWorld <- 2, MaxDials <- 3, MaxTries <- 2, MayStop <- TRUE

MCInit ==
  \/ /\ NoPeers
     /\ \/ scene = "retire" /\ Retire!LineInit
        \/ scene = "odd" /\ LineInit
        \/ scene = "device" /\ Device!LineInit
  \/ PeersInit /\ Device!LineInit /\ world.now = "ok"
MCNext ==
  /\ UNCHANGED scene
  /\ \/ /\ UNCHANGED peer_vars
        /\ \/ scene = "retire" /\ Retire!LineNext
           \/ scene = "odd" /\ LineNext
           \/ scene = "device" /\ Device!LineNext
     \/ PeersNext /\ UNCHANGED line_vars

(* The fairness of Relayer and RelayV2, scene by scene.                    *)
Calls(a) ==
  /\ a \in DOMAIN act
  /\ \/ scene = "retire" /\ Retire!Dialer(a)
     \/ scene = "odd" /\ Dialer(a)
     \/ scene = "device" /\ Device!Dialer(a)
Listening(r) ==
  \/ scene = "retire" /\ Retire!Reader(r)
  \/ scene = "odd" /\ Reader(r)
  \/ scene = "device" /\ Device!Reader(r)
Pingers ==
  \/ scene = "retire" /\ \E p \in pingers : Retire!PingerEnds(p)
  \/ scene = "odd" /\ \E p \in pingers : PingerEnds(p)
  \/ scene = "device" /\ \E p \in pingers : Device!PingerEnds(p)
Closes ==
  \/ scene = "odd" /\ CloseAtShutdown
  \/ scene = "device" /\ Device!CloseAtShutdown
Legacies == scene \in {"retire", "odd"}
MCSpec ==
  /\ MCInit /\ [][MCNext]_mcvars /\ PeersFairness
  /\ \A a \in Legacy \cup Readers : WF_line_vars(Calls(a))
  /\ \A r \in Readers : WF_line_vars(Listening(r))
  /\ WF_act(Legacies /\ Retire!Beat) /\ WF_act(Legacies /\ Retire!BeatQueried)
  /\ WF_world((scene = "device" /\ Device!Edge) \/ (Legacies /\ Retire!Edge))
  /\ WF_latch(Legacies /\ Retire!ProbeDue)
  /\ WF_conn((scene = "retire" /\ Retire!KeepaliveFails) \/ (scene = "device" /\ Device!KeepaliveFails))
  /\ WF_done(Closes) /\ WF_pingers(Pingers)

(* A relay that answers is connected in the end, and a shutdown leaves     *)
(* neither socket nor goroutine (relayer.go 281, 300).                     *)
LineSettles ==
  /\ []<>(scene \in Peered \/ ~Good \/ (Up /\ conn.cur \notin conn.broken))
  /\ []<>(ctx # "done" \/ (~Up /\ pingers = {} /\ \A a \in DOMAIN act : act[a].pc = "idle"))
=============================================================================
