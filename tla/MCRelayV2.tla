------------------------------- MODULE MCRelayV2 -----------------------------
(***************************************************************************)
(* Scenes of the device-ID relay's session: revocations on both routes,    *)
(* snapshots, more peers than a controller may bind, copies that only an   *)
(* owner gets ("mint", the constants of the cfg).                          *)
(***************************************************************************)
EXTENDS RelayV2

VARIABLE scene
peer_vars == vars

Peered == {"revoke", "snapshot", "crowd", "mint"}
Revoke == INSTANCE RelayV2 WITH Conns <- {"p"}, Ctls <- {"o", "c"}, Kinds <- {"revoke"},
            Types <- {}, PerCtl <- 1, MaxSockets <- 2, MaxVersion <- 0, MaxAsks <- 2, MaxGrants <- 1
Snapshot == INSTANCE RelayV2 WITH Conns <- {"p"}, Ctls <- {"o"}, Kinds <- {"command"},
            Types <- {"status", "notice"}, PerCtl <- 1, MaxSockets <- 1, MaxVersion <- 2, MaxAsks <- 2, MaxGrants <- 1
Crowd == INSTANCE RelayV2 WITH Conns <- {"p", "q"}, Ctls <- {"o"}, Kinds <- {"command", "plain"},
            Types <- {}, PerCtl <- 1, MaxSockets <- 1, MaxVersion <- 0, MaxAsks <- 2, MaxGrants <- 0

NoPeers == Snapshot!Init
PeersInit ==
  \/ scene = "revoke" /\ Revoke!Init
  \/ scene = "snapshot" /\ Snapshot!Init
  \/ scene = "crowd" /\ Crowd!Init
  \/ scene = "mint" /\ Init
PeersNext ==
  \/ scene = "revoke" /\ Revoke!Next
  \/ scene = "snapshot" /\ Snapshot!Next
  \/ scene = "crowd" /\ Crowd!Next
  \/ scene = "mint" /\ Next
PeersFairness ==
  /\ \A s \in Slots : WF_asks(scene = "snapshot" /\ Snapshot!Handler(s))
  /\ WF_bound(scene = "snapshot" /\ Snapshot!Sender(<<1, "p">>))

(* A new binding gets the newest status, none goes back, and what is held  *)
(* for it is sent in the end (relay_v2.go 278).                            *)
StatusInOrder ==
  /\ [](scene \in {"snapshot", "mint"} => HasNewestStatus /\ StatusGoesForward)
  /\ []<>(scene # "snapshot" \/ <<1, "p">> \notin DOMAIN bound \/ bound[<<1, "p">>].pending \/ bound[<<1, "p">>].queue = << >>)
=============================================================================
