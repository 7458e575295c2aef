------------------------------ MODULE MCControl -------------------------------
(***************************************************************************)
(* Scenes of the control authority beside the one MCControlAuthority runs: *)
(* access requests over the LAN ("pending", the constants of the cfg),     *)
(* expiring grants under a clock that steps back ("revoke"), and long      *)
(* histories at the record cap ("cap").                                    *)
(***************************************************************************)
EXTENDS MCControlAuthority

CONSTANTS c3, c4, k1, s1

VARIABLE scene

Two == {c1, c2}
Four == {c1, c2, c3, c4}
Key == {k1}
Late == {1, 3}
Certain == {"ok", "fail"}
Sure == {"ok"}
First  == [ctl |-> c1, ctr |-> 1, iat |-> 1, gen |-> 1]
Second == [ctl |-> c1, ctr |-> 1, iat |-> 2, gen |-> 1]
Third  == [ctl |-> c1, ctr |-> 1, iat |-> 3, gen |-> 1]

Revoke == INSTANCE MCControlAuthority WITH
  Ctl <- Two, Keys <- Key, Sources <- {}, Times <- Late,
  Expiries <- {2}, WindowSize <- 2, MaxCtr <- 2, MaxUnsure <- 2, MaxTime <- 2,
  MaxInv <- 2, MaxGen <- 1, Skew <- 1, Lifetime <- 1, Grace <- 1, Retention <- 3,
  OpenLag <- 0, InvTTL <- 1, PendTTL <- 1, PendMaxLife <- 2, NewInterval <- 1,
  RefreshInterval <- 1, MaxPending <- 1, MaxPerSource <- 1, MaxActive <- 2,
  MaxRecords <- 2, WriteOutcomes <- Certain, CreateOutcomes <- Sure,
  RetireOutcomes <- {}, WatchCtr <- 1, WatchIat <- 3, Watched <- Third

Cap == INSTANCE MCControlAuthority WITH
  Ctl <- Four, Keys <- Key, Sources <- {}, Times <- {},
  Expiries <- {3}, WindowSize <- 1, MaxCtr <- 8, MaxUnsure <- 2, MaxTime <- 5,
  MaxInv <- 1, MaxGen <- 1, Skew <- 1, Lifetime <- 1, Grace <- 0, Retention <- 2,
  OpenLag <- 1, InvTTL <- 1, PendTTL <- 1, PendMaxLife <- 2, NewInterval <- 1,
  RefreshInterval <- 1, MaxPending <- 1, MaxPerSource <- 1, MaxActive <- 3,
  MaxRecords <- 3, WriteOutcomes <- Sure, CreateOutcomes <- Sure,
  RetireOutcomes <- {}, WatchCtr <- 1, WatchIat <- 2, Watched <- Second

MCInit == Init /\ scene \in {"revoke", "pending", "cap"}
MCNext ==
  /\ UNCHANGED scene
  /\ \/ scene = "revoke" /\ (Revoke!Next \/ Revoke!StepBack)
     \/ scene = "pending" /\ Next
     \/ scene = "cap" /\ Cap!CapNext
MCSpec == MCInit /\ [][MCNext]_<<scene, vars>>

Alike == Permutations({c3, c4})

(* What was executed once is not executed after, by any delivery, restart, *)
(* eviction or registration anew, unless its claims were checked against a *)
(* clock read before it ran out ("cap", whose claim clock lags: admit.go   *)
(* 594); nor is what was authentically refused, as long as the retention   *)
(* outlives it: a record evicted earlier takes its refused counters with it*)
(* (admit.go 545, 1098-1110).                                              *)
EnvelopeSpentForGood ==
  /\ [][/\ scene # "cap" => ExecutedAtMostOnce'
        /\ scene = "revoke" /\ refused => runs' = runs]_<<scene, vars>>
  /\ [][scene = "cap" /\ runs # 0 /\ runs' # runs => now > Second.iat + 1]_<<scene, vars>>
=============================================================================
