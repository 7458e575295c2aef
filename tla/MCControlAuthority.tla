------------------------- MODULE MCControlAuthority -------------------------
(* Small instances of ControlAuthority for TLC.                            *)
EXTENDS ControlAuthority, TLC

CONSTANTS c1, c2, WatchCtr, WatchIat

(* The watched envelope is signed by c1 under the first identity.          *)
MCWatched == [ctl |-> c1, ctr |-> WatchCtr, iat |-> WatchIat, gen |-> 1]

MCSymmetry == Permutations(Ctl \ {c1, c2})

(* The same where c2 plays no part of its own.                             *)
OthersSymmetry == Permutations(Ctl \ {c1})

(* Wall clocks step back; the records must not come back to life.          *)
StepBack == /\ now > 1
            /\ now' = now - 1
            /\ UNCHANGED <<gens, lock, store, ceremony, history>>

SteppedClockSpec == Init /\ [][Next \/ StepBack]_vars

(* A smaller set of steps for long histories at the record cap: c2 is the  *)
(* only owner and signs its counters in order, everybody else only sends   *)
(* the watched command.                                                    *)
CapNext ==
  \/ Load \/ Restart \/ Tick \/ IssueInvitation
  \/ Create("ok")
  \/ EnrollFirstOwner(c2, 1, now, CHOOSE k \in Keys : TRUE, issued, "ok")
  \/ \E x \in Ctl \ {c2}, n \in 2 .. MaxCtr :
       /\ c2 \in DOMAIN grants /\ n = grants[c2].window.hi + 1
       /\ \/ RevokeController(c2, n, now, x, "ok")
          \/ \E k \in Keys, e \in Expiries \union {0} :
               RegisterController(c2, n, now, x, k, "controller", e, "ok")
  \/ AdmitCmd(c1, WatchCtr, WatchIat, "controller", "ok")
  \/ RefuseCmd(c1, WatchCtr, WatchIat, "controller", "ok")

CapSpec == Init /\ [][CapNext]_vars
=============================================================================
