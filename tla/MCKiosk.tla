------------------------------- MODULE MCKiosk --------------------------------
(***************************************************************************)
(* Three machines around the kiosk ladder: one whose kiosk is stopped,     *)
(* refused and rebooted ("hold"), one that an updater holds through stops  *)
(* and reboots ("busy"), one whose displays, consoles and updates come and *)
(* go ("grace").                                                           *)
(***************************************************************************)
EXTENDS KioskLadder

VARIABLE scene
mcvars == <<scene, vars>>

Hold == INSTANCE KioskLadder WITH
  Events <- {"hang", "exit", "report", "others", "restart", "power", "refusal",
             "cut"}
Busy == INSTANCE KioskLadder WITH
  Events <- {"hang", "report", "restart", "power", "refusal", "update"}
Gates == INSTANCE KioskLadder WITH
  Events <- {"hang", "exit", "display", "console", "update", "report", "restart"}

MCInit == Init /\ scene \in {"hold", "busy", "grace"}
MCNext ==
  /\ UNCHANGED scene
  /\ \/ scene = "hold" /\ Hold!Next
     \/ scene = "busy" /\ Busy!Next
     \/ scene = "grace" /\ Gates!Next
MCSpec == MCInit /\ [][MCNext]_mcvars
=============================================================================
