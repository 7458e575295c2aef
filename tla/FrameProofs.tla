----------------------------- MODULE FrameProofs -----------------------------
(***************************************************************************)
(* What the panel of a frame is trusted for.  Who may claim the frame and  *)
(* under which name (ClaimScreen), for any number of runs of every flow,   *)
(* invitations, names and faults: the invitation is watched, disk, network *)
(* and QR show one name, and a reset forgets it.  What is sprung on its    *)
(* owner (OtaGate), for any callers and outcomes: one update of the boot   *)
(* check, and a claim cadence of hours only after a ladder that failed.    *)
(* And the setup screen and the radio of the hotspot (Provisioning), for   *)
(* any people, faults, links and windows: the screen shows what the machine*)
(* does, and what was taken of the radio is owed back.                     *)
(***************************************************************************)
EXTENDS ClaimScreen, OtaGate, Provisioning, TLAPS

(* The records of a flow, of the overlay and of the name.                  *)
FlowShape ==
  /\ pr \in [Procs -> {pr[p] : p \in Procs}]
  /\ \A p \in Procs : pr[p] \in [pc : {pr[p].pc}, next : {pr[p].next}, job : {pr[p].job}, t : {pr[p].t},
                                 i : {pr[p].i}, before : {pr[p].before}, was : {pr[p].was}]
OverlayShape == overlay \in [st : {overlay.st}, inv : {overlay.inv}, name : {overlay.name}, topic : {overlay.topic}]
NameShape == name \in [disk : {name.disk}, air : {name.air}]
Shapes == FlowShape /\ OverlayShape /\ NameShape

(* Where everybody is: of a flow the invariant needs no more.              *)
Pc == [p \in Procs |-> pr[p].pc]

(* A rename holds the lock while it saves and tells; a reset is latched    *)
(* until it fails, and the unit it started is watched.                     *)
Saving == Pc["rename"] \in {"save", "tell"}
Resetting == Pc["reset"] # "idle"
Stages ==
  /\ Pc["rename"] \in {"idle", "lock", "save", "tell"}
  /\ Pc["reset"] \in {"idle", "retire", "topic", "claim", "name", "confirmed", "panel", "unit"}
  /\ Pc["hook"] \in {"idle", "stop", "hide"}
  /\ lock = "free" <=> ~Saving
  /\ Resetting => staged = TRUE /\ resetWatch # TRUE
  /\ resetWatch = TRUE => staged = TRUE

(* Only a frame without owner has an invitation.                           *)
Owners ==
  /\ owner # "legacy" => inv = 0
  /\ Pc["hook"] = "stop" => owner # "legacy"

(* Whoever stops the watch voids the invitation, or is the watch itself and*)
(* looks at it.                                                            *)
Looking == {"look", "clear", "build", "mint"}
OnIt ==
  \/ \E p \in Procs : Pc[p] = "void"
  \/ Pc["timer"] \in Looking
  \/ Pc["reset"] = "retire"
Watched == inv # 0 => timer = TRUE \/ OnIt

(* Disk, network and QR have one name, but for a rename that has saved and *)
(* has not told, and the panel of a reset that has not been drawn yet.     *)
OneName ==
  /\ Pc["rename"] # "tell" => name.disk = name.air
  /\ QRShowing /\ Pc["rename"] # "tell" /\ Pc["reset"] \notin {"confirmed", "panel"} =>
       overlay.name = name.disk
  /\ staged = TRUE /\ Pc["reset"] \in {"confirmed", "panel", "unit", "idle"} => name.disk = 0 /\ ~Saving

IInv ==
  /\ Shapes
  /\ Stages
  /\ Owners
  /\ "retire" \notin Faults => Watched
  /\ "clear" \notin Faults => OneName
-----------------------------------------------------------------------------
(* One process goes to x.                                                  *)
Moves(p, x) == FlowShape' /\ Pc' = [Pc EXCEPT ![p] = x]

LEMMA Written ==
  ASSUME FlowShape, NEW p \in Procs, NEW r,
         r \in [pc : {r.pc}, next : {r.next}, job : {r.job}, t : {r.t}, i : {r.i}, before : {r.before}, was : {r.was}],
         pr' = [pr EXCEPT ![p] = r]
  PROVE  Moves(p, r.pc)
<1>1. pr'[p] = r /\ \A q \in Procs \ {p} : pr'[q] = pr[q]
  BY DEF FlowShape
<1>2. FlowShape'
  BY <1>1 DEF FlowShape
<1>3. Pc' = [Pc EXCEPT ![p] = r.pc]
  <2>1. \A q \in Procs : pr'[q].pc = IF q = p THEN r.pc ELSE pr[q].pc
    BY <1>1
  <2>2. Pc' = [q \in Procs |-> IF q = p THEN r.pc ELSE pr[q].pc]
    BY <2>1 DEF Pc
  <2> QED  BY <2>2 DEF Pc
<1> QED  BY <1>2, <1>3 DEF Moves

(* Every way of the flows to write their record is such a move.            *)
LEMMA Moving ==
  ASSUME FlowShape, NEW p \in Procs, NEW x, NEW y, NEW z
  PROVE  /\ pr' = [pr EXCEPT ![p].pc = x] => Moves(p, x)
         /\ pr' = [pr EXCEPT ![p].pc = x, ![p].next = y] => Moves(p, x)
         /\ pr' = [pr EXCEPT ![p].pc = x, ![p].job = y] => Moves(p, x)
         /\ pr' = [pr EXCEPT ![p].pc = x, ![p].before = y] => Moves(p, x)
         /\ pr' = [pr EXCEPT ![p].pc = x, ![p].was = y] => Moves(p, x)
         /\ pr' = [pr EXCEPT ![p].t = y, ![p].pc = x] => Moves(p, x)
         /\ pr' = [pr EXCEPT ![p].i = y, ![p].pc = x] => Moves(p, x)
         /\ pr' = [pr EXCEPT ![p].i = y, ![p].pc = x, ![p].next = z] => Moves(p, x)
         /\ pr' = [pr EXCEPT ![p] = Idle] => Moves(p, "idle")
         /\ pr' = pr /\ pr[p].pc = x => Moves(p, x)
<1>1. pr' = [pr EXCEPT ![p].pc = x] => Moves(p, x)
  BY DEF FlowShape, Moves, Pc
<1>2. pr' = [pr EXCEPT ![p].pc = x, ![p].next = y] => Moves(p, x)
  BY DEF FlowShape, Moves, Pc
<1>3. pr' = [pr EXCEPT ![p].pc = x, ![p].job = y] => Moves(p, x)
  BY DEF FlowShape, Moves, Pc
<1>4. pr' = [pr EXCEPT ![p].pc = x, ![p].before = y] => Moves(p, x)
  BY DEF FlowShape, Moves, Pc
<1>5. pr' = [pr EXCEPT ![p].pc = x, ![p].was = y] => Moves(p, x)
  BY DEF FlowShape, Moves, Pc
<1>6. pr' = [pr EXCEPT ![p].t = y, ![p].pc = x] => Moves(p, x)
  BY DEF FlowShape, Moves, Pc
<1>7. pr' = [pr EXCEPT ![p].i = y, ![p].pc = x] => Moves(p, x)
  BY DEF FlowShape, Moves, Pc
<1>8. pr' = [pr EXCEPT ![p].i = y, ![p].pc = x, ![p].next = z] => Moves(p, x)
  <2> DEFINE r == [pr[p] EXCEPT !.i = y, !.pc = x, !.next = z]
  <2>1. pr[p] \in [pc : {pr[p].pc}, next : {pr[p].next}, job : {pr[p].job}, t : {pr[p].t},
                   i : {pr[p].i}, before : {pr[p].before}, was : {pr[p].was}]
    BY DEF FlowShape
  <2>2. r \in [pc : {r.pc}, next : {r.next}, job : {r.job}, t : {r.t}, i : {r.i}, before : {r.before}, was : {r.was}]
        /\ r.pc = x
    BY <2>1
  <2>3. ASSUME pr' = [pr EXCEPT ![p].i = y, ![p].pc = x, ![p].next = z] PROVE pr' = [pr EXCEPT ![p] = r]
    BY <2>3 DEF FlowShape
  <2> HIDE DEF r
  <2> QED  BY <2>2, <2>3, Written
<1>9. pr' = [pr EXCEPT ![p] = Idle] => Moves(p, "idle")
  <2>1. Idle \in [pc : {Idle.pc}, next : {Idle.next}, job : {Idle.job}, t : {Idle.t},
                   i : {Idle.i}, before : {Idle.before}, was : {Idle.was}]
        /\ Idle.pc = "idle"
    BY DEF Idle
  <2>2. pr' = [pr EXCEPT ![p] = Idle] => FlowShape' /\ Pc' = [Pc EXCEPT ![p] = Idle.pc]
    BY <2>1, Written DEF Moves
  <2> QED  BY <2>1, <2>2 DEF Moves
<1>10. pr' = pr /\ pr[p].pc = x => Moves(p, x)
  BY DEF FlowShape, Moves, Pc
<1> QED  BY <1>1, <1>2, <1>3, <1>4, <1>5, <1>6, <1>7, <1>8, <1>9, <1>10

LEMMA Entering ==
  ASSUME FlowShape, pr' = [pr EXCEPT !["auto"].pc = "route", !["link"] = Idle]
  PROVE  FlowShape' /\ Pc' = [Pc EXCEPT !["auto"] = "route", !["link"] = "idle"]
<1> DEFINE r == [pr["auto"] EXCEPT !.pc = "route"]
<1>1. "auto" \in Procs /\ "link" \in Procs
  BY DEF Procs
<1>2. /\ pr'["auto"] = r /\ pr'["link"] = Idle /\ \A q \in Procs \ {"auto", "link"} : pr'[q] = pr[q]
      /\ DOMAIN pr' = Procs /\ pr' = [q \in Procs |-> pr'[q]]
  BY <1>1 DEF FlowShape
<1>3. pr["auto"] \in [pc : {pr["auto"].pc}, next : {pr["auto"].next}, job : {pr["auto"].job}, t : {pr["auto"].t},
                      i : {pr["auto"].i}, before : {pr["auto"].before}, was : {pr["auto"].was}]
  BY <1>1 DEF FlowShape
<1>4. r \in [pc : {r.pc}, next : {r.next}, job : {r.job}, t : {r.t}, i : {r.i}, before : {r.before}, was : {r.was}]
      /\ r.pc = "route"
  BY <1>3
<1>5. Idle \in [pc : {Idle.pc}, next : {Idle.next}, job : {Idle.job}, t : {Idle.t},
                 i : {Idle.i}, before : {Idle.before}, was : {Idle.was}]
      /\ Idle.pc = "idle"
  BY DEF Idle
<1> HIDE DEF r
<1>6. FlowShape'
  BY <1>1, <1>2, <1>4, <1>5 DEF FlowShape
<1>7. Pc' = [Pc EXCEPT !["auto"] = "route", !["link"] = "idle"]
  BY <1>1, <1>2, <1>4, <1>5 DEF Pc
<1> QED  BY <1>6, <1>7

(* What a step may do to the overlay: take the claim QR off, keep its name,*)
(* or draw the name that is on the disk.                                   *)
Draws ==
  /\ OverlayShape'
  /\ \/ overlay'.st # "claim_qr"
     \/ overlay.st = "claim_qr" /\ overlay'.name = overlay.name
     \/ overlay'.name = name.disk /\ lock = "free"

LEMMA Untouched == ASSUME OverlayShape, overlay' = overlay PROVE Draws
BY DEF OverlayShape, Draws

LEMMA Blanks == ASSUME OverlayShape, overlay' = Nothing PROVE Draws
BY DEF OverlayShape, Draws, Bare, Nothing

LEMMA Bares == ASSUME OverlayShape, NEW st, st # "claim_qr", overlay' = Bare(st) PROVE Draws
BY DEF OverlayShape, Draws, Bare

LEMMA Hides == ASSUME OverlayShape, NEW states, HideIfShowing(states) PROVE Draws
<1>1. overlay' = Nothing \/ overlay' = overlay
  BY DEF HideIfShowing
<1> QED  BY <1>1, Untouched, Blanks

(* What a step may do to the invitation and to its watch.                  *)
Tends(p, x) ==
  \/ inv' = 0
  \/ inv' = inv /\ (x = "void" \/ (p = "timer" /\ x \in Looking))
  \/ timer' = TRUE /\ (inv' = inv \/ owner = "legacy")
  \/ inv' = inv /\ timer' = timer /\ Pc[p] # "void" /\ (p = "timer" => Pc[p] \notin Looking)

LEMMA TendsKeepsWatched ==
  ASSUME Watched, NEW p \in Procs \ {"reset"}, NEW x, Moves(p, x), Tends(p, x)
  PROVE  Watched'
<1> DEFINE c == Pc
           d == Pc'
<1>1. /\ c \in [Procs -> {pr[q].pc : q \in Procs}]
      /\ d = [c EXCEPT ![p] = x]
  BY DEF Moves, Pc
<1>2. d[p] = x /\ \A q \in Procs \ {p} : d[q] = c[q]
  BY <1>1
<1>3. Watched' <=> (inv' # 0 => \/ timer' = TRUE
                                \/ \E q \in Procs : d[q] = "void"
                                \/ d["timer"] \in Looking
                                \/ d["reset"] = "retire")
  BY DEF Watched, OnIt, Looking
<1>4. inv # 0 => \/ timer = TRUE
                 \/ \E q \in Procs : c[q] = "void"
                 \/ c["timer"] \in Looking
                 \/ c["reset"] = "retire"
  BY DEF Watched, OnIt
<1>5. Tends(p, x) <=> \/ inv' = 0
                      \/ inv' = inv /\ (x = "void" \/ (p = "timer" /\ x \in Looking))
                      \/ timer' = TRUE /\ (inv' = inv \/ owner = "legacy")
                      \/ inv' = inv /\ timer' = timer /\ c[p] # "void" /\ (p = "timer" => c[p] \notin Looking)
  BY DEF Tends
<1>6. "timer" \in Procs /\ "reset" \in Procs /\ p \in Procs /\ p # "reset"
  BY DEF Procs
<1> HIDE DEF c, d
<1>7. CASE inv' = 0
  BY <1>3, <1>7
<1>8. CASE x = "void"
  BY <1>2, <1>3, <1>6, <1>8
<1>9. CASE p = "timer" /\ x \in Looking
  BY <1>2, <1>3, <1>9
<1>10. CASE timer' = TRUE
  BY <1>3, <1>10
<1>11. CASE inv' = inv /\ timer' = timer /\ c[p] # "void" /\ (p = "timer" => c[p] \notin Looking)
  BY <1>2, <1>3, <1>4, <1>6, <1>11
<1> QED  BY <1>5, <1>7, <1>8, <1>9, <1>10, <1>11

(* The claim flows: nobody but a rename and a reset touches what Stages and*)
(* OneName speak of, and an owner may only be released.                    *)
Aside == Procs \ {"rename", "reset", "hook"}
Still == name' = name /\ lock' = lock /\ staged' = staged /\ resetWatch' = resetWatch
Owned == owner' = owner \/ (owner' = "legacy" /\ Pc["hook"] = "idle")

LEMMA StillKeeps ==
  ASSUME IInv, FlowShape', Still, Draws, \A q \in {"rename", "reset"} : Pc'[q] = Pc[q],
         Pc'["hook"] \in {"idle", "stop", "hide"}
  PROVE  Shapes' /\ Stages' /\ ("clear" \notin Faults => OneName')
<1>1. Shapes'
  BY DEF IInv, Shapes, NameShape, Still, Draws
<1>2. Stages'
  BY DEF IInv, Stages, Saving, Resetting, Still
<1>3. ASSUME "clear" \notin Faults PROVE OneName'
  <2> DEFINE rename == Pc["rename"]
             reset == Pc["reset"]
             disk == name.disk
  <2>1. /\ Pc'["rename"] = rename /\ Pc'["reset"] = reset
        /\ name'.disk = disk /\ name'.air = name.air
        /\ staged' = staged
        /\ lock = "free" => rename \notin {"save", "tell"}
    BY DEF Still, IInv, Stages, Saving
  <2>2. /\ rename # "tell" => disk = name.air
        /\ overlay.st = "claim_qr" /\ rename # "tell" /\ reset \notin {"confirmed", "panel"} => overlay.name = disk
        /\ staged = TRUE /\ reset \in {"confirmed", "panel", "unit", "idle"} => disk = 0 /\ rename \notin {"save", "tell"}
    BY <1>3 DEF IInv, OneName, QRShowing, Saving
  <2>3. \/ overlay'.st # "claim_qr"
        \/ overlay.st = "claim_qr" /\ overlay'.name = overlay.name
        \/ overlay'.name = disk
    BY DEF Draws
  <2>4. OneName' <=> /\ Pc'["rename"] # "tell" => name'.disk = name'.air
                     /\ overlay'.st = "claim_qr" /\ Pc'["rename"] # "tell" /\ Pc'["reset"] \notin {"confirmed", "panel"} =>
                          overlay'.name = name'.disk
                     /\ staged' = TRUE /\ Pc'["reset"] \in {"confirmed", "panel", "unit", "idle"} =>
                          name'.disk = 0 /\ Pc'["rename"] \notin {"save", "tell"}
    BY DEF OneName, QRShowing, Saving
  <2> HIDE DEF rename, reset, disk
  <2> QED  BY <2>1, <2>2, <2>3, <2>4
<1> QED  BY <1>1, <1>2, <1>3

LEMMA AsideKeeps ==
  ASSUME IInv, NEW p \in Aside, NEW x, Moves(p, x), Still, Owned, Draws, Tends(p, x)
  PROVE  IInv'
<1>1. FlowShape' /\ \A q \in {"rename", "reset", "hook"} : Pc'[q] = Pc[q]
  BY DEF Moves, Pc, Aside, Procs
<1>2. Pc'["hook"] \in {"idle", "stop", "hide"}
  BY <1>1 DEF IInv, Stages
<1>3. Shapes' /\ Stages' /\ ("clear" \notin Faults => OneName')
  BY <1>1, <1>2, StillKeeps
<1>4. Owners'
  <2>1. (owner # "legacy" => inv = 0) /\ (Pc["hook"] = "stop" => owner # "legacy")
    BY DEF IInv, Owners
  <2>2. inv' = 0 \/ inv' = inv \/ owner = "legacy"
    BY DEF Tends
  <2> QED  BY <1>1, <2>1, <2>2 DEF Owners, Owned
<1>5. "retire" \notin Faults => Watched'
  BY TendsKeepsWatched DEF IInv, Aside
<1> QED  BY <1>3, <1>4, <1>5 DEF IInv

-----------------------------------------------------------------------------
(* The steps all flows share.                                              *)
LEMMA WhoFlows ==
  ASSUME IInv, NEW p \in Procs,
         pr[p].pc \in {"void", "build", "mint", "paint", "show", "after", "landed", "push", "gate", "clear"}
  PROVE  p \in Aside /\ Pc[p] = pr[p].pc
BY DEF IInv, Stages, Pc, Aside, Procs

LEMMA VoidKeeps == ASSUME IInv, NEW p \in Procs, Void(p) PROVE IInv'
<1>1. pr[p].pc = "void" /\ inv' = 0 /\ overlay' = overlay /\ owner' = owner /\ Still
  BY DEF Void, At, State, Still
<1>2. p \in Aside
  BY <1>1, WhoFlows
<1>3. FlowShape /\ OverlayShape
  BY DEF IInv, Shapes
<1>4. Moves(p, "idle") \/ Moves(p, pr[p].next)
  <2>1. pr' = [pr EXCEPT ![p] = Idle] \/ pr' = [pr EXCEPT ![p].pc = pr[p].next]
    BY DEF Void, Go, End
  <2> QED  BY <1>3, <2>1, Moving
<1>5. Tends(p, "idle") /\ Tends(p, pr[p].next)
  BY <1>1 DEF Tends
<1>6. Draws /\ Owned
  BY <1>1, <1>3, Untouched DEF Owned
<1> QED  BY <1>1, <1>2, <1>4, <1>5, <1>6, AsideKeeps

LEMMA BuildKeeps == ASSUME IInv, NEW p \in Procs, Build(p) PROVE IInv'
<1>1. /\ pr[p].pc = "build" /\ inv' = inv /\ timer' = timer /\ overlay' = overlay /\ owner' = owner /\ Still
      /\ pr' = [pr EXCEPT ![p].t = claim.topic, ![p].pc = "mint"]
  BY DEF Build, At, State, Still
<1>2. p \in Aside /\ Pc[p] = "build"
  BY <1>1, WhoFlows
<1>3. FlowShape /\ OverlayShape
  BY DEF IInv, Shapes
<1>4. Moves(p, "mint")
  BY <1>1, <1>3, Moving
<1>5. Tends(p, "mint")
  BY <1>1, <1>2 DEF Tends, Looking
<1>6. Draws /\ Owned
  BY <1>1, <1>3, Untouched DEF Owned
<1> QED  BY <1>1, <1>2, <1>4, <1>5, <1>6, AsideKeeps

LEMMA MintKeeps == ASSUME IInv, NEW p \in Procs, Mint(p) PROVE IInv'
<1>1. pr[p].pc = "mint" /\ overlay' = overlay /\ owner' = owner /\ Still
  BY DEF Mint, At, State, Still
<1>2. p \in Aside /\ Pc[p] = "mint"
  BY <1>1, WhoFlows
<1>3. FlowShape /\ OverlayShape
  BY DEF IInv, Shapes
<1>4. \/ /\ owner = "legacy" /\ timer' = TRUE
         /\ \E i : pr' = [pr EXCEPT ![p].i = i, ![p].pc = pr[p].job]
      \/ inv' = inv /\ pr' = [pr EXCEPT ![p].i = 0, ![p].pc = "void", ![p].next = pr[p].job]
  BY DEF Mint
<1>5. \/ Moves(p, pr[p].job) /\ Tends(p, pr[p].job)
      \/ Moves(p, "void") /\ Tends(p, "void")
  <2>1. CASE owner = "legacy" /\ timer' = TRUE /\ \E i : pr' = [pr EXCEPT ![p].i = i, ![p].pc = pr[p].job]
    <3>1. PICK i : pr' = [pr EXCEPT ![p].i = i, ![p].pc = pr[p].job]
      BY <2>1
    <3>2. Moves(p, pr[p].job)
      BY <1>3, <3>1, Moving
    <3>3. Tends(p, pr[p].job)
      BY <2>1 DEF Tends
    <3> QED  BY <3>2, <3>3
  <2>2. CASE inv' = inv /\ pr' = [pr EXCEPT ![p].i = 0, ![p].pc = "void", ![p].next = pr[p].job]
    <3>1. Moves(p, "void")
      BY <1>3, <2>2, Moving
    <3>2. Tends(p, "void")
      BY <2>2 DEF Tends
    <3> QED  BY <3>1, <3>2
  <2> QED  BY <1>4, <2>1, <2>2
<1>6. Draws /\ Owned
  BY <1>1, <1>3, Untouched DEF Owned
<1> QED  BY <1>1, <1>2, <1>5, <1>6, AsideKeeps

(* Everybody who clears goes on to void; a process that is not at work on  *)
(* the invitation may go anywhere.                                         *)
LEMMA ClearKeeps ==
  ASSUME IInv, NEW p \in Aside, NEW next, Clear(p, next), inv' = inv, owner' = owner, Still, overlay' = overlay
  PROVE  IInv'
<1>1. FlowShape /\ OverlayShape /\ p \in Procs
  BY DEF IInv, Shapes, Aside
<1>2. Moves(p, "void")
  BY <1>1, Moving DEF Clear
<1>3. Tends(p, "void")
  BY DEF Tends
<1>4. Draws /\ Owned
  BY <1>1, Untouched DEF Owned
<1> QED  BY <1>2, <1>3, <1>4, AsideKeeps

LEMMA FreeKeeps ==
  ASSUME IInv, NEW p \in Aside, NEW x, Moves(p, x), inv' = inv, timer' = timer, Owned, Still, Draws,
         pr[p].pc # "void", p = "timer" => pr[p].pc \notin Looking
  PROVE  IInv'
<1>1. Pc[p] = pr[p].pc
  BY DEF Pc, Aside
<1>2. Tends(p, x)
  BY <1>1 DEF Tends
<1> QED  BY <1>2, AsideKeeps

LEMMA PaintKeeps == ASSUME IInv, NEW p \in Procs, Paint(p) PROVE IInv'
<1>1. pr[p].pc = "paint" /\ inv' = inv /\ overlay' = overlay /\ owner' = owner /\ Still
  BY DEF Paint, At, State, Still
<1>2. p \in Aside
  BY <1>1, WhoFlows
<1>3. FlowShape /\ Draws /\ Owned
  BY <1>1, Untouched DEF Owned, IInv, Shapes
<1>4. CASE pr' = [pr EXCEPT ![p].pc = "build"] /\ timer' = timer
  <2>1. Moves(p, "build")
    BY <1>3, <1>4, Moving
  <2> QED  BY <1>1, <1>2, <1>3, <1>4, <2>1, FreeKeeps DEF Looking
<1>5. CASE Clear(p, "build")
  BY <1>1, <1>2, <1>5, ClearKeeps
<1> QED  BY <1>4, <1>5 DEF Paint, Go

LEMMA ShowKeeps == ASSUME IInv, NEW p \in Procs, Show(p) PROVE IInv'
<1>1. /\ pr[p].pc = "show" /\ lock = "free" /\ inv' = inv /\ timer' = timer /\ owner' = owner /\ Still
      /\ pr' = [pr EXCEPT ![p].pc = "after"]
      /\ \/ overlay' = overlay
         \/ overlay' = [st |-> "claim_qr", inv |-> pr[p].i, name |-> name.disk, topic |-> pr[p].t]
  BY DEF Show, At, State, Still, Go
<1>2. p \in Aside
  BY <1>1, WhoFlows
<1>3. FlowShape /\ OverlayShape
  BY DEF IInv, Shapes
<1>4. Moves(p, "after")
  BY <1>1, <1>3, Moving
<1>5. Draws
  BY <1>1, <1>3 DEF OverlayShape, Draws
<1>6. Owned
  BY <1>1 DEF Owned
<1> QED  BY <1>1, <1>2, <1>4, <1>5, <1>6, FreeKeeps DEF Looking

LEMMA AfterKeeps == ASSUME IInv, NEW p \in Procs, After(p) PROVE IInv'
<1>1. pr[p].pc = "after" /\ inv' = inv /\ overlay' = overlay /\ owner' = owner /\ Still
  BY DEF After, At, State, Still
<1>2. p \in Aside
  BY <1>1, WhoFlows
<1>3. FlowShape /\ Draws /\ Owned
  BY <1>1, Untouched DEF Owned, IInv, Shapes
<1>4. CASE pr' = [pr EXCEPT ![p].pc = "landed"] /\ timer' = timer
  <2>1. Moves(p, "landed")
    BY <1>3, <1>4, Moving
  <2> QED  BY <1>1, <1>2, <1>3, <1>4, <2>1, FreeKeeps DEF Looking
<1>5. CASE Clear(p, "landed")
  BY <1>1, <1>2, <1>5, ClearKeeps
<1> QED  BY <1>4, <1>5 DEF After, Go

LEMMA LandedKeeps == ASSUME IInv, NEW p \in Procs, Landed(p) PROVE IInv'
<1>1. /\ pr[p].pc = "landed" /\ inv' = inv /\ timer' = timer /\ overlay' = overlay /\ owner' = owner /\ Still
      /\ pr' = [pr EXCEPT ![p].pc = "build", ![p].job = "push"] \/ pr' = [pr EXCEPT ![p] = Idle]
  BY DEF Landed, At, State, Still, End
<1>2. p \in Aside
  BY <1>1, WhoFlows
<1>3. FlowShape /\ Draws /\ Owned
  BY <1>1, Untouched DEF Owned, IInv, Shapes
<1>4. Moves(p, "build") \/ Moves(p, "idle")
  BY <1>1, <1>3, Moving
<1> QED  BY <1>1, <1>2, <1>3, <1>4, FreeKeeps DEF Looking

LEMMA PushKeeps == ASSUME IInv, NEW p \in Procs, Push(p) PROVE IInv'
<1>1. /\ pr[p].pc = "push" /\ inv' = inv /\ timer' = timer /\ owner' = owner /\ Still
      /\ pr' = [pr EXCEPT ![p] = Idle]
      /\ \/ overlay' = overlay
         \/ overlay.st = "claim_qr" /\ overlay' = [overlay EXCEPT !.inv = pr[p].i, !.topic = pr[p].t]
  BY DEF Push, At, State, Still, End, QRShowing
<1>2. p \in Aside
  BY <1>1, WhoFlows
<1>3. FlowShape /\ OverlayShape
  BY DEF IInv, Shapes
<1>4. Moves(p, "idle")
  BY <1>1, <1>3, Moving
<1>5. Draws
  BY <1>1, <1>3 DEF OverlayShape, Draws
<1>6. Owned
  BY <1>1 DEF Owned
<1> QED  BY <1>1, <1>2, <1>4, <1>5, <1>6, FreeKeeps DEF Looking

LEMMA GateKeeps == ASSUME IInv, NEW p \in Procs, Gate(p) PROVE IInv'
<1>1. pr[p].pc = "gate" /\ inv' = inv /\ timer' = timer /\ owner' = owner /\ Still
  BY DEF Gate, At, State, Still
<1>2. p \in Aside
  BY <1>1, WhoFlows
<1>3. FlowShape /\ OverlayShape /\ Owned
  BY <1>1 DEF IInv, Shapes, Owned
<1>4. \/ pr' = [pr EXCEPT ![p] = Idle]
      \/ pr' = [pr EXCEPT ![p].pc = "paint"]
      \/ pr' = [pr EXCEPT ![p].pc = "parked"]
  BY DEF Gate, GateLatest, GateFails, Go, End
<1>5. Moves(p, "idle") \/ Moves(p, "paint") \/ Moves(p, "parked")
  BY <1>3, <1>4, Moving
<1>6. \/ HideIfShowing({"finalizing"}) \/ overlay' = overlay \/ overlay' = Nothing
      \/ overlay' = Bare("join_failed") \/ overlay' = Bare("updating")
  BY DEF Gate, GateLatest, GateFails
<1>7. Draws
  BY <1>3, <1>6, Hides, Untouched, Blanks, Bares
<1> QED  BY <1>1, <1>2, <1>3, <1>5, <1>7, FreeKeeps DEF Looking

LEMMA HideKeeps == ASSUME IInv, NEW p \in Procs, Hide(p) PROVE IInv'
<1>1. /\ p \in {"hide", "conn"} /\ pr[p].pc = "hide" /\ inv' = inv /\ timer' = timer /\ owner' = owner /\ Still
      /\ pr' = [pr EXCEPT ![p].pc = "clear"] /\ HideIfShowing(Setup)
  BY DEF Hide, At, State, Still, Go
<1>2. p \in Aside
  BY <1>1 DEF Aside, Procs
<1>3. FlowShape /\ OverlayShape /\ Owned
  BY <1>1 DEF IInv, Shapes, Owned
<1>4. Moves(p, "clear") /\ Draws
  BY <1>1, <1>3, Moving, Hides
<1> QED  BY <1>1, <1>2, <1>3, <1>4, FreeKeeps DEF Looking

LEMMA ClearAfterKeeps == ASSUME IInv, NEW p \in Procs, ClearAfter(p) PROVE IInv'
<1>1. pr[p].pc = "clear" /\ Clear(p, "idle") /\ inv' = inv /\ overlay' = overlay /\ owner' = owner /\ Still
  BY DEF ClearAfter, At, State, Still
<1>2. p \in Aside
  BY <1>1, WhoFlows
<1> QED  BY <1>1, <1>2, ClearKeeps

LEMMA FlowKeeps == ASSUME IInv, NEW p \in Procs, Flow(p) PROVE IInv'
BY VoidKeeps, BuildKeeps, MintKeeps, PaintKeeps, ShowKeeps, AfterKeeps, LandedKeeps, PushKeeps, GateKeeps,
   HideKeeps, ClearAfterKeeps DEF Flow
-----------------------------------------------------------------------------
(* The automatic flow and the commands.                                    *)
LEMMA EnterKeeps ==
  ASSUME IInv, AutoEnter, pr["auto"].pc = "idle", pr["link"].pc \in {"idle", "look"}, owner' = owner, Still,
         inv' = inv, timer' = timer
  PROVE  IInv'
<1>1. FlowShape /\ OverlayShape
  BY DEF IInv, Shapes
<1>2. FlowShape' /\ Pc' = [Pc EXCEPT !["auto"] = "route", !["link"] = "idle"]
  BY <1>1, Entering DEF AutoEnter
<1>3. Draws
  BY <1>1, Bares DEF AutoEnter
<1>4. /\ \A q \in Procs \ {"auto", "link"} : Pc'[q] = Pc[q]
      /\ Pc["auto"] # "void" /\ Pc["link"] # "void"
  BY <1>2 DEF Pc, Procs
<1>5. \A q \in {"rename", "reset", "hook"} : Pc'[q] = Pc[q]
  BY <1>4 DEF Procs
<1>6. Shapes' /\ Stages' /\ ("clear" \notin Faults => OneName')
  <2>1. Pc'["hook"] \in {"idle", "stop", "hide"}
    BY <1>5 DEF IInv, Stages
  <2> QED  BY <1>2, <1>3, <1>5, <2>1, StillKeeps
<1>7. Owners'
  BY <1>5 DEF IInv, Owners
<1>8. ASSUME Watched PROVE Watched'
  <2>1. Pc'["timer"] = Pc["timer"]
    BY <1>4 DEF Procs
  <2>2. \A q \in Procs : Pc[q] = "void" => Pc'[q] = "void"
    BY <1>4
  <2>3. OnIt => OnIt'
    BY <1>5, <2>1, <2>2 DEF OnIt, Looking
  <2> QED  BY <1>8, <2>3 DEF Watched
<1> QED  BY <1>6, <1>7, <1>8 DEF IInv

LEMMA AutoStartKeeps == ASSUME IInv, AutoStart PROVE IInv'
<1>1. /\ pr["auto"].pc = "idle" /\ pr["link"].pc = "idle" /\ AutoEnter
      /\ owner' = owner /\ inv' = inv /\ timer' = timer /\ Still
  BY DEF AutoStart, MayStart, At, Still
<1> QED  BY <1>1, EnterKeeps

LEMMA AutoRouteKeeps == ASSUME IInv, AutoRoute PROVE IInv'
<1>1. pr["auto"].pc = "route" /\ inv' = inv /\ timer' = timer /\ owner' = owner /\ Still
  BY DEF AutoRoute, At, State, Still
<1>2. "auto" \in Aside /\ "auto" \in Procs
  BY DEF Aside, Procs
<1>3. FlowShape /\ OverlayShape /\ Owned
  BY <1>1 DEF IInv, Shapes, Owned
<1>4. pr' = [pr EXCEPT !["auto"] = Idle] \/ pr' = [pr EXCEPT !["auto"].pc = "gate", !["auto"].before = claim.topic]
  BY DEF AutoRoute, End
<1>5. Moves("auto", "idle") \/ Moves("auto", "gate")
  BY <1>2, <1>3, <1>4, Moving
<1>6. HideIfShowing({"finalizing"}) \/ overlay' = overlay \/ overlay' = Bare("connecting")
  BY DEF AutoRoute
<1>7. Draws
  BY <1>3, <1>6, Hides, Untouched, Bares
<1> QED  BY <1>1, <1>2, <1>3, <1>5, <1>7, FreeKeeps

LEMMA AutoWakesKeeps == ASSUME IInv, AutoWakes PROVE IInv'
<1>1. pr["auto"].pc = "parked" /\ inv' = inv /\ timer' = timer /\ owner' = owner /\ Still
  BY DEF AutoWakes, At, State, Still
<1>2. "auto" \in Aside /\ "auto" \in Procs
  BY DEF Aside, Procs
<1>3. FlowShape /\ OverlayShape /\ Owned
  BY <1>1 DEF IInv, Shapes, Owned
<1>4. pr' = [pr EXCEPT !["auto"] = Idle] \/ pr' = [pr EXCEPT !["auto"].pc = "gate", !["auto"].before = claim.topic]
  BY DEF AutoWakes, End
<1>5. Moves("auto", "idle") \/ Moves("auto", "gate")
  BY <1>2, <1>3, <1>4, Moving
<1>6. HideIfShowing({"finalizing"}) \/ overlay' = overlay
  BY DEF AutoWakes
<1>7. Draws
  BY <1>3, <1>6, Hides, Untouched
<1> QED  BY <1>1, <1>2, <1>3, <1>5, <1>7, FreeKeeps

LEMMA ShowPairingKeeps == ASSUME IInv, ShowPairing PROVE IInv'
<1>1. /\ pr["cmd"].pc = "idle" /\ inv' = inv /\ timer' = timer /\ overlay' = overlay /\ owner' = owner /\ Still
      /\ pr' = [pr EXCEPT !["cmd"].pc = "gate", !["cmd"].was = (owner # "enrolled")]
  BY DEF ShowPairing, MayStart, At, Still
<1>2. "cmd" \in Aside /\ "cmd" \in Procs
  BY DEF Aside, Procs
<1>3. FlowShape /\ Owned /\ Draws
  BY <1>1, Untouched DEF IInv, Shapes, Owned
<1>4. Moves("cmd", "gate")
  BY <1>1, <1>2, <1>3, Moving
<1> QED  BY <1>1, <1>2, <1>3, <1>4, FreeKeeps

LEMMA ConfirmPairingKeeps == ASSUME IInv, ConfirmPairing PROVE IInv'
<1>1. /\ pr["hide"].pc = "idle" /\ inv' = inv /\ timer' = timer /\ overlay' = Bare("ready") /\ owner' = owner /\ Still
      /\ pr' = [pr EXCEPT !["hide"].pc = "hide"]
  BY DEF ConfirmPairing, MayStart, At, Still, Go
<1>2. "hide" \in Aside /\ "hide" \in Procs
  BY DEF Aside, Procs
<1>3. FlowShape /\ Owned /\ Draws
  BY <1>1, Bares DEF IInv, Shapes, Owned
<1>4. Moves("hide", "hide")
  BY <1>1, <1>2, <1>3, Moving
<1> QED  BY <1>1, <1>2, <1>3, <1>4, FreeKeeps

LEMMA ConnectKeeps == ASSUME IInv, Connect PROVE IInv'
<1>1. /\ pr["conn"].pc = "idle" /\ inv' = inv /\ timer' = timer /\ overlay' = overlay /\ owner' = owner /\ Still
      /\ pr' = [pr EXCEPT !["conn"].pc = "set", !["conn"].was = claim.device]
  BY DEF Connect, MayStart, At, Still
<1>2. "conn" \in Aside /\ "conn" \in Procs
  BY DEF Aside, Procs
<1>3. FlowShape /\ Owned /\ Draws
  BY <1>1, Untouched DEF IInv, Shapes, Owned
<1>4. Moves("conn", "set")
  BY <1>1, <1>2, <1>3, Moving
<1> QED  BY <1>1, <1>2, <1>3, <1>4, FreeKeeps

LEMMA SetConnectedKeeps == ASSUME IInv, SetConnected PROVE IInv'
<1>1. /\ pr["conn"].pc = "set" /\ inv' = inv /\ timer' = timer /\ overlay' = overlay /\ owner' = owner /\ Still
      /\ pr' = [pr EXCEPT !["conn"] = Idle] \/ pr' = [pr EXCEPT !["conn"].pc = "hide"]
  BY DEF SetConnected, At, Still, Go, End
<1>2. "conn" \in Aside /\ "conn" \in Procs
  BY DEF Aside, Procs
<1>3. FlowShape /\ Owned /\ Draws
  BY <1>1, Untouched DEF IInv, Shapes, Owned
<1>4. Moves("conn", "idle") \/ Moves("conn", "hide")
  BY <1>1, <1>2, <1>3, Moving
<1> QED  BY <1>1, <1>2, <1>3, <1>4, FreeKeeps

LEMMA ReleaseKeeps == ASSUME IInv, Release PROVE IInv'
<1>1. /\ pr["rel"].pc = "idle" /\ pr["hook"].pc = "idle" /\ inv' = inv /\ timer' = timer /\ overlay' = overlay
      /\ owner' = "legacy" /\ Still /\ pr' = [pr EXCEPT !["rel"].pc = "flag"]
  BY DEF Release, MayStart, At, Still, Go
<1>2. "rel" \in Aside /\ "rel" \in Procs
  BY DEF Aside, Procs
<1>3. FlowShape /\ Owned /\ Draws
  BY <1>1, Untouched DEF IInv, Shapes, Owned, Pc, Procs
<1>4. Moves("rel", "flag")
  BY <1>1, <1>2, <1>3, Moving
<1> QED  BY <1>1, <1>2, <1>3, <1>4, FreeKeeps

LEMMA ReleasedKeeps == ASSUME IInv, Released PROVE IInv'
<1>1. /\ pr["rel"].pc = "flag" /\ inv' = inv /\ timer' = timer /\ overlay' = overlay /\ owner' = owner /\ Still
      /\ pr' = [pr EXCEPT !["rel"].pc = "paint"]
  BY DEF Released, At, Still, Go
<1>2. "rel" \in Aside /\ "rel" \in Procs
  BY DEF Aside, Procs
<1>3. FlowShape /\ Owned /\ Draws
  BY <1>1, Untouched DEF IInv, Shapes, Owned
<1>4. Moves("rel", "paint")
  BY <1>1, <1>2, <1>3, Moving
<1> QED  BY <1>1, <1>2, <1>3, <1>4, FreeKeeps

LEMMA TopicLandsKeeps == ASSUME IInv, TopicLands PROVE IInv'
<1>1. /\ pr["link"].pc = "idle" /\ inv' = inv /\ timer' = timer /\ overlay' = overlay /\ owner' = owner /\ Still
      /\ pr' = [pr EXCEPT !["link"].pc = "look"]
  BY DEF TopicLands, MayStart, At, Still, Go
<1>2. "link" \in Aside /\ "link" \in Procs
  BY DEF Aside, Procs
<1>3. FlowShape /\ Owned /\ Draws
  BY <1>1, Untouched DEF IInv, Shapes, Owned
<1>4. Moves("link", "look")
  BY <1>1, <1>2, <1>3, Moving
<1> QED  BY <1>1, <1>2, <1>3, <1>4, FreeKeeps

LEMMA RefreshOrRunKeeps == ASSUME IInv, RefreshOrRun PROVE IInv'
<1>1. /\ pr["link"].pc = "look" /\ inv' = inv /\ timer' = timer /\ owner' = owner /\ Still
      /\ \/ pr["auto"].pc = "idle" /\ AutoEnter
         \/ overlay' = overlay /\ pr' = [pr EXCEPT !["link"].pc = "build", !["link"].job = "push"]
         \/ overlay' = overlay /\ pr' = [pr EXCEPT !["link"] = Idle]
  BY DEF RefreshOrRun, At, State, Still, End
<1>2. "link" \in Aside /\ "link" \in Procs
  BY DEF Aside, Procs
<1>3. FlowShape /\ Owned
  BY <1>1 DEF IInv, Shapes, Owned
<1>4. CASE pr["auto"].pc = "idle" /\ AutoEnter
  BY <1>1, <1>4, EnterKeeps
<1>5. CASE overlay' = overlay /\ pr' = [pr EXCEPT !["link"].pc = "build", !["link"].job = "push"]
  <2>1. Moves("link", "build") /\ Draws
    BY <1>2, <1>3, <1>5, Moving, Untouched DEF IInv, Shapes
  <2> QED  BY <1>1, <1>2, <1>3, <2>1, FreeKeeps
<1>6. CASE overlay' = overlay /\ pr' = [pr EXCEPT !["link"] = Idle]
  <2>1. Moves("link", "idle") /\ Draws
    BY <1>2, <1>3, <1>6, Moving, Untouched DEF IInv, Shapes
  <2> QED  BY <1>1, <1>2, <1>3, <2>1, FreeKeeps
<1> QED  BY <1>1, <1>4, <1>5, <1>6

LEMMA InvitationTimerKeeps == ASSUME IInv, InvitationTimer PROVE IInv'
<1>1. /\ pr["timer"].pc = "idle" /\ inv' = inv /\ overlay' = overlay /\ owner' = owner /\ Still
      /\ (owner = "enrolled" /\ pr' = pr) \/ pr' = [pr EXCEPT !["timer"].pc = "look"]
  BY DEF InvitationTimer, At, State, Still, Go
<1>2. "timer" \in Aside /\ "timer" \in Procs
  BY DEF Aside, Procs
<1>3. FlowShape /\ Owned /\ Draws
  BY <1>1, Untouched DEF IInv, Shapes, Owned
<1>4. CASE owner = "enrolled" /\ pr' = pr
  <2>1. Moves("timer", "idle")
    BY <1>1, <1>2, <1>3, <1>4, Moving
  <2>2. inv' = 0
    BY <1>1, <1>4 DEF IInv, Owners
  <2>3. Tends("timer", "idle")
    BY <2>2 DEF Tends
  <2> QED  BY <1>1, <1>2, <1>3, <2>1, <2>3, AsideKeeps
<1>5. CASE pr' = [pr EXCEPT !["timer"].pc = "look"]
  <2>1. Moves("timer", "look")
    BY <1>2, <1>3, <1>5, Moving
  <2>2. Tends("timer", "look")
    BY <1>1 DEF Tends, Looking
  <2> QED  BY <1>1, <1>2, <1>3, <2>1, <2>2, AsideKeeps
<1> QED  BY <1>1, <1>4, <1>5

LEMMA InvitationLookKeeps == ASSUME IInv, InvitationLook PROVE IInv'
<1>1. /\ inv' = inv /\ overlay' = overlay /\ owner' = owner /\ Still
      /\ \/ pr' = [pr EXCEPT !["timer"].pc = "clear"]
         \/ timer' = TRUE /\ pr' = [pr EXCEPT !["timer"] = Idle]
         \/ pr' = [pr EXCEPT !["timer"].pc = "build", !["timer"].job = "push"]
  BY DEF InvitationLook, At, State, Still, Go, End
<1>2. "timer" \in Aside /\ "timer" \in Procs
  BY DEF Aside, Procs
<1>3. FlowShape /\ Owned /\ Draws
  BY <1>1, Untouched DEF IInv, Shapes, Owned
<1>4. \/ Moves("timer", "clear") /\ Tends("timer", "clear")
      \/ Moves("timer", "idle") /\ Tends("timer", "idle")
      \/ Moves("timer", "build") /\ Tends("timer", "build")
  <2>1. Tends("timer", "clear") /\ Tends("timer", "build") /\ (timer' = TRUE => Tends("timer", "idle"))
    BY <1>1 DEF Tends, Looking
  <2>2. \/ Moves("timer", "clear")
        \/ Moves("timer", "idle") /\ timer' = TRUE
        \/ Moves("timer", "build")
    BY <1>1, <1>2, <1>3, Moving
  <2> QED  BY <2>1, <2>2
<1> QED  BY <1>1, <1>2, <1>3, <1>4, AsideKeeps
-----------------------------------------------------------------------------
(* The first owner.                                                        *)
LEMMA HookKeeps ==
  ASSUME IInv, NEW x \in {"idle", "stop", "hide"}, Moves("hook", x), Still, Draws, Tends("hook", x),
         inv' = 0 \/ inv' = inv, owner' = owner \/ inv' = 0, x = "stop" => owner' # "legacy"
  PROVE  IInv'
<1>1. /\ FlowShape' /\ Pc'["hook"] = x /\ \A q \in {"rename", "reset"} : Pc'[q] = Pc[q]
      /\ "hook" \in Procs \ {"reset"}
  BY DEF Moves, Pc, Procs
<1>2. Shapes' /\ Stages' /\ ("clear" \notin Faults => OneName')
  BY <1>1, StillKeeps
<1>3. Owners'
  BY <1>1 DEF IInv, Owners
<1>4. "retire" \notin Faults => Watched'
  BY <1>1, TendsKeepsWatched DEF IInv
<1> QED  BY <1>2, <1>3, <1>4 DEF IInv

LEMMA EnrollKeeps == ASSUME IInv, Enroll PROVE IInv'
<1>1. /\ inv' = 0 /\ overlay' = overlay /\ owner' = "enrolled" /\ Still
      /\ pr' = [pr EXCEPT !["hook"].pc = "stop"]
  BY DEF Enroll, Still, Go
<1>2. Moves("hook", "stop") /\ Draws
  <2>1. "hook" \in Procs
    BY DEF Procs
  <2> QED  BY <1>1, <2>1, Moving, Untouched DEF IInv, Shapes
<1>3. Tends("hook", "stop")
  BY <1>1 DEF Tends
<1> QED  BY <1>1, <1>2, <1>3, HookKeeps

LEMMA OwnerEnrolledKeeps == ASSUME IInv, OwnerEnrolled PROVE IInv'
<1>1. /\ pr["hook"].pc = "stop" /\ inv' = inv /\ overlay' = overlay /\ owner' = owner /\ Still
      /\ pr' = [pr EXCEPT !["hook"].pc = "hide"]
  BY DEF OwnerEnrolled, Still, Go, At
<1>2. "hook" \in Procs
  BY DEF Procs
<1>3. Moves("hook", "hide") /\ Draws
  BY <1>1, <1>2, Moving, Untouched DEF IInv, Shapes
<1>4. inv' = 0
  <2>1. Pc["hook"] = "stop"
    BY <1>1, <1>2 DEF Pc
  <2> QED  BY <1>1, <2>1 DEF IInv, Owners
<1>5. Tends("hook", "hide")
  BY <1>4 DEF Tends
<1> QED  BY <1>1, <1>3, <1>4, <1>5, HookKeeps

LEMMA OwnerHidesKeeps == ASSUME IInv, OwnerHides PROVE IInv'
<1>1. /\ pr["hook"].pc = "hide" /\ inv' = inv /\ timer' = timer /\ owner' = owner /\ Still
      /\ HideIfShowing({"claim_qr"}) /\ pr' = [pr EXCEPT !["hook"] = Idle]
  BY DEF OwnerHides, Still, State, End, At
<1>2. "hook" \in Procs
  BY DEF Procs
<1>3. Moves("hook", "idle") /\ Draws
  BY <1>1, <1>2, Moving, Hides DEF IInv, Shapes
<1>4. Pc["hook"] = "hide"
  BY <1>1, <1>2 DEF Pc
<1>5. Tends("hook", "idle")
  BY <1>1, <1>4 DEF Tends
<1> QED  BY <1>1, <1>3, <1>5, HookKeeps
-----------------------------------------------------------------------------
(* The factory reset.  ResetGoes is what all its steps have in common.     *)
LEMMA ResetGoes ==
  ASSUME IInv, NEW x, Moves("reset", x), name' = name \/ NameShape', OverlayShape', owner' = owner \/ (owner' = "retired" /\ inv' = 0),
         inv' = 0 \/ inv' = inv,
         "retire" \notin Faults => inv' = 0 \/ x = "retire" \/ (timer' = timer /\ Pc["reset"] # "retire")
  PROVE  /\ Shapes' /\ Owners' /\ ("retire" \notin Faults => Watched')
         /\ Pc'["reset"] = x /\ Pc'["rename"] = Pc["rename"] /\ Pc'["hook"] = Pc["hook"]
<1>1. /\ FlowShape' /\ Pc'["reset"] = x /\ \A q \in Procs \ {"reset"} : Pc'[q] = Pc[q]
  BY DEF Moves, Pc, Procs
<1>2. Pc'["rename"] = Pc["rename"] /\ Pc'["hook"] = Pc["hook"] /\ Pc'["timer"] = Pc["timer"]
  BY <1>1 DEF Procs
<1>3. Shapes'
  BY <1>1 DEF IInv, Shapes, NameShape
<1>4. Owners'
  BY <1>2 DEF IInv, Owners
<1>5. ASSUME "retire" \notin Faults PROVE Watched'
  <2>1. CASE inv' = 0
    BY <2>1 DEF Watched
  <2>2. CASE x = "retire"
    BY <1>1, <2>2 DEF Watched, OnIt
  <2>3. CASE inv' = inv /\ timer' = timer /\ Pc["reset"] # "retire"
    <3>1. \A q \in Procs : Pc[q] = "void" => Pc'[q] = "void"
      <4>1. Pc["reset"] # "void"
        BY DEF IInv, Stages
      <4> QED  BY <1>1, <4>1
    <3>2. OnIt => OnIt'
      BY <1>2, <2>3, <3>1 DEF OnIt, Looking
    <3> QED  BY <1>5, <2>3, <3>2 DEF IInv, Watched
  <2> QED  BY <1>5, <2>1, <2>2, <2>3
<1> QED  BY <1>1, <1>2, <1>3, <1>4, <1>5

LEMMA ResetAt ==
  ASSUME IInv, NEW x, pr["reset"].pc = x
  PROVE  "reset" \in Procs /\ Pc["reset"] = x /\ FlowShape /\ OverlayShape
BY DEF Procs, Pc, IInv, Shapes

LEMMA ResetStartKeeps == ASSUME IInv, ResetStart PROVE IInv'
<1>1. /\ pr["reset"].pc = "idle" /\ inv' = inv /\ overlay' = overlay /\ owner' = owner /\ name' = name /\ lock' = lock
      /\ staged # TRUE /\ staged' = TRUE /\ resetWatch' = resetWatch /\ pr' = [pr EXCEPT !["reset"].pc = "retire"]
  BY DEF ResetStart, MayStart, At, Go
<1>2. /\ Moves("reset", "retire") /\ Pc["reset"] = "idle" /\ OverlayShape'
  <2>1. "reset" \in Procs /\ Pc["reset"] = "idle" /\ FlowShape /\ OverlayShape
    BY <1>1, ResetAt
  <2> QED  BY <1>1, <2>1, Moving DEF OverlayShape
<1>3. /\ Shapes' /\ Owners' /\ ("retire" \notin Faults => Watched')
      /\ Pc'["reset"] = "retire" /\ Pc'["rename"] = Pc["rename"] /\ Pc'["hook"] = Pc["hook"]
  BY <1>1, <1>2, ResetGoes
<1>4. Stages'
  BY <1>1, <1>3 DEF IInv, Stages, Saving, Resetting
<1>5. "clear" \notin Faults => OneName'
  BY <1>1, <1>2, <1>3 DEF IInv, OneName, Saving, QRShowing
<1> QED  BY <1>3, <1>4, <1>5 DEF IInv

LEMMA RetireKeeps == ASSUME IInv, Retire PROVE IInv'
<1>1. /\ pr["reset"].pc = "retire" /\ overlay' = overlay /\ name' = name /\ lock' = lock /\ timer' = timer
      /\ resetWatch' = resetWatch
      /\ owner' = owner \/ (owner' = "retired" /\ inv' = 0)
      /\ inv' = 0 \/ inv' = inv
      /\ \/ inv' = 0 /\ staged' = staged /\ pr' = [pr EXCEPT !["reset"].pc = "topic"]
         \/ "retire" \in Faults /\ staged' = FALSE /\ pr' = [pr EXCEPT !["reset"] = Idle]
  BY DEF Retire, At, Go, End
<1>2. "reset" \in Procs /\ Pc["reset"] = "retire" /\ FlowShape /\ OverlayShape
  BY <1>1, ResetAt
<1>3. OverlayShape'
  BY <1>1, <1>2 DEF OverlayShape
<1>4. CASE inv' = 0 /\ staged' = staged /\ pr' = [pr EXCEPT !["reset"].pc = "topic"]
  <2>1. Moves("reset", "topic")
    BY <1>2, <1>4, Moving
  <2>2. /\ Shapes' /\ Owners' /\ ("retire" \notin Faults => Watched')
        /\ Pc'["reset"] = "topic" /\ Pc'["rename"] = Pc["rename"] /\ Pc'["hook"] = Pc["hook"]
    BY <1>1, <1>3, <1>4, <2>1, ResetGoes
  <2>3. Stages'
    BY <1>1, <1>2, <1>4, <2>2 DEF IInv, Stages, Saving, Resetting
  <2>4. "clear" \notin Faults => OneName'
    BY <1>1, <1>2, <1>4, <2>2 DEF IInv, OneName, Saving, QRShowing
  <2> QED  BY <2>2, <2>3, <2>4 DEF IInv
<1>5. CASE "retire" \in Faults /\ staged' = FALSE /\ pr' = [pr EXCEPT !["reset"] = Idle]
  <2>1. Moves("reset", "idle")
    BY <1>2, <1>5, Moving
  <2>2. /\ Shapes' /\ Owners' /\ ("retire" \notin Faults => Watched')
        /\ Pc'["reset"] = "idle" /\ Pc'["rename"] = Pc["rename"] /\ Pc'["hook"] = Pc["hook"]
    BY <1>1, <1>3, <1>5, <2>1, ResetGoes
  <2>3. Stages'
    BY <1>1, <1>2, <1>5, <2>2 DEF IInv, Stages, Saving, Resetting
  <2>4. "clear" \notin Faults => OneName'
    BY <1>1, <1>2, <1>5, <2>2 DEF IInv, OneName, Saving, QRShowing
  <2> QED  BY <2>2, <2>3, <2>4 DEF IInv
<1> QED  BY <1>1, <1>4, <1>5

(* The steps that clear the topic, the claim and the confirmation.         *)
LEMMA ClearingKeeps ==
  ASSUME IInv, NEW x, NEW y, pr["reset"].pc = x, pr' = [pr EXCEPT !["reset"].pc = y],
         \/ x = "topic" /\ y = "claim"
         \/ x = "claim" /\ y = "name"
         \/ x = "confirmed" /\ y = "panel",
         inv' = inv, timer' = timer, overlay' = overlay, owner' = owner, Still
  PROVE  IInv'
<1>1. "reset" \in Procs /\ Pc["reset"] = x /\ FlowShape /\ OverlayShape
  BY ResetAt
<1>2. Moves("reset", y) /\ OverlayShape'
  BY <1>1, Moving DEF OverlayShape
<1>3. /\ Shapes' /\ Owners' /\ ("retire" \notin Faults => Watched')
      /\ Pc'["reset"] = y /\ Pc'["rename"] = Pc["rename"] /\ Pc'["hook"] = Pc["hook"]
  BY <1>1, <1>2, ResetGoes DEF Still
<1>4. Stages'
  BY <1>1, <1>3 DEF IInv, Stages, Saving, Resetting, Still
<1>5. "clear" \notin Faults => OneName'
  BY <1>1, <1>3 DEF IInv, OneName, Saving, QRShowing, Still
<1> QED  BY <1>3, <1>4, <1>5 DEF IInv

LEMMA InvalidateTopicKeeps == ASSUME IInv, InvalidateTopic PROVE IInv'
BY ClearingKeeps DEF InvalidateTopic, At, Go, Still

LEMMA ClearClaimKeeps == ASSUME IInv, ClearClaim PROVE IInv'
BY ClearingKeeps DEF ClearClaim, At, Go, Still

LEMMA ClearConfirmedKeeps == ASSUME IInv, ClearConfirmed PROVE IInv'
BY ClearingKeeps DEF ClearConfirmed, At, Go, Still

LEMMA ClearNameKeeps == ASSUME IInv, ClearName PROVE IInv'
<1>1. /\ pr["reset"].pc = "name" /\ inv' = inv /\ timer' = timer /\ overlay' = overlay /\ owner' = owner
      /\ lock = "free" /\ lock' = lock /\ staged' = staged /\ resetWatch' = resetWatch
      /\ pr' = [pr EXCEPT !["reset"].pc = "confirmed"]
      /\ name' = [disk |-> 0, air |-> 0] \/ ("clear" \in Faults /\ name' = [name EXCEPT !.air = 0])
  BY DEF ClearName, At, Go
<1>2. "reset" \in Procs /\ Pc["reset"] = "name" /\ FlowShape /\ OverlayShape
  BY <1>1, ResetAt
<1>3. Moves("reset", "confirmed") /\ OverlayShape'
  BY <1>1, <1>2, Moving DEF OverlayShape
<1>4. NameShape' /\ ("clear" \notin Faults => name'.disk = 0 /\ name'.air = 0)
  BY <1>1 DEF IInv, Shapes, NameShape
<1>5. /\ Shapes' /\ Owners' /\ ("retire" \notin Faults => Watched')
      /\ Pc'["reset"] = "confirmed" /\ Pc'["rename"] = Pc["rename"] /\ Pc'["hook"] = Pc["hook"]
  BY <1>1, <1>2, <1>3, <1>4, ResetGoes
<1>6. Stages'
  BY <1>1, <1>2, <1>5 DEF IInv, Stages, Saving, Resetting
<1>7. "clear" \notin Faults => OneName'
  <2>1. ~Saving /\ (Saving' <=> Saving)
    BY <1>1, <1>5 DEF IInv, Stages, Saving
  <2> QED  BY <1>4, <1>5, <2>1 DEF OneName
<1> QED  BY <1>5, <1>6, <1>7 DEF IInv

LEMMA ShowResetKeeps == ASSUME IInv, ShowReset PROVE IInv'
<1>1. /\ pr["reset"].pc = "panel" /\ inv' = inv /\ timer' = timer /\ overlay' = Bare("factory_reset") /\ owner' = owner
      /\ Still /\ pr' = [pr EXCEPT !["reset"].pc = "unit"]
  BY DEF ShowReset, At, Go, State, Still
<1>2. "reset" \in Procs /\ Pc["reset"] = "panel" /\ FlowShape /\ OverlayShape
  BY <1>1, ResetAt
<1>3. Moves("reset", "unit") /\ OverlayShape' /\ overlay'.st = "factory_reset"
  BY <1>1, <1>2, Moving DEF OverlayShape, Bare
<1>4. /\ Shapes' /\ Owners' /\ ("retire" \notin Faults => Watched')
      /\ Pc'["reset"] = "unit" /\ Pc'["rename"] = Pc["rename"] /\ Pc'["hook"] = Pc["hook"]
  BY <1>1, <1>2, <1>3, ResetGoes DEF Still
<1>5. Stages'
  BY <1>1, <1>2, <1>4 DEF IInv, Stages, Saving, Resetting, Still
<1>6. "clear" \notin Faults => OneName'
  <2>1. ~QRShowing'
    BY <1>3 DEF QRShowing
  <2> QED  BY <1>1, <1>2, <1>4, <2>1 DEF IInv, OneName, Saving, Still
<1> QED  BY <1>4, <1>5, <1>6 DEF IInv

(* An overlay that has stayed or is gone.                                  *)
LEMMA StayedOrGone ==
  ASSUME OverlayShape, NEW states, HideIfShowing(states) \/ overlay' = overlay
  PROVE  OverlayShape' /\ (QRShowing' => QRShowing /\ overlay'.name = overlay.name)
BY DEF OverlayShape, HideIfShowing, QRShowing, Nothing, Bare

LEMMA StartUnitKeeps == ASSUME IInv, StartUnit PROVE IInv'
<1>1. /\ pr["reset"].pc = "unit" /\ inv' = inv /\ timer' = timer /\ owner' = owner
      /\ name' = name /\ lock' = lock /\ pr' = [pr EXCEPT !["reset"] = Idle]
      /\ HideIfShowing({"factory_reset"}) \/ overlay' = overlay
      /\ \/ resetWatch' = TRUE /\ staged' = staged
         \/ staged' = FALSE /\ resetWatch' = resetWatch
  BY DEF StartUnit, At, End
<1>2. "reset" \in Procs /\ Pc["reset"] = "unit" /\ FlowShape /\ OverlayShape
  BY <1>1, ResetAt
<1>3. Moves("reset", "idle") /\ OverlayShape' /\ (QRShowing' => QRShowing /\ overlay'.name = overlay.name)
  BY <1>1, <1>2, Moving, StayedOrGone
<1>4. /\ Shapes' /\ Owners' /\ ("retire" \notin Faults => Watched')
      /\ Pc'["reset"] = "idle" /\ Pc'["rename"] = Pc["rename"] /\ Pc'["hook"] = Pc["hook"]
  BY <1>1, <1>2, <1>3, ResetGoes
<1>5. Stages'
  BY <1>1, <1>2, <1>4 DEF IInv, Stages, Saving, Resetting
<1>6. "clear" \notin Faults => OneName'
  BY <1>1, <1>2, <1>3, <1>4 DEF IInv, OneName, Saving
<1> QED  BY <1>4, <1>5, <1>6 DEF IInv

LEMMA StuckResetKeeps == ASSUME IInv, StuckReset PROVE IInv'
<1>1. /\ inv' = inv /\ timer' = timer /\ owner' = owner /\ name' = name /\ lock' = lock /\ pr' = pr
      /\ HideIfShowing({"factory_reset"}) \/ overlay' = overlay
      /\ resetWatch = TRUE /\ resetWatch' = FALSE /\ staged' = FALSE
  BY DEF StuckReset
<1>2. Pc' = Pc /\ FlowShape' /\ OverlayShape
  BY <1>1 DEF Pc, FlowShape, IInv, Shapes
<1>3. OverlayShape' /\ (QRShowing' => QRShowing /\ overlay'.name = overlay.name)
  BY <1>1, <1>2, StayedOrGone
<1>4. Shapes' /\ Owners' /\ ("retire" \notin Faults => Watched')
  BY <1>1, <1>2, <1>3 DEF IInv, Shapes, NameShape, Owners, Watched, OnIt
<1>5. Stages'
  BY <1>1, <1>2 DEF IInv, Stages, Saving, Resetting
<1>6. "clear" \notin Faults => OneName'
  BY <1>1, <1>2, <1>3 DEF IInv, OneName, Saving
<1> QED  BY <1>4, <1>5, <1>6 DEF IInv

LEMMA OthersNarrateKeeps == ASSUME IInv, OthersNarrate PROVE IInv'
<1>1. /\ inv' = inv /\ timer' = timer /\ owner' = owner /\ Still /\ pr' = pr
      /\ overlay' = Bare("softap_qr") \/ overlay' = Bare("mint") \/ overlay' = Nothing
  BY DEF OthersNarrate, Still
<1>2. Pc' = Pc /\ FlowShape' /\ OverlayShape
  BY <1>1 DEF Pc, FlowShape, IInv, Shapes
<1>3. Draws
  BY <1>1, <1>2, Bares, Blanks
<1>4. Shapes' /\ Stages' /\ ("clear" \notin Faults => OneName')
  <2>1. Pc'["hook"] \in {"idle", "stop", "hide"}
    BY <1>2 DEF IInv, Stages
  <2> QED  BY <1>1, <1>2, <1>3, <2>1, StillKeeps
<1>5. Owners' /\ ("retire" \notin Faults => Watched')
  BY <1>1, <1>2 DEF IInv, Owners, Watched, OnIt
<1> QED  BY <1>4, <1>5 DEF IInv
-----------------------------------------------------------------------------
(* A rename.  RenameGoes is what all its steps have in common.             *)
LEMMA RenameGoes ==
  ASSUME IInv, NEW x, pr["rename"].pc \in {"idle", "lock", "save", "tell"}, Moves("rename", x),
         inv' = inv, timer' = timer, owner' = owner, NameShape', OverlayShape'
  PROVE  /\ Shapes' /\ Owners' /\ ("retire" \notin Faults => Watched')
         /\ Pc'["rename"] = x /\ Pc'["reset"] = Pc["reset"] /\ Pc'["hook"] = Pc["hook"]
<1>1. /\ FlowShape' /\ Pc'["rename"] = x /\ Pc'["reset"] = Pc["reset"] /\ Pc'["hook"] = Pc["hook"]
      /\ Pc["rename"] = pr["rename"].pc /\ "rename" \in Procs \ {"reset"}
  BY DEF Moves, Pc, Procs
<1>2. Shapes' /\ Owners'
  BY <1>1 DEF IInv, Shapes, Owners
<1>3. Tends("rename", x)
  BY <1>1 DEF Tends
<1>4. "retire" \notin Faults => Watched'
  BY <1>1, <1>3, TendsKeepsWatched DEF IInv
<1> QED  BY <1>1, <1>2, <1>4

LEMMA RenameAt ==
  ASSUME IInv, NEW x, pr["rename"].pc = x
  PROVE  "rename" \in Procs /\ Pc["rename"] = x /\ FlowShape /\ OverlayShape /\ NameShape
BY DEF Procs, Pc, IInv, Shapes

LEMMA RenameKeeps == ASSUME IInv, Rename PROVE IInv'
<1>1. /\ pr["rename"].pc = "idle" /\ inv' = inv /\ timer' = timer /\ overlay' = overlay /\ owner' = owner
      /\ Still /\ pr' = [pr EXCEPT !["rename"].pc = "lock"]
  BY DEF Rename, MayStart, At, Go, Still
<1>2. "rename" \in Procs /\ Pc["rename"] = "idle" /\ FlowShape /\ OverlayShape /\ NameShape
  BY <1>1, RenameAt
<1>3. Moves("rename", "lock") /\ OverlayShape' /\ NameShape'
  BY <1>1, <1>2, Moving DEF OverlayShape, NameShape, Still
<1>4. /\ Shapes' /\ Owners' /\ ("retire" \notin Faults => Watched')
      /\ Pc'["rename"] = "lock" /\ Pc'["reset"] = Pc["reset"] /\ Pc'["hook"] = Pc["hook"]
  BY <1>1, <1>2, <1>3, RenameGoes
<1>5. Stages'
  BY <1>1, <1>2, <1>4 DEF IInv, Stages, Saving, Resetting, Still
<1>6. "clear" \notin Faults => OneName'
  BY <1>1, <1>2, <1>4 DEF IInv, OneName, Saving, QRShowing, Still
<1> QED  BY <1>4, <1>5, <1>6 DEF IInv

LEMMA RenameLocksKeeps == ASSUME IInv, RenameLocks PROVE IInv'
<1>1. /\ pr["rename"].pc = "lock" /\ inv' = inv /\ timer' = timer /\ overlay' = overlay /\ owner' = owner
      /\ name' = name /\ staged' = staged /\ resetWatch' = resetWatch /\ lock = "free"
      /\ \/ staged # TRUE /\ lock' = "rename" /\ pr' = [pr EXCEPT !["rename"].pc = "save"]
         \/ lock' = lock /\ pr' = [pr EXCEPT !["rename"] = Idle]
  BY DEF RenameLocks, StillAdmitted, At, Go, End
<1>2. "rename" \in Procs /\ Pc["rename"] = "lock" /\ FlowShape /\ OverlayShape /\ NameShape
  BY <1>1, RenameAt
<1>3. OverlayShape' /\ NameShape'
  BY <1>1, <1>2 DEF OverlayShape, NameShape
<1>4. CASE staged # TRUE /\ lock' = "rename" /\ pr' = [pr EXCEPT !["rename"].pc = "save"]
  <2>1. Moves("rename", "save")
    BY <1>2, <1>4, Moving
  <2>2. /\ Shapes' /\ Owners' /\ ("retire" \notin Faults => Watched')
        /\ Pc'["rename"] = "save" /\ Pc'["reset"] = Pc["reset"] /\ Pc'["hook"] = Pc["hook"]
    BY <1>1, <1>3, <2>1, RenameGoes
  <2>3. Stages'
    BY <1>1, <1>2, <1>4, <2>2 DEF IInv, Stages, Saving, Resetting
  <2>4. "clear" \notin Faults => OneName'
    BY <1>1, <1>2, <1>4, <2>2 DEF IInv, OneName, Saving, QRShowing
  <2> QED  BY <2>2, <2>3, <2>4 DEF IInv
<1>5. CASE lock' = lock /\ pr' = [pr EXCEPT !["rename"] = Idle]
  <2>1. Moves("rename", "idle")
    BY <1>2, <1>5, Moving
  <2>2. /\ Shapes' /\ Owners' /\ ("retire" \notin Faults => Watched')
        /\ Pc'["rename"] = "idle" /\ Pc'["reset"] = Pc["reset"] /\ Pc'["hook"] = Pc["hook"]
    BY <1>1, <1>3, <2>1, RenameGoes
  <2>3. Stages'
    BY <1>1, <1>2, <1>5, <2>2 DEF IInv, Stages, Saving, Resetting
  <2>4. "clear" \notin Faults => OneName'
    BY <1>1, <1>2, <1>5, <2>2 DEF IInv, OneName, Saving, QRShowing
  <2> QED  BY <2>2, <2>3, <2>4 DEF IInv
<1> QED  BY <1>1, <1>4, <1>5

LEMMA RenameSavesKeeps == ASSUME IInv, RenameSaves PROVE IInv'
<1>1. /\ pr["rename"].pc = "save" /\ inv' = inv /\ timer' = timer /\ overlay' = overlay /\ owner' = owner
      /\ staged' = staged /\ resetWatch' = resetWatch
      /\ \/ /\ \E n \in Names : name' = [name EXCEPT !.disk = n]
            /\ lock' = lock /\ pr' = [pr EXCEPT !["rename"].pc = "tell"]
         \/ name' = name /\ lock' = "free" /\ pr' = [pr EXCEPT !["rename"] = Idle]
  BY DEF RenameSaves, At, Go, End
<1>2. "rename" \in Procs /\ Pc["rename"] = "save" /\ FlowShape /\ OverlayShape /\ NameShape
  BY <1>1, RenameAt
<1>3. OverlayShape' /\ NameShape'
  BY <1>1, <1>2 DEF OverlayShape, NameShape
<1>4. ~(staged = TRUE /\ Pc["reset"] \in {"confirmed", "panel", "unit", "idle"}) \/ "clear" \in Faults
  BY <1>2 DEF IInv, OneName, Saving
<1>5. CASE lock' = lock /\ pr' = [pr EXCEPT !["rename"].pc = "tell"]
  <2>1. Moves("rename", "tell")
    BY <1>2, <1>5, Moving
  <2>2. /\ Shapes' /\ Owners' /\ ("retire" \notin Faults => Watched')
        /\ Pc'["rename"] = "tell" /\ Pc'["reset"] = Pc["reset"] /\ Pc'["hook"] = Pc["hook"]
    BY <1>1, <1>3, <2>1, RenameGoes
  <2>3. Stages'
    BY <1>1, <1>2, <1>5, <2>2 DEF IInv, Stages, Saving, Resetting
  <2>4. "clear" \notin Faults => OneName'
    BY <1>1, <1>4, <2>2 DEF OneName, QRShowing
  <2> QED  BY <2>2, <2>3, <2>4 DEF IInv
<1>6. CASE name' = name /\ lock' = "free" /\ pr' = [pr EXCEPT !["rename"] = Idle]
  <2>1. Moves("rename", "idle")
    BY <1>2, <1>6, Moving
  <2>2. /\ Shapes' /\ Owners' /\ ("retire" \notin Faults => Watched')
        /\ Pc'["rename"] = "idle" /\ Pc'["reset"] = Pc["reset"] /\ Pc'["hook"] = Pc["hook"]
    BY <1>1, <1>3, <2>1, RenameGoes
  <2>3. Stages'
    BY <1>1, <1>2, <1>6, <2>2 DEF IInv, Stages, Saving, Resetting
  <2>4. "clear" \notin Faults => OneName'
    BY <1>1, <1>2, <1>6, <2>2 DEF IInv, OneName, Saving, QRShowing
  <2> QED  BY <2>2, <2>3, <2>4 DEF IInv
<1> QED  BY <1>1, <1>5, <1>6

LEMMA RenameTellsKeeps == ASSUME IInv, RenameTells PROVE IInv'
<1>1. /\ pr["rename"].pc = "tell" /\ inv' = inv /\ timer' = timer /\ owner' = owner
      /\ staged' = staged /\ resetWatch' = resetWatch /\ lock' = "free" /\ pr' = [pr EXCEPT !["rename"] = Idle]
      /\ name' = [name EXCEPT !.air = name.disk]
      /\ overlay' = IF QRShowing THEN [overlay EXCEPT !.name = name.disk] ELSE overlay
  BY DEF RenameTells, At, End
<1>2. "rename" \in Procs /\ Pc["rename"] = "tell" /\ FlowShape /\ OverlayShape /\ NameShape
  BY <1>1, RenameAt
<1>3. OverlayShape' /\ (QRShowing' => overlay'.name = name.disk)
  BY <1>1, <1>2 DEF OverlayShape, QRShowing
<1>4. NameShape' /\ name'.disk = name.disk /\ name'.air = name.disk
  BY <1>1, <1>2 DEF NameShape
<1>5. ~(staged = TRUE /\ Pc["reset"] \in {"confirmed", "panel", "unit", "idle"}) \/ "clear" \in Faults
  BY <1>2 DEF IInv, OneName, Saving
<1>6. Moves("rename", "idle")
  BY <1>1, <1>2, Moving
<1>7. /\ Shapes' /\ Owners' /\ ("retire" \notin Faults => Watched')
      /\ Pc'["rename"] = "idle" /\ Pc'["reset"] = Pc["reset"] /\ Pc'["hook"] = Pc["hook"]
  BY <1>1, <1>3, <1>4, <1>6, RenameGoes
<1>8. Stages'
  BY <1>1, <1>2, <1>7 DEF IInv, Stages, Saving, Resetting
<1>9. "clear" \notin Faults => OneName'
  BY <1>1, <1>3, <1>4, <1>5, <1>7 DEF OneName
<1> QED  BY <1>7, <1>8, <1>9 DEF IInv
-----------------------------------------------------------------------------
LEMMA InitInv == ASSUME ClaimInit PROVE IInv
<1>1. Shapes
  BY DEF ClaimInit, Shapes, FlowShape, OverlayShape, NameShape, Idle, Nothing, Bare
<1>2. \A q \in Procs : Pc[q] = "idle"
  BY DEF ClaimInit, Pc, Idle
<1>3. Pc["rename"] = "idle" /\ Pc["reset"] = "idle" /\ Pc["hook"] = "idle"
  BY <1>2 DEF Procs
<1>4. Stages /\ Owners
  BY <1>3 DEF ClaimInit, Stages, Owners, Saving, Resetting
<1>5. Watched /\ OneName
  BY <1>3 DEF ClaimInit, Watched, OneName, Nothing, Bare, QRShowing
<1> QED  BY <1>1, <1>4, <1>5 DEF IInv

LEMMA StutterKeeps == ASSUME IInv, UNCHANGED claim_vars PROVE IInv'
<1>1. /\ inv' = inv /\ timer' = timer /\ overlay' = overlay /\ owner' = owner /\ name' = name /\ lock' = lock
      /\ staged' = staged /\ resetWatch' = resetWatch /\ pr' = pr
  BY DEF claim_vars
<1>2. Pc' = Pc /\ FlowShape' /\ OverlayShape /\ OverlayShape'
  BY <1>1 DEF Pc, FlowShape, IInv, Shapes, OverlayShape
<1> QED
  BY <1>1, <1>2 DEF IInv, Shapes, NameShape, Stages, Owners, Watched, OneName, OnIt, QRShowing, Saving, Resetting

LEMMA NextKeeps == ASSUME IInv, [ClaimNext]_claim_vars PROVE IInv'
BY FlowKeeps, AutoStartKeeps, AutoRouteKeeps, AutoWakesKeeps, ShowPairingKeeps, ConfirmPairingKeeps, ConnectKeeps,
   SetConnectedKeeps, EnrollKeeps, OwnerEnrolledKeeps, OwnerHidesKeeps, ReleaseKeeps, ReleasedKeeps, TopicLandsKeeps,
   RefreshOrRunKeeps, InvitationTimerKeeps, InvitationLookKeeps, ResetStartKeeps, RetireKeeps, InvalidateTopicKeeps,
   ClearClaimKeeps, ClearNameKeeps, ClearConfirmedKeeps, ShowResetKeeps, StartUnitKeeps, StuckResetKeeps, RenameKeeps,
   RenameLocksKeeps, RenameSavesKeeps, RenameTellsKeeps, OthersNarrateKeeps, StutterKeeps DEF ClaimNext

LEMMA InvHolds == ClaimSpec => []IInv
<1>1. ClaimInit => IInv
  BY InitInv
<1>2. IInv /\ [ClaimNext]_claim_vars => IInv'
  BY NextKeeps
<1> QED  BY <1>1, <1>2, PTL DEF ClaimSpec

(* Disk, mDNS and claim QR show one name whenever no rename is under way,  *)
(* and after a reset has cleared it no rename brings one back, whatever    *)
(* fails but the clearing itself (device_name.go 53).                      *)
THEOREM OneNameForAll == ClaimSpec => [](NamesAgree /\ ResetForgetsName)
<1>1. IInv => NamesAgree
  <2> SUFFICES ASSUME IInv, lock = "free", "clear" \notin Faults
               PROVE  name.disk = name.air /\ (QRShowing /\ staged # TRUE => overlay.name = name.disk)
    BY DEF NamesAgree
  <2>1. Pc["rename"] # "tell" /\ (staged # TRUE => Pc["reset"] = "idle")
    BY DEF IInv, Stages, Saving, Resetting
  <2> QED  BY <2>1 DEF IInv, OneName
<1>2. IInv => ResetForgetsName
  BY DEF IInv, OneName, ResetForgetsName, Pc, Procs
<1> QED  BY <1>1, <1>2, InvHolds, PTL

(* And the invitation is never left without its watch while nobody is at   *)
(* work on it, unless retiring the authority fails, which releases the     *)
(* latch of a reset that has stopped the watch (executor.go 1167).         *)
THEOREM InvitationIsWatched ==
  ASSUME "retire" \notin Faults
  PROVE  ClaimSpec => []ClaimIsWatched
<1>1. IInv => InvitationWatched
  <2> SUFFICES ASSUME IInv, inv # 0, timer # TRUE
               PROVE  \E p \in Procs \ {"rename"} : pr[p].pc # "idle"
    BY DEF InvitationWatched, Busy, At
  <2>1. OnIt
    BY DEF IInv, Watched
  <2>2. PICK p \in Procs : p # "rename" /\ Pc[p] # "idle"
    <3>1. Pc["rename"] # "void"
      BY DEF IInv, Stages
    <3> QED  BY <2>1, <3>1 DEF OnIt, Looking, Procs
  <2> QED  BY <2>2 DEF Pc
<1> QED  BY <1>1, OneNameForAll, InvHolds, PTL DEF ClaimIsWatched
-----------------------------------------------------------------------------
(* The gate: the shapes of its records, and what the proof counts with.    *)
FlightShape ==
  flight \in [run : {flight.run}, id : Nat, mode : {flight.mode}, boot : {flight.boot}, at : {flight.at},
              try : {flight.try}, dead : {flight.dead}]
GateTypes ==
  /\ FlightShape
  /\ latch \in [failed : {latch.failed}, err : Nat, at : Nat]
  /\ flight.id >= Other /\ (flight.at # "none" => flight.id > Other) /\ latches \in Nat /\ t0 \in Nat
  /\ pc = [c \in Callers |-> pc[c]] /\ got = [c \in Callers |-> got[c]]

(* One boot check at a time is past the in-flight flag, a flight of its own*)
(* has it waiting, and none begins once one is done.                       *)
AtGate == {"recheck", "waits", "returns", "backoff"}
Alone ==
  /\ \A b \in Boots : pc[b] \in AtGate => inFlight = TRUE
  /\ \A b, c \in Boots : pc[b] \in AtGate /\ pc[c] \in AtGate => b = c
Launched == flight.boot = TRUE => flight.run = TRUE /\ \E b \in Boots : pc[b] = "waits"
Spent == done = TRUE => \A b \in Boots : pc[b] \notin {"waits", "returns", "backoff"}

(* A ladder of a boot check runs, has landed with its caller, or has made  *)
(* the check done.                                                         *)
OnLadder == {"start", "tail", "tell"}
OneLadder ==
  \/ bootLadders = 0
  \/ /\ bootLadders = 1
     /\ \/ done = TRUE
        \/ flight.boot = TRUE /\ flight.at \in OnLadder
        \/ \E b \in Boots : pc[b] = "returns" /\ got[b].res = "started"

(* What was latched since the round began is remembered with it.           *)
Cadence ==
  /\ stretched = "stretched" => pc["claim"] = "idle" /\ (latched # {} \/ got["claim"].err \notin {0, Other})
  /\ latch.failed = TRUE => latch.err > Other /\ latch.at <= latches
  /\ latch.failed = TRUE /\ latch.at > t0 => latched # {}

GateInv == GateTypes /\ Alone /\ Launched /\ Spent /\ OneLadder /\ Cadence

LEMMA BootsApart == \A b \in Boots : b # "claim" /\ b # "user" /\ b \in Callers
BY GateAssumption DEF Callers

-----------------------------------------------------------------------------
(* A step of the flight that ends nothing, or of the outside.              *)
Steady ==
  /\ flight.at \in OnLadder /\ flight'.at \in OnLadder /\ FlightShape'
  /\ flight'.id = flight.id /\ flight'.boot = flight.boot /\ flight'.run = flight.run

LEMMA FlightGoesOn ==
  ASSUME GateInv, pc' = pc, got' = got, done' = done, inFlight' = inFlight, bootLadders' = bootLadders,
         stretched' = stretched, latched' = latched, latch' = latch, latches' = latches, t0' = t0,
         flight' = flight \/ Steady
  PROVE  GateInv'
<1>1. /\ FlightShape'
      /\ flight'.id = flight.id /\ flight'.boot = flight.boot /\ flight'.run = flight.run
      /\ flight'.at = flight.at \/ (flight.at \in OnLadder /\ flight'.at \in OnLadder)
  BY DEF GateInv, GateTypes, Steady, FlightShape
<1>2. GateTypes'
  BY <1>1 DEF GateInv, GateTypes, FlightShape, OnLadder
<1>3. Alone' /\ Launched' /\ Spent'
  BY <1>1 DEF GateInv, Alone, Launched, Spent, AtGate
<1>4. OneLadder'
  BY <1>1 DEF GateInv, OneLadder, OnLadder
<1>5. Cadence'
  BY DEF GateInv, Cadence
<1> QED  BY <1>2, <1>3, <1>4, <1>5 DEF GateInv

(* The end of a flight: everybody who waits gets its result.               *)
LEMMA FlightLands ==
  ASSUME GateInv, NEW res, NEW err, Lands(res, err), res = "started" \/ flight.at \notin OnLadder,
         done' = done, inFlight' = inFlight, bootLadders' = bootLadders,
         stretched' = stretched, latched' = latched, latch' = latch \/ latch' = NoLatch, latches' = latches, t0' = t0
  PROVE  GateInv'
<1>1. /\ FlightShape'
      /\ flight'.id = flight.id /\ flight'.boot = FALSE /\ flight'.at = "none"
  BY DEF GateInv, GateTypes, FlightShape, Lands, Land
<1>2. /\ latch' \in [failed : {latch'.failed}, err : Nat, at : Nat]
      /\ latch'.failed = FALSE \/ latch' = latch
  BY DEF GateInv, GateTypes, FlightShape, NoLatch
<1>3. /\ got' = [c \in Callers |-> got'[c]] /\ pc' = [c \in Callers |-> pc'[c]]
      /\ \A c \in Callers : pc[c] = "waits" => pc'[c] = "returns" /\ got'[c].res = res
      /\ \A c \in Callers : pc[c] # "waits" => pc'[c] = pc[c] /\ got'[c] = got[c]
  BY DEF GateInv, GateTypes, FlightShape, Lands
<1>4. GateTypes'
  BY <1>1, <1>2, <1>3 DEF GateInv, GateTypes, FlightShape
<1>5. \A b \in Boots : /\ pc[b] = "waits" => pc'[b] = "returns" /\ got'[b].res = res
                       /\ pc[b] # "waits" => pc'[b] = pc[b] /\ got'[b] = got[b]
  BY <1>3, BootsApart
<1>6. \A b \in Boots : pc'[b] \in AtGate => pc[b] \in AtGate
  BY <1>5 DEF AtGate
<1>7. Alone' /\ Launched'
  BY <1>1, <1>6 DEF GateInv, Alone, Launched, AtGate
<1>8. Spent'
  BY <1>5 DEF GateInv, Spent
<1>9. OneLadder'
  <2>1. CASE bootLadders = 0 \/ done = TRUE
    BY <2>1 DEF GateInv, OneLadder
  <2>2. CASE bootLadders = 1 /\ flight.boot = TRUE /\ flight.at \in OnLadder
    <3>1. PICK b \in Boots : pc[b] = "waits"
      BY <2>2 DEF GateInv, Launched
    <3>2. pc'[b] = "returns" /\ got'[b].res = "started"
      BY <1>5, <2>2, <3>1
    <3> QED  BY <2>2, <3>2 DEF OneLadder
  <2>3. CASE bootLadders = 1 /\ \E b \in Boots : pc[b] = "returns" /\ got[b].res = "started"
    <3>1. PICK b \in Boots : pc[b] = "returns" /\ got[b].res = "started"
      BY <2>3
    <3>2. pc'[b] = "returns" /\ got'[b].res = "started"
      BY <1>5, <3>1
    <3> QED  BY <2>3, <3>2 DEF OneLadder
  <2> QED  BY <2>1, <2>2, <2>3 DEF GateInv, OneLadder
<1>10. Cadence'
  <2>1. "claim" \in Callers
    BY DEF Callers
  <2>2. pc["claim"] = "idle" => pc'["claim"] = "idle" /\ got'["claim"] = got["claim"]
    BY <1>3, <2>1
  <2> QED  BY <1>2, <2>2 DEF GateInv, Cadence
<1> QED  BY <1>4, <1>7, <1>8, <1>9, <1>10 DEF GateInv

LEMMA CheckKeeps == ASSUME GateInv, Check PROVE GateInv'
<1>1. /\ flight.at = "check" /\ latches' = latches /\ latched' = latched
      /\ t0' = t0 /\ done' = done /\ inFlight' = inFlight /\ stretched' = stretched
  BY DEF Check, Callers_vars
<1>2. \/ /\ \E res, err : Lands(res, err)
         /\ bootLadders' = bootLadders /\ (latch' = latch \/ latch' = NoLatch)
      \/ /\ latch' = NoLatch /\ flight' = [flight EXCEPT !.at = "start", !.try = 1]
         /\ bootLadders' = bootLadders + (IF flight.boot THEN 1 ELSE 0) /\ pc' = pc /\ got' = got
  BY DEF Check
<1>3. CASE /\ \E res, err : Lands(res, err)
           /\ bootLadders' = bootLadders /\ (latch' = latch \/ latch' = NoLatch)
  <2>1. flight.at \notin OnLadder
    BY <1>1 DEF OnLadder
  <2>2. PICK res, err : Lands(res, err)
    BY <1>3
  <2> QED  BY <1>1, <1>3, <2>1, <2>2, FlightLands
<1>4. CASE /\ latch' = NoLatch /\ flight' = [flight EXCEPT !.at = "start", !.try = 1]
           /\ bootLadders' = bootLadders + (IF flight.boot THEN 1 ELSE 0) /\ pc' = pc /\ got' = got
  <2>1. /\ FlightShape'
        /\ flight'.id = flight.id /\ flight'.boot = flight.boot /\ flight'.run = flight.run /\ flight'.at = "start"
    BY <1>4 DEF GateInv, GateTypes, FlightShape
  <2>2. latch' \in [failed : {latch'.failed}, err : Nat, at : Nat] /\ latch'.failed = FALSE
    BY <1>4 DEF NoLatch
  <2>3. GateTypes'
    BY <1>1, <1>4, <2>1, <2>2 DEF GateInv, GateTypes, FlightShape
  <2>4. Alone' /\ Launched' /\ Spent'
    BY <1>1, <1>4, <2>1 DEF GateInv, Alone, Launched, Spent, AtGate
  <2>5. OneLadder'
    <3>1. CASE flight.boot = TRUE
      <4>1. PICK b \in Boots : pc[b] = "waits"
        BY <3>1 DEF GateInv, Launched
      <4>2. done # TRUE
        BY <4>1 DEF GateInv, Spent
      <4>3. \A c \in Boots : pc[c] # "returns"
        BY <4>1 DEF GateInv, Alone, AtGate
      <4>4. bootLadders = 0
        BY <1>1, <4>2, <4>3 DEF GateInv, OneLadder, OnLadder
      <4>5. bootLadders' = 1
        BY <1>4, <3>1, <4>4
      <4> QED  BY <2>1, <3>1, <4>5 DEF OneLadder, OnLadder
    <3>2. CASE flight.boot # TRUE
      <4>1. bootLadders' = bootLadders + 0
        BY <1>4, <3>2
      <4>2. bootLadders' = bootLadders
        BY <4>1 DEF GateInv, OneLadder
      <4> QED  BY <1>1, <1>4, <2>1, <3>2, <4>2 DEF GateInv, OneLadder
    <3> QED  BY <3>1, <3>2
  <2>6. Cadence'
    BY <1>1, <1>4, <2>2 DEF GateInv, Cadence
  <2> QED  BY <2>3, <2>4, <2>5, <2>6 DEF GateInv
<1> QED  BY <1>2, <1>3, <1>4

LEMMA LatchesKeeps == ASSUME GateInv, Latches PROVE GateInv'
<1>1. /\ latch' = [failed |-> TRUE, err |-> flight.id, at |-> latches + 1] /\ latches' = latches + 1
      /\ latched' = latched \cup {flight.id} /\ flight' = [flight EXCEPT !.at = "tell"]
      /\ pc' = pc /\ got' = got /\ done' = done /\ inFlight' = inFlight /\ bootLadders' = bootLadders
      /\ stretched' = stretched /\ t0' = t0 /\ flight.at = "tail"
  BY DEF Latches, Callers_vars
<1>2. /\ FlightShape'
      /\ flight'.id = flight.id /\ flight'.boot = flight.boot /\ flight'.run = flight.run /\ flight'.at = "tell"
  BY <1>1 DEF GateInv, GateTypes, FlightShape
<1>3. /\ latch' \in [failed : {latch'.failed}, err : Nat, at : Nat]
      /\ latch'.err = flight.id /\ latch'.at = latches + 1 /\ latches' = latches + 1 /\ latches \in Nat
  BY <1>1 DEF GateInv, GateTypes, FlightShape
<1>4. GateTypes'
  BY <1>1, <1>2, <1>3 DEF GateInv, GateTypes, FlightShape
<1>5. Alone' /\ Launched' /\ Spent'
  BY <1>1, <1>2 DEF GateInv, Alone, Launched, Spent, AtGate
<1>6. OneLadder'
  BY <1>1, <1>2 DEF GateInv, OneLadder, OnLadder
<1>7. latched' # {}
  BY <1>1
<1>8. Cadence'
  <2>1. flight.id > Other
    BY <1>1 DEF GateInv, GateTypes, FlightShape
  <2> QED  BY <1>1, <1>3, <1>7, <2>1 DEF GateInv, Cadence
<1> QED  BY <1>4, <1>5, <1>6, <1>8 DEF GateInv

LEMMA GateFlightKeeps == ASSUME GateInv, Flight \/ Progress \/ UnitEnds \/ NoReboot \/ Outside PROVE GateInv'
<1>1. CASE Check
  BY <1>1, CheckKeeps
<1>2. CASE StartUpdater
  <2>1. Steady
    BY <1>2 DEF StartUpdater, Steady, GateInv, GateTypes, FlightShape, OnLadder
  <2> QED  BY <1>2, <2>1, FlightGoesOn DEF StartUpdater, Callers_vars
<1>3. CASE Poll
  <2>1. Steady
    BY <1>3 DEF Poll, Steady, GateInv, GateTypes, FlightShape, OnLadder
  <2> QED  BY <1>3, <2>1, FlightGoesOn DEF Poll, Callers_vars
<1>4. CASE Retries
  <2>1. Steady
    BY <1>4 DEF Retries, Steady, GateInv, GateTypes, FlightShape, OnLadder
  <2> QED  BY <1>4, <2>1, FlightGoesOn DEF Retries, Callers_vars
<1>5. CASE Succeeds
  BY <1>5, FlightLands DEF Succeeds, Callers_vars
<1>6. CASE Latches
  BY <1>6, LatchesKeeps
<1>7. CASE Tells
  BY <1>7, FlightLands DEF Tells, Callers_vars
<1>8. CASE Cancelled
  BY <1>8, FlightLands DEF Cancelled, Callers_vars
<1>9. CASE Progress
  BY <1>9, FlightGoesOn DEF Progress, Callers_vars, ladder_vars
<1>10. CASE UnitEnds
  BY <1>10, FlightGoesOn DEF UnitEnds, Callers_vars
<1>11. CASE NoReboot
  BY <1>11, FlightGoesOn DEF NoReboot, Callers_vars
<1>12. CASE Outside
  BY <1>12, FlightGoesOn DEF Outside, Callers_vars, ladder_vars
<1> QED  BY <1>1, <1>2, <1>3, <1>4, <1>5, <1>6, <1>7, <1>8, <1>9, <1>10, <1>11, <1>12 DEF Flight
-----------------------------------------------------------------------------
(* A caller asks: its flight begins, or it joins the one there is.         *)
LEMMA Asking ==
  ASSUME GateTypes, NEW c, NEW mode, Do(c, mode)
  PROVE  /\ FlightShape'
         /\ flight'.id >= Other /\ (flight'.at # "none" => flight'.id > Other)
         /\ \/ flight' = flight /\ flight.run = TRUE
            \/ flight.run # TRUE /\ flight'.run = TRUE /\ flight'.at = "check" /\ (flight'.boot = TRUE => c \in Boots)
<1>1. CASE flight.run = TRUE
  BY <1>1 DEF GateTypes, FlightShape, Do
<1>2. CASE flight.run # TRUE
  <2>1. flight' = [run |-> TRUE, id |-> flight.id + 1, mode |-> mode, boot |-> c \in Boots, at |-> "check",
                   try |-> 0, dead |-> 0]
    BY <1>2 DEF Do, Land
  <2>2. flight.id + 1 \in Nat /\ flight.id + 1 > Other /\ flight.id + 1 >= Other
    BY DEF GateTypes, FlightShape, Other
  <2>3. CASE c \in Boots
    <3>1. flight' = [run |-> TRUE, id |-> flight.id + 1, mode |-> mode, boot |-> TRUE, at |-> "check",
                     try |-> 0, dead |-> 0]
      BY <2>1, <2>3
    <3> QED  BY <1>2, <2>2, <2>3, <3>1 DEF FlightShape
  <2>4. CASE c \notin Boots
    <3> DEFINE boot == c \in Boots
    <3>2. boot = FALSE
      BY <2>4
    <3>3. flight' = [run |-> TRUE, id |-> flight.id + 1, mode |-> mode, boot |-> boot, at |-> "check",
                     try |-> 0, dead |-> 0]
      BY <2>1
    <3> HIDE DEF boot
    <3>1. flight' = [run |-> TRUE, id |-> flight.id + 1, mode |-> mode, boot |-> FALSE, at |-> "check",
                     try |-> 0, dead |-> 0]
      BY <3>2, <3>3
    <3> QED  BY <1>2, <2>2, <3>1 DEF FlightShape
  <2> QED  BY <2>3, <2>4
<1> QED  BY <1>1, <1>2

LEMMA BootMoves ==
  ASSUME GateTypes, NEW b \in Boots, NEW x, pc' = [pc EXCEPT ![b] = x]
  PROVE  /\ pc' = [c \in Callers |-> pc'[c]] /\ pc'["claim"] = pc["claim"] /\ pc'[b] = x
         /\ \A c \in Boots \ {b} : pc'[c] = pc[c]
BY BootsApart DEF GateTypes

(* A boot check moves, alone past the flag.                                *)
LEMMA BootAsksKeeps == ASSUME GateInv, NEW b \in Boots, BootAsks(b) PROVE GateInv'
<1>1. /\ pc[b] = "idle" /\ pc' = [pc EXCEPT ![b] = "enter"] /\ flight' = flight /\ done' = done /\ inFlight' = inFlight
      /\ got' = got /\ t0' = t0 /\ latch' = latch /\ latches' = latches /\ latched' = latched
      /\ bootLadders' = bootLadders /\ stretched' = stretched
  BY DEF BootAsks, BootRest, MoveTo
<1>2. b \in Callers /\ b # "claim" /\ Boots \subseteq Callers
  BY BootsApart
<1>3. /\ pc' = [c \in Callers |-> pc'[c]] /\ pc'[b] = "enter" /\ pc'["claim"] = pc["claim"]
      /\ \A c \in Boots \ {b} : pc'[c] = pc[c]
  BY <1>1, <1>2 DEF GateInv, GateTypes, FlightShape
<1>4. GateTypes' /\ Cadence'
  BY <1>1, <1>3 DEF GateInv, GateTypes, FlightShape, Cadence
<1>5. Alone' /\ Launched' /\ Spent'
  BY <1>1, <1>3 DEF GateInv, Alone, Launched, Spent, AtGate
<1>6. OneLadder'
  BY <1>1, <1>3 DEF GateInv, OneLadder
<1> QED  BY <1>4, <1>5, <1>6 DEF GateInv

LEMMA BootEntersKeeps == ASSUME GateInv, NEW b \in Boots, BootEnters(b) PROVE GateInv'
<1>1. /\ pc[b] = "enter" /\ flight' = flight /\ done' = done
      /\ got' = got /\ t0' = t0 /\ latch' = latch /\ latches' = latches /\ latched' = latched
      /\ bootLadders' = bootLadders /\ stretched' = stretched
      /\ \/ pc' = [pc EXCEPT ![b] = "over"] /\ inFlight' = inFlight
         \/ inFlight # TRUE /\ pc' = [pc EXCEPT ![b] = "recheck"] /\ inFlight' = TRUE
  BY DEF BootEnters, BootRest, MoveTo
<1>2. b \in Callers /\ b # "claim" /\ Boots \subseteq Callers
  BY BootsApart
<1>3. /\ pc' = [c \in Callers |-> pc'[c]] /\ pc'["claim"] = pc["claim"]
      /\ \A c \in Boots \ {b} : pc'[c] = pc[c]
      /\ \/ pc'[b] = "over" /\ inFlight' = inFlight
         \/ inFlight # TRUE /\ pc'[b] = "recheck" /\ inFlight' = TRUE
  <2>1. CASE pc' = [pc EXCEPT ![b] = "over"] /\ inFlight' = inFlight
    BY <2>1, BootMoves DEF GateInv
  <2>2. CASE inFlight # TRUE /\ pc' = [pc EXCEPT ![b] = "recheck"] /\ inFlight' = TRUE
    BY <2>2, BootMoves DEF GateInv
  <2> QED  BY <1>1, <2>1, <2>2
<1>4. GateTypes' /\ Cadence'
  BY <1>1, <1>3 DEF GateInv, GateTypes, FlightShape, Cadence
<1>5. Alone' /\ Launched' /\ Spent'
  BY <1>1, <1>3 DEF GateInv, Alone, Launched, Spent, AtGate
<1>6. OneLadder'
  BY <1>1, <1>3 DEF GateInv, OneLadder
<1> QED  BY <1>4, <1>5, <1>6 DEF GateInv

(* It asks, or gives up.                                                   *)
LEMMA BootGoes ==
  ASSUME GateInv, NEW b \in Boots, (pc[b] = "recheck" /\ done # TRUE) \/ pc[b] = "backoff",
         Do(b, "required"), pc' = [pc EXCEPT ![b] = "waits"], inFlight' = inFlight, done' = done,
         got' = got, t0' = t0, latch' = latch, latches' = latches, latched' = latched,
         bootLadders' = bootLadders, stretched' = stretched
  PROVE  GateInv'
<1>1. b \in Callers /\ b # "claim" /\ Boots \subseteq Callers
  BY BootsApart
<1>2. /\ pc' = [c \in Callers |-> pc'[c]] /\ pc'["claim"] = pc["claim"] /\ pc'[b] = "waits"
      /\ \A c \in Boots \ {b} : pc'[c] = pc[c]
  BY <1>1 DEF GateInv, GateTypes, FlightShape
<1>3. /\ FlightShape'
      /\ flight'.id >= Other /\ (flight'.at # "none" => flight'.id > Other)
      /\ \/ flight' = flight /\ flight.run = TRUE
         \/ flight.run # TRUE /\ flight'.run = TRUE /\ flight'.at = "check"
  BY Asking DEF GateInv
<1>4. GateTypes' /\ Cadence'
  BY <1>2, <1>3 DEF GateInv, GateTypes, FlightShape, Cadence
<1>5. done # TRUE
  BY DEF GateInv, Spent
<1>6. \A c \in Boots : c # b => pc[c] \notin AtGate
  BY DEF GateInv, Alone, AtGate
<1>7. Alone' /\ Launched' /\ Spent'
  <2>1. inFlight = TRUE
    BY DEF GateInv, Alone, AtGate
  <2>2. Alone' /\ Spent'
    BY <1>2, <1>5, <1>6, <2>1 DEF Alone, Spent, AtGate
  <2>3. Launched'
    BY <1>2, <1>3 DEF GateInv, Launched
  <2> QED  BY <2>2, <2>3
<1>8. bootLadders = 0
  <2>1. flight.boot # TRUE
    BY <1>6 DEF GateInv, Launched, AtGate
  <2>2. \A c \in Boots : pc[c] # "returns"
    BY <1>6 DEF AtGate
  <2> QED  BY <1>5, <2>1, <2>2 DEF GateInv, OneLadder
<1> QED  BY <1>4, <1>7, <1>8 DEF GateInv, OneLadder

LEMMA BootStops ==
  ASSUME GateInv, NEW b \in Boots, pc[b] \in {"recheck", "backoff", "returns"},
         pc' = [pc EXCEPT ![b] = "over"], inFlight' = FALSE,
         done' = TRUE \/ (done' = done /\ pc[b] # "returns"), flight' = flight,
         got' = got, t0' = t0, latch' = latch, latches' = latches, latched' = latched,
         bootLadders' = bootLadders, stretched' = stretched
  PROVE  GateInv'
<1>1. b \in Callers /\ b # "claim" /\ Boots \subseteq Callers
  BY BootsApart
<1>2. /\ pc' = [c \in Callers |-> pc'[c]] /\ pc'["claim"] = pc["claim"] /\ pc'[b] = "over"
      /\ \A c \in Boots \ {b} : pc'[c] = pc[c]
  BY <1>1 DEF GateInv, GateTypes, FlightShape
<1>3. GateTypes' /\ Cadence'
  BY <1>2 DEF GateInv, GateTypes, FlightShape, Cadence
<1>4. \A c \in Boots : c # b => pc[c] \notin AtGate
  BY DEF GateInv, Alone, AtGate
<1>5. Alone' /\ Spent'
  BY <1>2, <1>4 DEF Alone, Spent, AtGate
<1>6. flight.boot # TRUE
  BY <1>4 DEF GateInv, Launched, AtGate
<1>7. OneLadder'
  <2>1. CASE done' = TRUE
    BY <2>1 DEF GateInv, OneLadder
  <2>2. CASE done' = done /\ pc[b] # "returns"
    <3>1. \A c \in Boots : pc[c] # "returns"
      BY <1>4, <2>2 DEF AtGate
    <3> QED  BY <1>6, <2>2, <3>1 DEF GateInv, OneLadder
  <2> QED  BY <2>1, <2>2
<1> QED  BY <1>3, <1>5, <1>6, <1>7 DEF GateInv, Launched

LEMMA BootReturnsKeeps == ASSUME GateInv, NEW b \in Boots, BootReturns(b) PROVE GateInv'
<1>1. /\ pc[b] = "returns" /\ flight' = flight
      /\ got' = got /\ t0' = t0 /\ latch' = latch /\ latches' = latches /\ latched' = latched
      /\ bootLadders' = bootLadders /\ stretched' = stretched
      /\ \/ pc' = [pc EXCEPT ![b] = "over"] /\ done' = TRUE /\ inFlight' = FALSE
         \/ got[b].res = "check_failed" /\ pc' = [pc EXCEPT ![b] = "backoff"] /\ done' = done /\ inFlight' = inFlight
  BY DEF BootReturns, BootRest, MoveTo
<1>2. CASE pc' = [pc EXCEPT ![b] = "over"] /\ done' = TRUE /\ inFlight' = FALSE
  BY <1>1, <1>2, BootStops
<1>3. CASE got[b].res = "check_failed" /\ pc' = [pc EXCEPT ![b] = "backoff"] /\ done' = done /\ inFlight' = inFlight
  <2>1. b \in Callers /\ b # "claim" /\ Boots \subseteq Callers
    BY BootsApart
  <2>2. /\ pc' = [c \in Callers |-> pc'[c]] /\ pc'["claim"] = pc["claim"] /\ pc'[b] = "backoff"
        /\ \A c \in Boots \ {b} : pc'[c] = pc[c]
    BY <1>3, <2>1 DEF GateInv, GateTypes, FlightShape
  <2>3. GateTypes' /\ Cadence'
    BY <1>1, <2>2 DEF GateInv, GateTypes, FlightShape, Cadence
  <2>4. Alone' /\ Launched' /\ Spent'
    BY <1>1, <1>3, <2>2 DEF GateInv, Alone, Launched, Spent, AtGate
  <2>5. OneLadder'
    <3>1. \A c \in Boots : pc[c] = "returns" /\ got[c].res = "started" => pc'[c] = "returns"
      BY <1>3, <2>2
    <3> QED  BY <1>1, <1>3, <3>1 DEF GateInv, OneLadder
  <2> QED  BY <2>3, <2>4, <2>5 DEF GateInv
<1> QED  BY <1>1, <1>2, <1>3

LEMMA BootKeeps == ASSUME GateInv, NEW b \in Boots, Boot(b) PROVE GateInv'
<1>1. CASE BootRechecks(b)
  <2>1. /\ pc[b] = "recheck" /\ done' = done
        /\ got' = got /\ t0' = t0 /\ latch' = latch /\ latches' = latches /\ latched' = latched
        /\ bootLadders' = bootLadders /\ stretched' = stretched
        /\ \/ done # TRUE /\ Do(b, "required") /\ pc' = [pc EXCEPT ![b] = "waits"] /\ inFlight' = inFlight
           \/ pc' = [pc EXCEPT ![b] = "over"] /\ inFlight' = FALSE /\ flight' = flight
    BY <1>1 DEF BootRechecks, BootRest, MoveTo, StillMine
  <2> QED  BY <2>1, BootGoes, BootStops
<1>2. CASE BootRetries(b)
  <2>1. /\ pc[b] = "backoff" /\ done' = done
        /\ got' = got /\ t0' = t0 /\ latch' = latch /\ latches' = latches /\ latched' = latched
        /\ bootLadders' = bootLadders /\ stretched' = stretched
        /\ \/ Do(b, "required") /\ pc' = [pc EXCEPT ![b] = "waits"] /\ inFlight' = inFlight
           \/ pc' = [pc EXCEPT ![b] = "over"] /\ inFlight' = FALSE /\ flight' = flight
    BY <1>2 DEF BootRetries, BootRest, MoveTo
  <2> QED  BY <2>1, BootGoes, BootStops
<1> QED  BY <1>1, <1>2, BootAsksKeeps, BootEntersKeeps, BootReturnsKeeps DEF Boot
-----------------------------------------------------------------------------
(* The owner's command and the claim flow: no boot check, so only what the *)
(* flight is and what the cadence says can change.                         *)
LEMMA OtherCaller ==
  ASSUME GateInv, NEW c \in {"user", "claim"}, NEW x, pc' = [pc EXCEPT ![c] = x], got' = got,
         done' = done, inFlight' = inFlight, bootLadders' = bootLadders,
         latch' = latch, latches' = latches, t0' \in Nat, Cadence',
         flight' = flight \/ \E mode : Do(c, mode)
  PROVE  GateInv'
<1>1. c \in Callers /\ c \notin Boots /\ Boots \subseteq Callers
  BY BootsApart DEF Callers
<1>2. pc' = [q \in Callers |-> pc'[q]] /\ \A b \in Boots : pc'[b] = pc[b]
  BY <1>1 DEF GateInv, GateTypes, FlightShape
<1>3. /\ FlightShape'
      /\ flight'.id >= Other /\ (flight'.at # "none" => flight'.id > Other)
      /\ flight' = flight \/ (flight.run # TRUE /\ flight'.run = TRUE /\ flight'.boot # TRUE)
  <2>1. CASE flight' = flight
    BY <2>1 DEF GateInv, GateTypes, FlightShape
  <2>2. CASE \E mode : Do(c, mode)
    <3>1. PICK mode : Do(c, mode)
      BY <2>2
    <3> QED  BY <1>1, <3>1, Asking DEF GateInv
  <2> QED  BY <2>1, <2>2
<1>4. GateTypes'
  BY <1>2, <1>3 DEF GateInv, GateTypes, FlightShape
<1>5. Alone' /\ Launched' /\ Spent'
  BY <1>2, <1>3 DEF GateInv, Alone, Launched, Spent, AtGate
<1>6. OneLadder'
  <2>1. flight.run # TRUE => flight.boot # TRUE
    BY DEF GateInv, Launched
  <2> QED  BY <1>2, <1>3, <2>1 DEF GateInv, OneLadder
<1> QED  BY <1>4, <1>5, <1>6 DEF GateInv

LEMMA CallersKeep == ASSUME GateInv, UserAsks \/ UserReturns \/ ClaimRound \/ ClaimAsks \/ ClaimReturns PROVE GateInv'
<1>1. "claim" \in Callers /\ pc = [c \in Callers |-> pc[c]] /\ t0 \in Nat /\ latches \in Nat
  BY DEF Callers, GateInv, GateTypes, FlightShape
<1>2. CASE UserAsks
  <2>1. /\ pc' = [pc EXCEPT !["user"] = "waits"] /\ Do("user", "available")
        /\ got' = got /\ done' = done /\ inFlight' = inFlight /\ bootLadders' = bootLadders
        /\ latch' = latch /\ latches' = latches /\ t0' = t0 /\ stretched' = stretched /\ latched' = latched
    BY <1>2 DEF UserAsks, MoveTo
  <2>2. Cadence'
    BY <1>1, <2>1 DEF GateInv, Cadence
  <2> QED  BY <1>1, <2>1, <2>2, OtherCaller
<1>3. CASE UserReturns
  <2>1. /\ pc' = [pc EXCEPT !["user"] = "idle"] /\ flight' = flight
        /\ got' = got /\ done' = done /\ inFlight' = inFlight /\ bootLadders' = bootLadders
        /\ latch' = latch /\ latches' = latches /\ t0' = t0 /\ stretched' = stretched /\ latched' = latched
    BY <1>3 DEF UserReturns, MoveTo, BootRest
  <2>2. Cadence'
    BY <1>1, <2>1 DEF GateInv, Cadence
  <2> QED  BY <1>1, <2>1, <2>2, OtherCaller
<1>4. CASE ClaimRound
  <2>1. /\ pc' = [pc EXCEPT !["claim"] = "asks"] /\ flight' = flight
        /\ got' = got /\ done' = done /\ inFlight' = inFlight /\ bootLadders' = bootLadders
        /\ latch' = latch /\ latches' = latches /\ t0' = latches /\ stretched' = "none" /\ latched' = {}
    BY <1>4 DEF ClaimRound, MoveTo
  <2>2. Cadence'
    <3>1. latch \in [failed : {latch.failed}, err : Nat, at : Nat]
      BY DEF GateInv, GateTypes, FlightShape
    <3> QED  BY <1>1, <2>1, <3>1 DEF GateInv, Cadence
  <2> QED  BY <1>1, <2>1, <2>2, OtherCaller
<1>5. CASE ClaimAsks
  <2>1. /\ pc["claim"] = "asks" /\ pc' = [pc EXCEPT !["claim"] = "waits"] /\ Do("claim", "required")
        /\ got' = got /\ done' = done /\ inFlight' = inFlight /\ bootLadders' = bootLadders
        /\ latch' = latch /\ latches' = latches /\ t0' = t0 /\ stretched' = stretched /\ latched' = latched
    BY <1>5 DEF ClaimAsks, MoveTo
  <2>2. Cadence'
    BY <1>1, <2>1 DEF GateInv, Cadence
  <2> QED  BY <1>1, <2>1, <2>2, OtherCaller
<1>6. CASE ClaimReturns
  <2>1. /\ pc' = [pc EXCEPT !["claim"] = "idle"] /\ flight' = flight
        /\ got' = got /\ done' = done /\ inFlight' = inFlight /\ bootLadders' = bootLadders
        /\ latch' = latch /\ latches' = latches /\ t0' = t0 /\ latched' = latched
        /\ stretched' = IF LatchedSince THEN "stretched" ELSE "normal"
    BY <1>6 DEF ClaimReturns, MoveTo, ladder_vars
  <2>2. pc'["claim"] = "idle"
    BY <1>1, <2>1
  <2>3. LatchedSince => latched # {} \/ got["claim"].err \notin {0, Other}
    <3>1. latch \in [failed : {latch.failed}, err : Nat, at : Nat]
      BY DEF GateInv, GateTypes, FlightShape
    <3> QED  BY <3>1 DEF LatchedSince, GateInv, Cadence, Other
  <2>4. Cadence'
    BY <2>1, <2>2, <2>3 DEF GateInv, Cadence
  <2> QED  BY <1>1, <2>1, <2>4, OtherCaller
<1> QED  BY <1>2, <1>3, <1>4, <1>5, <1>6

LEMMA GateInitInv == ASSUME UpdateInit PROVE GateInv
<1>1. /\ FlightShape
      /\ flight.id = Other /\ flight.at = "none" /\ flight.boot = FALSE
  BY DEF UpdateInit, Land, Other, FlightShape
<1>2. latch \in [failed : {latch.failed}, err : Nat, at : Nat] /\ latch.failed = FALSE
  BY DEF UpdateInit, NoLatch
<1>3. \A b \in Boots : pc[b] = "idle"
  BY BootsApart DEF UpdateInit
<1>4. GateTypes
  BY <1>1, <1>2 DEF UpdateInit, GateTypes, FlightShape, Other
<1>5. Alone /\ Launched /\ Spent /\ OneLadder
  BY <1>1, <1>3 DEF UpdateInit, Alone, Launched, Spent, OneLadder, AtGate
<1>6. Cadence
  BY <1>2 DEF UpdateInit, Cadence
<1> QED  BY <1>4, <1>5, <1>6 DEF GateInv

LEMMA UpdateKeeps == ASSUME GateInv, [UpdateNext]_update_vars PROVE GateInv'
<1>1. CASE UNCHANGED update_vars
  BY <1>1, FlightGoesOn DEF update_vars, ladder_vars, outside_vars
<1> QED  BY <1>1, GateFlightKeeps, BootKeeps, CallersKeep DEF UpdateNext

(* For any boot goroutines, commands, rounds, retries, graces and outcomes:*)
(* the boot check springs at most one update, and only a ladder that was   *)
(* exhausted in the round stretches the claim cadence (executor.go 1586,   *)
(* 1219).                                                                  *)
THEOREM UpdatesAreEarned == UpdateSpec => []UpdatesEarned
<1>1. UpdateInit => GateInv
  BY GateInitInv
<1>2. GateInv /\ [UpdateNext]_update_vars => GateInv'
  BY UpdateKeeps
<1>3. GateInv => UpdatesEarned
  BY DEF GateInv, OneLadder, Cadence, UpdatesEarned, OneBootLadder, StretchIsEarned
<1> QED  BY <1>1, <1>2, <1>3, PTL DEF UpdateSpec

(* ------------------------ The hotspot of setup ------------------------  *)
(* A machine is known by its fields; a step is told by those it keeps.     *)
Is(x) == /\ "st" \in DOMAIN x /\ "why" \in DOMAIN x /\ "up" \in DOMAIN x /\ "pend" \in DOMAIN x
         /\ "radio" \in DOMAIN x /\ "shown" \in DOMAIN x /\ "seen" \in DOMAIN x /\ "attach" \in DOMAIN x
         /\ "latch" \in DOMAIN x /\ "auto" \in DOMAIN x /\ "restore" \in DOMAIN x
         /\ "absent" \in DOMAIN x /\ "quiet" \in DOMAIN x /\ "policy" \in DOMAIN x /\ "gen" \in DOMAIN x
         /\ "sreason" \in DOMAIN x

SamePlace(x, y) == y.st = x.st /\ y.why = x.why /\ y.policy = x.policy /\ y.sreason = x.sreason
SameAir(x, y) == y.up = x.up /\ y.pend = x.pend /\ y.radio = x.radio
SamePhone(x, y) == y.seen = x.seen /\ y.attach = x.attach /\ y.gen = x.gen
SameScreen(x, y) == y.shown = x.shown /\ y.latch = x.latch
SameClock(x, y) == y.absent = x.absent /\ y.quiet = x.quiet
SameDebt(x, y) == y.auto = x.auto /\ y.restore = x.restore

(* The reasons that say more than the state: of a hotspot, of an error.    *)
Loud == QR \cup {"setup-error"}
Policies == {"unbounded", "recheck", "episode", "user"}
(* A reason of the state itself is no reason of the hotspot or of an error. *)
Shapely(x) ==
  /\ Is(x) /\ x.up \in BOOLEAN /\ x.pend \in BOOLEAN /\ x.radio \in BOOLEAN
  /\ x.gen \in 0..2 /\ x.sreason \notin Loud /\ x.policy \in Policies
(* A hotspot on the air is held, or its teardown is owed; a phone that was *)
(* told to the screen was seen.                                            *)
Held(x) ==
  /\ x.up => x.radio
  /\ x.radio => x.up \/ x.pend
  /\ x.attach => x.seen
(* Time without a profile is time without a link, until a window of it is  *)
(* full.                                                                   *)
Patient(x) ==
  /\ x.absent \in Nat /\ x.quiet \in Nat
  /\ x.absent <= x.quiet \/ x.quiet >= Window
(* The two clocks are cleared, counted on, or one of them is rewound.      *)
Cleared(x) == x.absent = 0 /\ x.quiet = 0
Counted(x, y) == y.absent = Least(Window + 1, x.absent + 1) /\ y.quiet = Least(Window, x.quiet + 1)
Rewound(x, y) == y.absent = 0 /\ y.quiet = x.quiet
(* The screen: its reason, that its title is the state, and what the reason *)
(* says of radio, phone and latch.                                         *)
Reason(x) == x.shown[2]
Titled(x) == x.shown[1] = x.st
Shows(x, s, r) == x.shown = <<s, r>>
Kept(x) ==
  /\ Reason(x) \in QR => x.st = "ap" /\ (x.radio \/ StaleLatch(x))
  /\ Reason(x) = "ap-client-attached" => x.seen \/ x.pend \/ StaleLatch(x)
  /\ Reason(x) = "setup-error" => x.latch # ""
  /\ x.latch = "start" => Reason(x) \notin QR /\ ~x.up
  /\ x.latch \in {"", "start", "release"}
(* Inside a transition the hotspot may be down before the screen says so.  *)
Blank(x) == x.st = "ap" /\ x.latch = "" /\ ~x.up /\ ~x.pend
Fit(x) == Shapely(x) /\ Held(x) /\ Patient(x) /\ Titled(x)
Good(x) == Fit(x) /\ Kept(x)
Fair(x) == Fit(x) /\ (Kept(x) \/ Blank(x))

(* What a step of the machine does to the raise it found.                  *)
Keeps(x, y) == y.gen = x.gen /\ (y.up => x.up /\ (x.seen /\ dev.busy => y.seen))
Shifts(x, y) == Keeps(x, y) \/ y.gen = NextGen(x.gen)
Mild(x, y) ==
  /\ SamePlace(x, y) /\ SameAir(x, y) /\ SamePhone(x, y) /\ SameDebt(x, y)
  /\ Fair(x) => Fair(y)
  /\ Good(x) => Good(y)
Reaches(x, y) == Good(y) /\ Shifts(x, y) /\ SameDebt(x, y)

LEMMA ShowsIs ==
  ASSUME NEW y, NEW s, NEW r, Shows(y, s, r)
  PROVE  Reason(y) = r /\ (y.st = s => Titled(y))
BY DEF Shows, Reason, Titled

LEMMA SameScreenIs ==
  ASSUME NEW x, NEW y, y.shown = x.shown, y.st = x.st
  PROVE  Reason(y) = Reason(x) /\ (Titled(x) => Titled(y))
BY DEF Reason, Titled

LEMMA ClearedIs ==
  ASSUME NEW y, Cleared(y)
  PROVE  Patient(y)
BY DEF Cleared, Patient

LEMMA TornDownIs ==
  ASSUME NEW x, Is(x)
  PROVE  LET y == TornDown(x) IN
         /\ Is(y) /\ y.up = FALSE /\ y.pend = ~Ok("down") /\ y.radio = (x.radio /\ ~Ok("down"))
         /\ SamePhone(x, y) /\ SamePlace(x, y) /\ SameScreen(x, y) /\ SameClock(x, y) /\ SameDebt(x, y)
BY DEF Is, TornDown, Owes, SamePhone, SamePlace, SameScreen, SameClock, SameDebt

LEMMA UnlatchedIs ==
  ASSUME NEW x, Is(x)
  PROVE  LET y == Unlatched(x) IN
         /\ Is(y) /\ y.seen = FALSE /\ y.attach = FALSE /\ y.gen = x.gen
         /\ SameAir(x, y) /\ SamePlace(x, y) /\ SameScreen(x, y) /\ SameClock(x, y) /\ SameDebt(x, y)
BY DEF Is, Unlatched, SameAir, SamePlace, SameScreen, SameClock, SameDebt

LEMMA NotifyIs ==
  ASSUME NEW x, NEW s, NEW r, Is(x)
  PROVE  LET y == Notify(x, s, r) IN
         /\ Is(y) /\ Shows(y, s, r) /\ y.latch = x.latch
         /\ SamePhone(x, y) /\ SameAir(x, y) /\ SamePlace(x, y) /\ SameClock(x, y) /\ SameDebt(x, y)
BY DEF Is, Notify, Shows, SamePhone, SameAir, SamePlace, SameClock, SameDebt

LEMMA ReleaseFailedIs ==
  ASSUME NEW x, Is(x)
  PROVE  LET y == ReleaseFailed(x) IN
         /\ Is(y) /\ SamePlace(x, y) /\ SameAir(x, y) /\ SamePhone(x, y) /\ SameClock(x, y) /\ SameDebt(x, y)
         /\ \/ SameScreen(x, y)
            \/ x.latch = "" /\ y.latch = "release" /\ Shows(y, x.st, "setup-error")
BY DEF Is, ReleaseFailed, Shows, Notify, SamePlace, SameAir, SamePhone, SameScreen, SameClock, SameDebt

LEMMA ReleaseClearedIs ==
  ASSUME NEW x, Is(x)
  PROVE  LET y == ReleaseCleared(x) IN
         /\ Is(y) /\ SamePlace(x, y) /\ SameAir(x, y) /\ SamePhone(x, y) /\ SameClock(x, y) /\ SameDebt(x, y)
         /\ \/ x.latch # "release" /\ SameScreen(x, y)
            \/ x.latch = "release" /\ y.latch = "" /\ x.st = "ap" /\ y.shown = x.shown
            \/ x.latch = "release" /\ y.latch = "" /\ x.st # "ap" /\ Shows(y, x.st, "setup-error-cleared")
BY DEF Is, ReleaseCleared, Shows, Notify, SamePlace, SameAir, SamePhone, SameScreen, SameClock, SameDebt

LEMMA RaiseFailedIs ==
  ASSUME NEW x, Is(x)
  PROVE  LET y == RaiseFailed(x) IN
         /\ Is(y) /\ SamePlace(x, y) /\ SameAir(x, y) /\ SamePhone(x, y) /\ SameClock(x, y) /\ SameDebt(x, y)
         /\ \/ SameScreen(x, y)
            \/ x.latch = "" /\ y.latch = "start" /\ Shows(y, x.st, "setup-error")
BY DEF Is, RaiseFailed, Shows, Notify, SamePlace, SameAir, SamePhone, SameScreen, SameClock, SameDebt

LEMMA RaisedIs ==
  ASSUME NEW x, Is(x)
  PROVE  LET y == Raised(x) IN
         /\ Is(y) /\ SamePlace(x, y) /\ SameAir(x, y) /\ SamePhone(x, y) /\ SameClock(x, y) /\ SameDebt(x, y)
         /\ y.shown = x.shown /\ y.latch = IF x.latch = "start" THEN "" ELSE x.latch
BY DEF Is, Raised, SamePlace, SameAir, SamePhone, SameClock, SameDebt

LEMMA OnAirIs ==
  ASSUME NEW x, Is(x)
  PROVE  LET y == OnAir(x) IN
         /\ Is(y) /\ SamePlace(x, y) /\ SameScreen(x, y) /\ SameClock(x, y) /\ SameDebt(x, y)
         /\ y.up = TRUE /\ y.radio = TRUE /\ y.pend = x.pend
         /\ y.seen = FALSE /\ y.attach = FALSE /\ y.gen = NextGen(x.gen)
BY DEF Is, OnAir, Unlatched, SamePlace, SameScreen, SameClock, SameDebt

(* Nothing that matters to the screen or to the radio.                     *)
Beside(x, y) ==
  /\ Is(y) /\ SamePlace(x, y) /\ SameAir(x, y) /\ SamePhone(x, y) /\ SameScreen(x, y) /\ SameClock(x, y)
  /\ SameDebt(x, y)

LEMMA BesideOnce ==
  ASSUME NEW x, Is(x), NEW v
  PROVE  /\ Beside(x, x) /\ Beside(x, ArmTimer(x)) /\ Beside(x, ResetJoinStatus(x)) /\ Beside(x, Disarm(x))
         /\ Beside(x, CancelEpisode(x)) /\ Beside(x, PauseEpisode(x))
         /\ Beside(x, [x EXCEPT !.phase = v]) /\ Beside(x, [x EXCEPT !.status = v])
         /\ Beside(x, [x EXCEPT !.tries = v]) /\ Beside(x, [x EXCEPT !.recheck = v])
         /\ Beside(x, [x EXCEPT !.link = v]) /\ Beside(x, [x EXCEPT !.deferred = v])
         /\ Beside(x, [x EXCEPT !.narration = v]) /\ Beside(x, [x EXCEPT !.settled = v])
         /\ Beside(x, [x EXCEPT !.unknowns = v]) /\ Beside(x, Aged(x))
BY DEF Is, Beside, ArmTimer, ResetJoinStatus, Disarm, CancelEpisode, PauseEpisode, Aged,
       SamePlace, SameAir, SamePhone, SameScreen, SameClock, SameDebt

LEMMA BesideTrans ==
  ASSUME NEW x, NEW y, NEW z, Beside(x, y), Beside(y, z)
  PROVE  Beside(x, z)
BY DEF Beside, SamePlace, SameAir, SamePhone, SameScreen, SameClock, SameDebt

LEMMA BesideMild ==
  ASSUME NEW x, NEW y, Beside(x, y)
  PROVE  Mild(x, y)
BY SameScreenIs DEF Beside, Mild, Fair, Good, Fit, Shapely, Held, Patient, Kept, Blank, StaleLatch,
       SamePlace, SameAir, SamePhone, SameScreen, SameClock, SameDebt

LEMMA MildTrans ==
  ASSUME NEW x, NEW y, NEW z, Mild(x, y), Mild(y, z)
  PROVE  Mild(x, z)
BY DEF Mild, SamePlace, SameAir, SamePhone, SameDebt

LEMMA MildShifts ==
  ASSUME NEW x, NEW y, NEW z, Mild(x, y), Reaches(y, z)
  PROVE  Reaches(x, z)
BY DEF Mild, Reaches, Shifts, Keeps, SameAir, SamePhone, SameDebt

LEMMA NotifyMild ==
  ASSUME NEW x, NEW r, Is(x), r \notin Loud
  PROVE  /\ Is(Notify(x, x.st, r)) /\ Mild(x, Notify(x, x.st, r)) /\ SameClock(x, Notify(x, x.st, r))
         /\ Fair(x) => Good(Notify(x, x.st, r))
<1> DEFINE y == Notify(x, x.st, r)
<1>1. /\ Is(y) /\ Shows(y, x.st, r) /\ y.latch = x.latch
      /\ SamePhone(x, y) /\ SameAir(x, y) /\ SamePlace(x, y) /\ SameClock(x, y) /\ SameDebt(x, y)
  BY NotifyIs
<1> HIDE DEF y
<1>2. Titled(y) /\ Reason(y) = r
  BY <1>1, ShowsIs DEF SamePlace
<1>3. Fair(x) => Fit(y)
  BY <1>1, <1>2 DEF Fair, Fit, Shapely, Held, Patient, SamePhone, SameAir, SamePlace, SameClock
<1>4. Fair(x) => Kept(y)
  BY <1>1, <1>2 DEF Fair, Kept, Blank, Loud, QR, SameAir
<1> QED BY <1>1, <1>3, <1>4 DEF Mild, Fair, Good, y

LEMMA ResetWindowIs ==
  ASSUME NEW x, Is(x)
  PROVE  LET y == ResetWindow(x) IN
         /\ Is(y) /\ SamePlace(x, y) /\ SameAir(x, y) /\ SamePhone(x, y) /\ SameScreen(x, y) /\ SameDebt(x, y)
         /\ Rewound(x, y)
BY DEF Is, ResetWindow, Rewound, SamePlace, SameAir, SamePhone, SameScreen, SameDebt

LEMMA ResetEscalationIs ==
  ASSUME NEW x, Is(x)
  PROVE  LET y == ResetEscalation(x) IN
         /\ Is(y) /\ SamePlace(x, y) /\ SameAir(x, y) /\ SamePhone(x, y) /\ SameClock(x, y) /\ SameDebt(x, y)
         /\ \/ x.latch # "start" /\ SameScreen(x, y)
            \/ x.latch = "start" /\ y.latch = "" /\ Shows(y, x.st, "setup-error-cleared")
BY DEF Is, ResetEscalation, Shows, Notify, SamePlace, SameAir, SamePhone, SameScreen, SameClock, SameDebt

LEMMA ClearOfflineIs ==
  ASSUME NEW x, Is(x)
  PROVE  LET y == ClearOffline(x) IN
         /\ Is(y) /\ SamePlace(x, y) /\ SameAir(x, y) /\ SamePhone(x, y) /\ SameDebt(x, y)
         /\ Cleared(y)
         /\ \/ x.latch # "start" /\ SameScreen(x, y)
            \/ x.latch = "start" /\ y.latch = "" /\ Shows(y, x.st, "setup-error-cleared")
<1> DEFINE w == ResetWindow(x)
           e == ResetEscalation(Disarm(w))
<1>1. /\ Is(w) /\ SamePlace(x, w) /\ SameAir(x, w) /\ SamePhone(x, w) /\ SameScreen(x, w) /\ SameDebt(x, w)
      /\ Rewound(x, w)
  BY ResetWindowIs
<1>2. Beside(w, Disarm(w))
  BY <1>1, BesideOnce
<1>3. /\ Is(e) /\ SamePlace(Disarm(w), e) /\ SameAir(Disarm(w), e) /\ SamePhone(Disarm(w), e)
      /\ SameClock(Disarm(w), e) /\ SameDebt(Disarm(w), e)
      /\ \/ Disarm(w).latch # "start" /\ SameScreen(Disarm(w), e)
         \/ Disarm(w).latch = "start" /\ e.latch = "" /\ Shows(e, Disarm(w).st, "setup-error-cleared")
  BY <1>2, ResetEscalationIs DEF Beside
<1>4. ClearOffline(x) = [e EXCEPT !.recheck = 0, !.quiet = 0]
  BY DEF ClearOffline
<1> DEFINE y == [e EXCEPT !.recheck = 0, !.quiet = 0]
<1>5. /\ Is(y) /\ SamePlace(e, y) /\ SameAir(e, y) /\ SamePhone(e, y) /\ SameDebt(e, y) /\ SameScreen(e, y)
      /\ e.absent = 0 => Cleared(y)
  BY <1>3 DEF Cleared, Is, SamePlace, SameAir, SamePhone, SameScreen, SameDebt
<1>6. e.absent = 0
  BY <1>1, <1>2, <1>3 DEF Beside, SameClock, Rewound
<1> DEFINE v == Disarm(w)
<1> HIDE DEF w, e, y, v
<1>7. Beside(w, v) /\ SamePlace(v, e) /\ SameAir(v, e) /\ SamePhone(v, e) /\ SameDebt(v, e)
  BY <1>2, <1>3 DEF v
<1>8. SamePlace(x, y) /\ SameAir(x, y) /\ SamePhone(x, y) /\ SameDebt(x, y)
  BY <1>1, <1>5, <1>7 DEF Beside, SamePlace, SameAir, SamePhone, SameDebt
<1>9. v.latch = x.latch /\ v.st = x.st /\ v.shown = x.shown
  BY <1>1, <1>7 DEF Beside, SamePlace, SameScreen
<1>10. \/ x.latch # "start" /\ SameScreen(v, e)
       \/ x.latch = "start" /\ e.latch = "" /\ Shows(e, x.st, "setup-error-cleared")
  BY <1>3, <1>9 DEF v
<1>11. \/ x.latch # "start" /\ SameScreen(x, y)
       \/ x.latch = "start" /\ y.latch = "" /\ Shows(y, x.st, "setup-error-cleared")
  BY <1>5, <1>9, <1>10 DEF SameScreen, Shows
<1> QED BY <1>4, <1>5, <1>6, <1>8, <1>11 DEF y

LEMMA ClearOfflineMild ==
  ASSUME NEW x, Is(x)
  PROVE  Is(ClearOffline(x)) /\ Mild(x, ClearOffline(x))
<1> DEFINE y == ClearOffline(x)
<1>1. /\ Is(y) /\ SamePlace(x, y) /\ SameAir(x, y) /\ SamePhone(x, y) /\ SameDebt(x, y)
      /\ Cleared(y)
      /\ \/ x.latch # "start" /\ SameScreen(x, y)
         \/ x.latch = "start" /\ y.latch = "" /\ Shows(y, x.st, "setup-error-cleared")
  BY ClearOfflineIs
<1> HIDE DEF y
<1>2. Patient(y)
  BY <1>1, ClearedIs
<1>3. Fair(x) => Fit(y)
  <2>1. Titled(x) => Titled(y)
    BY <1>1, ShowsIs, SameScreenIs DEF SameScreen, SamePlace
  <2> QED BY <1>1, <1>2, <2>1 DEF Fair, Fit, Shapely, Held, SamePlace, SamePhone, SameAir
<1>4. CASE x.latch # "start"
  BY <1>1, <1>3, <1>4, SameScreenIs DEF Mild, Fair, Good, Kept, Blank, StaleLatch, SamePlace, SameAir, SamePhone, SameScreen, y
<1>5. CASE x.latch = "start"
  <2>1. Reason(y) = "setup-error-cleared" /\ y.latch = ""
    BY <1>1, <1>5, ShowsIs
  <2>2. Kept(y)
    BY <2>1 DEF Kept, QR
  <2> QED BY <1>1, <1>3, <2>2 DEF Mild, Fair, Good, y
<1> QED BY <1>4, <1>5

LEMMA RecordAbsentIs ==
  ASSUME NEW x, Is(x)
  PROVE  LET y == RecordAbsent(x) IN
         /\ Is(y) /\ SamePlace(x, y) /\ SameAir(x, y) /\ SamePhone(x, y) /\ SameScreen(x, y) /\ SameDebt(x, y)
         /\ Counted(x, y)
BY DEF Is, RecordAbsent, Counted, SamePlace, SameAir, SamePhone, SameScreen, SameDebt

LEMMA RecordAbsentMild ==
  ASSUME NEW x, Is(x)
  PROVE  Is(RecordAbsent(x)) /\ Mild(x, RecordAbsent(x))
<1>1. LET y == RecordAbsent(x) IN
      /\ Is(y) /\ SamePlace(x, y) /\ SameAir(x, y) /\ SamePhone(x, y) /\ SameScreen(x, y) /\ SameDebt(x, y)
      /\ Counted(x, y)
  BY RecordAbsentIs
<1>2. Patient(x) => Patient(RecordAbsent(x))
  BY <1>1, ProvisioningAssumption DEF Patient, Counted, Least
<1> QED BY <1>1, <1>2, SameScreenIs DEF Mild, Fair, Good, Fit, Shapely, Held, Kept, Blank, StaleLatch,
       SamePlace, SameAir, SamePhone, SameScreen, SameDebt

LEMMA ResetWindowMild ==
  ASSUME NEW x, Is(x)
  PROVE  Is(ResetWindow(x)) /\ Mild(x, ResetWindow(x))
<1> DEFINE y == ResetWindow(x)
<1>1. /\ Is(y) /\ SamePlace(x, y) /\ SameAir(x, y) /\ SamePhone(x, y) /\ SameScreen(x, y) /\ SameDebt(x, y)
      /\ Rewound(x, y)
  BY ResetWindowIs
<1> HIDE DEF y
<1>2. Patient(x) => Patient(y)
  BY <1>1 DEF Patient, Rewound
<1> QED BY <1>1, <1>2, SameScreenIs DEF Mild, Fair, Good, Fit, Shapely, Held, Kept, Blank, StaleLatch,
       SamePlace, SameAir, SamePhone, SameScreen, SameDebt, y

LEMMA WindowMild ==
  ASSUME NEW x, Is(x)
  PROVE  /\ Is(ArmWindow(x)) /\ Mild(x, ArmWindow(x))
         /\ Is(PauseWindow(x)) /\ Mild(x, PauseWindow(x))
<1>1. Mild(x, x)
  BY BesideOnce, BesideMild
<1>2. Is(ArmWindow(x)) /\ Mild(x, ArmWindow(x))
  BY <1>1, RecordAbsentMild DEF ArmWindow
<1>3. Beside(x, [x EXCEPT !.pause = @ + 1, !.fresh = 2])
  BY DEF Is, Beside, SamePlace, SameAir, SamePhone, SameScreen, SameClock, SameDebt
<1>4. Is(PauseWindow(x)) /\ Mild(x, PauseWindow(x))
  BY <1>1, <1>3, BesideMild, ResetWindowMild DEF PauseWindow, Beside
<1> QED BY <1>2, <1>4

LEMMA ScanBeside ==
  ASSUME NEW x, Is(x)
  PROVE  Beside(x, ScanStep(x)) /\ Beside(x, FirstScan(x)) /\ Beside(x, RelocUnknown(x))
<1>1. Beside(x, x) /\ Beside(x, Disarm(x)) /\ Beside(x, [x EXCEPT !.tries = Dec(@)])
      /\ Beside(x, [x EXCEPT !.confirms = Least(Confirms, @ + 1), !.tries = 0])
      /\ Beside(x, [x EXCEPT !.unknowns = @ + 1])
  BY DEF Is, Beside, Disarm, SamePlace, SameAir, SamePhone, SameScreen, SameClock, SameDebt
<1> QED BY <1>1 DEF ScanStep, FirstScan, RelocUnknown

(* What a transition may do with the radio: the place is kept, and so are  *)
(* the clock and what is owed.                                             *)
Stays(x, y) == SamePlace(x, y) /\ SameClock(x, y) /\ SameDebt(x, y)

LEMMA DownIs ==
  ASSUME NEW x, Is(x), x.up \in BOOLEAN, x.pend \in BOOLEAN, x.up \/ x.pend
  PROVE  LET y == EnsureAPDown(x) IN
         /\ Is(y) /\ Stays(x, y) /\ y.gen = x.gen
         /\ y.up = FALSE /\ y.pend = ~Ok("down") /\ y.radio = (x.radio /\ ~Ok("down"))
         /\ y.seen = FALSE /\ y.attach = FALSE
         /\ \/ ~Ok("down") /\ SameScreen(x, y)
            \/ ~Ok("down") /\ y.latch = "release" /\ Shows(y, x.st, "setup-error")
            \/ Ok("down") /\ x.latch # "release" /\ SameScreen(x, y)
            \/ Ok("down") /\ x.latch = "release" /\ y.latch = "" /\ x.st = "ap" /\ y.shown = x.shown
            \/ Ok("down") /\ y.latch = "" /\ x.st # "ap" /\ Shows(y, x.st, "setup-error-cleared")
<1> DEFINE u == Unlatched(x)
           d == TornDown(u)
           y == Accounted(d)
<1>1. /\ Is(u) /\ u.seen = FALSE /\ u.attach = FALSE /\ u.gen = x.gen
      /\ SameAir(x, u) /\ SamePlace(x, u) /\ SameScreen(x, u) /\ SameClock(x, u) /\ SameDebt(x, u)
  BY UnlatchedIs
<1>2. /\ Is(d) /\ d.up = FALSE /\ d.pend = ~Ok("down") /\ d.radio = (u.radio /\ ~Ok("down"))
      /\ SamePhone(u, d) /\ SamePlace(u, d) /\ SameScreen(u, d) /\ SameClock(u, d) /\ SameDebt(u, d)
  BY <1>1, TornDownIs
<1>3. EnsureAPDown(x) = y
  BY DEF EnsureAPDown
<1> HIDE DEF u
<1>4. /\ Stays(x, d) /\ d.gen = x.gen /\ d.radio = (x.radio /\ ~Ok("down")) /\ SameScreen(x, d)
      /\ d.seen = FALSE /\ d.attach = FALSE
  BY <1>1, <1>2 DEF Stays, SamePhone, SameAir, SamePlace, SameScreen, SameClock, SameDebt
<1> HIDE DEF d
<1>5. CASE ~Ok("down")
  <2>1. y = ReleaseFailed(d)
    BY <1>5 DEF Accounted
  <2>2. /\ Is(y) /\ SamePlace(d, y) /\ SameAir(d, y) /\ SamePhone(d, y) /\ SameClock(d, y) /\ SameDebt(d, y)
        /\ \/ SameScreen(d, y)
           \/ d.latch = "" /\ y.latch = "release" /\ Shows(y, d.st, "setup-error")
    BY <1>2, <2>1, ReleaseFailedIs
  <2> HIDE DEF y
  <2>3. SameScreen(x, y) \/ (y.latch = "release" /\ Shows(y, x.st, "setup-error"))
    <3>1. d.st = x.st /\ d.latch = x.latch /\ d.shown = x.shown
      BY <1>4 DEF SameScreen, SamePlace, Stays
    <3> QED BY <2>2, <3>1 DEF SameScreen
  <2> QED BY <1>2, <1>3, <1>4, <1>5, <2>2, <2>3 DEF Stays, SamePhone, SameAir, SamePlace, SameClock, SameDebt
<1>6. CASE Ok("down")
  <2>1. y = ReleaseCleared(d)
    BY <1>6 DEF Accounted
  <2>2. /\ Is(y) /\ SamePlace(d, y) /\ SameAir(d, y) /\ SamePhone(d, y) /\ SameClock(d, y) /\ SameDebt(d, y)
        /\ \/ d.latch # "release" /\ SameScreen(d, y)
           \/ d.latch = "release" /\ y.latch = "" /\ d.st = "ap" /\ y.shown = d.shown
           \/ d.latch = "release" /\ y.latch = "" /\ d.st # "ap" /\ Shows(y, d.st, "setup-error-cleared")
    BY <1>2, <2>1, ReleaseClearedIs
  <2> HIDE DEF y
  <2>3. \/ x.latch # "release" /\ SameScreen(x, y)
        \/ x.latch = "release" /\ y.latch = "" /\ x.st = "ap" /\ y.shown = x.shown
        \/ y.latch = "" /\ x.st # "ap" /\ Shows(y, x.st, "setup-error-cleared")
    <3>1. d.st = x.st /\ d.latch = x.latch /\ d.shown = x.shown
      BY <1>4 DEF SameScreen, SamePlace, Stays
    <3> QED BY <2>2, <3>1 DEF SameScreen
  <2> QED BY <1>2, <1>3, <1>4, <1>6, <2>2, <2>3 DEF Stays, SamePhone, SameAir, SamePlace, SameClock, SameDebt
<1> QED BY <1>5, <1>6

LEMMA EnsureAPDownFair ==
  ASSUME NEW x, Fair(x)
  PROVE  LET y == EnsureAPDown(x) IN
         Fair(y) /\ ~y.up /\ Keeps(x, y) /\ Stays(x, y) /\ (x.st # "ap" => Good(y))
<1> DEFINE y == EnsureAPDown(x)
<1>0. Is(x) /\ x.up \in BOOLEAN /\ x.pend \in BOOLEAN
  BY DEF Fair, Fit, Shapely
<1>1. CASE ~x.up /\ ~x.pend
  BY <1>1 DEF EnsureAPDown, Keeps, Stays, SamePlace, SameClock, SameDebt, Fair, Good, Blank
<1>2. CASE x.up \/ x.pend
  <2>1. /\ Is(y) /\ Stays(x, y) /\ y.gen = x.gen
        /\ y.up = FALSE /\ y.pend = ~Ok("down") /\ y.radio = (x.radio /\ ~Ok("down"))
        /\ y.seen = FALSE /\ y.attach = FALSE
        /\ \/ ~Ok("down") /\ SameScreen(x, y)
           \/ ~Ok("down") /\ y.latch = "release" /\ Shows(y, x.st, "setup-error")
           \/ Ok("down") /\ x.latch # "release" /\ SameScreen(x, y)
           \/ Ok("down") /\ x.latch = "release" /\ y.latch = "" /\ x.st = "ap" /\ y.shown = x.shown
           \/ Ok("down") /\ y.latch = "" /\ x.st # "ap" /\ Shows(y, x.st, "setup-error-cleared")
    BY <1>0, <1>2, DownIs
  <2> HIDE DEF y
  <2>2. Titled(x) /\ Kept(x) /\ Fit(x)
    BY <1>2 DEF Fair, Fit, Blank
  <2>3. y.st = x.st /\ Ok("down") \in BOOLEAN
    BY <2>1 DEF Stays, SamePlace, Ok
  <2>4. Titled(y)
    BY <2>1, <2>2, <2>3, ShowsIs, SameScreenIs DEF SameScreen
  <2>5. Shapely(y) /\ Held(y) /\ Patient(y)
    BY <2>1, <2>2, <2>3 DEF Fit, Shapely, Held, Patient, Stays, SamePlace, SameClock
  <2>11. Kept(y) \/ Blank(y)
    <3>1. CASE SameScreen(x, y) /\ ~Ok("down")
      <4>1. Reason(y) = Reason(x) /\ y.latch = x.latch
        BY <2>3, <3>1, SameScreenIs DEF SameScreen
      <4> QED BY <2>1, <2>2, <2>3, <3>1, <4>1 DEF Kept, StaleLatch
    <3>2. CASE SameScreen(x, y) /\ x.latch # "release" /\ Ok("down")
      <4>1. Reason(y) = Reason(x) /\ y.latch = x.latch
        BY <2>3, <3>2, SameScreenIs DEF SameScreen
      <4> QED BY <2>1, <2>2, <2>3, <3>2, <4>1 DEF Kept, Blank, QR, StaleLatch
    <3>3. CASE Shows(y, x.st, "setup-error") /\ y.latch = "release"
      <4>1. Reason(y) = "setup-error"
        BY <3>3, ShowsIs
      <4> QED BY <3>3, <4>1 DEF Kept, QR
    <3>4. CASE Shows(y, x.st, "setup-error-cleared") /\ y.latch = ""
      <4>1. Reason(y) = "setup-error-cleared"
        BY <3>4, ShowsIs
      <4> QED BY <3>4, <4>1 DEF Kept, QR
    <3>5. CASE y.latch = "" /\ x.st = "ap" /\ Ok("down")
      BY <2>1, <2>3, <3>5 DEF Blank
    <3> QED BY <2>1, <3>1, <3>2, <3>3, <3>4, <3>5
  <2>12. Keeps(x, y)
    BY <2>1 DEF Keeps
  <2> QED BY <2>1, <2>3, <2>4, <2>5, <2>11, <2>12 DEF Fair, Good, Fit, Blank, y
<1> QED BY <1>0, <1>1, <1>2

LEMMA ScannedGood ==
  ASSUME NEW x, Fair(x), x.st = "ap", ~x.up, ~x.pend
  PROVE  LET s == Scanned(x) IN
         Good(s) /\ Keeps(x, s) /\ Stays(x, s) /\ SameAir(x, s)
<1> DEFINE s == Scanned(x)
<1>0. Is(x)
  BY DEF Fair, Fit, Shapely
<1>1. CASE x.latch # ""
  BY <1>1 DEF Scanned, Fair, Good, Blank, Keeps, Stays, SameAir, SamePlace, SameClock, SameDebt
<1>2. CASE x.latch = ""
  <2>1. s = Notify(x, x.st, "scanning")
    BY <1>2 DEF Scanned
  <2>2. "scanning" \notin Loud
    BY DEF Loud, QR
  <2>3. Good(s) /\ Mild(x, s) /\ SameClock(x, s)
    BY <1>0, <2>1, <2>2, NotifyMild
  <2> HIDE DEF s
  <2> QED BY <2>3 DEF Mild, Keeps, Stays, SameAir, SamePlace, SamePhone, s
<1> QED BY <1>1, <1>2

LEMMA RaiseFailedGood ==
  ASSUME NEW x, Good(x), ~x.up
  PROVE  Good(RaiseFailed(x)) /\ Stays(x, RaiseFailed(x)) /\ SameAir(x, RaiseFailed(x)) /\ SamePhone(x, RaiseFailed(x))
<1> DEFINE y == RaiseFailed(x)
<1>1. /\ Is(y) /\ SamePlace(x, y) /\ SameAir(x, y) /\ SamePhone(x, y) /\ SameClock(x, y) /\ SameDebt(x, y)
      /\ \/ SameScreen(x, y)
         \/ x.latch = "" /\ y.latch = "start" /\ Shows(y, x.st, "setup-error")
  BY RaiseFailedIs DEF Good, Fit, Shapely
<1> HIDE DEF y
<1>2. Titled(x) /\ Kept(x) /\ y.st = x.st
  BY <1>1 DEF Good, Fit, SamePlace
<1>3. Titled(y)
  BY <1>1, <1>2, ShowsIs, SameScreenIs DEF SameScreen
<1>4. Shapely(y) /\ Held(y) /\ Patient(y)
  BY <1>1 DEF Good, Fit, Shapely, Held, Patient, SamePlace, SameAir, SamePhone, SameClock
<1>5. Kept(y)
  <2>1. CASE SameScreen(x, y)
    <3>1. Reason(y) = Reason(x) /\ y.latch = x.latch
      BY <1>2, <2>1, SameScreenIs DEF SameScreen
    <3> QED BY <1>1, <1>2, <3>1 DEF Kept, StaleLatch, SameAir, SamePhone
  <2>2. CASE Shows(y, x.st, "setup-error") /\ y.latch = "start"
    <3>1. Reason(y) = "setup-error"
      BY <2>2, ShowsIs
    <3> QED BY <1>1, <2>2, <3>1 DEF Kept, QR, SameAir
  <2> QED BY <1>1, <2>1, <2>2
<1> QED BY <1>1, <1>3, <1>4, <1>5 DEF Good, Fit, Stays, y

LEMMA OnAirFit ==
  ASSUME NEW x, Good(x)
  PROVE  LET y == OnAir(x) IN
         Fit(y) /\ Stays(x, y) /\ SameScreen(x, y) /\ y.up = TRUE /\ y.radio = TRUE /\ y.gen = NextGen(x.gen)
<1> DEFINE y == OnAir(x)
<1>1. /\ Is(y) /\ SamePlace(x, y) /\ SameScreen(x, y) /\ SameClock(x, y) /\ SameDebt(x, y)
      /\ y.up = TRUE /\ y.radio = TRUE /\ y.pend = x.pend
      /\ y.seen = FALSE /\ y.attach = FALSE /\ y.gen = NextGen(x.gen)
  BY OnAirIs DEF Good, Fit, Shapely
<1> HIDE DEF y
<1>2. Titled(y)
  BY <1>1, SameScreenIs DEF Good, Fit, SameScreen, SamePlace
<1>3. NextGen(x.gen) \in 0..2
  BY DEF Good, Fit, Shapely, NextGen
<1>4. Shapely(y) /\ Held(y) /\ Patient(y)
  BY <1>1, <1>3 DEF Good, Fit, Shapely, Held, Patient, SamePlace, SameClock
<1> QED BY <1>1, <1>2, <1>4 DEF Fit, Stays, y

LEMMA ServedGood ==
  ASSUME NEW x, Good(x), x.st = "ap", ~x.radio
  PROVE  LET y == Served(OnAir(x)) IN Good(y) /\ Stays(x, y) /\ y.gen = NextGen(x.gen)
<1> DEFINE o == OnAir(x)
           y == Served(o)
<1>1. Fit(o) /\ Stays(x, o) /\ SameScreen(x, o) /\ o.up = TRUE /\ o.radio = TRUE /\ o.gen = NextGen(x.gen)
  BY OnAirFit
<1>2. o.st = "ap" /\ Is(o) /\ Reason(o) = Reason(x) /\ o.latch = x.latch /\ Titled(o)
  BY <1>1, SameScreenIs DEF Stays, SamePlace, Fit, Shapely, SameScreen
<1>3. Kept(x)
  BY DEF Good
<1> HIDE DEF o
<1>4. CASE Ok("portal")
  <2> DEFINE r == Raised(o)
             a == ArmTimer(r)
             z == Notify(a, "ap", "ap-active")
  <2>1. y = z
    BY <1>4 DEF Served
  <2>2. /\ Is(r) /\ SamePlace(o, r) /\ SameAir(o, r) /\ SamePhone(o, r) /\ SameClock(o, r) /\ SameDebt(o, r)
        /\ r.shown = o.shown /\ r.latch = IF o.latch = "start" THEN "" ELSE o.latch
    BY <1>2, RaisedIs
  <2> HIDE DEF r
  <2>3. Beside(r, a)
    BY <2>2, BesideOnce
  <2> HIDE DEF a
  <2>4. /\ Is(z) /\ Shows(z, "ap", "ap-active") /\ z.latch = a.latch
        /\ SamePhone(a, z) /\ SameAir(a, z) /\ SamePlace(a, z) /\ SameClock(a, z) /\ SameDebt(a, z)
    BY <2>3, NotifyIs DEF Beside
  <2> HIDE DEF z
  <2>5. Reason(z) = "ap-active" /\ Titled(z)
    BY <1>2, <2>2, <2>3, <2>4, ShowsIs DEF Beside, SamePlace
  <2>6. Stays(o, z) /\ SameAir(o, z) /\ SamePhone(o, z)
    BY <2>2, <2>3, <2>4 DEF Beside, Stays, SamePlace, SameAir, SamePhone, SameClock, SameDebt
  <2>7. z.latch \in {"", "release"}
    BY <1>2, <1>3, <2>2, <2>3, <2>4 DEF Beside, SameScreen, Kept
  <2>8. Shapely(z) /\ Held(z) /\ Patient(z)
    BY <1>1, <2>4, <2>6 DEF Fit, Shapely, Held, Patient, Stays, SamePlace, SameAir, SamePhone, SameClock
  <2>9. Kept(z)
    BY <1>1, <1>2, <2>5, <2>6, <2>7 DEF Kept, QR, Stays, SameAir, SamePlace
  <2>10. Stays(x, z) /\ z.gen = NextGen(x.gen)
    BY <1>1, <2>6 DEF Stays, SamePlace, SameClock, SameDebt, SamePhone
  <2> QED BY <2>1, <2>5, <2>8, <2>9, <2>10 DEF Good, Fit, o
<1>5. CASE ~Ok("portal")
  <2> DEFINE t == TornDown(o)
  <2>1. y = RaiseFailed(t)
    BY <1>5 DEF Served
  <2>2. /\ Is(t) /\ t.up = FALSE /\ t.pend = ~Ok("down") /\ t.radio = (o.radio /\ ~Ok("down"))
        /\ SamePhone(o, t) /\ SamePlace(o, t) /\ SameScreen(o, t) /\ SameClock(o, t) /\ SameDebt(o, t)
    BY <1>2, TornDownIs
  <2> HIDE DEF t
  <2>3. t.st = o.st /\ Reason(t) = Reason(o) /\ t.latch = o.latch /\ Titled(t)
    BY <1>2, <2>2, SameScreenIs DEF SamePlace, SameScreen
  <2>4. Shapely(t) /\ Held(t) /\ Patient(t)
    BY <1>1, <2>2 DEF Fit, Shapely, Held, Patient, SamePlace, SamePhone, SameClock, Ok
  <2>5. Kept(t)
    BY <1>2, <1>3, <2>2, <2>3 DEF Kept, StaleLatch, QR
  <2>6. Good(t) /\ Stays(x, t) /\ t.gen = NextGen(x.gen)
    BY <1>1, <2>2, <2>3, <2>4, <2>5 DEF Good, Fit, Stays, SamePhone, SamePlace, SameClock, SameDebt
  <2>7. Good(y) /\ Stays(t, y) /\ SamePhone(t, y)
    BY <2>1, <2>2, <2>6, RaiseFailedGood
  <2> HIDE DEF y
  <2> QED BY <2>6, <2>7 DEF Stays, SamePlace, SameClock, SameDebt, SamePhone, y, o
<1> QED BY <1>4, <1>5 DEF o

LEMMA RaiseAPGood ==
  ASSUME NEW x, Fair(x), x.st = "ap", ~x.up
  PROVE  LET y == RaiseAP(x) IN Good(y) /\ Shifts(x, y) /\ Stays(x, y)
<1> DEFINE y == RaiseAP(x)
<1>1. CASE x.pend
  BY <1>1 DEF RaiseAP, Fair, Good, Blank, Shifts, Keeps, Stays, SamePlace, SameClock, SameDebt
<1>2. CASE ~x.pend
  <2> DEFINE s == Scanned(x)
  <2>1. Good(s) /\ Keeps(x, s) /\ Stays(x, s) /\ SameAir(x, s)
    BY <1>2, ScannedGood
  <2>2. s.st = "ap" /\ ~s.radio
    BY <1>2, <2>1 DEF Stays, SamePlace, SameAir, Good, Fit, Held
  <2> HIDE DEF s
  <2>3. CASE Ok("up")
    <3>1. y = Served(OnAir(s))
      BY <1>2, <2>3 DEF RaiseAP, s
    <3>2. Good(y) /\ Stays(s, y) /\ y.gen = NextGen(s.gen)
      BY <2>1, <2>2, <3>1, ServedGood
    <3> HIDE DEF y
    <3> QED BY <2>1, <3>2 DEF Stays, SamePlace, SameClock, SameDebt, Shifts, Keeps, y
  <2>4. CASE ~Ok("up")
    <3>1. y = RaiseFailed(s)
      BY <1>2, <2>4 DEF RaiseAP, s
    <3>2. Good(y) /\ Stays(s, y) /\ SameAir(s, y) /\ SamePhone(s, y)
      BY <2>1, <3>1, RaiseFailedGood DEF SameAir
    <3> HIDE DEF y
    <3> QED BY <2>1, <3>2 DEF Stays, SamePlace, SameClock, SameDebt, SamePhone, SameAir, Shifts, Keeps, y
  <2> QED BY <2>3, <2>4
<1> QED BY <1>1, <1>2

LEMMA ReconcileGood ==
  ASSUME NEW x, Fair(x)
  PROVE  LET y == Reconcile(x) IN
         Good(y) /\ Shifts(x, y) /\ Stays(x, y) /\ (x.st # "ap" => Keeps(x, y))
<1> DEFINE y == Reconcile(x)
<1>0. x.up \in BOOLEAN
  BY DEF Fair, Fit, Shapely
<1>1. CASE x.st = "ap" /\ x.up
  <2>1. y = x
    BY <1>1 DEF Reconcile, EnsureAPUp
  <2> QED BY <1>1, <2>1 DEF Fair, Good, Blank, Shifts, Keeps, Stays, SamePlace, SameClock, SameDebt
<1>2. CASE x.st = "ap" /\ ~x.up
  <2> DEFINE d == EnsureAPDown(x)
  <2>1. y = RaiseAP(d)
    BY <1>2 DEF Reconcile, EnsureAPUp
  <2>2. Fair(d) /\ ~d.up /\ Keeps(x, d) /\ Stays(x, d)
    BY EnsureAPDownFair
  <2> HIDE DEF d
  <2>3. Good(y) /\ Shifts(d, y) /\ Stays(d, y)
    BY <1>2, <2>1, <2>2, RaiseAPGood DEF Stays, SamePlace
  <2> HIDE DEF y
  <2> QED BY <1>2, <2>2, <2>3 DEF Stays, SamePlace, SameClock, SameDebt, Shifts, Keeps, y
<1>3. CASE x.st = "joining"
  <2>1. y = x
    BY <1>3 DEF Reconcile
  <2> QED BY <1>3, <2>1 DEF Fair, Good, Blank, Shifts, Keeps, Stays, SamePlace, SameClock, SameDebt
<1>4. CASE x.st # "ap" /\ x.st # "joining"
  <2>1. y = EnsureAPDown(x)
    BY <1>4 DEF Reconcile
  <2> QED BY <1>4, <2>1, EnsureAPDownFair DEF Shifts
<1> QED BY <1>0, <1>1, <1>2, <1>3, <1>4

(* What a transition takes along: all but the place and the screen.        *)
Carries(x, y) == SameAir(x, y) /\ SamePhone(x, y) /\ SameClock(x, y) /\ SameDebt(x, y)

LEMMA LatchingIs ==
  ASSUME NEW x, NEW t, NEW w, Is(x)
  PROVE  LET y == Latching(x, t, w) IN
         /\ Is(y) /\ y.st = x.st /\ y.why = x.why /\ Carries(x, y) /\ SameScreen(x, y)
         /\ y.sreason \in {x.sreason, w} /\ y.policy \in Policies \cup {x.policy}
<1> DEFINE p == CASE w = "unprovisioned" -> "unbounded"
             [] w \in {"sustained-offline", "relocated"} -> "recheck"
             [] w = "setup-incomplete" -> "episode"
             [] w = "user-requested" -> "user"
             [] OTHER -> ""
           y == [x EXCEPT !.policy = p, !.sreason = w, !.first = 0]
<1>1. Latched(x, w) = IF p = "" THEN x ELSE y
  BY DEF Latched
<1>2. p \in Policies \cup {""}
  BY DEF Policies
<1> HIDE DEF p
<1>3. /\ Is(y) /\ y.st = x.st /\ y.why = x.why /\ y.sreason = w /\ y.policy = p /\ SameAir(x, y) /\ SamePhone(x, y) /\ SameScreen(x, y)
      /\ SameClock(x, y) /\ SameDebt(x, y)
  BY DEF Is, SameAir, SamePhone, SameScreen, SameClock, SameDebt
<1> HIDE DEF y
<1>4. Carries(x, y) /\ Carries(x, x) /\ SameScreen(x, x)
  BY <1>3 DEF Carries, SameAir, SamePhone, SameScreen, SameClock, SameDebt
<1>5. Latching(x, t, w) = x \/ (Latching(x, t, w) = y /\ p \in Policies)
  BY <1>1, <1>2 DEF Latching
<1> QED BY <1>3, <1>4, <1>5

LEMMA EnterIs ==
  ASSUME NEW x, NEW t, NEW w, Is(x)
  PROVE  LET y == Enter(x, t, w) IN
         /\ Is(y) /\ y.st = t /\ y.why = w /\ y.sreason = x.sreason /\ y.policy = x.policy
         /\ SameAir(x, y) /\ SamePhone(x, y) /\ SameClock(x, y) /\ SameDebt(x, y) /\ SameScreen(x, y)
BY DEF Is, Enter, SameAir, SamePhone, SameScreen, SameClock, SameDebt

LEMMA HushedIs ==
  ASSUME NEW x, NEW y, Is(y)
  PROVE  LET z == Hushed(x, y) IN
         /\ Is(z) /\ SamePlace(y, z) /\ Carries(y, z)
         /\ \/ SameScreen(y, z)
            \/ y.st = "retry" /\ z.latch = y.latch /\ Shows(z, "retry", "ap-session-ended-silent")
<1> DEFINE n == [y EXCEPT !.narration = ""]
           z == Notify(n, "retry", "ap-session-ended-silent")
<1>1. Beside(y, n) /\ Beside(y, y)
  BY BesideOnce
<1> HIDE DEF n
<1>2. /\ Is(z) /\ Shows(z, "retry", "ap-session-ended-silent") /\ z.latch = n.latch
      /\ SamePhone(n, z) /\ SameAir(n, z) /\ SamePlace(n, z) /\ SameClock(n, z) /\ SameDebt(n, z)
  BY <1>1, NotifyIs DEF Beside
<1> HIDE DEF z
<1>3. SamePlace(y, z) /\ Carries(y, z) /\ z.latch = y.latch
  BY <1>1, <1>2 DEF Beside, Carries, SamePhone, SameAir, SamePlace, SameClock, SameDebt, SameScreen
<1>4. Hushed(x, y) = y \/ (y.st = "retry" /\ Hushed(x, y) = z)
  BY DEF Hushed, z, n
<1>5. CASE Hushed(x, y) = y
  BY <1>1, <1>5 DEF Beside, Carries
<1>6. CASE y.st = "retry" /\ Hushed(x, y) = z
  BY <1>2, <1>3, <1>6
<1> QED BY <1>4, <1>5, <1>6

LEMMA AnnouncedIs ==
  ASSUME NEW x, NEW y, Is(y)
  PROVE  LET z == Announced(x, y) IN
         /\ Is(z) /\ SamePlace(y, z) /\ Carries(y, z)
         /\ \/ x.st = y.st /\ SameScreen(y, z)
            \/ z.latch = y.latch /\ Shows(z, y.st, y.why)
<1> DEFINE n == [y EXCEPT !.narration = IF y.st = "retry" /\ y.why \in Narrated THEN y.why ELSE @]
           z == Notify(n, y.st, y.why)
<1>1. Beside(y, n) /\ Beside(y, y)
  BY DEF Is, Beside, SamePlace, SameAir, SamePhone, SameScreen, SameClock, SameDebt
<1> HIDE DEF n
<1>2. /\ Is(z) /\ Shows(z, y.st, y.why) /\ z.latch = n.latch
      /\ SamePhone(n, z) /\ SameAir(n, z) /\ SamePlace(n, z) /\ SameClock(n, z) /\ SameDebt(n, z)
  BY <1>1, NotifyIs DEF Beside
<1> HIDE DEF z
<1>3. SamePlace(y, z) /\ Carries(y, z) /\ z.latch = y.latch
  BY <1>1, <1>2 DEF Beside, Carries, SamePhone, SameAir, SamePlace, SameClock, SameDebt, SameScreen
<1>4. (x.st = y.st /\ Announced(x, y) = y) \/ Announced(x, y) = z
  BY DEF Announced, Changed, z, n
<1>5. CASE x.st = y.st /\ Announced(x, y) = y
  BY <1>1, <1>5 DEF Beside, Carries
<1>6. CASE Announced(x, y) = z
  BY <1>2, <1>3, <1>6
<1> QED BY <1>4, <1>5, <1>6

LEMMA CarriesTrans ==
  ASSUME NEW x, NEW y, NEW z, Carries(x, y), Carries(y, z)
  PROVE  Carries(x, z)
BY DEF Carries, SameAir, SamePhone, SameClock, SameDebt

LEMMA TransitionGood ==
  ASSUME NEW x, NEW t, NEW w, Fair(x), w \notin Loud
  PROVE  LET y == Transition(x, t, w) IN
         /\ Good(y) /\ y.st = t /\ y.why = w /\ SameClock(x, y) /\ SameDebt(x, y)
         /\ Shifts(x, y) /\ (t # "ap" => Keeps(x, y))
<1> DEFINE l == Latching(x, t, w)
           e == Enter(l, t, w)
           h == Hushed(x, e)
           a == Announced(x, h)
           y == Reconcile(a)
<1>0. Transition(x, t, w) = y
  BY DEF Transition
<1>1. /\ Is(l) /\ Carries(x, l) /\ SameScreen(x, l)
      /\ l.sreason \in {x.sreason, w} /\ l.policy \in Policies \cup {x.policy}
  BY LatchingIs DEF Fair, Fit, Shapely
<1> HIDE DEF l
<1>2. /\ Is(e) /\ e.st = t /\ e.why = w /\ e.sreason = l.sreason /\ e.policy = l.policy
      /\ SameAir(l, e) /\ SamePhone(l, e) /\ SameClock(l, e) /\ SameDebt(l, e) /\ SameScreen(l, e)
  BY <1>1, EnterIs
<1> HIDE DEF e
<1>3. Carries(x, e) /\ SameScreen(x, e)
  BY <1>1, <1>2, CarriesTrans DEF Carries, SameScreen
<1>4. /\ Is(h) /\ SamePlace(e, h) /\ Carries(e, h)
      /\ \/ SameScreen(e, h)
         \/ e.st = "retry" /\ h.latch = e.latch /\ Shows(h, "retry", "ap-session-ended-silent")
  BY <1>2, HushedIs
<1> HIDE DEF h
<1>5. /\ Is(a) /\ SamePlace(h, a) /\ Carries(h, a)
      /\ \/ x.st = h.st /\ SameScreen(h, a)
         \/ a.latch = h.latch /\ Shows(a, h.st, h.why)
  BY <1>4, AnnouncedIs
<1> HIDE DEF a
<1>6. Carries(x, a) /\ a.st = t /\ a.why = w /\ a.sreason = l.sreason /\ a.policy = l.policy /\ h.st = t /\ h.why = w
  BY <1>2, <1>3, <1>4, <1>5, CarriesTrans DEF SamePlace
<1>7. h.latch = x.latch /\ a.latch = x.latch
  BY <1>3, <1>4, <1>5 DEF SameScreen
<1>8. \/ x.st = t /\ a.shown = x.shown
      \/ t = "retry" /\ Shows(a, t, "ap-session-ended-silent")
      \/ Shows(a, t, w)
  <2>1. CASE Shows(a, h.st, h.why)
    BY <1>6, <2>1
  <2>2. CASE x.st = h.st /\ SameScreen(h, a) /\ SameScreen(e, h)
    BY <1>3, <1>6, <2>2 DEF SameScreen
  <2>3. CASE SameScreen(h, a) /\ e.st = "retry" /\ Shows(h, "retry", "ap-session-ended-silent")
    BY <1>2, <2>3 DEF SameScreen, Shows
  <2> QED BY <1>4, <1>5, <2>1, <2>2, <2>3
<1>9. Shapely(a) /\ Held(a) /\ Patient(a)
  BY <1>1, <1>5, <1>6 DEF Fair, Fit, Shapely, Held, Patient, Carries, SameAir, SamePhone, SameClock
<1>10. Titled(a) /\ (Kept(a) \/ Blank(a))
  <2>0. x.latch \in {"", "start", "release"} /\ (x.latch = "start" => ~x.up) /\ Titled(x)
    BY DEF Fair, Fit, Kept, Blank
  <2>1. CASE Shows(a, t, w)
    <3>1. Titled(a) /\ Reason(a) = w
      BY <1>6, <2>1, ShowsIs
    <3> QED BY <1>6, <1>7, <2>0, <3>1 DEF Kept, Loud, QR, Carries, SameAir
  <2>2. CASE Shows(a, t, "ap-session-ended-silent")
    <3>1. Titled(a) /\ Reason(a) = "ap-session-ended-silent"
      BY <1>6, <2>2, ShowsIs
    <3> QED BY <1>6, <1>7, <2>0, <3>1 DEF Kept, QR, Carries, SameAir
  <2>3. CASE x.st = t /\ a.shown = x.shown
    <3>1. Titled(a) /\ Reason(a) = Reason(x) /\ a.st = x.st
      BY <1>6, <2>0, <2>3, SameScreenIs
    <3>2. Kept(x) => Kept(a)
      BY <1>6, <1>7, <3>1 DEF Kept, StaleLatch, Carries, SameAir, SamePhone
    <3>3. Blank(x) => Blank(a)
      BY <1>6, <1>7, <3>1 DEF Blank, Carries, SameAir
    <3> QED BY <3>1, <3>2, <3>3 DEF Fair
  <2> QED BY <1>8, <2>1, <2>2, <2>3
<1>11. Fair(a)
  BY <1>9, <1>10 DEF Fair, Fit
<1>12. Good(y) /\ Shifts(a, y) /\ Stays(a, y) /\ (a.st # "ap" => Keeps(a, y))
  BY <1>11, ReconcileGood
<1> HIDE DEF y
<1>13. y.st = t /\ y.why = w /\ SameClock(x, y) /\ SameDebt(x, y)
  BY <1>6, <1>12 DEF Stays, SamePlace, Carries, SameClock, SameDebt
<1>14. Shifts(x, y) /\ (t # "ap" => Keeps(x, y))
  BY <1>6, <1>12 DEF Shifts, Keeps, Carries, SameAir, SamePhone
<1> QED BY <1>0, <1>12, <1>13, <1>14

(* Where a handler leaves the machine.                                     *)
Homed(x, y) == y.st = "ap" => x.st = "ap" \/ (x.st = "starting" /\ y.why = "unprovisioned")

Plain == {"", "unprovisioned", "link-present", "link-unknown", "link-lost", "offline",
          "boot-offline", "boot-no-internet", "boot-link-unknown", "joined-conn-unknown", "joined-no-internet",
          "sustained-offline", "relocated", "setup-incomplete", "setup-incomplete-settled",
          "ap-session-ended", "ap-session-ended-silent", "ap-recheck", "join-failed", "user-requested",
          "scanning"}
LEMMA PlainIsQuiet == Plain \cap Loud = {}
BY DEF Plain, Loud, QR

LEMMA GoesQuiet ==
  ASSUME NEW x, NEW z, NEW t, NEW w, Fair(x), Mild(x, z), w \notin Loud
  PROVE  LET y == Transition(z, t, w) IN
         Good(y) /\ y.st = t /\ y.why = w /\ Reaches(x, y) /\ SameClock(z, y) /\ (t # "ap" => Keeps(x, y))
<1> DEFINE y == Transition(z, t, w)
<1>1. Fair(z) /\ w \notin Loud
  BY DEF Mild
<1>2. /\ Good(y) /\ y.st = t /\ y.why = w /\ SameClock(z, y) /\ SameDebt(z, y)
      /\ Shifts(z, y) /\ (t # "ap" => Keeps(z, y))
  BY <1>1, TransitionGood
<1> HIDE DEF y
<1> QED BY <1>2 DEF Reaches, Mild, Shifts, Keeps, SameAir, SamePhone, SameDebt, y

LEMMA GoesTo ==
  ASSUME NEW x, NEW z, NEW t, NEW w, Fair(x), Mild(x, z), w \in Plain
  PROVE  LET y == Transition(z, t, w) IN
         Good(y) /\ y.st = t /\ y.why = w /\ Reaches(x, y) /\ SameClock(z, y) /\ (t # "ap" => Keeps(x, y))
<1>1. w \notin Loud
  BY PlainIsQuiet
<1> QED BY <1>1, GoesQuiet

LEMMA GoesHome ==
  ASSUME NEW x, NEW z, NEW t, NEW w, Fair(x), Mild(x, z), w \in Plain, t # "ap"
  PROVE  Reaches(x, Transition(z, t, w)) /\ Homed(x, Transition(z, t, w))
BY GoesTo DEF Homed

LEMMA StaysPut ==
  ASSUME NEW x, NEW z, Fair(x), Mild(x, z)
  PROVE  LET y == Reconcile(z) IN Good(y) /\ Reaches(x, y) /\ y.st = x.st /\ y.why = x.why /\ SamePlace(x, y) /\ SameClock(z, y)
<1> DEFINE y == Reconcile(z)
<1>1. Good(y) /\ Shifts(z, y) /\ Stays(z, y)
  BY ReconcileGood DEF Mild
<1> HIDE DEF y
<1> QED BY <1>1 DEF Reaches, Mild, Shifts, Keeps, SameAir, SamePhone, SameDebt, Stays, SamePlace, y

LEMMA MildOnes ==
  ASSUME NEW x, Is(x), NEW v
  PROVE  /\ Mild(x, x)
         /\ Is(ResetJoinStatus(x)) /\ Mild(x, ResetJoinStatus(x))
         /\ Is(ArmTimer(x)) /\ Mild(x, ArmTimer(x))
         /\ Is(Disarm(x)) /\ Mild(x, Disarm(x))
         /\ Is(CancelEpisode(x)) /\ Mild(x, CancelEpisode(x))
         /\ Is(PauseEpisode(x)) /\ Mild(x, PauseEpisode(x))
         /\ Is(RelocUnknown(x)) /\ Mild(x, RelocUnknown(x))
         /\ Is(FirstScan(x)) /\ Mild(x, FirstScan(x))
         /\ Is(Aged(x)) /\ Mild(x, Aged(x))
<1>1. /\ Beside(x, x) /\ Beside(x, ResetJoinStatus(x)) /\ Beside(x, ArmTimer(x)) /\ Beside(x, Disarm(x))
      /\ Beside(x, CancelEpisode(x)) /\ Beside(x, PauseEpisode(x)) /\ Beside(x, RelocUnknown(x))
      /\ Beside(x, FirstScan(x)) /\ Beside(x, Aged(x))
  BY BesideOnce, ScanBeside
<1>2. \A y : Beside(x, y) => Is(y) /\ Mild(x, y)
  BY BesideMild DEF Beside
<1> QED BY <1>1, <1>2

LEMMA BesideGoes ==
  ASSUME NEW x, NEW z, NEW y, Is(x), Beside(x, z)
  PROVE  /\ Reaches(z, y) => Reaches(x, y)
         /\ Homed(z, y) => Homed(x, y)
         /\ Fair(x) => Fair(z)
         /\ Good(x) => Good(z)
<1>1. Mild(x, z)
  BY BesideMild
<1> QED BY <1>1, MildShifts DEF Mild, Homed, Beside, SamePlace

LEMMA OffToSetup ==
  ASSUME NEW x, Fair(x)
  PROVE  /\ Is(ResetJoinStatus(ClearOffline(x))) /\ Mild(x, ResetJoinStatus(ClearOffline(x)))
         /\ Is(ClearOffline(x)) /\ Mild(x, ClearOffline(x))
<1> DEFINE c == ClearOffline(x)
<1>1. Is(x)
  BY DEF Fair, Fit, Shapely
<1>2. Is(c) /\ Mild(x, c)
  BY <1>1, ClearOfflineMild
<1> HIDE DEF c
<1>3. Is(ResetJoinStatus(c)) /\ Mild(c, ResetJoinStatus(c))
  BY <1>2, MildOnes
<1>4. Mild(x, ResetJoinStatus(c))
  BY <1>2, <1>3, MildTrans
<1> QED BY <1>2, <1>3, <1>4 DEF c

LEMMA WithoutProfileLands ==
  ASSUME NEW x, NEW a, Fair(x)
  PROVE  Reaches(x, WithoutProfile(x, a)) /\ Homed(x, WithoutProfile(x, a))
<1> DEFINE y == WithoutProfile(x, a)
<1>1. Is(x) /\ Mild(x, x)
  BY MildOnes DEF Fair, Fit, Shapely
<1>2. CASE y = Reconcile(x)
  BY <1>1, <1>2, StaysPut DEF Homed
<1>3. CASE y = Transition(ClearOffline(x), "unprovisioned", "link-present")
  <2>1. "link-present" \in Plain
    BY DEF Plain
  <2> QED BY <2>1, <1>3, OffToSetup, GoesHome
<1>4. CASE y = Transition(PauseWindow(x), "unprovisioned", "link-unknown")
  <2>1. "link-unknown" \in Plain
    BY DEF Plain
  <2> QED BY <2>1, <1>1, <1>4, WindowMild, GoesHome
<1>5. CASE y = Transition(ArmWindow(x), "unprovisioned", "link-lost")
  <2>1. "link-lost" \in Plain
    BY DEF Plain
  <2> QED BY <2>1, <1>1, <1>5, WindowMild, GoesHome
<1>6. CASE y = Transition(ResetJoinStatus(ClearOffline(x)), "ap", "unprovisioned") /\ x.st \in {"starting", "ap"}
  <2>1. "unprovisioned" \in Plain
    BY DEF Plain
  <2> QED BY <2>1, <1>6, OffToSetup, GoesTo DEF Homed
<1>7. \/ y = Reconcile(x)
      \/ y = Transition(ClearOffline(x), "unprovisioned", "link-present")
      \/ y = Transition(PauseWindow(x), "unprovisioned", "link-unknown")
      \/ y = Transition(ArmWindow(x), "unprovisioned", "link-lost")
      \/ y = Transition(ResetJoinStatus(ClearOffline(x)), "ap", "unprovisioned") /\ x.st \in {"starting", "ap"}
  BY DEF WithoutProfile
<1> QED BY <1>2, <1>3, <1>4, <1>5, <1>6, <1>7

LEMMA BootOfflineLands ==
  ASSUME NEW x, Fair(x)
  PROVE  Reaches(x, BootOffline(x)) /\ Homed(x, BootOffline(x))
<1> DEFINE p == Probe(x)
           w == BootReason(p)
           t == Transition(x, "retry", w)
           n == [t EXCEPT !.narration = w]
           q == [t EXCEPT !.narration = w, !.tries = ArmTries]
<1>1. Is(x) /\ Mild(x, x)
  BY MildOnes DEF Fair, Fit, Shapely
<1>2. w \in Plain
  BY DEF BootReason, Plain
<1>3. BootOffline(x) \in {n, FirstScan(q)}
  BY DEF BootOffline, BootOfflineAt
<1> HIDE DEF w
<1>4. Good(t) /\ t.st = "retry" /\ Reaches(x, t)
  BY <1>1, <1>2, GoesTo
<1> HIDE DEF t
<1>5. Beside(t, n) /\ Beside(t, q)
  BY <1>4 DEF Good, Fit, Shapely, Is, Beside, SamePlace, SameAir, SamePhone, SameScreen, SameClock, SameDebt
<1> HIDE DEF n, q
<1>6. Beside(t, FirstScan(q))
  BY <1>5, ScanBeside, BesideTrans DEF Beside
<1>7. ASSUME NEW y, Beside(t, y)
      PROVE  Reaches(x, y) /\ y.st = "retry"
  <2>1. Mild(t, y)
    BY <1>4, <1>7, BesideMild
  <2> QED BY <1>4, <2>1 DEF Mild, Reaches, Shifts, Keeps, SameAir, SamePhone, SameDebt, SamePlace
<1> QED BY <1>3, <1>5, <1>6, <1>7 DEF Homed

LEMMA ReachableLands ==
  ASSUME NEW x, Fair(x)
  PROVE  Reaches(x, Reachable(x)) /\ Homed(x, Reachable(x))
<1>1. Is(x) /\ Mild(x, x)
  BY MildOnes DEF Fair, Fit, Shapely
<1>2. Reachable(x) = Transition(x, "online", "") \/ Reachable(x) = Transition(x, "unprovisioned", "unprovisioned")
  BY DEF Reachable
<1>3. CASE Reachable(x) = Transition(x, "online", "")
  <2>1. "" \in Plain
    BY DEF Plain
  <2> QED BY <2>1, <1>1, <1>3, GoesHome
<1>4. CASE Reachable(x) = Transition(x, "unprovisioned", "unprovisioned")
  <2>1. "unprovisioned" \in Plain
    BY DEF Plain
  <2> QED BY <2>1, <1>1, <1>4, GoesHome
<1> QED BY <1>2, <1>3, <1>4

LEMMA UnreachableLands ==
  ASSUME NEW x, NEW a, Fair(x)
  PROVE  Reaches(x, Unreachable(x, a)) /\ Homed(x, Unreachable(x, a))
<1> DEFINE y == Unreachable(x, a)
<1>1. Is(x) /\ Mild(x, x)
  BY MildOnes DEF Fair, Fit, Shapely
<1>2. CASE y = WithoutProfile(x, a)
  BY <1>2, WithoutProfileLands
<1>3. CASE y = Transition(ClearOffline(x), "retry", "link-present")
  <2>1. "link-present" \in Plain
    BY DEF Plain
  <2> QED BY <2>1, <1>3, OffToSetup, GoesHome
<1>4. CASE y = Reconcile(x)
  BY <1>1, <1>4, StaysPut DEF Homed
<1>5. CASE y = BootOffline(x)
  BY <1>5, BootOfflineLands
<1>6. CASE y = Transition(x, "retry", OfflineReason(x, a))
  <2>1. OfflineReason(x, a) \in Plain
    BY DEF OfflineReason, Plain
  <2> QED BY <1>1, <1>6, <2>1, GoesTo DEF Homed
<1>7. \/ y = WithoutProfile(x, a)
      \/ y = Transition(ClearOffline(x), "retry", "link-present")
      \/ y = Reconcile(x)
      \/ y = BootOffline(x)
      \/ y = Transition(x, "retry", OfflineReason(x, a))
  BY DEF Unreachable
<1> QED BY <1>2, <1>3, <1>4, <1>5, <1>6, <1>7

LEMMA OnConnectivityLands ==
  ASSUME NEW x, NEW online, NEW a, Fair(x)
  PROVE  Reaches(x, OnConnectivity(x, online, a)) /\ Homed(x, OnConnectivity(x, online, a))
<1> DEFINE z == [x EXCEPT !.connUnknown = a, !.online = online]
           c == CancelEpisode(ClearOffline(z))
           y == Heard(z, online, a)
<1>1. Is(x)
  BY DEF Fair, Fit, Shapely
<1>2. Beside(x, z)
  BY <1>1 DEF Is, Beside, SamePlace, SameAir, SamePhone, SameScreen, SameClock, SameDebt
<1>3. OnConnectivity(x, online, a) = y
  BY DEF OnConnectivity
<1> HIDE DEF z
<1>4. Fair(z) /\ Is(z)
  BY <1>1, <1>2, BesideGoes DEF Fair, Fit, Shapely
<1>5. Mild(z, c) /\ Is(c)
  BY <1>4, OffToSetup, MildOnes, MildTrans
<1>6. Fair(c)
  BY <1>4, <1>5 DEF Mild
<1> HIDE DEF c
<1>7. Reaches(z, Reachable(c)) /\ Homed(z, Reachable(c))
  <2>1. Reaches(c, Reachable(c)) /\ Homed(c, Reachable(c))
    BY <1>6, ReachableLands
  <2> QED BY <1>5, <2>1, MildShifts DEF Homed, Mild, SamePlace
<1>8. Reaches(z, Unreachable(z, a)) /\ Homed(z, Unreachable(z, a))
  BY <1>4, UnreachableLands
<1>9. Reaches(z, y) /\ Homed(z, y)
  BY <1>7, <1>8 DEF Heard, c
<1> QED BY <1>1, <1>2, <1>3, <1>9, BesideGoes

LEMMA AssessLands ==
  ASSUME NEW x, Fair(x)
  PROVE  Reaches(x, Assess(x)) /\ Homed(x, Assess(x))
BY OnConnectivityLands DEF Assess

(* A raise for a lost network comes of a whole window without one.         *)
Calm(x, y) == y.st = "ap" /\ y.why = "sustained-offline" => x.st = "ap" \/ y.quiet >= Window

LEMMA FairIs ==
  ASSUME NEW x, Fair(x)
  PROVE  Is(x) /\ Mild(x, x) /\ (x.st # "ap" => Good(x))
BY MildOnes DEF Fair, Fit, Shapely, Good, Blank

LEMMA BootReasonPlain == \A p : BootReason(p) \in Plain
BY DEF BootReason, Plain

LEMMA RepaintMild ==
  ASSUME NEW x, NEW p, Is(x), x.st = "retry"
  PROVE  Is(Repaint(x, p)) /\ Mild(x, Repaint(x, p)) /\ SameClock(x, Repaint(x, p))
<1> DEFINE w == BootReason(p)
           n == [x EXCEPT !.narration = w]
           y == Notify(n, "retry", w)
<1>1. Repaint(x, p) = x \/ Repaint(x, p) = y
  BY DEF Repaint
<1>2. w \notin Loud
  BY BootReasonPlain, PlainIsQuiet
<1> HIDE DEF w
<1>3. Beside(x, n)
  BY BesideOnce
<1> HIDE DEF n
<1>4. n.st = "retry" /\ Is(n) /\ Mild(x, n)
  BY <1>3, BesideMild DEF Beside, SamePlace
<1>5. Is(y) /\ Mild(n, y) /\ SameClock(n, y)
  BY <1>2, <1>4, NotifyMild
<1> HIDE DEF y
<1>6. Mild(x, y) /\ SameClock(x, y)
  BY <1>3, <1>4, <1>5, MildTrans DEF SameClock, Beside
<1>7. Mild(x, x) /\ SameClock(x, x)
  BY MildOnes DEF SameClock
<1> QED BY <1>1, <1>5, <1>6, <1>7

LEMMA GuardedMild ==
  ASSUME NEW x, NEW g, Is(x), x.st = "retry"
  PROVE  Is(Guarded(x, g)) /\ Mild(x, Guarded(x, g))
<1> DEFINE c == ClearOffline(x)
           p == PauseWindow(x)
           r == RelocUnknown(p)
<1>1. Is(c) /\ Mild(x, c)
  BY ClearOfflineMild
<1>2. Is(p) /\ Mild(x, p)
  BY WindowMild
<1>3. Guarded(x, g) = Repaint(c, g) \/ Guarded(x, g) = Repaint(r, g)
  BY DEF Guarded
<1> HIDE DEF c, p
<1>4. Is(r) /\ Mild(x, r)
  BY <1>2, MildOnes, MildTrans
<1> HIDE DEF r
<1>5. c.st = "retry" /\ r.st = "retry"
  BY <1>1, <1>4 DEF Mild, SamePlace
<1>6. Is(Repaint(c, g)) /\ Mild(x, Repaint(c, g))
  BY <1>1, <1>5, RepaintMild, MildTrans
<1>7. Is(Repaint(r, g)) /\ Mild(x, Repaint(r, g))
  BY <1>4, <1>5, RepaintMild, MildTrans
<1> QED BY <1>3, <1>6, <1>7

LEMMA EpisodeSampleLands ==
  ASSUME NEW x, Fair(x), x.st = "retry"
  PROVE  LET e == EpisodeSample(x) IN
         \/ Mild(x, e) /\ Is(e)
         \/ Reaches(x, e) /\ e.st = "ap" /\ e.why = "setup-incomplete"
<1> DEFINE e == EpisodeSample(x)
           d == [x EXCEPT !.deferred = @ + 1]
           tt == IF x.target = 0 THEN EpisodeWindow ELSE x.target
           s == [x EXCEPT !.target = tt, !.epause = 0, !.samples = Least(tt, @ + 1), !.efresh = Dec(@)]
           r == [s EXCEPT !.samples = 0, !.cycle = Least(Cycles + 1, @ + 1), !.raises = Least(Cycles + 1, @ + 1)]
           y == Transition(ResetJoinStatus(ClearOffline(r)), "ap", "setup-incomplete")
<1>0. Is(x) /\ Mild(x, x)
  BY FairIs
<1>1. e \in {x, CancelEpisode(x), PauseEpisode(x), PauseEpisode(d), s, y}
  BY DEF EpisodeSample, EpisodeSampled, EpisodeCount, EpisodeRaise
<1> HIDE DEF tt
<1>2. Beside(x, d) /\ Beside(x, s)
  BY <1>0 DEF Is, Beside, SamePlace, SameAir, SamePhone, SameScreen, SameClock, SameDebt
<1> HIDE DEF d, s
<1>3. Is(PauseEpisode(d)) /\ Mild(x, PauseEpisode(d)) /\ Is(s) /\ Mild(x, s)
  BY <1>2, MildOnes, MildTrans, BesideMild DEF Beside
<1>4. Beside(s, r)
  BY <1>2 DEF Is, Beside, SamePlace, SameAir, SamePhone, SameScreen, SameClock, SameDebt
<1> HIDE DEF r
<1>5. Fair(r) /\ Mild(x, r) /\ Is(r)
  BY <1>2, <1>4, BesideTrans, BesideMild DEF Mild, Beside
<1>6. Mild(x, ResetJoinStatus(ClearOffline(r)))
  BY <1>5, OffToSetup, MildTrans
<1>7. "setup-incomplete" \in Plain
  BY DEF Plain
<1>8. Reaches(x, y) /\ y.st = "ap" /\ y.why = "setup-incomplete"
  BY <1>6, <1>7, GoesTo
<1> HIDE DEF y, e
<1>9. CASE e = y
  BY <1>8, <1>9 DEF e
<1>10. CASE e \in {x, CancelEpisode(x), PauseEpisode(x), PauseEpisode(d), s}
  BY <1>0, <1>3, <1>10, MildOnes DEF e
<1> QED BY <1>1, <1>9, <1>10

LEMMA AfterSampleLands ==
  ASSUME NEW x, Fair(x), x.st = "retry"
  PROVE  LET y == AfterSample(EpisodeSample(x)) IN Reaches(x, y) /\ Calm(x, y)
<1> DEFINE e == EpisodeSample(x)
           r == Repaint(e, "present")
           y == AfterSample(e)
<1>1. \/ Mild(x, e) /\ Is(e)
      \/ Reaches(x, e) /\ e.st = "ap" /\ e.why = "setup-incomplete"
  BY EpisodeSampleLands
<1> HIDE DEF e
<1>2. CASE e.st = "ap" /\ Reaches(x, e) /\ e.why = "setup-incomplete"
  <2>1. y = e
    BY <1>2 DEF AfterSample
  <2> HIDE DEF y
  <2>2. Reaches(x, y) /\ Calm(x, y)
    BY <1>2, <2>1 DEF Calm
  <2> QED BY <2>2 DEF y, e
<1>3. CASE Mild(x, e) /\ Is(e)
  <2>1. e.st = "retry"
    BY <1>3 DEF Mild, SamePlace
  <2>2. y = Reconcile(r)
    BY <2>1 DEF AfterSample
  <2>3. Mild(x, r)
    BY <1>3, <2>1, RepaintMild, MildTrans
  <2> HIDE DEF r
  <2>4. Reaches(x, y) /\ y.st = x.st
    BY <2>2, <2>3, StaysPut
  <2> HIDE DEF y
  <2> QED BY <2>4 DEF Calm, y, e
<1> QED BY <1>1, <1>2, <1>3 DEF e

LEMMA WindowStepLands ==
  ASSUME NEW x, NEW g, Fair(x), x.st = "retry"
  PROVE  Reaches(x, WindowStep(x, g)) /\ Calm(x, WindowStep(x, g))
<1> DEFINE c == ResetJoinStatus(ClearOffline(x))
           z == [c EXCEPT !.quiet = x.quiet]
           y == WindowStep(x, g)
           t == Transition(z, "ap", "sustained-offline")
           f == Guarded(x, g)
<1>0. Is(x) /\ Mild(x, x) /\ Patient(x)
  BY FairIs DEF Fair, Fit
<1>1. Is(f) /\ Mild(x, f)
  BY <1>0, GuardedMild
<1>2. \/ y = Reconcile(x) \/ y = Reconcile(f)
      \/ y = t /\ x.absent >= Window
  BY DEF WindowStep, WindowExpired
<1> HIDE DEF f
<1>3. CASE y = Reconcile(x)
  <2>1. Reaches(x, y) /\ y.st = x.st
    BY <1>0, <1>3, StaysPut
  <2> HIDE DEF y
  <2> QED BY <2>1 DEF Calm, y
<1>4. CASE y = Reconcile(f)
  <2>1. Reaches(x, y) /\ y.st = x.st
    BY <1>1, <1>4, StaysPut
  <2> HIDE DEF y
  <2> QED BY <2>1 DEF Calm, y
<1>5. CASE y = t /\ x.absent >= Window
  <2>1. Is(c) /\ Mild(x, c)
    BY OffToSetup
  <2>2. c.absent = 0
    <3>1. Is(ClearOffline(x)) /\ Cleared(ClearOffline(x))
      BY <1>0, ClearOfflineIs
    <3>2. SameClock(ClearOffline(x), c)
      BY <3>1, BesideOnce DEF Beside
    <3> QED BY <3>1, <3>2 DEF SameClock, Cleared
  <2> HIDE DEF c
  <2>3. /\ Is(z) /\ SamePlace(c, z) /\ SameAir(c, z) /\ SamePhone(c, z) /\ SameScreen(c, z) /\ SameDebt(c, z)
        /\ z.absent = c.absent /\ z.quiet = x.quiet
    BY <2>1 DEF Is, SamePlace, SameAir, SamePhone, SameScreen, SameDebt
  <2> HIDE DEF z
  <2>4. Patient(z)
    BY <1>0, <2>2, <2>3 DEF Patient
  <2>5. Mild(c, z)
    BY <2>3, <2>4, SameScreenIs DEF Mild, Fair, Good, Fit, Shapely, Held, Kept, Blank, StaleLatch,
       SamePlace, SameAir, SamePhone, SameScreen, SameDebt
  <2>6. Mild(x, z)
    BY <2>1, <2>5, MildTrans
  <2>7. "sustained-offline" \in Plain
    BY DEF Plain
  <2>8. Reaches(x, t) /\ SameClock(z, t)
    BY <2>6, <2>7, GoesTo
  <2> HIDE DEF t
  <2>9. x.quiet >= Window
    BY <1>0, <1>5, ProvisioningAssumption DEF Patient
  <2>10. t.quiet >= Window
    BY <2>3, <2>8, <2>9 DEF SameClock
  <2> QED BY <1>5, <2>8, <2>10 DEF Calm
<1> QED BY <1>2, <1>3, <1>4, <1>5

LEMMA MildCalm ==
  ASSUME NEW x, NEW z, NEW y, Mild(x, z), Reaches(z, y), Calm(z, y)
  PROVE  Reaches(x, y) /\ Calm(x, y)
<1>1. Reaches(x, y)
  BY MildShifts
<1> QED BY <1>1 DEF Calm, Mild, SamePlace

LEMMA AbsentStepLands ==
  ASSUME NEW x, NEW g, Fair(x), x.st = "retry"
  PROVE  Reaches(x, AbsentStep(x, g)) /\ Calm(x, AbsentStep(x, g))
<1> DEFINE r == Repaint(x, "absent")
           a == RecordAbsent(r)
           f == Guarded(x, g)
           d == Disarm(x)
           c == ResetJoinStatus(ClearOffline(d))
           y == AbsentStep(x, g)
<1>0. Is(x) /\ Mild(x, x)
  BY FairIs
<1>1. y \in {WindowStep(a, g), Reconcile(f), Transition(c, "ap", "relocated")}
  BY DEF AbsentStep
<1>2. Is(r) /\ Mild(x, r)
  BY <1>0, RepaintMild
<1>3. Is(d) /\ Mild(x, d)
  BY <1>0, MildOnes
<1>4. Is(f) /\ Mild(x, f)
  BY <1>0, GuardedMild
<1> HIDE DEF r, d, f
<1>5. Is(a) /\ Mild(x, a)
  BY <1>2, RecordAbsentMild, MildTrans
<1>6. Mild(x, c)
  <2>1. Fair(d)
    BY <1>3 DEF Mild
  <2> QED BY <1>3, <2>1, OffToSetup, MildTrans
<1> HIDE DEF a, c
<1>7. CASE y = WindowStep(a, g)
  <2>1. Fair(a) /\ a.st = "retry"
    BY <1>5 DEF Mild, SamePlace
  <2> QED BY <1>5, <1>7, <2>1, WindowStepLands, MildCalm
<1>8. CASE y = Reconcile(f)
  <2>1. Reaches(x, y) /\ y.st = x.st
    BY <1>4, <1>8, StaysPut
  <2> HIDE DEF y
  <2> QED BY <2>1 DEF Calm, y
<1>9. CASE y = Transition(c, "ap", "relocated")
  <2>1. "relocated" \in Plain
    BY DEF Plain
  <2>2. Reaches(x, y) /\ y.why = "relocated"
    BY <1>6, <1>9, <2>1, GoesTo
  <2> HIDE DEF y
  <2> QED BY <2>2 DEF Calm, y
<1> QED BY <1>1, <1>7, <1>8, <1>9

LEMMA RetryTickLands ==
  ASSUME NEW x, NEW g, Fair(x), x.st = "retry"
  PROVE  Reaches(x, RetryTick(x, g)) /\ Calm(x, RetryTick(x, g))
<1> DEFINE c == ClearOffline(x)
           p == PauseWindow(x)
           u == RelocUnknown(p)
           r == Repaint(u, "unknown")
           e == CancelEpisode(x)
           f == FirstScan(e)
           y == RetryTick(x, g)
<1>0. Is(x) /\ Mild(x, x)
  BY FairIs
<1>1. y \in {AfterSample(EpisodeSample(c)), Reconcile(r), AbsentStep(f, g)}
  BY DEF RetryTick
<1>2. Is(c) /\ Mild(x, c)
  BY <1>0, ClearOfflineMild
<1>3. Is(p) /\ Mild(x, p)
  BY <1>0, WindowMild
<1>4. Is(e) /\ Mild(x, e)
  BY <1>0, MildOnes
<1> HIDE DEF c, p, e
<1>5. Is(u) /\ Mild(x, u)
  BY <1>3, MildOnes, MildTrans
<1>6. Is(f) /\ Mild(x, f)
  BY <1>4, MildOnes, MildTrans
<1> HIDE DEF u, f
<1>7. c.st = "retry" /\ u.st = "retry" /\ f.st = "retry" /\ Fair(c) /\ Fair(f)
  BY <1>2, <1>5, <1>6 DEF Mild, SamePlace
<1>8. Mild(x, r)
  BY <1>5, <1>7, RepaintMild, MildTrans
<1> HIDE DEF r
<1>9. CASE y = AfterSample(EpisodeSample(c))
  BY <1>2, <1>7, <1>9, AfterSampleLands, MildCalm
<1>10. CASE y = Reconcile(r)
  <2>1. Reaches(x, y) /\ y.st = x.st
    BY <1>8, <1>10, StaysPut
  <2> HIDE DEF y
  <2> QED BY <2>1 DEF Calm, y
<1>11. CASE y = AbsentStep(f, g)
  BY <1>6, <1>7, <1>11, AbsentStepLands, MildCalm
<1> QED BY <1>1, <1>9, <1>10, <1>11

LEMMA StaysCalm ==
  ASSUME NEW x, NEW z, Fair(x), Mild(x, z)
  PROVE  Reaches(x, Reconcile(z)) /\ Calm(x, Reconcile(z))
<1> DEFINE y == Reconcile(z)
<1>1. Reaches(x, y) /\ y.st = x.st
  BY StaysPut
<1> HIDE DEF y
<1> QED BY <1>1 DEF Calm, y

LEMMA GoesCalm ==
  ASSUME NEW x, NEW z, NEW t, NEW w, Fair(x), Mild(x, z), w \in Plain, t # "ap" \/ w # "sustained-offline"
  PROVE  Reaches(x, Transition(z, t, w)) /\ Calm(x, Transition(z, t, w))
<1> DEFINE y == Transition(z, t, w)
<1>1. Reaches(x, y) /\ y.st = t /\ y.why = w
  BY GoesTo
<1> HIDE DEF y
<1> QED BY <1>1 DEF Calm, y

LEMMA UnprovisionedTickLands ==
  ASSUME NEW x, Fair(x)
  PROVE  Reaches(x, UnprovisionedTick(x)) /\ Calm(x, UnprovisionedTick(x))
<1> DEFINE c == ClearOffline(x)
           p == PauseWindow(x)
           a == RecordAbsent(x)
           ca == ClearOffline(a)
           ra == ResetJoinStatus(ca)
           y == UnprovisionedTick(x)
<1>0. Is(x) /\ Mild(x, x)
  BY FairIs
<1>1. y \in {Reconcile(x), Reconcile(c), Reconcile(p), Reconcile(a), Transition(ca, "retry", "offline"),
             Transition(ra, "ap", "unprovisioned")}
  BY DEF UnprovisionedTick, UnprovisionedAbsent
<1>2. Mild(x, c) /\ Mild(x, p) /\ Mild(x, a) /\ Is(a)
  BY <1>0, ClearOfflineMild, WindowMild, RecordAbsentMild
<1> HIDE DEF c, p, a
<1>3. Fair(a)
  BY <1>2 DEF Mild
<1>4. Mild(x, ca) /\ Mild(x, ra)
  BY <1>2, <1>3, OffToSetup, MildTrans
<1> HIDE DEF ca, ra
<1>5. "offline" \in Plain /\ "unprovisioned" \in Plain
  BY DEF Plain
<1>6. CASE y \in {Reconcile(x), Reconcile(c), Reconcile(p), Reconcile(a)}
  BY <1>0, <1>2, <1>6, StaysCalm
<1>7. CASE y = Transition(ca, "retry", "offline")
  BY <1>4, <1>5, <1>7, GoesCalm
<1>8. CASE y = Transition(ra, "ap", "unprovisioned")
  BY <1>4, <1>5, <1>8, GoesCalm
<1> QED BY <1>1, <1>6, <1>7, <1>8

(* A step that lowers the hotspot, and what lands from there.              *)
Sheds(x, y) == Fair(y) /\ Keeps(x, y) /\ SamePlace(x, y) /\ SameDebt(x, y)

LEMMA ShedsOnce ==
  ASSUME NEW x, Fair(x)
  PROVE  /\ Sheds(x, x) /\ Sheds(x, EnsureAPDown(x))
         /\ \A y : Mild(x, y) => Sheds(x, y)
<1>1. \A y : Mild(x, y) => Sheds(x, y)
  BY DEF Mild, Sheds, Keeps, SameAir, SamePhone
<1>2. Sheds(x, EnsureAPDown(x))
  BY EnsureAPDownFair DEF Sheds, Stays
<1> QED BY <1>1, <1>2, FairIs

LEMMA ShedsTrans ==
  ASSUME NEW x, NEW y, NEW z, Sheds(x, y), Sheds(y, z)
  PROVE  Sheds(x, z)
BY DEF Sheds, Keeps, SamePlace, SameDebt

LEMMA ShedsLands ==
  ASSUME NEW x, NEW y, NEW z, Sheds(x, y), Reaches(y, z)
  PROVE  Reaches(x, z)
BY DEF Sheds, Reaches, Shifts, Keeps, SameDebt

LEMMA LoweredSheds ==
  ASSUME NEW x, Fair(x)
  PROVE  Sheds(x, Lowered(x)) /\ Is(Lowered(x)) /\ Fair(Lowered(x))
<1> DEFINE d == EnsureAPDown(x)
           y == [d EXCEPT !.phase = NoTimer]
<1>1. Sheds(x, d)
  BY ShedsOnce
<1> HIDE DEF d
<1>2. Fair(d) /\ Is(d)
  BY <1>1, FairIs DEF Sheds
<1>3. Beside(d, y)
  BY <1>2, BesideOnce
<1> HIDE DEF y
<1>4. Sheds(d, y) /\ Is(y)
  BY <1>2, <1>3, BesideMild, ShedsOnce DEF Beside
<1>5. Sheds(x, y)
  BY <1>1, <1>4, ShedsTrans
<1> QED BY <1>4, <1>5 DEF Lowered, d, y, Sheds

LEMMA LandingPlain == Landing \in Plain /\ Resting # "ap"
BY DEF Landing, Resting, Plain

LEMMA BlinkEndsLands ==
  ASSUME NEW x, NEW r, NEW found, Good(x), r \notin Loud
  PROVE  Reaches(x, BlinkEnds(x, r, found))
<1> DEFINE a == [x EXCEPT !.link = "wifi", !.phase = NoTimer]
           b == [x EXCEPT !.recheck = Least(Rungs, @ + 1)]
<1>0. Fair(x) /\ Is(x) /\ Mild(x, x)
  BY FairIs DEF Good, Fair
<1>1. Beside(x, a) /\ Beside(x, b)
  BY <1>0 DEF Is, Beside, SamePlace, SameAir, SamePhone, SameScreen, SameClock, SameDebt
<1>2. BlinkEnds(x, r, found) \in {Assess(a), Transition(b, "ap", r), Transition(x, "ap", r)}
  BY DEF BlinkEnds
<1> HIDE DEF a, b
<1>3. Mild(x, a) /\ Mild(x, b) /\ Fair(a)
  BY <1>0, <1>1, BesideMild DEF Mild
<1>4. Reaches(x, Assess(a))
  BY <1>3, AssessLands, MildShifts
<1>5. Reaches(x, Transition(b, "ap", r)) /\ Reaches(x, Transition(x, "ap", r))
  BY <1>0, <1>3, GoesQuiet
<1> QED BY <1>2, <1>4, <1>5

LEMMA RecheckBlinkLands ==
  ASSUME NEW x, NEW found, Fair(x)
  PROVE  Reaches(x, RecheckBlink(x, found))
<1> DEFINE d == EnsureAPDown(x)
           t == Transition(d, "retry", "ap-recheck")
           r == x.sreason
<1>0. r \notin Loud
  BY DEF Fair, Fit, Shapely
<1>1. Sheds(x, d)
  BY ShedsOnce
<1>2. RecheckBlink(x, found) = IF d.pend THEN ArmTimer(d) ELSE BlinkEnds(t, r, found)
  BY DEF RecheckBlink, Blink
<1> HIDE DEF d, r
<1>3. Fair(d) /\ Is(d) /\ Mild(d, d)
  BY <1>1, FairIs DEF Sheds
<1>4. CASE d.pend
  <2>1. Good(d) /\ Mild(d, ArmTimer(d))
    BY <1>3, <1>4, MildOnes DEF Fair, Good, Blank
  <2>2. Reaches(d, d)
    BY <2>1 DEF Reaches, Shifts, Keeps, SameDebt
  <2>3. Reaches(d, ArmTimer(d))
    BY <2>1, <2>2 DEF Mild, Reaches, Shifts, Keeps, SameAir, SamePhone
  <2> QED BY <1>1, <1>2, <1>4, <2>3, ShedsLands
<1>5. CASE ~d.pend
  <2>1. "ap-recheck" \in Plain
    BY DEF Plain
  <2>2. Good(t) /\ Reaches(d, t) /\ Keeps(d, t)
    BY <1>3, <2>1, GoesTo
  <2> HIDE DEF t
  <2>3. Reaches(t, BlinkEnds(t, r, found))
    BY <1>0, <2>2, BlinkEndsLands
  <2>4. Reaches(d, BlinkEnds(t, r, found))
    BY <2>2, <2>3 DEF Reaches, Shifts, Keeps, SameDebt
  <2> QED BY <1>1, <1>2, <1>5, <2>4, ShedsLands
<1> QED BY <1>4, <1>5

LEMMA EndEpisodePhaseLands ==
  ASSUME NEW x, Fair(x)
  PROVE  Reaches(x, EndEpisodePhase(x))
<1> DEFINE l == Lowered(x)
           a == [l EXCEPT !.settled = TRUE]
           b == [l EXCEPT !.samples = 0, !.epause = 0, !.efresh = 0, !.target = EpisodeWindow]
<1>1. EndEpisodePhase(x) \in {Transition(a, "retry", "setup-incomplete-settled"), Transition(b, "retry", "ap-session-ended")}
  BY DEF EndEpisodePhase
<1>2. Sheds(x, l) /\ Is(l) /\ Fair(l)
  BY LoweredSheds
<1> HIDE DEF l
<1>3. Beside(l, a) /\ Beside(l, b)
  BY <1>2 DEF Is, Beside, SamePlace, SameAir, SamePhone, SameScreen, SameClock, SameDebt
<1> HIDE DEF a, b
<1>4. Mild(l, a) /\ Mild(l, b)
  BY <1>2, <1>3, BesideMild
<1>5. "setup-incomplete-settled" \in Plain /\ "ap-session-ended" \in Plain
  BY DEF Plain
<1>6. Reaches(l, Transition(a, "retry", "setup-incomplete-settled"))
  BY <1>2, <1>4, <1>5, GoesTo
<1>7. Reaches(l, Transition(b, "retry", "ap-session-ended"))
  BY <1>2, <1>4, <1>5, GoesTo
<1> QED BY <1>1, <1>2, <1>6, <1>7, ShedsLands

LEMMA EndedLands ==
  ASSUME NEW x, Fair(x)
  PROVE  /\ Reaches(x, Transition(ClearOffline(Lowered(x)), Resting, Landing))
         /\ Reaches(x, Transition(ClearOffline(CancelEpisode(Lowered(x))), Resting, Landing))
<1> DEFINE l == Lowered(x)
           e == CancelEpisode(l)
           a == ClearOffline(l)
           b == ClearOffline(e)
<1>1. Sheds(x, l) /\ Is(l) /\ Fair(l)
  BY LoweredSheds
<1> HIDE DEF l
<1>2. Mild(l, e) /\ Is(e)
  BY <1>1, MildOnes
<1> HIDE DEF e
<1>3. Mild(l, a) /\ Mild(l, b)
  BY <1>1, <1>2, ClearOfflineMild, MildTrans
<1> HIDE DEF a, b
<1>4. Reaches(l, Transition(a, Resting, Landing)) /\ Reaches(l, Transition(b, Resting, Landing))
  BY <1>1, <1>3, LandingPlain, GoesTo
<1>5. Reaches(x, Transition(a, Resting, Landing)) /\ Reaches(x, Transition(b, Resting, Landing))
  BY <1>1, <1>4, ShedsLands
<1> QED BY <1>5 DEF a, b, e, l

LEMMA APTickLands ==
  ASSUME NEW x, NEW found, Fair(x)
  PROVE  Reaches(x, APTick(x, found))
<1> DEFINE c == ClearOffline(x)
           y == APTick(x, found)
           a == Transition(ClearOffline(Lowered(x)), Resting, Landing)
           b == Transition(ClearOffline(CancelEpisode(Lowered(x))), Resting, Landing)
<1>0. Is(x) /\ Mild(x, x)
  BY FairIs
<1>1. x.policy \in Policies
  BY DEF Fair, Fit, Shapely
<1>2. ExpiryDue(x) => x.policy \in {"recheck", "episode", "user"}
  BY <1>1 DEF ExpiryDue, Bound, Policies
<1>3. ExpiryDue(x) => Expire(x, found) \in {RecheckBlink(x, found), EndEpisodePhase(x), a}
  BY <1>2 DEF Expire
<1>4. y \in {b, Reconcile(x), Transition(c, Resting, "link-present")} \/ (ExpiryDue(x) /\ y = Expire(x, found))
  BY DEF APTick
<1>5. Reaches(x, a) /\ Reaches(x, b)
  BY EndedLands
<1>6. Reaches(x, RecheckBlink(x, found)) /\ Reaches(x, EndEpisodePhase(x)) /\ Reaches(x, Reconcile(x))
  BY <1>0, RecheckBlinkLands, EndEpisodePhaseLands, StaysPut
<1>7. Reaches(x, Transition(c, Resting, "link-present"))
  <2>1. "link-present" \in Plain
    BY DEF Plain
  <2>2. Mild(x, c)
    BY <1>0, ClearOfflineMild
  <2> QED BY <2>1, <2>2, GoesTo
<1> HIDE DEF a, b, c, y
<1>8. Reaches(x, y)
  BY <1>3, <1>4, <1>5, <1>6, <1>7
<1> QED BY <1>8 DEF y

(* A phone is only painted: the hotspot and its generation are as before.  *)
Paints(x, y) ==
  /\ Good(y) /\ SamePlace(x, y) /\ SameAir(x, y) /\ SameClock(x, y) /\ SameDebt(x, y)
  /\ y.gen = x.gen /\ (y.seen => x.seen)

LEMMA PaintsSelf == ASSUME NEW x, Good(x) PROVE Paints(x, x) /\ Keeps(x, x)
BY DEF Paints, Keeps, SamePlace, SameAir, SameClock, SameDebt

LEMMA UpIsQuiet ==
  ASSUME NEW x, Good(x), x.up
  PROVE  x.radio /\ x.latch \in {"", "release"} /\ Is(x)
BY DEF Good, Fit, Held, Kept, Shapely

LEMMA AttachedPaints ==
  ASSUME NEW x, NEW g, Good(x), x.up /\ g = x.gen => x.seen
  PROVE  Paints(x, Attached(x, g)) /\ Keeps(x, Attached(x, g))
<1> DEFINE a == [x EXCEPT !.attach = TRUE]
           n == [x EXCEPT !.attach = FALSE]
           p == Notify(n, "ap", "ap-client-attached")
<1>0. Is(x) /\ Fit(x) /\ Kept(x)
  BY DEF Good, Fit, Shapely
<1>1. \/ Attached(x, g) = x
      \/ (Attached(x, g) \in {a, p} /\ x.up /\ x.st = "ap" /\ g = x.gen)
  BY DEF Attached
<1>2. /\ Is(a) /\ a.attach = TRUE /\ SamePlace(x, a) /\ SameAir(x, a) /\ SameScreen(x, a) /\ SameClock(x, a) /\ SameDebt(x, a)
      /\ a.gen = x.gen /\ a.seen = x.seen
  BY <1>0 DEF Is, SamePlace, SameAir, SameScreen, SameClock, SameDebt
<1>3. /\ Is(n) /\ n.attach = FALSE /\ SamePlace(x, n) /\ SameAir(x, n) /\ SameScreen(x, n) /\ SameClock(x, n) /\ SameDebt(x, n)
      /\ n.gen = x.gen /\ n.seen = x.seen
  BY <1>0 DEF Is, SamePlace, SameAir, SameScreen, SameClock, SameDebt
<1> HIDE DEF a, n
<1>4. /\ Is(p) /\ Shows(p, "ap", "ap-client-attached") /\ p.latch = n.latch
      /\ SamePhone(n, p) /\ SameAir(n, p) /\ SamePlace(n, p) /\ SameClock(n, p) /\ SameDebt(n, p)
  BY <1>3, NotifyIs
<1> HIDE DEF p
<1>5. CASE Attached(x, g) = x
  BY <1>5, PaintsSelf
<1>6. CASE Attached(x, g) = a /\ x.up /\ x.st = "ap" /\ g = x.gen
  <2>1. x.seen
    BY <1>6
  <2>2. Reason(a) = Reason(x) /\ Titled(a) /\ a.latch = x.latch
    BY <1>0, <1>2, SameScreenIs DEF Fit, SameScreen, SamePlace
  <2>3. Shapely(a) /\ Held(a) /\ Patient(a)
    BY <1>0, <1>2, <2>1 DEF Fit, Shapely, Held, Patient, SamePlace, SameAir, SameClock
  <2>4. Kept(a)
    BY <1>0, <1>2, <2>2 DEF Kept, StaleLatch, SamePlace, SameAir
  <2> QED BY <1>2, <1>6, <2>2, <2>3, <2>4 DEF Paints, Keeps, Good, Fit, SameAir
<1>7. CASE Attached(x, g) = p /\ x.up /\ x.st = "ap" /\ g = x.gen
  <2>1. x.seen /\ x.radio /\ x.latch \in {"", "release"}
    BY <1>7, UpIsQuiet
  <2>2. Reason(p) = "ap-client-attached" /\ Titled(p)
    BY <1>3, <1>4, <1>7, ShowsIs DEF SamePlace
  <2>3. SamePlace(x, p) /\ SameAir(x, p) /\ SameClock(x, p) /\ SameDebt(x, p) /\ p.gen = x.gen /\ p.seen = x.seen
        /\ p.attach = FALSE /\ p.latch = x.latch
    BY <1>3, <1>4 DEF SamePlace, SameAir, SamePhone, SameClock, SameDebt, SameScreen
  <2>4. Shapely(p) /\ Held(p) /\ Patient(p)
    BY <1>0, <1>4, <2>3 DEF Fit, Shapely, Held, Patient, SamePlace, SameAir, SameClock
  <2>5. Kept(p)
    BY <1>7, <2>1, <2>2, <2>3 DEF Kept, SamePlace, SameAir
  <2> QED BY <1>7, <2>2, <2>3, <2>4, <2>5 DEF Paints, Keeps, Good, Fit, SameAir
<1> QED BY <1>1, <1>5, <1>6, <1>7

LEMMA ClientLeftPaints ==
  ASSUME NEW x, NEW g, NEW w, Good(x), w \in {"ap-client-left", "ap-client-idle"}
  PROVE  /\ Paints(x, ClientLeft(x, g, w))
         /\ ~dev.busy => Keeps(x, ClientLeft(x, g, w))
         /\ ~x.up \/ ~x.seen \/ g # x.gen => ClientLeft(x, g, w) = x
<1> DEFINE u == Unlatched(x)
           p == Notify(u, "ap", w)
<1>0. Is(x) /\ Fit(x) /\ Kept(x)
  BY DEF Good, Fit, Shapely
<1>1. \/ ClientLeft(x, g, w) = x
      \/ (ClientLeft(x, g, w) = p /\ x.up /\ x.st = "ap" /\ g = x.gen /\ x.seen)
  BY DEF ClientLeft
<1>2. /\ Is(u) /\ u.seen = FALSE /\ u.attach = FALSE /\ u.gen = x.gen
      /\ SameAir(x, u) /\ SamePlace(x, u) /\ SameScreen(x, u) /\ SameClock(x, u) /\ SameDebt(x, u)
  BY <1>0, UnlatchedIs
<1> HIDE DEF u
<1>3. /\ Is(p) /\ Shows(p, "ap", w) /\ p.latch = u.latch
      /\ SamePhone(u, p) /\ SameAir(u, p) /\ SamePlace(u, p) /\ SameClock(u, p) /\ SameDebt(u, p)
  BY <1>2, NotifyIs
<1> HIDE DEF p
<1>4. CASE ClientLeft(x, g, w) = x
  BY <1>4, PaintsSelf
<1>5. CASE ClientLeft(x, g, w) = p /\ x.up /\ x.st = "ap" /\ g = x.gen /\ x.seen
  <2>1. x.radio /\ x.latch \in {"", "release"}
    BY <1>5, UpIsQuiet
  <2>2. SamePlace(x, p) /\ SameAir(x, p) /\ SameClock(x, p) /\ SameDebt(x, p) /\ p.gen = x.gen /\ ~p.seen
        /\ ~p.attach /\ p.latch = x.latch
    BY <1>2, <1>3 DEF SamePlace, SameAir, SamePhone, SameClock, SameDebt, SameScreen
  <2>3. Reason(p) = w /\ Titled(p)
    BY <1>3, <1>5, <2>2, ShowsIs DEF SamePlace
  <2>4. Shapely(p) /\ Held(p) /\ Patient(p)
    BY <1>0, <1>3, <2>2 DEF Fit, Shapely, Held, Patient, SamePlace, SameAir, SameClock
  <2>5. Kept(p)
    BY <1>5, <2>1, <2>2, <2>3 DEF Kept, SamePlace, SameAir
  <2>6. Paints(x, p)
    BY <2>2, <2>3, <2>4, <2>5 DEF Paints, Good, Fit
  <2>7. ~dev.busy => Keeps(x, p)
    BY <2>2 DEF Keeps, SameAir
  <2> QED BY <1>5, <2>6, <2>7
<1>6. ~x.up \/ ~x.seen \/ g # x.gen => ClientLeft(x, g, w) = x
  BY DEF ClientLeft
<1> QED BY <1>1, <1>4, <1>5, <1>6

LEMMA PaintsTrans ==
  ASSUME NEW x, NEW y, NEW z, Paints(x, y), Paints(y, z)
  PROVE  Paints(x, z)
BY DEF Paints, SamePlace, SameAir, SameClock, SameDebt

LEMMA RearmedPaints ==
  ASSUME NEW x, Good(x)
  PROVE  LET y == Rearmed(RetryPendingAttach(x)) IN Paints(x, y) /\ Keeps(x, y)
<1> DEFINE r == RetryPendingAttach(x)
           y == Rearmed(r)
<1>1. Paints(x, r) /\ Keeps(x, r)
  <2>1. x.attach => x.seen
    BY DEF Good, Fit, Held
  <2>2. CASE x.attach
    <3>1. Paints(x, Attached(x, x.gen)) /\ Keeps(x, Attached(x, x.gen))
      BY <2>1, <2>2, AttachedPaints
    <3> QED BY <3>1, PaintsSelf DEF RetryPendingAttach
  <2>3. CASE ~x.attach
    BY <2>3, PaintsSelf DEF RetryPendingAttach
  <2> QED BY <2>2, <2>3
<1> HIDE DEF r
<1>2. Good(r)
  BY <1>1 DEF Paints
<1>3. Paints(r, y) /\ Keeps(r, y)
  <2>1. "ap-client-idle" \in {"ap-client-left", "ap-client-idle"}
    OBVIOUS
  <2>2. Paints(r, ClientLeft(r, r.gen, "ap-client-idle"))
        /\ (~dev.busy => Keeps(r, ClientLeft(r, r.gen, "ap-client-idle")))
    BY <1>2, <2>1, ClientLeftPaints
  <2> QED BY <1>2, <2>2, PaintsSelf DEF Rearmed
<1> HIDE DEF y
<1>4. Keeps(x, y)
  BY <1>1, <1>3 DEF Keeps
<1> QED BY <1>1, <1>3, <1>4, PaintsTrans DEF y, r

LEMMA TickedLands ==
  ASSUME NEW x, NEW g, NEW found, Good(x)
  PROVE  Reaches(x, Ticked(x, g, found)) /\ Calm(x, Ticked(x, g, found))
<1>1. Fair(x) /\ Mild(x, x)
  BY FairIs DEF Good, Fair
<1>2. CASE x.st = "retry"
  BY <1>1, <1>2, RetryTickLands DEF Ticked
<1>3. CASE x.st = "unprovisioned"
  BY <1>1, <1>3, UnprovisionedTickLands DEF Ticked
<1>4. CASE x.st = "ap"
  <2>1. Ticked(x, g, found) = APTick(x, found)
    BY <1>4 DEF Ticked
  <2> QED BY <1>1, <1>4, <2>1, APTickLands DEF Calm
<1>5. CASE x.st \notin {"retry", "unprovisioned", "ap"}
  <2>1. Ticked(x, g, found) = Reconcile(x)
    BY <1>5 DEF Ticked
  <2> QED BY <1>1, <2>1, StaysCalm
<1> QED BY <1>2, <1>3, <1>4, <1>5

(* Autoconnect that is off is owed back.                                   *)
Debt(x) == ~x.auto => x.restore

LEMMA RestorePays ==
  ASSUME NEW x, NEW call, Is(x)
  PROVE  LET y == Restore(x, call) IN
         /\ Is(y) /\ SamePlace(x, y) /\ SameAir(x, y) /\ SamePhone(x, y) /\ SameScreen(x, y) /\ SameClock(x, y)
         /\ Debt(y)
<1> DEFINE y == Restore(x, call)
<1>1. /\ Is(y) /\ SamePlace(x, y) /\ SameAir(x, y) /\ SamePhone(x, y) /\ SameScreen(x, y) /\ SameClock(x, y)
  BY DEF Is, Restore, SamePlace, SameAir, SamePhone, SameScreen, SameClock
<1>2. Debt(y)
  <2>1. CASE call = "done"
    BY <2>1 DEF Is, Restore, Debt
  <2>2. CASE call # "done"
    BY <2>2 DEF Is, Restore, Debt
  <2> QED BY <2>1, <2>2
<1> QED BY <1>1, <1>2 DEF y

LEMMA RestoredGood ==
  ASSUME NEW x, NEW call, Good(x), Debt(x)
  PROVE  LET y == Restored(x, call) IN Good(y) /\ Debt(y) /\ SamePlace(x, y) /\ Keeps(x, y) /\ y.gen = x.gen
<1> DEFINE r == Restore(x, call)
<1>1. /\ Is(r) /\ SamePlace(x, r) /\ SameAir(x, r) /\ SamePhone(x, r) /\ SameScreen(x, r) /\ SameClock(x, r)
      /\ Debt(r)
  BY RestorePays DEF Good, Fit, Shapely
<1>2. Restored(x, call) = x \/ Restored(x, call) = r
  BY DEF Restored
<1> HIDE DEF r
<1>3. Good(r)
  BY <1>1, SameScreenIs DEF Good, Fit, Shapely, Held, Patient, Kept, StaleLatch,
       SamePlace, SameAir, SamePhone, SameScreen, SameClock
<1>4. Keeps(x, r) /\ r.gen = x.gen
  BY <1>1 DEF Keeps, SameAir, SamePhone
<1> QED BY <1>1, <1>2, <1>3, <1>4 DEF SamePlace, Keeps

(* A tick raises at most twice: another raise has another generation.      *)
Far(x, y) == Keeps(x, y) \/ y.gen # x.gen

LEMMA ShiftsTwice ==
  ASSUME NEW x, NEW y, NEW z, x.gen \in 0..2, Shifts(x, y), Shifts(y, z)
  PROVE  Far(x, z)
<1>1. CASE Keeps(x, y) /\ Keeps(y, z)
  BY <1>1 DEF Keeps, Far
<1>2. CASE y.gen = NextGen(x.gen) \/ z.gen = NextGen(y.gen)
  <2>1. y.gen \in {x.gen, NextGen(x.gen)} /\ z.gen \in {y.gen, NextGen(y.gen)}
    BY DEF Shifts, Keeps
  <2> QED BY <1>2, <2>1 DEF Far, NextGen
<1> QED BY <1>1, <1>2 DEF Shifts

LEMMA OnTickGood ==
  ASSUME NEW x, NEW g, NEW on, NEW found, Good(x), Debt(x), x.st # "starting"
  PROVE  LET y == OnTick(x, g, on, found) IN Good(y) /\ Debt(y) /\ Far(x, y) /\ Calm(x, y)
<1> DEFINE a == Restored(x, on)
           b == Reassessed(a)
           c == Rearmed(RetryPendingAttach(b))
           y == Ticked(c, g, found)
<1>0. OnTick(x, g, on, found) = y
  BY DEF OnTick
<1>1. Good(a) /\ Debt(a) /\ SamePlace(x, a) /\ Keeps(x, a) /\ a.gen = x.gen
  BY RestoredGood
<1> HIDE DEF a
<1>2. Reaches(a, b) /\ Homed(a, b)
  <2>1. Reaches(a, a) /\ Homed(a, a)
    BY <1>1, PaintsSelf DEF Reaches, Shifts, SameDebt, Homed
  <2>2. Reaches(a, Assess(a)) /\ Homed(a, Assess(a))
    BY <1>1, AssessLands DEF Good, Fair
  <2> QED BY <2>1, <2>2 DEF Reassessed
<1> HIDE DEF b
<1>3. Paints(b, c) /\ Keeps(b, c)
  BY <1>2, RearmedPaints DEF Reaches
<1> HIDE DEF c
<1>4. Reaches(c, y) /\ Calm(c, y)
  BY <1>3, TickedLands DEF Paints
<1> HIDE DEF y
<1>5. Good(y) /\ SameDebt(a, y)
  BY <1>2, <1>3, <1>4 DEF Reaches, Paints, SameDebt
<1>6. Debt(y)
  BY <1>1, <1>5 DEF Debt, SameDebt
<1>7. c.st = "ap" => x.st = "ap"
  BY <1>1, <1>2, <1>3 DEF SamePlace, Homed, Paints
<1>8. Far(x, y)
  <2>1. Shifts(x, b)
    BY <1>1, <1>2 DEF Reaches, Shifts, Keeps
  <2>2. Shifts(b, y)
    BY <1>3, <1>4 DEF Reaches, Shifts, Keeps
  <2>3. x.gen \in 0..2
    BY DEF Good, Fit, Shapely
  <2> QED BY <2>1, <2>2, <2>3, ShiftsTwice
<1> QED BY <1>0, <1>4, <1>5, <1>6, <1>7, <1>8 DEF Calm

(* The events of the loop.                                                 *)

LEMMA JoiningGood ==
  ASSUME NEW x, Good(x)
  PROVE  LET y == Joining(x) IN Good(y) /\ Keeps(x, y) /\ SameDebt(x, y) /\ y.st = "joining"
<1> DEFINE n == [x EXCEPT !.st = "joining", !.status = "busy", !.phase = NoTimer]
           y == Notify(n, "joining", "")
<1>0. Is(x) /\ Fit(x) /\ Kept(x)
  BY DEF Good, Fit, Shapely
<1>1. /\ Is(n) /\ n.st = "joining" /\ n.why = x.why /\ n.policy = x.policy /\ n.sreason = x.sreason
      /\ SameAir(x, n) /\ SamePhone(x, n) /\ SameScreen(x, n) /\ SameClock(x, n) /\ SameDebt(x, n)
  BY <1>0 DEF Is, SameAir, SamePhone, SameScreen, SameClock, SameDebt
<1> HIDE DEF n
<1>2. /\ Is(y) /\ Shows(y, "joining", "") /\ y.latch = n.latch
      /\ SamePhone(n, y) /\ SameAir(n, y) /\ SamePlace(n, y) /\ SameClock(n, y) /\ SameDebt(n, y)
  BY <1>1, NotifyIs
<1> HIDE DEF y
<1>3. Titled(y) /\ Reason(y) = ""
  BY <1>1, <1>2, ShowsIs DEF SamePlace
<1>4. SameAir(x, y) /\ SamePhone(x, y) /\ SameClock(x, y) /\ SameDebt(x, y) /\ y.latch = x.latch
      /\ y.st = "joining" /\ y.policy = x.policy /\ y.sreason = x.sreason
  BY <1>1, <1>2 DEF SamePhone, SameAir, SamePlace, SameClock, SameDebt, SameScreen
<1>5. Shapely(y) /\ Held(y) /\ Patient(y)
  BY <1>0, <1>2, <1>4 DEF Fit, Shapely, Held, Patient, SameAir, SamePhone, SameClock
<1>6. Kept(y)
  BY <1>0, <1>3, <1>4 DEF Kept, QR, SameAir
<1>7. Keeps(x, y)
  BY <1>4 DEF Keeps, SameAir, SamePhone
<1> QED BY <1>3, <1>4, <1>5, <1>6, <1>7 DEF Good, Fit, Joining, y, n

LEMMA JoinStepLands ==
  ASSUME NEW x, NEW joined, Fair(x)
  PROVE  Reaches(x, JoinStep(x, joined))
<1> DEFINE f == [x EXCEPT !.status = "failed"]
           k == [x EXCEPT !.link = "wifi", !.status = "ok"]
           c == CancelEpisode(k)
<1>0. Is(x)
  BY FairIs
<1>1. JoinStep(x, joined) \in {Transition(f, "ap", "join-failed"), Assess(c)}
  BY DEF JoinStep
<1>2. Beside(x, f) /\ Beside(x, k)
  BY <1>0 DEF Is, Beside, SamePlace, SameAir, SamePhone, SameScreen, SameClock, SameDebt
<1> HIDE DEF f, k
<1>3. Mild(x, f) /\ Mild(x, c) /\ Fair(c)
  BY <1>2, BesideMild, MildOnes, MildTrans DEF Mild, Beside
<1> HIDE DEF c
<1>4. Reaches(x, Assess(c))
  BY <1>3, AssessLands, MildShifts
<1>5. "join-failed" \in Plain
  BY DEF Plain
<1>6. Reaches(x, Transition(f, "ap", "join-failed"))
  BY <1>3, <1>5, GoesTo
<1> QED BY <1>1, <1>4, <1>6

LEMMA ApplyJoinLands ==
  ASSUME NEW x, NEW joined, Good(x)
  PROVE  LET y == ApplyJoin(x, joined) IN Reaches(x, y) /\ Calm(x, y)
<1> DEFINE j == Joining(x)
           d == EnsureAPDown(j)
           y == JoinStep(d, joined)
<1>1. CASE x.st # "ap"
  BY <1>1, PaintsSelf DEF ApplyJoin, Reaches, Shifts, SameDebt, Calm
<1>2. CASE x.st = "ap"
  <2>1. Good(j) /\ Keeps(x, j) /\ SameDebt(x, j)
    BY JoiningGood
  <2>2. ApplyJoin(x, joined) = y
    BY <1>2 DEF ApplyJoin
  <2> HIDE DEF j
  <2>3. Fair(j)
    BY <2>1 DEF Good, Fair
  <2>4. Fair(d) /\ Keeps(j, d) /\ SameDebt(j, d)
    BY <2>3, ShedsOnce DEF Sheds
  <2> HIDE DEF d
  <2>5. Reaches(d, y)
    BY <2>4, JoinStepLands
  <2> HIDE DEF y
  <2>6. Reaches(x, y)
    BY <2>1, <2>4, <2>5 DEF Reaches, Shifts, Keeps, SameDebt
  <2> QED BY <1>2, <2>2, <2>6 DEF Calm
<1> QED BY <1>1, <1>2

LEMMA RescanningGood ==
  ASSUME NEW x, NEW off, Good(x), x.st = "ap"
  PROVE  LET y == Rescanning(x, off) IN Good(y) /\ Keeps(x, y) /\ y.st = "ap"
<1> DEFINE s == [x EXCEPT !.status = "idle"]
           a == ArmTimer(s)
           n == Notify(a, "ap", "scanning")
           y == Suppress(n, off)
<1>0. Is(x) /\ Fair(x)
  BY FairIs DEF Good, Fair
<1>1. /\ Is(s) /\ SamePlace(x, s) /\ SameAir(x, s) /\ SamePhone(x, s) /\ SameScreen(x, s) /\ SameClock(x, s)
  BY <1>0 DEF Is, SamePlace, SameAir, SamePhone, SameScreen, SameClock
<1> HIDE DEF s
<1>2. Fair(s) /\ s.st = "ap" /\ Keeps(x, s)
  BY <1>0, <1>1, SameScreenIs DEF Fair, Good, Fit, Shapely, Held, Patient, Kept, Blank, StaleLatch, Keeps,
       SamePlace, SameAir, SamePhone, SameScreen, SameClock
<1>3. Is(a) /\ Mild(s, a)
  BY <1>1, MildOnes
<1> HIDE DEF a
<1>4. a.st = "ap" /\ Fair(a)
  BY <1>2, <1>3 DEF Mild, SamePlace
<1>5. "scanning" \notin Loud
  BY DEF Loud, QR
<1>6. Good(n) /\ Mild(a, n) /\ Is(n)
  BY <1>3, <1>4, <1>5, NotifyMild DEF Good, Fit, Shapely
<1> HIDE DEF n
<1>7. Keeps(x, n) /\ n.st = "ap"
  BY <1>2, <1>3, <1>4, <1>6 DEF Mild, Keeps, SameAir, SamePhone, SamePlace
<1>8. /\ Is(y) /\ SamePlace(n, y) /\ SameAir(n, y) /\ SamePhone(n, y) /\ SameScreen(n, y) /\ SameClock(n, y)
  BY <1>6 DEF Is, Suppress, SamePlace, SameAir, SamePhone, SameScreen, SameClock
<1> HIDE DEF y
<1>9. Good(y)
  BY <1>6, <1>8, SameScreenIs DEF Good, Fit, Shapely, Held, Patient, Kept, StaleLatch,
       SamePlace, SameAir, SamePhone, SameScreen, SameClock
<1>10. Keeps(x, y) /\ y.st = "ap"
  BY <1>7, <1>8 DEF Keeps, SamePlace, SameAir, SamePhone
<1> QED BY <1>9, <1>10 DEF Rescanning, y, n, a, s

LEMMA ApplyRescanGood ==
  ASSUME NEW x, NEW off, NEW on, Good(x), Debt(x)
  PROVE  LET y == ApplyRescan(x, off, on) IN Good(y) /\ Debt(y) /\ Shifts(x, y) /\ Calm(x, y)
<1> DEFINE r == Rescanning(x, off)
           d == EnsureAPDown(r)
           c == Reconcile(d)
           y == Restore(c, on)
<1>1. CASE x.st # "ap"
  BY <1>1, PaintsSelf DEF ApplyRescan, Shifts, Calm
<1>2. CASE x.st = "ap"
  <2>1. Good(r) /\ Keeps(x, r) /\ r.st = "ap"
    BY <1>2, RescanningGood
  <2>2. ApplyRescan(x, off, on) = y
    BY <1>2 DEF ApplyRescan, RestoreAfter, Bounce
  <2> HIDE DEF r
  <2>3. Fair(r)
    BY <2>1 DEF Good, Fair
  <2>4. Fair(d) /\ Keeps(r, d)
    BY <2>3, ShedsOnce DEF Sheds
  <2> HIDE DEF d
  <2>5. Good(c) /\ Shifts(d, c)
    BY <2>4, ReconcileGood
  <2> HIDE DEF c
  <2>6. /\ Is(y) /\ SamePlace(c, y) /\ SameAir(c, y) /\ SamePhone(c, y) /\ SameScreen(c, y) /\ SameClock(c, y)
        /\ Debt(y)
    BY <2>5, RestorePays DEF Good, Fit, Shapely
  <2> HIDE DEF y
  <2>7. Good(y)
    BY <2>5, <2>6, SameScreenIs DEF Good, Fit, Shapely, Held, Patient, Kept, StaleLatch,
       SamePlace, SameAir, SamePhone, SameScreen, SameClock
  <2>8. Shifts(x, y)
    BY <2>1, <2>4, <2>5, <2>6 DEF Shifts, Keeps, SameAir, SamePhone
  <2> QED BY <1>2, <2>2, <2>6, <2>7, <2>8 DEF Calm
<1> QED BY <1>1, <1>2

LEMMA ApplyUserSetupLands ==
  ASSUME NEW x, Good(x)
  PROVE  LET y == ApplyUserSetup(x) IN Reaches(x, y) /\ Calm(x, y)
<1> DEFINE c == ResetJoinStatus(ClearOffline(x))
           t == Transition(c, "ap", "user-requested")
           y == ArmTimer(t)
<1>1. ApplyUserSetup(x) = x \/ ApplyUserSetup(x) = y
  BY DEF ApplyUserSetup
<1>2. Fair(x)
  BY DEF Good, Fair
<1>3. Mild(x, c)
  BY <1>2, OffToSetup
<1> HIDE DEF c
<1>4. "user-requested" \in Plain
  BY DEF Plain
<1>5. Reaches(x, t) /\ Good(t) /\ t.why = "user-requested"
  BY <1>2, <1>3, <1>4, GoesTo
<1> HIDE DEF t
<1>6. Mild(t, y)
  BY <1>5, FairIs, MildOnes DEF Good, Fair
<1> HIDE DEF y
<1>7. Reaches(x, y) /\ y.why = "user-requested"
  BY <1>5, <1>6 DEF Mild, Reaches, Shifts, Keeps, SameAir, SamePhone, SameDebt, SamePlace
<1>8. Reaches(x, x) /\ Calm(x, x)
  BY PaintsSelf DEF Reaches, Shifts, SameDebt, Calm
<1>9. Reaches(x, y) /\ Calm(x, y)
  BY <1>7 DEF Calm
<1> QED BY <1>1, <1>8, <1>9 DEF y, t, c

(* A machine that starts: nothing is on the screen but that it starts.     *)
Fresh(x) ==
  /\ Shapely(x) /\ Patient(x) /\ Titled(x)
  /\ x.st = "starting" /\ ~x.up /\ ~x.pend /\ ~x.seen /\ ~x.attach /\ Reason(x) = "" /\ x.latch = ""

(* What a start finds: the machine as it was, or with its phone forgotten. *)
Finds(x, u) ==
  /\ Is(u) /\ SameAir(x, u) /\ SamePlace(x, u) /\ SameScreen(x, u) /\ SameClock(x, u) /\ SameDebt(x, u)
  /\ u.gen = x.gen /\ (u.attach => u.seen)

LEMMA SweptFair ==
  ASSUME NEW x, NEW u, Finds(x, u), Fresh(x) \/ Good(x), x.st = "starting" \/ "panic" \in People
  PROVE  LET y == TornDown(u) IN Fair(y) /\ SamePlace(x, y) /\ SameDebt(x, y) /\ y.gen = x.gen /\ ~y.up
<1> DEFINE y == TornDown(u)
<1>1. /\ Is(y) /\ y.up = FALSE /\ y.pend = ~Ok("down") /\ y.radio = (u.radio /\ ~Ok("down"))
      /\ SamePhone(u, y) /\ SamePlace(u, y) /\ SameScreen(u, y) /\ SameClock(u, y) /\ SameDebt(u, y)
  BY TornDownIs DEF Finds
<1> HIDE DEF y
<1>2. Ok("down") \in BOOLEAN
  BY DEF Ok
<1>3. /\ SamePlace(x, y) /\ SameScreen(x, y) /\ SameClock(x, y) /\ SameDebt(x, y) /\ y.gen = x.gen
      /\ y.radio = (x.radio /\ ~Ok("down")) /\ (y.attach => y.seen)
  BY <1>1 DEF Finds, SameAir, SamePhone, SamePlace, SameScreen, SameClock, SameDebt
<1>4. y.st = x.st /\ y.latch = x.latch /\ Reason(y) = Reason(x) /\ (Titled(x) => Titled(y))
  BY <1>3, SameScreenIs DEF SamePlace, SameScreen
<1>5. Shapely(x) /\ Patient(x) /\ Titled(x)
  BY DEF Fresh, Good, Fit
<1>6. Shapely(y) /\ Held(y) /\ Patient(y) /\ Titled(y)
  BY <1>1, <1>2, <1>3, <1>4, <1>5 DEF Shapely, Held, Patient, SamePlace, SameClock
<1>7. Kept(y) \/ Blank(y)
  <2>1. CASE Fresh(x)
    BY <1>4, <2>1 DEF Fresh, Kept, QR
  <2>2. CASE Good(x) /\ x.st = "starting"
    BY <1>1, <1>4, <2>2 DEF Good, Kept, QR
  <2>3. CASE Good(x) /\ "panic" \in People /\ ~Ok("down")
    BY <1>1, <1>3, <1>4, <2>3 DEF Good, Kept, StaleLatch
  <2>4. CASE Good(x) /\ "panic" \in People /\ Ok("down") /\ x.latch = "release"
    BY <1>1, <1>4, <2>4 DEF Good, Kept, StaleLatch
  <2>5. CASE Good(x) /\ Ok("down") /\ x.latch # "release"
    BY <1>1, <1>4, <2>5 DEF Good, Kept, Blank, QR
  <2> QED BY <2>1, <2>2, <2>3, <2>4, <2>5
<1> QED BY <1>1, <1>3, <1>6, <1>7 DEF Fair, Fit, y

LEMMA LoopStartGood ==
  ASSUME NEW x, NEW u, Finds(x, u), Fresh(x) \/ Good(x), Debt(x), x.st = "starting" \/ "panic" \in People
  PROVE  LET y == LoopStart(u) IN Good(y) /\ Debt(y) /\ (y.gen = x.gen => ~y.up) /\ Calm(x, y)
<1> DEFINE t == TornDown(u)
           y == Assess(t)
<1>1. Fair(t) /\ SamePlace(x, t) /\ SameDebt(x, t) /\ t.gen = x.gen /\ ~t.up
  BY SweptFair
<1> HIDE DEF t
<1>2. Reaches(t, y) /\ Homed(t, y)
  BY <1>1, AssessLands
<1> HIDE DEF y
<1>3. Debt(y)
  BY <1>1, <1>2 DEF Reaches, Debt, SameDebt
<1>4. NextGen(t.gen) # t.gen
  BY <1>1 DEF Fair, Fit, Shapely, NextGen
<1>5. y.gen = x.gen => ~y.up
  BY <1>1, <1>2, <1>4 DEF Reaches, Shifts, Keeps
<1>6. Calm(x, y)
  BY <1>1, <1>2 DEF Homed, Calm, SamePlace
<1> QED BY <1>2, <1>3, <1>5, <1>6 DEF LoopStart, y, t, Reaches

(* What waits in the channel: the phone it tells of, if the raise it was   *)
(* queued under is still up, was seen and talks to the portal; and no news *)
(* that the phone left waits before it.                                    *)
Message == {"conn", "join", "rescan", "setup", "claim", "attached", "left"} \X (BOOLEAN \cup 0..9)
AttachedAt(e, g) == e[1] = "attached" /\ e[2] = g
Gone(e, g) == e[1] = "left" /\ e[2] = g
Queued(x, q, busy) ==
  /\ q \in Seq(Message)
  /\ \A i \in DOMAIN q : AttachedAt(q[i], x.gen) /\ x.up => x.seen /\ busy
  /\ \A i, j \in DOMAIN q : i < j /\ Gone(q[i], x.gen) /\ x.up => ~AttachedAt(q[j], x.gen)

LEMMA AgingIs ==
  ASSUME NEW x, NEW q \in Seq(Message), x.gen \in 0..2
  PROVE  LET a == Aging(x, q) IN
         /\ a \in Seq(Message) /\ DOMAIN a = DOMAIN q
         /\ x.gen = m.gen => \A i \in DOMAIN q : a[i] = q[i]
         /\ x.gen # m.gen => \A i \in DOMAIN q : ~AttachedAt(a[i], x.gen) /\ ~Gone(a[i], x.gen)
<1> DEFINE a == Aging(x, q)
<1>1. \A i \in DOMAIN q : q[i] \in Message
  OBVIOUS
<1>2. \A e \in Message : <<e[1], Past>> \in Message
  BY DEF Message, Past
<1>3. DOMAIN a = DOMAIN q /\ \A i \in DOMAIN q : a[i] \in Message
  BY <1>1, <1>2 DEF Aging
<1>4. a \in Seq(Message)
  <2>1. a = [i \in 1..Len(q) |-> a[i]]
    BY DEF Aging
  <2>2. Len(q) \in Nat /\ DOMAIN q = 1..Len(q)
    OBVIOUS
  <2> HIDE DEF a
  <2>3. a \in [1..Len(q) -> Message]
    BY <1>3, <2>1, <2>2
  <2> QED BY <2>2, <2>3
<1>5. x.gen = m.gen => \A i \in DOMAIN q : a[i] = q[i]
  BY DEF Aging
<1>6. x.gen # m.gen => \A i \in DOMAIN q : ~AttachedAt(a[i], x.gen) /\ ~Gone(a[i], x.gen)
  BY DEF Aging, AttachedAt, Gone, Past
<1> QED BY <1>3, <1>4, <1>5, <1>6

LEMMA AgingQueued ==
  ASSUME NEW x, NEW q, Queued(m, q, dev.busy), x.gen \in 0..2, Far(m, x)
  PROVE  Queued(x, Aging(x, q), dev.busy)
<1> DEFINE a == Aging(x, q)
<1>1. /\ a \in Seq(Message) /\ DOMAIN a = DOMAIN q
      /\ x.gen = m.gen => \A i \in DOMAIN q : a[i] = q[i]
      /\ x.gen # m.gen => \A i \in DOMAIN q : ~AttachedAt(a[i], x.gen) /\ ~Gone(a[i], x.gen)
  BY AgingIs DEF Queued
<1> HIDE DEF a
<1>2. CASE x.gen # m.gen
  BY <1>1, <1>2 DEF Queued, a
<1>3. CASE x.gen = m.gen
  <2>1. x.up => m.up /\ (m.seen /\ dev.busy => x.seen)
    BY <1>3 DEF Far, Keeps
  <2> QED BY <1>1, <1>3, <2>1 DEF Queued, a
<1> QED BY <1>2, <1>3

LEMMA AppendQueued ==
  ASSUME NEW x, NEW q, NEW b, NEW e \in Message, Queued(x, q, b), e[1] # "attached"
  PROVE  Queued(x, Append(q, e), b)
<1> DEFINE a == Append(q, e)
<1>1. /\ a \in Seq(Message) /\ Len(q) \in Nat /\ DOMAIN q = 1..Len(q) /\ DOMAIN a = 1..(Len(q) + 1)
      /\ a[Len(q) + 1] = e /\ \A i \in 1..Len(q) : a[i] = q[i]
  BY DEF Queued
<1>2. ~AttachedAt(e, x.gen)
  BY DEF AttachedAt
<1> HIDE DEF a
<1>3. \A i \in DOMAIN a : i \in DOMAIN q \/ i = Len(q) + 1
  BY <1>1
<1>4. \A i \in DOMAIN a : AttachedAt(a[i], x.gen) => i \in DOMAIN q /\ a[i] = q[i]
  BY <1>1, <1>2, <1>3
<1>5. \A i, j \in DOMAIN a : i < j /\ AttachedAt(a[j], x.gen) => i \in DOMAIN q /\ a[i] = q[i]
  BY <1>1, <1>4
<1> QED BY <1>1, <1>4, <1>5 DEF Queued, a

LEMMA TellingQueued ==
  ASSUME NEW x, NEW q, NEW d, NEW b, Queued(x, Aging(x, q), b)
  PROVE  Queued(x, Telling(d, x, q), b)
<1> DEFINE on == d.inet /\ (x.link = "wifi" \/ d.wired)
           e == <<"conn", on>>
<1>1. e \in Message /\ e[1] # "attached"
  BY DEF Message
<1>2. Telling(d, x, q) \in {Append(Aging(x, q), e), Aging(x, q)}
  BY DEF Telling
<1> HIDE DEF e
<1> QED BY <1>1, <1>2, AppendQueued

LEMMA ToldQueued ==
  ASSUME NEW x, NEW q, NEW d, Queued(m, q, dev.busy), x.gen \in 0..2, Far(m, x)
  PROVE  Queued(x, Telling(d, x, q), dev.busy)
BY AgingQueued, TellingQueued

LEMMA TailQueued ==
  ASSUME NEW x, NEW q, NEW b, Queued(x, q, b), q # << >>
  PROVE  /\ Queued(x, Tail(q), b) /\ Head(q) \in Message
         /\ AttachedAt(Head(q), x.gen) /\ x.up => x.seen /\ b
         /\ Gone(Head(q), x.gen) /\ x.up => \A i \in DOMAIN Tail(q) : ~AttachedAt(Tail(q)[i], x.gen)
<1> DEFINE t == Tail(q)
<1>1. /\ t \in Seq(Message) /\ Len(q) \in Nat /\ Len(q) >= 1 /\ DOMAIN q = 1..Len(q) /\ DOMAIN t = 1..(Len(q) - 1)
      /\ \A i \in 1..(Len(q) - 1) : t[i] = q[i + 1]
  BY DEF Queued
<1>2. Head(q) = q[1] /\ Head(q) \in Message
  BY DEF Queued
<1> HIDE DEF t
<1>3. \A i \in DOMAIN t : i + 1 \in DOMAIN q /\ t[i] = q[i + 1] /\ 1 < i + 1 /\ 1 \in DOMAIN q /\ i \in Nat
  BY <1>1
<1>4. \A i, j \in DOMAIN t : i < j => i + 1 < j + 1
  BY <1>1
<1>5. Queued(x, t, b)
  BY <1>1, <1>3, <1>4 DEF Queued
<1>6. AttachedAt(Head(q), x.gen) /\ x.up => x.seen /\ b
  BY <1>1, <1>2 DEF Queued
<1>7. Gone(Head(q), x.gen) /\ x.up => \A i \in DOMAIN t : ~AttachedAt(t[i], x.gen)
  BY <1>2, <1>3 DEF Queued
<1> QED BY <1>2, <1>5, <1>6, <1>7 DEF t

LEMMA EventGood ==
  ASSUME NEW q, NEW joined, NEW off, NEW on, Good(m), Debt(m), Queued(m, q, dev.busy), q # << >>, m.st # "starting"
  PROVE  LET y == Handle(Head(q), joined, off, on) IN
         Good(y) /\ Debt(y) /\ Calm(m, y) /\ Queued(y, Aging(y, Tail(q)), dev.busy)
<1> DEFINE e == Head(q)
           y == Handle(e, joined, off, on)
           t == Tail(q)
<1>1. /\ Queued(m, t, dev.busy) /\ e \in Message
      /\ AttachedAt(e, m.gen) /\ m.up => m.seen /\ dev.busy
      /\ Gone(e, m.gen) /\ m.up => \A i \in DOMAIN t : ~AttachedAt(t[i], m.gen)
  BY TailQueued
<1> HIDE DEF e, t
<1>2. e[1] \in {"conn", "join", "rescan", "setup", "claim", "attached", "left"}
  BY <1>1 DEF Message
<1>3. Fair(m) /\ m.gen \in 0..2
  BY DEF Good, Fair, Fit, Shapely
<1>4. ASSUME NEW z, Reaches(m, z), Calm(m, z)
      PROVE  Good(z) /\ Debt(z) /\ Calm(m, z) /\ Shifts(m, z)
  BY <1>4 DEF Reaches, Debt, SameDebt
<1>5. ASSUME NEW z, Good(z), Debt(z), Calm(m, z), Shifts(m, z)
      PROVE  Good(z) /\ Debt(z) /\ Calm(m, z) /\ Queued(z, Aging(z, t), dev.busy)
  <2>1. z.gen \in 0..2 /\ Far(m, z)
    BY <1>3, <1>5 DEF Good, Fit, Shapely, Far, Shifts, NextGen
  <2> QED BY <1>1, <1>5, <2>1, AgingQueued
<1>6. ASSUME Reaches(m, y), Calm(m, y)
      PROVE  Good(y) /\ Debt(y) /\ Calm(m, y) /\ Queued(y, Aging(y, t), dev.busy)
  BY <1>4, <1>5, <1>6
<1>7. CASE e[1] = "conn"
  <2>1. y = OnConnectivity(m, e[2], FALSE)
    BY <1>7 DEF Handle
  <2>2. Reaches(m, y) /\ Homed(m, y)
    BY <1>3, <2>1, OnConnectivityLands
  <2>3. Calm(m, y)
    BY <2>2 DEF Calm, Homed
  <2> QED BY <1>6, <2>2, <2>3 DEF e, t
<1>8. CASE e[1] = "join"
  <2>1. y = ApplyJoin(m, joined)
    BY <1>8 DEF Handle
  <2>2. Reaches(m, y) /\ Calm(m, y)
    BY <2>1, ApplyJoinLands
  <2> QED BY <1>6, <2>2 DEF e, t
<1>9. CASE e[1] = "rescan"
  <2>1. y = ApplyRescan(m, off, on)
    BY <1>9 DEF Handle
  <2>2. Good(y) /\ Debt(y) /\ Shifts(m, y) /\ Calm(m, y)
    BY <2>1, ApplyRescanGood
  <2> QED BY <1>5, <2>2 DEF e, t
<1>10. CASE e[1] = "setup"
  <2>1. y = ApplyUserSetup(m)
    BY <1>10 DEF Handle
  <2>2. Reaches(m, y) /\ Calm(m, y)
    BY <2>1, ApplyUserSetupLands
  <2> QED BY <1>6, <2>2 DEF e, t
<1>11. CASE e[1] = "claim"
  <2>1. y = m \/ y = CancelEpisode(m)
    BY <1>11 DEF Handle
  <2>2. Mild(m, y)
    BY <1>3, <2>1, FairIs, MildOnes
  <2> HIDE DEF y
  <2>3. Reaches(m, y) /\ Calm(m, y)
    BY <2>2 DEF Mild, Reaches, Shifts, Keeps, SameAir, SamePhone, SamePlace, Calm
  <2> QED BY <1>6, <2>3 DEF e, t, y
<1>12. CASE e[1] = "attached"
  <2>1. y = Attached(m, e[2])
    BY <1>12 DEF Handle
  <2>2. m.up /\ e[2] = m.gen => m.seen
    BY <1>1, <1>12 DEF AttachedAt
  <2>3. Paints(m, y) /\ Keeps(m, y)
    BY <2>1, <2>2, AttachedPaints
  <2> HIDE DEF y
  <2>4. Reaches(m, y) /\ Calm(m, y)
    BY <2>3 DEF Paints, Reaches, Shifts, SamePlace, Calm
  <2> QED BY <1>6, <2>4 DEF e, t, y
<1>13. CASE e[1] = "left"
  <2>1. y = ClientLeft(m, e[2], "ap-client-left")
    BY <1>13 DEF Handle
  <2>2. "ap-client-left" \in {"ap-client-left", "ap-client-idle"}
    OBVIOUS
  <2>3. /\ Paints(m, y)
        /\ ~m.up \/ ~m.seen \/ e[2] # m.gen => y = m
    BY <2>1, <2>2, ClientLeftPaints
  <2> HIDE DEF y
  <2>4. CASE y = m
    <3>1. Reaches(m, y) /\ Calm(m, y)
      BY <2>4, PaintsSelf DEF Reaches, Shifts, SameDebt, Calm
    <3> QED BY <1>6, <3>1 DEF e, t, y
  <2>5. CASE m.up /\ e[2] = m.gen
    <3>1. \A i \in DOMAIN t : ~AttachedAt(t[i], m.gen)
      BY <1>1, <1>13, <2>5 DEF Gone
    <3> DEFINE a == Aging(y, t)
    <3>2. y.gen = m.gen /\ t \in Seq(Message)
      BY <1>1, <2>3 DEF Paints, Queued
    <3>3. a \in Seq(Message) /\ DOMAIN a = DOMAIN t /\ \A i \in DOMAIN t : a[i] = t[i]
      BY <1>3, <3>2, AgingIs
    <3> HIDE DEF a
    <3>4. Queued(y, a, dev.busy)
      BY <3>1, <3>2, <3>3 DEF Queued
    <3>5. Good(y) /\ Debt(y) /\ Calm(m, y)
      BY <2>3 DEF Paints, Debt, SameDebt, SamePlace, Calm
    <3> QED BY <3>4, <3>5 DEF a, e, t, y
  <2> QED BY <2>3, <2>4, <2>5
<1> QED BY <1>2, <1>7, <1>8, <1>9, <1>10, <1>11, <1>12, <1>13

(* The machine starts or is good, what is off is owed back, and the queue  *)
(* tells only of the raise it was told under.                              *)
SetupInv ==
  /\ Fresh(m) \/ Good(m)
  /\ Debt(m)
  /\ Queued(m, events, dev.busy)
  /\ "busy" \in DOMAIN dev
(* Every action keeps it, and raises for a lost network patiently.         *)
Keeping == SetupInv' /\ RaisePatiently

LEMMA MachineCounts == Machine.absent = 0 /\ Machine.quiet = 0 /\ Machine.gen = 0
BY DEF Machine
LEMMA MachineIs ==
  /\ Is(Machine) /\ Shows(Machine, "starting", "")
  /\ Machine.up = FALSE /\ Machine.pend = FALSE /\ Machine.seen = FALSE /\ Machine.attach = FALSE
  /\ Machine.radio = FALSE /\ Machine.restore = TRUE
  /\ Machine.st = "starting" /\ Machine.latch = "" /\ Machine.policy = "unbounded" /\ Machine.sreason = ""
<1>1. Is(Machine)
  BY DEF Machine, Is
<1>2. Shows(Machine, "starting", "")
  BY DEF Machine, Shows
<1>3. /\ Machine.up = FALSE /\ Machine.pend = FALSE /\ Machine.seen = FALSE /\ Machine.attach = FALSE
      /\ Machine.radio = FALSE /\ Machine.restore = TRUE
  BY DEF Machine
<1>4. Machine.st = "starting" /\ Machine.latch = "" /\ Machine.policy = "unbounded" /\ Machine.sreason = ""
  BY DEF Machine
<1> QED BY <1>1, <1>2, <1>3, <1>4

LEMMA MachineFresh ==
  ASSUME NEW a, NEW r \in BOOLEAN, NEW l
  PROVE  LET x == [Machine EXCEPT !.auto = a, !.radio = r, !.link = l] IN
         /\ Fresh(x) /\ Debt(x)
         /\ Fresh(Machine) /\ Debt(Machine)
<1> DEFINE x == [Machine EXCEPT !.auto = a, !.radio = r, !.link = l]
<1>0. Is(Machine)
  BY MachineIs
<1>1. /\ Is(x) /\ x.radio = r /\ x.restore = Machine.restore
      /\ x.up = Machine.up /\ x.pend = Machine.pend /\ SamePhone(Machine, x)
      /\ SamePlace(Machine, x) /\ SameScreen(Machine, x) /\ SameClock(Machine, x)
  BY <1>0 DEF Is, SamePhone, SamePlace, SameScreen, SameClock
<1> HIDE DEF x
<1>2. Titled(Machine) /\ Reason(Machine) = ""
  BY MachineIs, ShowsIs
<1>3. Patient(Machine)
  BY MachineCounts DEF Patient
<1>4. Machine.sreason \notin Loud /\ Machine.policy \in Policies
  <2>1. "" \notin Loud /\ "unbounded" \in Policies
    BY DEF Loud, QR, Policies
  <2> QED BY <2>1, MachineIs
<1>5. Shapely(Machine)
  <2>1. Machine.gen \in 0..2
    BY MachineCounts
  <2> QED BY <1>4, <2>1, MachineIs DEF Shapely
<1>6. Fresh(Machine) /\ Debt(Machine)
  BY <1>2, <1>3, <1>5, MachineIs DEF Fresh, Debt
<1>7. Titled(x) /\ Reason(x) = Reason(Machine)
  BY <1>1, <1>2, SameScreenIs DEF SameScreen, SamePlace
<1>8. Shapely(x) /\ Patient(x)
  BY <1>1, <1>3, <1>5 DEF Shapely, Patient, SamePhone, SamePlace, SameClock
<1>9. Fresh(x)
  BY <1>1, <1>6, <1>7, <1>8 DEF Fresh, SamePhone, SamePlace, SameScreen
<1>10. Debt(x)
  BY <1>1, MachineIs DEF Debt
<1> QED BY <1>6, <1>9, <1>10 DEF x

LEMMA SetupStarts == ASSUME SetupInit PROVE SetupInv
<1>1. m = Machine /\ events = << >> /\ "busy" \in DOMAIN dev
  BY DEF SetupInit
<1>2. Fresh(m) /\ Debt(m)
  BY <1>1, MachineFresh
<1>3. Queued(m, events, dev.busy)
  BY <1>1 DEF Queued
<1> QED BY <1>1, <1>2, <1>3 DEF SetupInv

LEMMA Facts ==
  ASSUME SetupInv
  PROVE  Is(m) /\ m.gen \in 0..2 /\ m.up \in BOOLEAN /\ m.radio \in BOOLEAN /\ (m.st # "starting" => Good(m)) /\ (m.up => Good(m))
BY DEF SetupInv, Fresh, Good, Fit, Shapely

LEMMA SameCalm == ASSUME m' = m PROVE RaisePatiently
BY DEF RaisePatiently

LEMMA CalmPatient == ASSUME m.st # "starting" \/ m'.st # "ap" \/ m'.why # "sustained-offline" \/ m'.quiet >= Window, Calm(m, m') PROVE RaisePatiently
BY DEF RaisePatiently, Calm

LEMMA FreshBeside ==
  ASSUME NEW x, NEW y, Beside(x, y), Fresh(x) \/ Good(x), Debt(x)
  PROVE  (Fresh(y) \/ Good(y)) /\ Debt(y) /\ Keeps(x, y) /\ y.gen = x.gen
<1>1. Good(x) => Good(y)
  BY BesideMild DEF Mild
<1>2. Fresh(x) => Fresh(y)
  BY SameScreenIs DEF Fresh, Beside, Shapely, Patient, SamePlace, SameAir, SamePhone, SameScreen, SameClock
<1>3. Debt(y) /\ Keeps(x, y) /\ y.gen = x.gen
  BY DEF Beside, Debt, SameDebt, Keeps, SameAir, SamePhone
<1> QED BY <1>1, <1>2, <1>3

LEMMA BeginKeeps == ASSUME SetupInv, Begin PROVE Keeping
<1>1. m.st = "starting" /\ m' = LoopStart(m) /\ events' = Telling(dev, m', events) /\ dev' = dev
  BY DEF Begin
<1>2. Good(m') /\ Debt(m') /\ (m'.gen = m.gen => ~m'.up) /\ Calm(m, m')
  <2>1. Is(m) /\ (m.attach => m.seen)
    BY Facts DEF SetupInv, Fresh, Good, Fit, Held
  <2>2. Finds(m, m)
    BY <2>1 DEF Finds, SameAir, SamePlace, SameScreen, SameClock, SameDebt
  <2> QED BY <1>1, <2>2, LoopStartGood DEF SetupInv
<1>3. Queued(m', events', dev.busy)
  <2>1. Far(m, m') /\ m'.gen \in 0..2
    BY <1>2 DEF Far, Keeps, Good, Fit, Shapely
  <2> QED BY <1>1, <2>1, ToldQueued DEF SetupInv
<1> QED BY <1>1, <1>2, <1>3 DEF Keeping, SetupInv, RaisePatiently, Calm

LEMMA EventKeeps == ASSUME SetupInv, Event PROVE Keeping
<1>0. PICK joined \in {FALSE, dev.near}, off \in Flips, on \in Flips : m' = Handle(Head(events), joined, off, on)
  BY DEF Event
<1>1. m.st # "starting" /\ events # << >> /\ events' = Telling(dev, m', Tail(events))
  BY DEF Event
<1>2. dev'.busy = dev.busy /\ "busy" \in DOMAIN dev'
  BY DEF Event, SetupInv
<1>3. Good(m') /\ Debt(m') /\ Calm(m, m') /\ Queued(m', Aging(m', Tail(events)), dev.busy)
  BY <1>0, <1>1, Facts, EventGood DEF SetupInv
<1>4. Queued(m', events', dev.busy)
  BY <1>1, <1>3, TellingQueued
<1> QED BY <1>2, <1>3, <1>4 DEF Keeping, SetupInv, RaisePatiently, Calm

LEMMA TickKeeps == ASSUME SetupInv, Tick PROVE Keeping
<1> DEFINE a == Aged(m)
<1>1. PICK g, on, found : m' = OnTick(a, g, on, found)
  BY DEF Tick
<1>2. m.st # "starting" /\ events' = Telling(dev, m', events) /\ dev' = dev
  BY DEF Tick
<1>3. Beside(m, a)
  BY Facts, BesideOnce
<1> HIDE DEF a
<1>4. Good(a) /\ Debt(a) /\ a.st = m.st /\ Keeps(m, a) /\ a.gen = m.gen /\ Mild(m, a)
  BY <1>2, <1>3, Facts, BesideMild DEF SetupInv, Beside, Mild, SamePlace, SameAir, SamePhone, SameDebt, Debt, Keeps
<1>5. Good(m') /\ Debt(m') /\ Far(a, m') /\ Calm(a, m')
  BY <1>1, <1>2, <1>4, OnTickGood
<1>6. Queued(m', events', dev.busy)
  <2>1. Far(m, m') /\ m'.gen \in 0..2
    BY <1>4, <1>5 DEF Far, Keeps, Good, Fit, Shapely
  <2> QED BY <1>2, <2>1, ToldQueued DEF SetupInv
<1> QED BY <1>2, <1>4, <1>5, <1>6 DEF Keeping, SetupInv, RaisePatiently, Calm

LEMMA WorldKeeps ==
  ASSUME SetupInv, NEW d, NEW x, World(d, x), Beside(m, x), "busy" \in DOMAIN d,
         d.busy = dev.busy \/ (x = m /\ (dev.busy => events = << >>))
  PROVE  Keeping
<1>1. dev' = d /\ m' = x /\ events' = Telling(d, x, events)
  BY DEF World
<1>2. (Fresh(x) \/ Good(x)) /\ Debt(x) /\ Keeps(m, x) /\ x.gen = m.gen
  BY FreshBeside DEF SetupInv
<1>3. x.st = m.st
  BY DEF Beside, SamePlace
<1>4. x.gen \in 0..2 /\ Far(m, x)
  BY <1>2, Facts DEF Far
<1>5. Queued(x, Aging(x, events), dev.busy)
  BY <1>4, AgingQueued DEF SetupInv
<1>6. Queued(x, Aging(x, events), d.busy)
  <2>1. CASE d.busy = dev.busy
    BY <1>5, <2>1
  <2>2. CASE ~dev.busy
    BY <1>5, <2>2 DEF Queued
  <2>3. CASE events = << >>
    <3>1. DOMAIN Aging(x, events) = {}
      BY <2>3 DEF Aging
    <3> QED BY <1>5, <3>1 DEF Queued
  <2> QED BY <2>1, <2>2, <2>3
<1>7. Queued(m', events', dev'.busy)
  BY <1>1, <1>6, TellingQueued
<1> QED BY <1>1, <1>2, <1>3, <1>7 DEF Keeping, SetupInv, RaisePatiently

LEMMA OwnBeside == ASSUME SetupInv PROVE Beside(m, m) /\ \A v : Beside(m, [m EXCEPT !.link = v])
BY Facts, BesideOnce

LEMMA LinkKeeps == ASSUME SetupInv, LinkChanges PROVE Keeping
<1>1. "busy" \in DOMAIN dev
  BY DEF SetupInv
<1>2. World(dev, [m EXCEPT !.link = "absent"]) \/ World(dev, [m EXCEPT !.link = "wifi"])
  BY DEF LinkChanges, Associates
<1> QED BY <1>1, <1>2, OwnBeside, WorldKeeps

LEMMA DevKeeps ==
  ASSUME SetupInv, InetChanges \/ WireChanges \/ NearChanges \/ Breaks
  PROVE  Keeping
<1>1. PICK d : World(d, m) /\ "busy" \in DOMAIN d /\ d.busy = dev.busy
  <2>0. "busy" \in DOMAIN dev
    BY DEF SetupInv
  <2>1. CASE InetChanges
    BY <2>0, <2>1 DEF InetChanges
  <2>2. CASE WireChanges
    BY <2>0, <2>2 DEF WireChanges
  <2>3. CASE NearChanges
    BY <2>0, <2>3 DEF NearChanges
  <2>4. CASE Breaks
    <3>1. PICK f \in Failing : World([dev EXCEPT !.broken = IF f \in @ THEN @ \ {f} ELSE @ \cup {f}], m)
      BY <2>4 DEF Breaks
    <3> QED BY <2>0, <3>1
  <2> QED BY <2>1, <2>2, <2>3, <2>4
<1> QED BY <1>1, OwnBeside, WorldKeeps

LEMMA ContactKeeps == ASSUME SetupInv, Contact PROVE Keeping
<1> DEFINE d == [dev EXCEPT !.busy = ~@]
<1>1. World(d, m) /\ "busy" \in DOMAIN d /\ (dev.busy => events = << >>)
  BY DEF Contact, SetupInv
<1> QED BY <1>1, OwnBeside, WorldKeeps

LEMMA AskKeeps ==
  ASSUME SetupInv, NEW e \in Message, e[1] # "attached", Queue(e), m' = m, dev'.busy = dev.busy, DOMAIN dev' = DOMAIN dev
  PROVE  Keeping
<1>1. Queued(m, Append(events, e), dev.busy)
  BY AppendQueued DEF SetupInv
<1>2. events' = Append(events, e) \/ events' = events
  BY DEF Queue
<1> QED BY <1>1, <1>2, SameCalm DEF Keeping, SetupInv

LEMMA AsksKeep ==
  ASSUME SetupInv, Claims \/ JoinAsked \/ RescanAsked \/ SetupAsked \/ PhoneLeaves
  PROVE  Keeping
<1>0. "busy" \in DOMAIN dev
  BY DEF SetupInv
<1>1. CASE Claims
  <2>1. <<"claim", TRUE>> \in Message /\ <<"claim", TRUE>>[1] # "attached"
    BY DEF Message
  <2>2. Queue(<<"claim", TRUE>>) /\ m' = m /\ dev'.busy = dev.busy /\ DOMAIN dev' = DOMAIN dev
    BY <1>0, <1>1 DEF Claims
  <2> QED BY <2>1, <2>2, AskKeeps
<1>2. CASE JoinAsked \/ RescanAsked \/ SetupAsked
  <2>1. PICK k \in {"join", "rescan", "setup"} : Queue(<<k, TRUE>>) /\ m' = m /\ dev' = dev
    BY <1>2 DEF JoinAsked, RescanAsked, SetupAsked, Asks
  <2>2. <<k, TRUE>> \in Message /\ <<k, TRUE>>[1] # "attached"
    BY DEF Message
  <2> QED BY <2>1, <2>2, AskKeeps
<1>3. CASE PhoneLeaves
  <2>1. <<"left", m.gen>> \in Message /\ <<"left", m.gen>>[1] # "attached"
    BY Facts DEF Message
  <2>2. Queue(<<"left", m.gen>>) /\ m' = m /\ dev' = dev
    BY <1>3 DEF PhoneLeaves
  <2> QED BY <2>1, <2>2, AskKeeps
<1> QED BY <1>1, <1>2, <1>3

LEMMA RenewedKeeps ==
  ASSUME SetupInv, NEW x, x.radio \in BOOLEAN, m' = Renewed(x), events' = << >>, dev' = dev
  PROVE  Keeping
<1>1. Fresh(m') /\ Debt(m')
  BY MachineFresh DEF Renewed
<1>2. Queued(m', events', dev'.busy)
  BY DEF Queued
<1>3. m'.st # "ap"
  BY <1>1 DEF Fresh
<1> QED BY <1>1, <1>2, <1>3 DEF Keeping, SetupInv, RaisePatiently

LEMMA CrashKeeps == ASSUME SetupInv, Crash PROVE Keeping
<1>1. PICK off : m' = Renewed(m) \/ m' = Renewed(Suppress(m, off))
  BY DEF Crash
<1>2. events' = << >> /\ dev' = dev
  BY DEF Crash
<1>3. m.radio \in BOOLEAN /\ Suppress(m, off).radio = m.radio
  BY Facts DEF Suppress, Is
<1> QED BY <1>1, <1>2, <1>3, RenewedKeeps

(* A stop restores autoconnect if it is owed, and tears the hotspot down.  *)
LEMMA StopKeeps == ASSUME SetupInv, Stop PROVE Keeping
<1>1. PICK on : m' = Renewed(EnsureAPDown(Restored(m, on)))
  BY DEF Stop
<1>2. m.st # "starting" /\ events' = << >> /\ dev' = dev
  BY DEF Stop
<1> DEFINE r == Restored(m, on)
           d == EnsureAPDown(r)
<1>3. Good(r)
  BY <1>2, Facts, RestoredGood DEF SetupInv
<1>4. Fair(d)
  BY <1>3, ShedsOnce DEF Sheds, Good, Fair
<1>5. d.radio \in BOOLEAN
  BY <1>4 DEF Fair, Fit, Shapely
<1> HIDE DEF d
<1> QED BY <1>1, <1>2, <1>5, RenewedKeeps DEF d, r

LEMMA PanicsKeeps == ASSUME SetupInv, Panics PROVE Keeping
<1> DEFINE u == Unlatched(m)
<1>1. "panic" \in People /\ m.st # "starting" /\ m' = LoopStart(u) /\ events' = Telling(dev, m', events) /\ dev' = dev
  BY DEF Panics
<1>2. Good(m) /\ Is(m)
  BY <1>1, Facts
<1>3. /\ Is(u) /\ u.seen = FALSE /\ u.attach = FALSE /\ u.gen = m.gen
      /\ SameAir(m, u) /\ SamePlace(m, u) /\ SameScreen(m, u) /\ SameClock(m, u) /\ SameDebt(m, u)
  BY <1>2, UnlatchedIs
<1>4. Finds(m, u)
  BY <1>3 DEF Finds
<1> HIDE DEF u
<1>5. Good(m') /\ Debt(m') /\ (m'.gen = m.gen => ~m'.up) /\ Calm(m, m')
  BY <1>1, <1>2, <1>4, LoopStartGood DEF SetupInv
<1>6. Queued(m', events', dev.busy)
  <2>1. Far(m, m') /\ m'.gen \in 0..2
    BY <1>5 DEF Far, Keeps, Good, Fit, Shapely
  <2> QED BY <1>1, <2>1, ToldQueued DEF SetupInv
<1> QED BY <1>1, <1>5, <1>6 DEF Keeping, SetupInv, RaisePatiently, Calm

LEMMA PhoneComesKeeps == ASSUME SetupInv, PhoneComes PROVE Keeping
<1> DEFINE y == [m EXCEPT !.seen = TRUE]
           q == [i \in DOMAIN events |-> IF events[i][1] = "left" THEN <<"left", Past>> ELSE events[i]]
           e == <<"attached", m.gen>>
           a == Append(q, e)
<1>1. m.up /\ ~m.seen /\ m' = y /\ dev' = [dev EXCEPT !.busy = TRUE] /\ events' = a
  BY DEF PhoneComes
<1>2. Good(m) /\ Is(m) /\ m.gen \in 0..2
  BY <1>1, Facts
<1>3. /\ Is(y) /\ y.seen = TRUE /\ y.attach = m.attach /\ y.gen = m.gen
      /\ SameAir(m, y) /\ SamePlace(m, y) /\ SameScreen(m, y) /\ SameClock(m, y) /\ SameDebt(m, y)
  BY <1>2 DEF Is, SameAir, SamePlace, SameScreen, SameClock, SameDebt
<1> HIDE DEF y
<1>4. Good(y) /\ Debt(y)
  BY <1>2, <1>3, SameScreenIs DEF Good, Fit, Shapely, Held, Patient, Kept, StaleLatch, Debt, SetupInv,
       SameAir, SamePlace, SameScreen, SameClock, SameDebt
<1>5. e \in Message /\ \A i \in DOMAIN events : q[i] \in Message
  BY <1>2 DEF SetupInv, Queued, Message, Past
<1>6. q \in Seq(Message) /\ DOMAIN q = DOMAIN events /\ DOMAIN events = 1..Len(events) /\ Len(events) \in Nat
      /\ Len(q) = Len(events)
  <2>1. Len(events) \in Nat /\ DOMAIN events = 1..Len(events)
    BY DEF SetupInv, Queued
  <2>2. q \in [1..Len(events) -> Message]
    BY <1>5, <2>1
  <2> QED BY <2>1, <2>2
<1>7. /\ \A i \in DOMAIN events : ~Gone(q[i], m.gen)
      /\ \A i \in DOMAIN events : AttachedAt(q[i], m.gen) => AttachedAt(events[i], m.gen)
  BY <1>2 DEF Gone, AttachedAt, Past
<1>8. \A i \in DOMAIN events : ~AttachedAt(events[i], m.gen)
  BY <1>1 DEF SetupInv, Queued
<1> HIDE DEF q, e
<1>9. /\ a \in Seq(Message) /\ DOMAIN a = 1..(Len(q) + 1) /\ a[Len(q) + 1] = e /\ \A i \in 1..Len(q) : a[i] = q[i]
  BY <1>5, <1>6
<1> HIDE DEF a
<1>10. ~Gone(e, m.gen)
  BY DEF Gone, e
<1>11. \A i \in DOMAIN a : ~Gone(a[i], m.gen)
  BY <1>6, <1>7, <1>9, <1>10
<1>12. Queued(y, a, TRUE)
  BY <1>3, <1>9, <1>11 DEF Queued
<1>13. dev'.busy = TRUE /\ "busy" \in DOMAIN dev'
  BY <1>1 DEF SetupInv
<1>14. RaisePatiently
  BY <1>1, <1>3 DEF RaisePatiently, SamePlace
<1> QED BY <1>1, <1>4, <1>12, <1>13, <1>14 DEF Keeping, SetupInv

LEMMA SetupStutters == ASSUME SetupInv, UNCHANGED setup_vars PROVE Keeping
BY SameCalm DEF setup_vars, Keeping, SetupInv

LEMMA SetupKeeps == ASSUME SetupInv, [SetupNext]_setup_vars PROVE Keeping
BY BeginKeeps, EventKeeps, TickKeeps, LinkKeeps, DevKeeps, ContactKeeps, AsksKeep, CrashKeeps, StopKeeps, PanicsKeeps,
   PhoneComesKeeps, SetupStutters DEF SetupNext, Loop, Surroundings

LEMMA SetupInvHolds == SetupSpec => []SetupInv
<1>1. SetupInit => SetupInv
  BY SetupStarts
<1>2. SetupInv /\ [SetupNext]_setup_vars => SetupInv'
  BY SetupKeeps DEF Keeping
<1> QED BY <1>1, <1>2, PTL DEF SetupSpec

LEMMA InvShows == ASSUME SetupInv PROVE ScreenTruth /\ APOwned /\ AutoconnectOwed
<1>1. Reason(m) = m.shown[2] /\ (Titled(m) => m.shown[1] = m.st)
  BY DEF Reason, Titled
<1>2. AutoconnectOwed
  BY DEF SetupInv, Debt, AutoconnectOwed
<1>3. CASE Fresh(m)
  BY <1>1, <1>2, <1>3 DEF Fresh, ScreenTruth, ShownTruth, PhoneOfThisRaise, ErrorScreenCleared, QR, APOwned
<1>4. CASE Good(m)
  BY <1>1, <1>2, <1>4 DEF Good, Fit, Kept, Held, ScreenTruth, ShownTruth, PhoneOfThisRaise, ErrorScreenCleared, APOwned
<1> QED BY <1>3, <1>4 DEF SetupInv

(* The screen tells the truth: its title is the state, a QR code means that*)
(* the hotspot is on the air, the address code is for a phone of this very *)
(* raise, an error has its latch (provisioning.go 2412, 609, 3409); but for*)
(* the latch that a panic of the loop leaves behind (StaleLatch).          *)
THEOREM ScreenTellsTheTruth == SetupSpec => []ScreenTruth
<1>1. SetupInv => ScreenTruth
  BY InvShows
<1> QED BY <1>1, SetupInvHolds, PTL

(* The radio is borrowed: a raise for a lost network comes of a whole      *)
(* window without a link, a hotspot on the air is held or its teardown is  *)
(* owed, and autoconnect that is off is owed back (1960, 3058, 2330).      *)
THEOREM RadioIsBorrowed == SetupSpec => RadioOwed
<1>1. SetupInv => APOwned /\ AutoconnectOwed
  BY InvShows
<1>2. SetupInv /\ [SetupNext]_setup_vars => [RaisePatiently]_setup_vars
  BY SetupKeeps DEF Keeping
<1> QED BY <1>1, <1>2, SetupInvHolds, PTL DEF SetupSpec, RadioOwed, PatientRaise
==============================================================================
