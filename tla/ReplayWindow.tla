---------------------------- MODULE ReplayWindow ----------------------------
(***************************************************************************)
(* The sliding replay window every grant record carries                    *)
(* (feral-controld/control/replay.go).  The 64-bit bitmap is the set of    *)
(* its set bits: i \in bits says that counter hi - i was accepted.  A left *)
(* shift by d moves bit i to bit i + d and drops what leaves the word.     *)
(***************************************************************************)
EXTENDS Integers

CONSTANT WindowSize       \* counters the window remembers (64 in the code)

ASSUME WindowSizeAssumption == WindowSize \in Nat \ {0}

Bits == 0 .. WindowSize - 1

Window == [hi : Nat, bits : SUBSET Bits]

EmptyWindow == [hi |-> 0, bits |-> {}]

(* Window.Check: c is above hi, or inside the window and not yet marked.   *)
CheckCtr(w, c) ==
  /\ c >= 1
  /\ \/ c > w.hi
     \/ /\ c + WindowSize > w.hi
        /\ (w.hi - c) \notin w.bits

(* Mutant: a bitmap that grows past the word.                              *)
ShiftLeftUnbounded(bits, d) == {i + d : i \in bits}

(* The bitmap after hi moves up by d: a shift by d >= WindowSize clears it. *)
ShiftLeft(bits, d) == {i \in 0 .. WindowSize - 1 : i - d \in bits}

(* Window.Accept, called only after Check succeeded.                       *)
Accept(w, c) ==
  IF c > w.hi
    THEN [hi |-> c, bits |-> ShiftLeft(w.bits, c - w.hi) \union {0}]
    ELSE [w EXCEPT !.bits = @ \union {w.hi - c}]

(* Window.valid: what the store accepts on load and before every write.    *)
ValidWindow(w) ==
  IF w.hi = 0
    THEN w.bits = {}
    ELSE /\ 0 \in w.bits
         /\ \A i \in w.bits : i < w.hi
=============================================================================
