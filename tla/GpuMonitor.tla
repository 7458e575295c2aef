----------------------------- MODULE GpuMonitor ------------------------------
(***************************************************************************)
(* feral-sys-monitord's watcher of the kernel journal for GPU hangs        *)
(* (event.go), and the goroutine per event that sends it over D-Bus        *)
(* (mediator.go).                                                          *)
(***************************************************************************)
EXTENDS Naturals, Sequences

CONSTANTS
  MaxLines,    \* journal lines of the GPU that tell of a hang
  JournalDies  \* BOOLEAN: journalctl may die

VARIABLES
  gpu,      \* the GPU: its state, its journal, how much of it the watcher has read
  bus       \* GPU signals on the bus, each with the number of its line
gpu_vars == <<gpu, bus>>

GpuInit ==
  /\ gpu = [hung |-> FALSE, began |-> 0, log |-> << >>, read |-> 0, alive |-> TRUE, told |-> {}, lost |-> {}]
  /\ bus = {}

(* A hang is logged more than once; a reset that succeeds ends it.         *)
Hangs ==
  /\ Len(gpu.log) < MaxLines
  /\ gpu' = [gpu EXCEPT !.hung = TRUE, !.began = IF gpu.hung THEN @ ELSE Len(gpu.log) + 1,
                        !.log = Append(@, "hang")]
  /\ UNCHANGED bus
Recovers ==
  /\ gpu.hung
  /\ gpu' = [gpu EXCEPT !.hung = FALSE, !.log = Append(@, "recover")]
  /\ UNCHANGED bus

(* The scanner hands out a line per tick, and every event is sent by a     *)
(* goroutine of its own, whenever it runs.                                 *)
Event(n) == [no |-> n, says |-> gpu.log[n]]
ScanSkips == \* mutant: a line that comes between two ticks is skipped
  /\ gpu.alive /\ gpu.read < Len(gpu.log)
  /\ \/ gpu' = [gpu EXCEPT !.read = @ + 1, !.told = @ \cup {Event(gpu.read + 1)}]
     \/ gpu' = [gpu EXCEPT !.read = @ + 1]
  /\ UNCHANGED bus
Scan ==
  /\ gpu.alive /\ gpu.read < Len(gpu.log)
  /\ gpu' = [gpu EXCEPT !.read = @ + 1, !.told = @ \cup {Event(gpu.read + 1)}]
  /\ UNCHANGED bus
(* A send that fails is logged, and nothing repeats it.                    *)
Send(e) ==
  /\ e \in gpu.told
  /\ \/ bus' = bus \cup {e} /\ gpu' = [gpu EXCEPT !.told = @ \ {e}]
     \/ UNCHANGED bus /\ gpu' = [gpu EXCEPT !.told = @ \ {e}, !.lost = @ \cup {e.no}]
Dies == JournalDies /\ gpu.alive /\ gpu' = [gpu EXCEPT !.alive = FALSE] /\ UNCHANGED bus

GpuWatcher == Scan \/ \E e \in gpu.told : Send(e)
GpuNext == Hangs \/ Recovers \/ GpuWatcher \/ Dies

(* No line is on its way any more.                                         *)
Quiet == gpu.read = Len(gpu.log) /\ gpu.told = {} /\ bus = {}
(* The sends of all lines of the present hang failed.                      *)
Unheard == gpu.hung /\ gpu.began..Len(gpu.log) \subseteq gpu.lost
=============================================================================
