----------------------------- MODULE NorStore -----------------------------
(***************************************************************************)
(* What the block functions of fs_init.c promise littlefs: one job at a    *)
(* time on an array of cells.  A program job clears bits, an erase job     *)
(* sets them all; cells outside the job never change; a job that ends      *)
(* without a power failure is done on every one of its cells.              *)
(***************************************************************************)
EXTENDS Naturals

CONSTANTS Addr, Bits

\* A cell is the set of its bits that are 1; all of them after an erase.
Cell == SUBSET Bits

\* A job maps the cells it works on to the data it programs there.
Kinds == {"program", "erase"}
NoJob == [kind |-> "none"]

VARIABLES
    cells,
    job,
    failures    \* power failures so far: the one way a job may end undone

vars == <<cells, job, failures>>

Range == IF job = NoJob THEN {} ELSE DOMAIN job.data

\* What the job makes of cell x.
After(x) ==
    IF job.kind = "erase" THEN Bits ELSE cells[x] \cap job.data[x]

Init == cells \in [Addr -> Cell] /\ job = NoJob /\ failures = 0

Begin ==
    /\ job = NoJob
    /\ job' # NoJob
    /\ DOMAIN job' = {"kind", "data"}
    /\ job'.kind \in Kinds
    /\ DOMAIN job'.data \subseteq Addr
    /\ UNCHANGED <<cells, failures>>

\* Some cells of the job change to what it makes of them.
Work ==
    /\ \A x \in Addr \ Range : cells'[x] = cells[x]
    /\ \A x \in Range : cells'[x] \in {cells[x], After(x)}
    /\ UNCHANGED <<job, failures>>

Finish ==
    /\ job # NoJob
    /\ \A x \in Range : cells[x] = After(x)
    /\ job' = NoJob
    /\ UNCHANGED <<cells, failures>>

\* Power fails: a cell being programmed has lost some of the bits it was to
\* lose, one being erased holds anything.
PowerFail ==
    /\ \A x \in Addr \ Range : cells'[x] = cells[x]
    /\ \A x \in Range :
          IF job.kind = "erase" THEN cells'[x] \subseteq Bits
          ELSE After(x) \subseteq cells'[x] /\ cells'[x] \subseteq cells[x]
    /\ job' = NoJob
    /\ failures' = failures + 1

Next == Begin \/ Work \/ Finish \/ PowerFail

Spec == Init /\ [][Next]_vars
===========================================================================
