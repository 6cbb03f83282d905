----------------------------- MODULE OsEvents -----------------------------
(***************************************************************************)
(* port_event_wait and port_event_set of hal_liteos/gen_os_impl.c: one     *)
(* event of one bit, tasks that wait for it for ever, and a task or        *)
(* handler that sets it.  The kernel's LOS_EventRead polls, pends, and     *)
(* polls again when it is resumed; LOS_EventWrite resumes all who pend.    *)
(***************************************************************************)
EXTENDS Integers

CONSTANTS
    Waiters,    \* tasks that call port_event_wait
    MaxSets     \* bound of the model on the calls of port_event_set

MaxSetsAssumption == MaxSets \in Nat

VARIABLES
    uwEventID,  \* the event bits: 0 or 1
    waiter,     \* where each task stands: "out", "pending", "resumed"
    result,     \* what its last wait returned
    sets,       \* calls of port_event_set
    successes,  \* waits that returned 0
    stolen      \* waiters that another overtook between wake-up and poll

vars == <<uwEventID, waiter, result, sets, successes, stolen>>

Init ==
    /\ uwEventID = 0
    /\ waiter = [w \in Waiters |-> "out"]
    /\ result = [w \in Waiters |-> 0]
    /\ sets = 0
    /\ successes = 0
    /\ stolen = {}

\* Mutant: LOS_WAITMODE_CLR left out.
PollNoClear == UNCHANGED uwEventID

\* LOS_WAITMODE_OR | LOS_WAITMODE_CLR with mask 1: what the poll takes.
Poll == uwEventID' = 0

\* Mutant: the event word itself returned, 1 for success.
ReturnedPlain(r) == r

\* The kernel's answer is the bits it took or an error code.
Returned(r) == IF r = 1 THEN 0 ELSE 1

Resumed == {w \in Waiters : waiter[w] = "resumed"}

\* The poll that ends a wait.
Take(w) ==
    /\ Poll
    /\ waiter' = [waiter EXCEPT ![w] = "out"]
    /\ result' = [result EXCEPT ![w] = Returned(uwEventID)]
    /\ successes' = successes + (IF Returned(uwEventID) = 0 THEN 1 ELSE 0)
    /\ stolen' = IF uwEventID = 1 THEN (stolen \cup Resumed) \ {w} ELSE stolen
    /\ UNCHANGED sets

\* The event is set already: the wait returns at once.
WaitSatisfied(w) ==
    /\ waiter[w] = "out"
    /\ uwEventID = 1
    /\ Take(w)

WaitPends(w) ==
    /\ waiter[w] = "out"
    /\ uwEventID = 0
    /\ waiter' = [waiter EXCEPT ![w] = "pending"]
    /\ stolen' = stolen \ {w}
    /\ UNCHANGED <<uwEventID, result, sets, successes>>

\* A resumed task polls once more and returns whatever it finds.
WaitResumes(w) ==
    /\ waiter[w] = "resumed"
    /\ Take(w)

\* Mutant: the event is written but nobody is resumed.
EventSetNoResume ==
    /\ sets < MaxSets
    /\ uwEventID' = 1
    /\ sets' = sets + 1
    /\ UNCHANGED <<waiter, result, successes, stolen>>

EventSet ==
    /\ sets < MaxSets
    /\ uwEventID' = 1
    /\ sets' = sets + 1
    /\ waiter' = [w \in Waiters |-> IF waiter[w] = "pending" THEN "resumed" ELSE waiter[w]]
    /\ UNCHANGED <<result, successes, stolen>>

Next ==
    \/ \E w \in Waiters : WaitSatisfied(w) \/ WaitPends(w) \/ WaitResumes(w)
    \/ EventSet

Spec == Init /\ [][Next]_vars

\* A task the kernel has resumed runs.
FairSpec == Spec /\ \A w \in Waiters : WF_vars(WaitResumes(w))

--------------------------------------------------------------------------
(* Properties.                                                             *)

TypeOK ==
    /\ uwEventID \in {0, 1}
    /\ waiter \in [Waiters -> {"out", "pending", "resumed"}]
    /\ result \in [Waiters -> {0, 1}]
    /\ sets \in 0 .. MaxSets
    /\ successes \in Nat
    /\ stolen \subseteq Waiters

\* A wait succeeds only on a set of its own: sets may merge into one success
\* (two before a wait are one), a set never serves two, and the event that
\* is still set is one more than the successes account for.
SuccessNeedsASet == successes + uwEventID <= sets

\* A wait, which never times out, fails only when another task consumed the
\* event it was woken for; with one waiter it never fails.
FailureOnlyToRival ==
    \A w \in Waiters : waiter[w] = "out" /\ result[w] # 0 => w \in stolen

WaitResultsRight == SuccessNeedsASet /\ FailureOnlyToRival

\* An event set while a task waits is consumed by a wait that returns.
SetIsSeen ==
    (uwEventID = 1 /\ \E w \in Waiters : waiter[w] # "out") ~> uwEventID = 0
==========================================================================
