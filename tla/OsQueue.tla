------------------------------ MODULE OsQueue ------------------------------
(***************************************************************************)
(* One queue of hal_liteos/gen_os_impl.c: port_queue_send_msg and          *)
(* port_queue_recv_msg, called by tasks, which wait for ever on a full or  *)
(* an empty queue, and by handlers, which the kernel refuses because the   *)
(* calls ask to wait.  The kernel's queue is external.                     *)
(***************************************************************************)
EXTENDS Integers, Sequences

CONSTANTS
    Tasks,      \* tasks that send and receive
    Length,     \* len given to port_queue_create
    MaxMsgs     \* bound of the model on the messages sent

LengthAssumption == Length \in Nat \ {0} /\ MaxMsgs \in Nat

VARIABLES
    queue,      \* messages in the kernel's queue
    waits,      \* what each task waits for: 0 nothing, -1 to receive, m to send m
    offered,       \* messages handed to port_queue_send_msg, numbered in order
    accepted,   \* those for which it returned 0, in the order they were queued
    received    \* those port_queue_recv_msg returned

vars == <<queue, waits, offered, accepted, received>>

Init ==
    /\ queue = <<>>
    /\ waits = [t \in Tasks |-> 0]
    /\ offered = 0
    /\ accepted = <<>>
    /\ received = <<>>

\* Mutant: the kernel's result is dropped.
ReturnedAlways0(r) == 0

\* r == LOS_OK ? 0 : 1
Returned(r) == IF r = "LOS_OK" THEN 0 ELSE 1

\* What the caller of port_queue_send_msg believes.
Told(r, m) == accepted' = IF Returned(r) = 0 THEN Append(accepted, m) ELSE accepted

\* Mutant: the message is written to the head (LOS_QueueWriteHeadCopy).
EnqueueAtHead(m) == queue' = <<m>> \o queue

\* LOS_QueueWriteCopy
Enqueue(m) == queue' = Append(queue, m)

Send(t) ==
    /\ waits[t] = 0
    /\ offered < MaxMsgs
    /\ offered' = offered + 1
    /\ IF Len(queue) < Length
       THEN Enqueue(offered') /\ Told("LOS_OK", offered') /\ UNCHANGED waits
       ELSE waits' = [waits EXCEPT ![t] = offered'] /\ UNCHANGED <<queue, accepted>>
    /\ UNCHANGED received

SendResumes(t) ==
    /\ waits[t] > 0
    /\ Len(queue) < Length
    /\ Enqueue(waits[t])
    /\ Told("LOS_OK", waits[t])
    /\ waits' = [waits EXCEPT ![t] = 0]
    /\ UNCHANGED <<offered, received>>

\* In a handler LOS_WAIT_FOREVER is refused, also when there is room.
SendFromHandler ==
    /\ offered < MaxMsgs
    /\ offered' = offered + 1
    /\ Told("LOS_ERRNO_QUEUE_WRITE_IN_INTERRUPT", offered')
    /\ UNCHANGED <<queue, waits, received>>

Dequeue ==
    /\ queue # <<>>
    /\ received' = Append(received, Head(queue))
    /\ queue' = Tail(queue)
    /\ UNCHANGED <<offered, accepted>>

Recv(t) ==
    /\ waits[t] = 0
    /\ IF queue # <<>>
       THEN Dequeue /\ UNCHANGED waits
       ELSE waits' = [waits EXCEPT ![t] = -1] /\ UNCHANGED <<queue, offered, accepted, received>>

RecvResumes(t) ==
    /\ waits[t] = -1
    /\ Dequeue
    /\ waits' = [waits EXCEPT ![t] = 0]

Next ==
    \/ \E t \in Tasks : Send(t) \/ SendResumes(t) \/ Recv(t) \/ RecvResumes(t)
    \/ SendFromHandler

Spec == Init /\ [][Next]_vars

--------------------------------------------------------------------------
(* Properties.                                                             *)

TypeOK ==
    /\ Len(queue) <= Length
    /\ waits \in [Tasks -> -1 .. MaxMsgs]
    /\ offered \in 0 .. MaxMsgs

\* A message is delivered once and in order exactly if its sender was told
\* 0: nothing accepted is lost, nothing refused or still waited for arrives.
AcceptedInOrder == accepted = received \o queue
==========================================================================
