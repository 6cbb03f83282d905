------------------------------ MODULE Console ------------------------------
(***************************************************************************)
(* cb_putc of hal_liteos/main.c: wait until the transmit FIFO is not full, *)
(* then write the character.  Nothing keeps other contexts out in between. *)
(* Tasks print their texts, a hard fault prints over whatever it           *)
(* interrupted and stops the processor; the UART is external.              *)
(***************************************************************************)
EXTENDS Integers, Sequences

CONSTANTS
    Tasks,      \* tasks that print
    Fault,      \* the context of the fault callbacks
    FifoSize,   \* room of the transmit FIFO
    TextLength  \* characters of a text

SizesAssumption ==
    Fault \notin Tasks /\ FifoSize \in Nat \ {0} /\ TextLength \in Nat \ {0}

Contexts == Tasks \cup {Fault}

VARIABLES
    fifo,       \* characters to be sent: <<context, number>>
    line,       \* characters sent
    char,       \* the character each context is at; 0 outside a text
    checked,    \* contexts that found the FIFO not full
    dropped,    \* characters written to a full FIFO
    overtaken   \* contexts preempted by a write since their check

vars == <<fifo, line, char, checked, dropped, overtaken>>

Init ==
    /\ fifo = <<>>
    /\ line = <<>>
    /\ char = [c \in Contexts |-> 0]
    /\ checked = {}
    /\ dropped = {}
    /\ overtaken = {}

\* The fault callbacks never return: cb_hard_fault, cb_assertion and
\* cb_heap_out_of_mem loop.
Runs(c) == c = Fault \/ char[Fault] = 0

\* The bound: each context prints one text.
PrintText(c) ==
    /\ Runs(c)
    /\ char[c] = 0
    /\ char' = [char EXCEPT ![c] = 1]
    /\ UNCHANGED <<fifo, line, checked, dropped, overtaken>>

InText(c) == char[c] \in 1 .. TextLength

\* Mutant: the wait for room left out.
NotFullIgnored == TRUE

NotFull == Len(fifo) < FifoSize

Check(c) ==
    /\ Runs(c)
    /\ InText(c) /\ c \notin checked
    /\ NotFull
    /\ checked' = checked \cup {c}
    /\ overtaken' = overtaken \ {c}
    /\ UNCHANGED <<fifo, line, char, dropped>>

SendData(c) ==
    /\ Runs(c)
    /\ c \in checked
    /\ IF Len(fifo) < FifoSize
       THEN fifo' = Append(fifo, <<c, char[c]>>) /\ UNCHANGED dropped
       ELSE dropped' = dropped \cup {<<c, char[c]>>} /\ UNCHANGED fifo
    /\ char' = [char EXCEPT ![c] = @ + 1]
    /\ checked' = checked \ {c}
    /\ overtaken' = overtaken \cup (checked \ {c})
    /\ UNCHANGED line

\* The UART shifts a character out.
Transmit ==
    /\ fifo # <<>>
    /\ line' = Append(line, Head(fifo))
    /\ fifo' = Tail(fifo)
    /\ UNCHANGED <<char, checked, dropped, overtaken>>

Next ==
    \/ \E c \in Contexts : PrintText(c) \/ Check(c) \/ SendData(c)
    \/ Transmit

Spec == Init /\ [][Next]_vars

--------------------------------------------------------------------------
(* Properties.                                                             *)

Characters == Contexts \X (1 .. TextLength)

TypeOK ==
    /\ Len(fifo) <= FifoSize
    /\ char \in [Contexts -> 0 .. TextLength + 1]
    /\ checked \subseteq Contexts /\ overtaken \subseteq Contexts
    /\ dropped \subseteq Characters

\* What context c has written and was not dropped.
Written(c) == {n \in 1 .. TextLength : n < char[c] /\ <<c, n>> \notin dropped}

\* A character is dropped only when another context wrote between its check
\* and its write, so never one of a fault's text, whatever the fault cut
\* short; all others are sent once and in the order of their text.
TextLostOnlyToRaces ==
    /\ \A c \in checked \ overtaken : Len(fifo) < FifoSize
    /\ \A n \in 1 .. TextLength : <<Fault, n>> \notin dropped
    /\ \A c \in Contexts :
          LET out == line \o fifo
              sent == {k \in DOMAIN out : out[k][1] = c}
          IN  /\ {out[k][2] : k \in sent} = Written(c)
              /\ \A j, k \in sent : j < k => out[j][2] < out[k][2]
==========================================================================
