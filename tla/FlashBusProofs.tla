-------------------------- MODULE FlashBusProofs --------------------------
(***************************************************************************)
(* Proofs about FlashBus, for any number of tasks and their priorities:    *)
(* calls that do not overlap are not disturbed.                            *)
(***************************************************************************)
EXTENDS FlashBus, TLAPS, SequenceTheorems

--------------------------------------------------------------------------
(* The transactions a call is made of.                                     *)

Polls == {"wel", "wip"}
Last == {"wip", "READ_DATA", "READ_JEDEC_ID", "READ_DEVICE_ID",
         "RELEASE_POWER_DOWN_READ_DEVICE_ID", "WRITE_ENABLE_DATA"}
Transactions == Last \cup Jobs \cup {"WRITE_ENABLE", "wel", "ERASE_PROGRAM_RESUME"}

\* The transactions for which the device is enabled and ready.
Armed == Jobs \cup {"wel", "ERASE_PROGRAM_RESUME"}

\* What may come next in a call.
After(transaction) ==
    IF transaction = "WRITE_ENABLE" THEN {"wel"}
    ELSE IF transaction \in Armed \ Jobs THEN Armed \ {"wel"}
    ELSE IF transaction \in Jobs THEN {"wip"}
    ELSE IF transaction = "wip" THEN {"WRITE_ENABLE_DATA"}
    ELSE {}

\* What is left of a call.
Calls ==
    {c \in Seq(Transactions) :
        \A i \in 1 .. Len(c) :
            IF i = Len(c) THEN c[i] \in Last ELSE c[i + 1] \in After(c[i])}

\* A sequence whose transactions follow one another is a call.
LEMMA IsCall ==
    ASSUME NEW c \in Seq(Transactions), c # <<>>,
           \A i \in 1 .. Len(c) - 1 : c[i + 1] \in After(c[i]),
           c[Len(c)] \in Last
    PROVE  c \in Calls /\ Head(c) = c[1]
<1>1. Len(c) \in Nat /\ Len(c) >= 1
    OBVIOUS
<1>2. ASSUME NEW i \in 1 .. Len(c)
      PROVE  IF i = Len(c) THEN c[i] \in Last ELSE c[i + 1] \in After(c[i])
    <2>1. i # Len(c) => i \in 1 .. Len(c) - 1
        BY <1>1
    <2> QED BY <2>1
<1> QED BY <1>2 DEF Calls

\* One transaction by itself is one.
LEMMA OneTransaction ==
    ASSUME NEW x \in Last
    PROVE  <<x>> \in Calls /\ <<x>> # <<>> /\ Head(<<x>>) = x
<1> DEFINE c == <<x>>
<1>1. c \in Seq(Transactions) /\ Len(c) = 1 /\ c[1] = x /\ c # <<>>
    BY DEF Transactions
<1> HIDE DEF c
<1>2. \A i \in 1 .. Len(c) - 1 : c[i + 1] \in After(c[i])
    BY <1>1
<1>3. c \in Calls /\ Head(c) = x
    BY <1>1, <1>2, IsCall
<1> QED BY <1>1, <1>3 DEF c

\* A job that is enabled and waited for is one.
LEMMA EnabledJob ==
    ASSUME NEW job \in Jobs, NEW c \in Seq(Transactions), Len(c) = 4,
           c[1] = "WRITE_ENABLE", c[2] = "wel", c[3] = job, c[4] = "wip"
    PROVE  c \in Calls /\ c # <<>> /\ Head(c) = "WRITE_ENABLE"
<1>1. c[2] \in After(c[1])
    BY DEF After
<1>2. c[3] \in After(c[2])
    BY DEF After, Armed, Jobs
<1>3. c[4] \in After(c[3])
    BY DEF After, Armed, Jobs
<1>4. \A i \in 1 .. Len(c) - 1 : c[i + 1] \in After(c[i])
    <2> SUFFICES ASSUME NEW i \in 1 .. 3 PROVE c[i + 1] \in After(c[i])
        OBVIOUS
    <2>1. i = 1 \/ i = 2 \/ i = 3
        OBVIOUS
    <2> QED BY <1>1, <1>2, <1>3, <2>1
<1>5. c # <<>> /\ c[Len(c)] = "wip" /\ "wip" \in Last
    BY DEF Last
<1> QED BY <1>4, <1>5, IsCall

\* So is the erase of a sector.
LEMMA ResumedJob ==
    ASSUME NEW c \in Seq(Transactions), Len(c) = 5,
           c[1] = "WRITE_ENABLE", c[2] = "wel", c[3] = "ERASE_PROGRAM_RESUME",
           c[4] = "SECTOR_ERASE_4KB", c[5] = "wip"
    PROVE  c \in Calls /\ c # <<>> /\ Head(c) = "WRITE_ENABLE"
<1>1. c[2] \in After(c[1])
    BY DEF After
<1>2. c[3] \in After(c[2]) /\ c[4] \in After(c[3])
    BY DEF After, Armed, Jobs
<1>3. c[5] \in After(c[4])
    BY DEF After, Armed, Jobs
<1>4. \A i \in 1 .. Len(c) - 1 : c[i + 1] \in After(c[i])
    <2> SUFFICES ASSUME NEW i \in 1 .. 4 PROVE c[i + 1] \in After(c[i])
        OBVIOUS
    <2>1. i = 1 \/ i = 2 \/ i = 3 \/ i = 4
        OBVIOUS
    <2> QED BY <1>1, <1>2, <1>3, <2>1
<1>5. c # <<>> /\ c[Len(c)] = "wip" /\ "wip" \in Last
    BY DEF Last
<1> QED BY <1>4, <1>5, IsCall

\* A function of the driver is a call; it starts with the device disabled.
LEMMA FunctionsAreCalls ==
    \A f \in {read_extend_flash, write_extend_flash, W25x_SectorErase} \cup Others :
       f \in Calls /\ f # <<>> /\ Head(f) \notin Armed
<1>1. \A x \in Last : x \notin Armed
    BY DEF Last, Armed, Jobs
<1>2. "WRITE_ENABLE" \notin Armed
    BY DEF Armed, Jobs
<1>3. ASSUME NEW f \in {read_extend_flash, get_jedce_id, get_device_id, flash_init}
      PROVE  f \in Calls /\ f # <<>> /\ Head(f) \notin Armed
    <2>1. PICK x \in Last : f = <<x>>
        BY DEF read_extend_flash, get_jedce_id, get_device_id, flash_init, Last
    <2> QED BY <1>1, <2>1, OneTransaction
<1>4. write_register \in Calls /\ write_register # <<>> /\ Head(write_register) \notin Armed
    <2> DEFINE c == write_register
    <2>1. c \in Seq(Transactions) /\ Len(c) = 2 /\ c[1] = "wip" /\ c[2] = "WRITE_ENABLE_DATA"
        BY DEF write_register, Transactions, Last
    <2> HIDE DEF c
    <2>2. c[2] \in After(c[1])
        BY <2>1 DEF After, Armed, Jobs
    <2>3. \A i \in 1 .. Len(c) - 1 : c[i + 1] \in After(c[i])
        <3> SUFFICES ASSUME NEW i \in 1 .. Len(c) - 1 PROVE c[i + 1] \in After(c[i])
            OBVIOUS
        <3>1. i = 1 /\ i + 1 = 2
            BY <2>1
        <3> QED BY <2>2, <3>1
    <2>4. c # <<>> /\ c[Len(c)] = c[2] /\ c[2] \in Last
        BY <2>1 DEF Last
    <2>5. c \in Calls /\ c # <<>> /\ Head(c) = "wip"
        BY <2>1, <2>3, <2>4, IsCall
    <2> QED BY <1>1, <2>5 DEF c, Last
<1>5. ASSUME NEW f \in {write_extend_flash, erase_chip}
      PROVE  f \in Calls /\ f # <<>> /\ Head(f) \notin Armed
    <2>1. /\ f \in Seq(Transactions) /\ Len(f) = 4
          /\ f[1] = "WRITE_ENABLE" /\ f[2] = "wel" /\ f[3] \in Jobs /\ f[4] = "wip"
        <3>1. CASE f = write_extend_flash
            BY <3>1 DEF write_extend_flash, write_enable, Transactions, Jobs, Last
        <3>2. CASE f = erase_chip
            BY <3>2 DEF erase_chip, write_enable, Transactions, Jobs, Last
        <3> QED BY <3>1, <3>2
    <2> QED BY <1>2, <2>1, EnabledJob
<1>6. W25x_SectorErase \in Calls /\ W25x_SectorErase # <<>> /\ Head(W25x_SectorErase) \notin Armed
    <2>1. /\ W25x_SectorErase \in Seq(Transactions) /\ Len(W25x_SectorErase) = 5
          /\ W25x_SectorErase[1] = "WRITE_ENABLE" /\ W25x_SectorErase[2] = "wel"
          /\ W25x_SectorErase[3] = "ERASE_PROGRAM_RESUME"
          /\ W25x_SectorErase[4] = "SECTOR_ERASE_4KB" /\ W25x_SectorErase[5] = "wip"
        BY DEF W25x_SectorErase, write_enable, Transactions, Jobs, Last
    <2> QED BY <1>2, <2>1, ResumedJob
<1> QED BY <1>3, <1>4, <1>5, <1>6 DEF Others

\* The rest of a call is a call, and goes on with what may come next.
LEMMA CallGoesOn ==
    ASSUME NEW c \in Calls, c # <<>>
    PROVE  /\ Head(c) \in Transactions
           /\ Tail(c) \in Calls
           /\ Tail(c) # <<>> => Head(Tail(c)) \in After(Head(c))
           /\ Tail(c) = <<>> => Head(c) \in Last
<1>1. c \in Seq(Transactions) /\ Len(c) \in Nat /\ Len(c) >= 1
    BY DEF Calls
<1>2. /\ Head(c) = c[1] /\ Head(c) \in Transactions
      /\ Tail(c) \in Seq(Transactions) /\ Len(Tail(c)) = Len(c) - 1
      /\ \A i \in 1 .. Len(Tail(c)) : Tail(c)[i] = c[i + 1]
    BY <1>1, HeadTailProperties
<1>3. \A i \in 1 .. Len(c) : IF i = Len(c) THEN c[i] \in Last ELSE c[i + 1] \in After(c[i])
    BY DEF Calls
<1> DEFINE d == Tail(c)
<1> HIDE DEF d
<1>4. d \in Seq(Transactions) /\ Len(d) = Len(c) - 1 /\ \A i \in 1 .. Len(d) : d[i] = c[i + 1]
    BY <1>2 DEF d
<1>5. d \in Calls
    <2>1. ASSUME NEW i \in 1 .. Len(d)
          PROVE  IF i = Len(d) THEN d[i] \in Last ELSE d[i + 1] \in After(d[i])
        <3>1. i + 1 \in 1 .. Len(c) /\ d[i] = c[i + 1] /\ (i = Len(d) <=> i + 1 = Len(c))
            BY <1>1, <1>4
        <3>2. i # Len(d) => d[i + 1] = c[(i + 1) + 1]
            BY <1>1, <1>4
        <3> QED BY <1>3, <3>1, <3>2
    <2> QED BY <1>4, <2>1 DEF Calls
<1>6. d # <<>> => Head(d) \in After(Head(c))
    <2> SUFFICES ASSUME d # <<>> PROVE Head(d) \in After(Head(c))
        OBVIOUS
    <2>1. Head(d) = d[1] /\ Len(d) >= 1 /\ d[1] = c[2]
        BY <1>1, <1>4
    <2>2. 1 \in 1 .. Len(c) /\ 1 # Len(c)
        BY <1>1, <1>4, <2>1
    <2>3. c[1 + 1] \in After(c[1])
        BY <1>3, <2>2
    <2> QED BY <1>2, <2>1, <2>3
<1>7. d = <<>> => Head(c) \in Last
    <2> SUFFICES ASSUME d = <<>> PROVE Head(c) \in Last
        OBVIOUS
    <2>1. Len(c) = 1 /\ 1 \in 1 .. Len(c)
        BY <1>1, <1>4
    <2>2. c[1] \in Last
        BY <1>3, <2>1
    <2> QED BY <1>2, <2>2
<1> QED BY <1>2, <1>5, <1>6, <1>7 DEF d

--------------------------------------------------------------------------
(* The bytes of a transaction.                                             *)

\* What goes over the wire.
Wire == Transactions \cup {"READ_STATUS_REGISTER_1", "address", "status", "data"}

\* The command comes first; a status byte is the second and last of a poll.
LEMMA BytesOf ==
    ASSUME NEW transaction \in Transactions
    PROVE  /\ Bytes(transaction) \in Seq(Wire)
           /\ Len(Bytes(transaction)) \in 1 .. 3
           /\ Bytes(transaction)[1] = Command(transaction)
           /\ transaction \in Polls => /\ Len(Bytes(transaction)) = 2
                                       /\ Bytes(transaction)[2] = "status"
           /\ \A i \in 1 .. Len(Bytes(transaction)) :
                 /\ Bytes(transaction)[i] = "status" => transaction \in Polls /\ i = 2
                 /\ Bytes(transaction)[i] = "data" => i > 1
           /\ transaction = "WRITE_ENABLE" => Len(Bytes(transaction)) = 1
           /\ transaction = "WRITE_ENABLE_DATA" => Len(Bytes(transaction)) = 2
<1> DEFINE a == write_addr(transaction)
           d == Data(transaction)
           k == Command(transaction)
<1>1. k \in Wire /\ k \notin {"status", "data"}
    BY DEF Command, Wire, Transactions, Last, Jobs
<1>2. a \in Seq(Wire) /\ (a = <<>> \/ a = <<"address">>) /\ (transaction \in Polls => a = <<>>)
    <2>1. CASE transaction \in {"PAGE_PROGRAM", "READ_DATA", "SECTOR_ERASE_4KB"}
        BY <2>1 DEF write_addr, Polls, Wire
    <2>2. CASE transaction \notin {"PAGE_PROGRAM", "READ_DATA", "SECTOR_ERASE_4KB"}
        BY <2>2 DEF write_addr, Polls, Wire
    <2> QED BY <2>1, <2>2
<1>3. /\ d \in Seq(Wire) /\ (d = <<>> \/ d = <<"status">> \/ d = <<"data">>)
      /\ transaction \in Polls => d = <<"status">>
      /\ transaction \notin Polls => d = <<>> \/ d = <<"data">>
    <2>1. CASE transaction \in Polls
        BY <2>1 DEF Data, Polls, Wire
    <2>2. CASE transaction \in {"WRITE_ENABLE", "ERASE_PROGRAM_RESUME",
                                "CHIP_ERASE", "SECTOR_ERASE_4KB"}
        BY <2>2 DEF Data, Polls, Wire
    <2>3. CASE transaction \notin Polls \cup {"WRITE_ENABLE", "ERASE_PROGRAM_RESUME",
                                             "CHIP_ERASE", "SECTOR_ERASE_4KB"}
        <3>1. d = <<"data">>
            BY <2>3 DEF Data, Polls
        <3> HIDE DEF d
        <3>2. <<"data">> \in Seq(Wire)
            BY DEF Wire
        <3> QED BY <2>3, <3>1, <3>2
    <2> QED BY <2>1, <2>2, <2>3
<1>4. /\ transaction = "WRITE_ENABLE" => a = <<>> /\ d = <<>>
      /\ transaction = "WRITE_ENABLE_DATA" => a = <<>> /\ d = <<"data">>
    BY DEF write_addr, Data
<1>5. Bytes(transaction) = (<<k>> \o a) \o d
    BY DEF Bytes
<1> HIDE DEF a, d, k
<1>6. /\ <<k>> \o a \in Seq(Wire)
      /\ Len(<<k>> \o a) = 1 + Len(a)
      /\ (<<k>> \o a)[1] = k
      /\ a # <<>> => (<<k>> \o a)[2] = "address"
    BY <1>1, <1>2
<1> DEFINE b == <<k>> \o a
<1> HIDE DEF b
<1>7. /\ b \in Seq(Wire) /\ Len(b) = 1 + Len(a) /\ b[1] = k
      /\ (a # <<>> => b[2] = "address") /\ Bytes(transaction) = b \o d
    BY <1>5, <1>6 DEF b
<1> DEFINE s == b \o d
<1>8. /\ s \in Seq(Wire) /\ Len(s) = Len(b) + Len(d)
      /\ \A i \in 1 .. Len(b) + Len(d) : s[i] = IF i <= Len(b) THEN b[i] ELSE d[i - Len(b)]
    <2>1. b \in Seq(Wire) /\ d \in Seq(Wire)
        BY <1>3, <1>7
    <2> QED BY ONLY <2>1, ConcatProperties
<1> HIDE DEF s
<1> DEFINE m == Len(a)
           n == Len(d)
<1>9. /\ m \in 0 .. 1 /\ n \in 0 .. 1 /\ (m = 0 <=> a = <<>>) /\ (n = 0 <=> d = <<>>)
      /\ d # <<>> => d[1] = IF transaction \in Polls THEN "status" ELSE "data"
    BY <1>2, <1>3
<1>10. Len(b) = 1 + m /\ b[1] = k /\ (m = 1 => b[2] = "address") /\ Bytes(transaction) = s
    <2>1. Bytes(transaction) = s
        BY <1>7 DEF s
    <2>2. m = 1 => a # <<>>
        BY <1>9
    <2> QED BY <1>7, <2>1, <2>2
<1>11. Len(s) = (1 + m) + n
    BY <1>8, <1>10
<1> HIDE DEF m, n
<1>12. Len(s) \in 1 .. 3
    BY <1>9, <1>11
<1>13. s[1] = k
    <2>1. 1 \in 1 .. Len(b) + Len(d) /\ 1 <= Len(b)
        BY <1>9, <1>10 DEF n
    <2> QED BY <1>8, <1>10, <2>1
<1>14. m = 1 => s[2] = "address"
    <2> SUFFICES ASSUME m = 1 PROVE s[2] = "address"
        OBVIOUS
    <2>1. 2 \in 1 .. Len(b) + Len(d) /\ 2 <= Len(b)
        BY <1>9, <1>10 DEF n
    <2> QED BY <1>8, <1>10, <2>1
<1>15. n = 1 => s[Len(s)] = IF transaction \in Polls THEN "status" ELSE "data"
    <2> SUFFICES ASSUME n = 1
                 PROVE  s[Len(s)] = IF transaction \in Polls THEN "status" ELSE "data"
        OBVIOUS
    <2>1. /\ Len(s) \in 1 .. Len(b) + Len(d) /\ ~(Len(s) <= Len(b)) /\ Len(s) - Len(b) = 1
          /\ d # <<>>
        BY <1>9, <1>10, <1>11 DEF n
    <2>2. s[Len(s)] = d[Len(s) - Len(b)]
        BY <1>8, <2>1
    <2> QED BY <1>9, <2>1, <2>2
<1>16. transaction \in Polls => m = 0 /\ n = 1
    BY <1>2, <1>3, <1>9
<1>17. ASSUME NEW i \in 1 .. Len(s)
       PROVE  /\ s[i] = "status" => transaction \in Polls /\ i = 2
              /\ s[i] = "data" => i > 1
    <2>1. CASE i = 1
        BY <1>1, <1>13, <2>1
    <2>2. CASE i = 2 /\ m = 1
        BY <1>14, <2>2
    <2>3. CASE i = Len(s) /\ n = 1 /\ i # 1
        BY <1>9, <1>11, <1>15, <1>16, <2>3
    <2>4. i = 1 \/ (i = 2 /\ m = 1) \/ (i = Len(s) /\ n = 1 /\ i # 1)
        BY <1>9, <1>11
    <2> QED BY <2>1, <2>2, <2>3, <2>4
<1>18. transaction \in Polls => Len(s) = 2 /\ s[2] = "status"
    BY <1>11, <1>15, <1>16
<1>19. /\ transaction = "WRITE_ENABLE" => Len(s) = 1
       /\ transaction = "WRITE_ENABLE_DATA" => Len(s) = 2
    <2>1. transaction = "WRITE_ENABLE" => m = 0 /\ n = 0
        BY <1>4, <1>9
    <2>2. transaction = "WRITE_ENABLE_DATA" => m = 0 /\ n = 1
        BY <1>4, <1>9
    <2> QED BY <1>11, <2>1, <2>2
<1> QED BY <1>8, <1>10, <1>12, <1>13, <1>17, <1>18, <1>19 DEF k

\* A program or erase, and the enabling, are told apart by their bytes.
LEMMA BytesTell ==
    ASSUME NEW x \in Transactions, NEW y \in Jobs \cup {"WRITE_ENABLE"}, Bytes(x) = Bytes(y)
    PROVE  x = y
<1>1. y \in Transactions
    BY DEF Transactions, Jobs
<1>2. Command(x) = Command(y) /\ Len(Bytes(x)) = Len(Bytes(y))
    BY <1>1, BytesOf
<1>3. Command(y) = y
    BY DEF Command, Jobs
<1>4. x = y \/ (x = "WRITE_ENABLE_DATA" /\ y = "WRITE_ENABLE")
    BY <1>2, <1>3 DEF Command, Jobs
<1>5. ~(x = "WRITE_ENABLE_DATA" /\ y = "WRITE_ENABLE")
    <2>1. x = "WRITE_ENABLE_DATA" => Len(Bytes(x)) = 2
        BY BytesOf
    <2>2. y = "WRITE_ENABLE" => Len(Bytes(y)) = 1
        BY <1>1, BytesOf
    <2> QED BY <1>2, <2>1, <2>2
<1> QED BY <1>4, <1>5

--------------------------------------------------------------------------
(* The inductive invariant.                                                *)

\* Every call is made of the driver's transactions, each task is at a byte of
\* its own, and nothing is called before the set-up.
CallOK ==
    /\ selected \in BOOLEAN /\ wel \in BOOLEAN /\ busy \in BOOLEAN
    /\ overlapped \in BOOLEAN /\ disturbed \in BOOLEAN
    /\ frame \in Seq(Tasks \X Wire)
    /\ call \in [Tasks -> Calls]
    /\ at \in [Tasks -> -1 .. 4]
    /\ status \in [Tasks -> [wel : BOOLEAN, busy : BOOLEAN]]
    /\ taken \in [Tasks -> BOOLEAN]
    /\ \A t \in Tasks : Idle(t) => at[t] <= 0
    /\ \A t \in Tasks : ~Idle(t) => at[t] \in 0 .. Len(Bytes(Head(call[t]))) + 1
    /\ ~SetUp => \A t \in Tasks : Idle(t) /\ at[t] = -1

\* Bytes of the transaction that have been sent.
Sent(t) == IF at[t] = 0 THEN 0 ELSE at[t] - 1

\* The device has what the task has sent so far, from the command on.
Framed(t) ==
    /\ selected = (at[t] # 0)
    /\ Len(frame) = Sent(t)
    /\ \A k \in 1 .. Len(frame) : frame[k] = <<t, Bytes(Head(call[t]))[k]>>

\* Where a call stands tells the device's status bits.
InPhase(transaction) ==
    /\ transaction \in Armed => wel /\ ~busy
    /\ transaction = "wip" => wel = busy
    /\ transaction \notin Armed \cup {"wip"} => ~wel /\ ~busy

\* A status that ends a poll still says what was true when it was read.
Answered(t) ==
    at[t] = 3 /\ Head(call[t]) \in Polls =>
        /\ Head(call[t]) = "wel" => status[t].wel
        /\ Head(call[t]) = "wip" /\ ~status[t].busy => ~busy

\* While no two calls overlapped, one task at a time talks to a device that
\* is where the call left it.
AloneOK ==
    ~overlapped =>
        /\ ~disturbed
        /\ \A t, u \in Tasks : ~Idle(t) /\ ~Idle(u) => t = u
        /\ Quiet => frame = <<>> /\ ~wel /\ ~busy /\ (SetUp => ~selected)
        /\ \A t \in Tasks : ~Idle(t) =>
              Framed(t) /\ InPhase(Head(call[t])) /\ Answered(t)

IInv == CallOK /\ AloneOK

--------------------------------------------------------------------------
(* A call that is made, and its bytes.                                     *)

\* What a call in progress has at hand.
LEMMA InCall ==
    ASSUME CallOK, NEW t \in Tasks, ~Idle(t)
    PROVE  /\ call[t] \in Calls /\ call[t] # <<>> /\ Head(call[t]) \in Transactions
           /\ Bytes(Head(call[t])) \in Seq(Wire)
           /\ Len(Bytes(Head(call[t]))) \in 1 .. 3
           /\ at[t] \in 0 .. Len(Bytes(Head(call[t]))) + 1
           /\ SetUp
<1>1. call[t] \in Calls /\ call[t] # <<>>
    BY DEF CallOK, Idle
<1>2. Head(call[t]) \in Transactions
    BY <1>1, CallGoesOn
<1> QED BY <1>1, <1>2, BytesOf DEF CallOK

\* A call begins.
LEMMA CallStep ==
    ASSUME IInv, NEW t \in Tasks,
           NEW f \in {read_extend_flash, write_extend_flash, W25x_SectorErase} \cup Others,
           Call(t, f)
    PROVE  IInv'
<1>1. f \in Calls /\ f # <<>> /\ Head(f) \notin Armed
    BY FunctionsAreCalls
<1>2. Head(f) \in Transactions /\ Len(Bytes(Head(f))) \in 1 .. 3
    BY <1>1, CallGoesOn, BytesOf
<1>3. /\ SetUp /\ Runs(t) /\ Idle(t)
      /\ call' = [call EXCEPT ![t] = f]
      /\ taken' = [taken EXCEPT ![t] = FALSE]
      /\ overlapped' = (overlapped \/ \E u \in Tasks : ~Idle(u))
      /\ UNCHANGED <<selected, frame, wel, busy, at, status, disturbed>>
    BY DEF Call, device
<1>4. CallOK
    BY DEF IInv
<1>5. at[t] = 0
    BY <1>3, <1>4 DEF CallOK, SetUp
<1>6. call'[t] = f /\ ~Idle(t)' /\ \A u \in Tasks \ {t} : call'[u] = call[u] /\ Idle(u)' = Idle(u)
    BY <1>1, <1>3, <1>4 DEF CallOK, Idle
<1>7. CallOK'
    <2>1. overlapped' \in BOOLEAN
        BY <1>3, <1>4, Zenon DEF CallOK
    <2>2. call' \in [Tasks -> Calls] /\ taken' \in [Tasks -> BOOLEAN]
        BY <1>1, <1>3, <1>4 DEF CallOK
    <2>3. \A u \in Tasks : Idle(u)' => at'[u] <= 0
        BY <1>3, <1>4, <1>6 DEF CallOK
    <2>4. \A u \in Tasks : ~Idle(u)' => at'[u] \in 0 .. Len(Bytes(Head(call'[u]))) + 1
        BY <1>2, <1>3, <1>4, <1>5, <1>6 DEF CallOK
    <2>5. SetUp'
        BY <1>3 DEF SetUp
    <2> QED BY <1>3, <1>4, <2>1, <2>2, <2>3, <2>4, <2>5 DEF CallOK
<1>8. AloneOK'
    <2> SUFFICES ASSUME ~overlapped'
                 PROVE  /\ ~disturbed'
                        /\ \A u, v \in Tasks : ~Idle(u)' /\ ~Idle(v)' => u = v
                        /\ Quiet' => frame' = <<>> /\ ~wel' /\ ~busy' /\ (SetUp' => ~selected')
                        /\ \A u \in Tasks : ~Idle(u)' =>
                              Framed(u)' /\ InPhase(Head(call[u]))' /\ Answered(u)'
        BY DEF AloneOK
    <2>1. ~overlapped /\ \A u \in Tasks : Idle(u)
        BY <1>3
    <2>2. ~disturbed /\ frame = <<>> /\ ~wel /\ ~busy /\ ~selected
        BY <1>3, <2>1 DEF IInv, AloneOK, Quiet
    <2>3. Framed(t)'
        <3>1. at'[t] = 0 /\ selected' = FALSE /\ Len(frame') = 0
            BY <1>3, <1>4, <1>5, <2>2 DEF CallOK
        <3>2. selected' = (at'[t] # 0) /\ Sent(t)' = 0
            BY <3>1, Zenon DEF Sent
        <3>3. \A k \in 1 .. Len(frame') : FALSE
            BY <3>1
        <3> QED BY <3>1, <3>2, <3>3 DEF Framed
    <2>4. InPhase(Head(call[t]))'
        <3>1. Head(call'[t]) = Head(f)
            BY <1>6
        <3>2. ~wel' /\ ~busy' /\ wel' = busy'
            BY <1>3, <1>4, <2>2 DEF CallOK
        <3> QED BY <1>1, <3>1, <3>2 DEF InPhase
    <2>5. Answered(t)'
        BY <1>3, <1>5 DEF Answered
    <2>6. \A u \in Tasks : ~Idle(u)' => u = t
        BY <1>6, <2>1
    <2>7. ~Quiet'
        BY <1>6 DEF Quiet
    <2> QED BY <1>3, <2>2, <2>3, <2>4, <2>5, <2>6, <2>7
<1> QED BY <1>7, <1>8 DEF IInv

\* Chip select goes low.
LEMMA SelectStep == ASSUME IInv, NEW t \in Tasks, Select(t) PROVE IInv'
<1>1. /\ ~Idle(t) /\ at[t] = 0 /\ selected' = TRUE
      /\ frame' = IF selected THEN frame ELSE <<>>
      /\ at' = [at EXCEPT ![t] = 1]
      /\ UNCHANGED <<wel, busy, call, status, taken, overlapped, disturbed>>
    BY DEF Select
<1>2. CallOK
    BY DEF IInv
<1>3. Len(Bytes(Head(call[t]))) \in 1 .. 3 /\ SetUp
    BY <1>1, <1>2, InCall
<1>4. at'[t] = 1 /\ \A u \in Tasks \ {t} : at'[u] = at[u]
    BY <1>1, <1>2 DEF CallOK
<1>5. \A u \in Tasks : Idle(u)' = Idle(u)
    BY <1>1 DEF Idle
<1>6. SetUp'
    BY <1>3, <1>4 DEF SetUp
<1>7. CallOK'
    <2>1. frame' \in Seq(Tasks \X Wire)
        BY <1>1, <1>2 DEF CallOK
    <2>2. at' \in [Tasks -> -1 .. 4]
        BY <1>1, <1>2 DEF CallOK
    <2>3. \A u \in Tasks : Idle(u)' => at'[u] <= 0
        BY <1>1, <1>2, <1>4, <1>5 DEF CallOK
    <2>4. \A u \in Tasks : ~Idle(u)' => at'[u] \in 0 .. Len(Bytes(Head(call'[u]))) + 1
        BY <1>1, <1>2, <1>3, <1>4, <1>5 DEF CallOK
    <2> QED BY <1>1, <1>2, <1>6, <2>1, <2>2, <2>3, <2>4 DEF CallOK
<1>8. AloneOK'
    <2> SUFFICES ASSUME ~overlapped'
                 PROVE  /\ ~disturbed'
                        /\ \A u, v \in Tasks : ~Idle(u)' /\ ~Idle(v)' => u = v
                        /\ Quiet' => frame' = <<>> /\ ~wel' /\ ~busy' /\ (SetUp' => ~selected')
                        /\ \A u \in Tasks : ~Idle(u)' =>
                              Framed(u)' /\ InPhase(Head(call[u]))' /\ Answered(u)'
        BY DEF AloneOK
    <2>1. ~overlapped /\ ~disturbed /\ \A u, v \in Tasks : ~Idle(u) /\ ~Idle(v) => u = v
        BY <1>1 DEF IInv, AloneOK
    <2>2. Framed(t) /\ InPhase(Head(call[t]))
        BY <1>1, <2>1 DEF IInv, AloneOK
    <2>3. Framed(t)'
        <3>1. selected = FALSE /\ Len(frame') = 0
            BY <1>1, <1>2, <2>2 DEF Framed, Sent, CallOK
        <3>2. at'[t] = 1 /\ selected' = TRUE
            BY <1>1, <1>4
        <3>3. selected' = (at'[t] # 0) /\ Sent(t)' = 0
            <4>1. at'[t] # 0 /\ at'[t] - 1 = 0
                BY <3>2
            <4> QED BY <3>2, <4>1, Zenon DEF Sent
        <3>4. \A k \in 1 .. Len(frame') : FALSE
            BY <3>1
        <3> QED BY <3>1, <3>3, <3>4 DEF Framed
    <2>4. InPhase(Head(call[t]))'
        BY <1>1, <2>2 DEF InPhase
    <2>5. Answered(t)'
        BY <1>4 DEF Answered
    <2>6. \A u \in Tasks : ~Idle(u)' => u = t
        BY <1>1, <1>5, <2>1
    <2>7. ~Quiet'
        BY <1>1, <1>5 DEF Quiet
    <2> QED BY <1>1, <2>1, <2>3, <2>4, <2>5, <2>6, <2>7
<1> QED BY <1>7, <1>8 DEF IInv

\* A byte goes over the wire.
LEMMA ExchangeStep == ASSUME IInv, NEW t \in Tasks, Exchange(t) PROVE IInv'
<1> DEFINE byte == Bytes(Head(call[t]))[at[t]]
           tr == Head(call[t])
<1>1. /\ ~Idle(t) /\ at[t] \in 1 .. Len(Bytes(tr))
      /\ frame' = IF selected THEN Append(frame, <<t, byte>>) ELSE frame
      /\ \/ byte # "status" /\ status' = status
         \/ byte = "status" /\ \E answer \in [wel : BOOLEAN, busy : BOOLEAN] :
               /\ selected /\ Opcode = "READ_STATUS_REGISTER_1" => answer = Reading
               /\ status' = [status EXCEPT ![t] = answer]
      /\ disturbed' = (disturbed \/ (byte = "data" /\ Opcode = "READ_DATA" /\ busy))
      /\ at' = [at EXCEPT ![t] = @ + 1]
      /\ UNCHANGED <<selected, wel, busy, call, taken, overlapped>>
    BY DEF Exchange
<1>2. CallOK
    BY DEF IInv
<1>3. /\ Len(Bytes(tr)) \in 1 .. 3 /\ tr \in Transactions /\ SetUp
      /\ Bytes(tr) \in Seq(Wire) /\ byte \in Wire
    <2>1. /\ Len(Bytes(tr)) \in 1 .. 3 /\ tr \in Transactions /\ SetUp
          /\ Bytes(tr) \in Seq(Wire)
        BY <1>1, <1>2, InCall
    <2> QED BY <1>1, <2>1, ElementOfSeq
<1>4. at'[t] = at[t] + 1 /\ \A u \in Tasks \ {t} : at'[u] = at[u]
    BY <1>1, <1>2 DEF CallOK
<1>5. \A u \in Tasks : Idle(u)' = Idle(u)
    BY <1>1 DEF Idle
<1>6. SetUp'
    BY <1>1, <1>3, <1>4 DEF SetUp
<1>7. CallOK'
    <2>1. frame' \in Seq(Tasks \X Wire)
        BY <1>1, <1>2, <1>3 DEF CallOK
    <2>2. at' \in [Tasks -> -1 .. 4]
        <3>1. at[t] + 1 \in -1 .. 4
            BY <1>1, <1>3
        <3> QED BY <1>1, <1>2, <3>1 DEF CallOK
    <2>3. \A u \in Tasks : Idle(u)' => at'[u] <= 0
        BY <1>1, <1>2, <1>4, <1>5 DEF CallOK
    <2>4. \A u \in Tasks : ~Idle(u)' => at'[u] \in 0 .. Len(Bytes(Head(call'[u]))) + 1
        BY <1>1, <1>2, <1>3, <1>4, <1>5 DEF CallOK
    <2>5. status' \in [Tasks -> [wel : BOOLEAN, busy : BOOLEAN]]
        BY <1>1, <1>2 DEF CallOK
    <2>6. disturbed' \in BOOLEAN
        BY <1>1, <1>2, Zenon DEF CallOK
    <2> HIDE DEF byte, tr
    <2> QED BY <1>1, <1>2, <1>6, <2>1, <2>2, <2>3, <2>4, <2>5, <2>6 DEF CallOK
<1>8. AloneOK'
    <2> SUFFICES ASSUME ~overlapped'
                 PROVE  /\ ~disturbed'
                        /\ \A u, v \in Tasks : ~Idle(u)' /\ ~Idle(v)' => u = v
                        /\ Quiet' => frame' = <<>> /\ ~wel' /\ ~busy' /\ (SetUp' => ~selected')
                        /\ \A u \in Tasks : ~Idle(u)' =>
                              Framed(u)' /\ InPhase(Head(call[u]))' /\ Answered(u)'
        BY DEF AloneOK
    <2>1. ~overlapped /\ ~disturbed /\ \A u, v \in Tasks : ~Idle(u) /\ ~Idle(v) => u = v
        BY <1>1 DEF IInv, AloneOK
    <2>2. Framed(t) /\ InPhase(tr)
        BY <1>1, <2>1 DEF IInv, AloneOK
    <2>3. selected /\ Len(frame) = at[t] - 1 /\ frame \in Seq(Tasks \X Wire)
        <3>1. at[t] \in Nat /\ at[t] # 0
            BY <1>1
        <3>2. selected = (at[t] # 0) /\ Len(frame) = Sent(t) /\ selected \in BOOLEAN
            BY <1>2, <2>2 DEF Framed, CallOK
        <3> QED BY <1>2, <3>1, <3>2 DEF Sent, CallOK
    <2>4. at[t] > 1 => frame # <<>> /\ frame[1][2] = Command(tr)
        <3> SUFFICES ASSUME at[t] > 1 PROVE frame # <<>> /\ frame[1][2] = Command(tr)
            OBVIOUS
        <3>1. 1 \in 1 .. Len(frame)
            BY <1>1, <2>3
        <3>2. frame[1] = <<t, Bytes(tr)[1]>>
            BY <2>2, <3>1 DEF Framed
        <3>3. Bytes(tr)[1] = Command(tr)
            BY <1>3, BytesOf
        <3> QED BY <2>3, <3>1, <3>2, <3>3
    <2>5. Framed(t)'
        <3>1. frame' = Append(frame, <<t, byte>>) /\ <<t, byte>> \in Tasks \X Wire
            BY <1>1, <1>3, <2>3
        <3> DEFINE e == <<t, byte>>
        <3> HIDE DEF e, byte
        <3>2. /\ Len(frame') = Len(frame) + 1
              /\ \A k \in 1 .. Len(frame) : frame'[k] = frame[k]
              /\ frame'[Len(frame) + 1] = e
            BY <2>3, <3>1, AppendProperties DEF e
        <3>3. Len(frame') = at[t]
            BY <1>1, <2>3, <3>2
        <3>4. ASSUME NEW k \in 1 .. Len(frame')
              PROVE  frame'[k] = <<t, Bytes(tr)[k]>>
            <4>1. CASE k \in 1 .. Len(frame)
                BY <2>2, <3>2, <4>1 DEF Framed
            <4>2. CASE k = Len(frame) + 1
                <5>1. k = at[t]
                    BY <1>1, <2>3, <4>2
                <5> QED BY <3>2, <4>2, <5>1 DEF e, byte
            <4> QED BY <2>3, <3>2, <4>1, <4>2
        <3>5. Sent(t)' = at[t] /\ selected' /\ at'[t] # 0
            BY <1>1, <1>4, <2>3 DEF Sent
        <3> QED BY <1>1, <3>3, <3>4, <3>5 DEF Framed
    <2>6. InPhase(tr)'
        BY <1>1, <2>2 DEF InPhase
    <2>7. Answered(t)'
        <3> SUFFICES ASSUME at'[t] = 3, tr \in Polls
                     PROVE  /\ tr = "wel" => status'[t].wel
                            /\ tr = "wip" /\ ~status'[t].busy => ~busy'
            BY <1>1 DEF Answered
        <3>1. at[t] = 2 /\ byte = "status"
            BY <1>1, <1>3, <1>4, BytesOf
        <3>2. Opcode = "READ_STATUS_REGISTER_1"
            BY <2>4, <3>1 DEF Opcode, Command, Polls
        <3>3. status'[t] = Reading
            BY <1>1, <1>2, <2>3, <3>1, <3>2 DEF CallOK
        <3>4. tr = "wel" => wel
            BY <2>2 DEF InPhase, Armed
        <3> QED BY <1>1, <3>3, <3>4 DEF Reading
    <2>8. ~disturbed'
        <3> SUFFICES ASSUME byte = "data", Opcode = "READ_DATA" PROVE ~busy
            BY <1>1, <2>1
        <3>1. at[t] > 1
            BY <1>1, <1>3, BytesOf
        <3>2. Command(tr) = "READ_DATA"
            BY <2>4, <3>1 DEF Opcode
        <3>3. tr = "READ_DATA"
            BY <3>2 DEF Command
        <3> QED BY <2>2, <3>3 DEF InPhase, Armed, Jobs
    <2>9. \A u \in Tasks : ~Idle(u)' => u = t
        BY <1>1, <1>5, <2>1
    <2>10. ~Quiet'
        BY <1>1, <1>5 DEF Quiet
    <2> HIDE DEF byte
    <2> QED BY <1>1, <2>5, <2>6, <2>7, <2>8, <2>9, <2>10
<1> QED BY <1>7, <1>8 DEF IInv

\* The device acts on a frame when the transaction of a lone call is over.
LEMMA WholeIs ==
    ASSUME CallOK, NEW t \in Tasks, ~Idle(t), Framed(t),
           at[t] > Len(Bytes(Head(call[t]))),
           NEW x \in Jobs \cup {"WRITE_ENABLE"}
    PROVE  Whole(x) <=> Head(call[t]) = x
<1> DEFINE tr == Head(call[t])
           b == Bytes(tr)
<1>1. b \in Seq(Wire) /\ Len(b) \in 1 .. 3 /\ at[t] \in 0 .. Len(b) + 1 /\ tr \in Transactions
    BY InCall
<1>2. at[t] = Len(b) + 1
    BY <1>1
<1>3. Len(frame) = Len(b) /\ frame \in Seq(Tasks \X Wire)
    <2>1. Sent(t) = Len(b)
        BY <1>1, <1>2 DEF Sent
    <2> QED BY <2>1 DEF Framed, CallOK
<1>4. \A k \in 1 .. Len(b) : frame[k][2] = b[k]
    BY <1>3 DEF Framed
<1>5. DOMAIN frame = 1 .. Len(b) /\ b = [k \in 1 .. Len(b) |-> b[k]]
    <2> HIDE DEF b
    <2> QED BY <1>1, <1>3
<1> HIDE DEF b
<1>6. [k \in DOMAIN frame |-> frame[k][2]] = b
    BY <1>4, <1>5
<1>7. Whole(x) <=> b = Bytes(x)
    BY <1>6 DEF Whole
<1>8. b = Bytes(x) => tr = x
    BY <1>1, BytesTell DEF b
<1> QED BY <1>7, <1>8 DEF b

\* Chip select goes high.
LEMMA DeselectStep == ASSUME IInv, NEW t \in Tasks, Deselect(t) PROVE IInv'
<1> DEFINE tr == Head(call[t])
<1>1. /\ ~Idle(t) /\ at[t] > Len(Bytes(tr)) /\ selected' = FALSE /\ frame' = <<>>
      /\ wel' = (wel \/ (selected /\ ~busy /\ Whole("WRITE_ENABLE")))
      /\ busy' = (busy \/ (selected /\ Accepted))
      /\ taken' = [taken EXCEPT ![t] = @ \/ (selected /\ Accepted)]
      /\ call' = [call EXCEPT ![t] = IF Polled(t) THEN Tail(@) ELSE @]
      /\ at' = [at EXCEPT ![t] = 0]
      /\ disturbed' = \/ disturbed
                      \/ \E i \in DOMAIN frame : frame[i][1] # t
                      \/ tr \in Jobs /\ ~taken'[t]
      /\ status' = status /\ overlapped' = overlapped
    BY DEF Deselect
<1>2. CallOK
    BY DEF IInv
<1>3. /\ call[t] \in Calls /\ call[t] # <<>> /\ tr \in Transactions
      /\ Len(Bytes(tr)) \in 1 .. 3 /\ at[t] \in 0 .. Len(Bytes(tr)) + 1 /\ SetUp
    BY <1>1, <1>2, InCall
<1>4. at'[t] = 0 /\ \A u \in Tasks \ {t} : at'[u] = at[u]
    BY <1>1, <1>2 DEF CallOK
<1>5. /\ call'[t] = IF Polled(t) THEN Tail(call[t]) ELSE call[t]
      /\ \A u \in Tasks \ {t} : call'[u] = call[u]
    BY <1>1, <1>2 DEF CallOK
<1>6. /\ Tail(call[t]) \in Calls
      /\ Tail(call[t]) # <<>> => Head(Tail(call[t])) \in After(tr)
      /\ Tail(call[t]) = <<>> => tr \in Last
    BY <1>3, CallGoesOn
<1>7. SetUp'
    BY <1>3, <1>4 DEF SetUp
<1>8. \A u \in Tasks \ {t} : Idle(u)' = Idle(u)
    BY <1>5 DEF Idle
<1>9. CallOK'
    <2>1. wel' \in BOOLEAN /\ busy' \in BOOLEAN /\ disturbed' \in BOOLEAN
        BY <1>1, <1>2, Zenon DEF CallOK
    <2>2. frame' \in Seq(Tasks \X Wire)
        BY <1>1
    <2>3. call' \in [Tasks -> Calls]
        BY <1>1, <1>2, <1>3, <1>6 DEF CallOK
    <2>4. at' \in [Tasks -> -1 .. 4]
        BY <1>1, <1>2 DEF CallOK
    <2>5. taken' \in [Tasks -> BOOLEAN]
        <3> DEFINE b == taken[t] \/ (selected /\ Accepted)
        <3>1. b \in BOOLEAN
            BY Zenon
        <3>2. taken' = [taken EXCEPT ![t] = b]
            BY <1>1
        <3> HIDE DEF b
        <3> QED BY <1>2, <3>1, <3>2 DEF CallOK
    <2>6. \A u \in Tasks : Idle(u)' => at'[u] <= 0
        BY <1>2, <1>4, <1>8 DEF CallOK
    <2>7. \A u \in Tasks : ~Idle(u)' => at'[u] \in 0 .. Len(Bytes(Head(call'[u]))) + 1
        <3> SUFFICES ASSUME NEW u \in Tasks, ~Idle(u)'
                     PROVE  at'[u] \in 0 .. Len(Bytes(Head(call'[u]))) + 1
            OBVIOUS
        <3>1. CASE u = t
            <4>1. call'[t] \in Calls /\ call'[t] # <<>>
                BY <2>3, <3>1 DEF Idle
            <4>2. Len(Bytes(Head(call'[t]))) \in 1 .. 3
                BY <4>1, CallGoesOn, BytesOf
            <4> QED BY <1>4, <3>1, <4>2
        <3>2. CASE u # t
            BY <1>2, <1>4, <1>5, <1>8, <3>2 DEF CallOK
        <3> QED BY <3>1, <3>2
    <2> QED BY <1>1, <1>2, <1>7, <2>1, <2>2, <2>3, <2>4, <2>5, <2>6, <2>7 DEF CallOK
<1>10. AloneOK'
    <2> SUFFICES ASSUME ~overlapped'
                 PROVE  /\ ~disturbed'
                        /\ \A u, v \in Tasks : ~Idle(u)' /\ ~Idle(v)' => u = v
                        /\ Quiet' => frame' = <<>> /\ ~wel' /\ ~busy' /\ (SetUp' => ~selected')
                        /\ \A u \in Tasks : ~Idle(u)' =>
                              Framed(u)' /\ InPhase(Head(call[u]))' /\ Answered(u)'
        BY DEF AloneOK
    <2>1. ~overlapped /\ ~disturbed /\ \A u, v \in Tasks : ~Idle(u) /\ ~Idle(v) => u = v
        BY <1>1 DEF IInv, AloneOK
    <2>2. Framed(t) /\ InPhase(tr) /\ Answered(t)
        BY <1>1, <2>1 DEF IInv, AloneOK
    <2>3. \A x \in Jobs \cup {"WRITE_ENABLE"} : Whole(x) <=> tr = x
        BY <1>1, <1>2, <2>2, WholeIs
    <2>4. selected /\ selected \in BOOLEAN /\ wel \in BOOLEAN /\ busy \in BOOLEAN
        <3>1. at[t] # 0
            BY <1>1, <1>3
        <3> QED BY <1>2, <2>2, <3>1 DEF Framed, CallOK
    <2>5. Accepted <=> tr \in Jobs
        <3>1. tr \in Jobs => wel /\ ~busy
            BY <2>2 DEF InPhase, Armed
        <3> QED BY <2>3, <3>1 DEF Accepted
    <2>6. wel' = (wel \/ (~busy /\ tr = "WRITE_ENABLE")) /\ busy' = (busy \/ tr \in Jobs)
        BY <1>1, <2>3, <2>4, <2>5, Zenon
    <2>7. ~disturbed'
        <3>1. \A i \in DOMAIN frame : frame[i][1] = t
            <4>1. DOMAIN frame = 1 .. Len(frame)
                BY <1>2 DEF CallOK
            <4> QED BY <2>2, <4>1 DEF Framed
        <3>2. tr \in Jobs => taken'[t]
            BY <1>1, <1>2, <2>4, <2>5 DEF CallOK
        <3> QED BY <1>1, <2>1, <3>1, <3>2
    <2>8. \A u \in Tasks : ~Idle(u)' => u = t
        BY <1>1, <1>8, <2>1
    <2>9. tr = "wip" /\ Polled(t) => ~busy
        <3> SUFFICES ASSUME tr = "wip", Polled(t) PROVE ~busy
            OBVIOUS
        <3>1. Len(Bytes(tr)) = 2
            BY <1>3, BytesOf DEF Polls
        <3>2. at[t] = 3
            <4> DEFINE n == Len(Bytes(tr))
            <4>1. n = 2 /\ at[t] > n /\ at[t] \in 0 .. n + 1
                BY <1>1, <1>3, <3>1
            <4> HIDE DEF n
            <4> QED BY <4>1
        <3>3. ~status[t].busy
            BY DEF Polled
        <3> QED BY <2>2, <3>2, <3>3 DEF Answered, Polls
    <2>10. tr \notin Polls => Polled(t)
        BY DEF Polled, Polls
    <2>11. ASSUME NEW next \in After(tr), Polled(t)
           PROVE  InPhase(next)'
        <3>1. CASE tr = "WRITE_ENABLE"
            <4>1. next = "wel" /\ wel' /\ ~busy'
                BY <2>2, <2>6, <2>11, <3>1 DEF After, InPhase, Armed, Jobs
            <4> QED BY <4>1 DEF InPhase, Armed, Jobs
        <3>2. CASE tr \in Armed \ Jobs
            <4>1. next \in Armed /\ wel' /\ ~busy'
                BY <2>2, <2>6, <2>11, <3>2 DEF After, InPhase, Armed, Jobs
            <4> QED BY <4>1 DEF InPhase, Armed, Jobs
        <3>3. CASE tr \in Jobs
            <4>1. next = "wip" /\ wel' = TRUE /\ busy' = TRUE
                BY <2>2, <2>6, <2>11, <3>3 DEF After, InPhase, Armed, Jobs
            <4> QED BY <4>1 DEF InPhase, Armed, Jobs
        <3>4. CASE tr = "wip"
            <4>1. next = "WRITE_ENABLE_DATA" /\ ~wel' /\ ~busy'
                BY <2>2, <2>4, <2>6, <2>9, <2>11, <3>4 DEF After, InPhase, Armed, Jobs
            <4> QED BY <4>1 DEF InPhase, Armed, Jobs
        <3>5. tr = "WRITE_ENABLE" \/ tr \in Armed \ Jobs \/ tr \in Jobs \/ tr = "wip"
            BY <2>11 DEF After
        <3> QED BY <3>1, <3>2, <3>3, <3>4, <3>5
    <2>12. tr \in Last /\ Polled(t) => ~wel' /\ ~busy'
        BY <2>2, <2>4, <2>6, <2>9 DEF InPhase, Armed, Jobs, Last
    <2>13. ~Polled(t) => InPhase(tr)'
        <3> SUFFICES ASSUME ~Polled(t) PROVE InPhase(tr)'
            OBVIOUS
        <3>1. tr \in Polls
            BY <2>10
        <3>2. wel' = wel /\ busy' = busy
            BY <2>4, <2>6, <3>1 DEF Polls, Jobs
        <3>3. CASE tr = "wel"
            <4>1. ~Idle(t)' /\ Head(call'[t]) = tr
                BY <1>1, <1>5 DEF Idle
            <4> QED BY <2>2, <3>2, <3>3, <4>1 DEF InPhase, Armed, Jobs
        <3>4. CASE tr = "wip"
            <4>1. ~Idle(t)' /\ Head(call'[t]) = tr
                BY <1>1, <1>5 DEF Idle
            <4> QED BY <2>2, <3>2, <3>4, <4>1 DEF InPhase, Armed, Jobs
        <3> QED BY <3>1, <3>3, <3>4 DEF Polls
    <2>14. Idle(t)' => ~wel' /\ ~busy'
        <3> SUFFICES ASSUME call'[t] = <<>> PROVE ~wel' /\ ~busy'
            BY DEF Idle
        <3>1. Polled(t) /\ Tail(call[t]) = <<>>
            BY <1>3, <1>5
        <3> QED BY <1>6, <2>12, <3>1
    <2>15. ~Idle(t)' => InPhase(Head(call[t]))'
        <3> SUFFICES ASSUME call'[t] # <<>> PROVE InPhase(Head(call[t]))'
            BY DEF Idle
        <3>1. CASE Polled(t)
            <4>1. Tail(call[t]) # <<>> /\ call'[t] = Tail(call[t])
                BY <1>5, <3>1
            <4>2. Head(call'[t]) \in After(tr)
                BY <1>6, <4>1
            <4> QED BY <2>11, <3>1, <4>2 DEF InPhase
        <3>2. CASE ~Polled(t)
            <4>1. Head(call'[t]) = tr
                BY <1>5, <3>2
            <4> QED BY <2>13, <3>2, <4>1 DEF InPhase
        <3> QED BY <3>1, <3>2
    <2>16. Framed(t)' /\ Answered(t)'
        <3>1. selected' = FALSE /\ at'[t] = 0 /\ Len(frame') = 0
            BY <1>1, <1>4
        <3>2. selected' = (at'[t] # 0) /\ Sent(t)' = 0
            BY <3>1, Zenon DEF Sent
        <3>3. \A k \in 1 .. Len(frame') : FALSE
            BY <3>1
        <3>4. at'[t] # 3
            BY <3>1
        <3> QED BY <3>1, <3>2, <3>3, <3>4 DEF Framed, Answered
    <2>17. Quiet' => Idle(t)'
        BY DEF Quiet
    <2> QED BY <1>1, <2>7, <2>8, <2>14, <2>15, <2>16, <2>17
<1> QED BY <1>9, <1>10 DEF IInv

\* The device ends what it does.
LEMMA FinishStep == IInv /\ FinishJob => IInv'
<1> SUFFICES ASSUME IInv, FinishJob PROVE IInv'
    OBVIOUS
<1>1. /\ busy /\ busy' = FALSE /\ wel' = FALSE
      /\ UNCHANGED <<selected, frame, call, at, status, taken, overlapped, disturbed>>
    BY DEF FinishJob
<1>2. \A u \in Tasks : Idle(u)' = Idle(u)
    BY <1>1 DEF Idle
<1>3. SetUp' = SetUp
    BY <1>1 DEF SetUp
<1>4. CallOK'
    BY <1>1, <1>2, <1>3 DEF IInv, CallOK
<1>5. AloneOK'
    <2> SUFFICES ASSUME ~overlapped'
                 PROVE  /\ ~disturbed'
                        /\ \A u, v \in Tasks : ~Idle(u)' /\ ~Idle(v)' => u = v
                        /\ Quiet' => frame' = <<>> /\ ~wel' /\ ~busy' /\ (SetUp' => ~selected')
                        /\ \A u \in Tasks : ~Idle(u)' =>
                              Framed(u)' /\ InPhase(Head(call[u]))' /\ Answered(u)'
        BY DEF AloneOK
    <2>1. ~disturbed' /\ \A u, v \in Tasks : ~Idle(u)' /\ ~Idle(v)' => u = v
        BY <1>1, <1>2 DEF IInv, AloneOK
    <2>2. ~Quiet
        BY <1>1 DEF IInv, AloneOK
    <2>3. ~Quiet'
        BY <1>2, <2>2 DEF Quiet
    <2>4. ASSUME NEW u \in Tasks, ~Idle(u)'
          PROVE  Framed(u)' /\ InPhase(Head(call[u]))' /\ Answered(u)'
        <3>1. Framed(u) /\ InPhase(Head(call[u]))
            BY <1>1, <1>2, <2>4 DEF IInv, AloneOK
        <3>2. Framed(u)'
            BY <1>1, <3>1 DEF Framed, Sent
        <3>3. Head(call[u]) = "wip"
            BY <1>1, <3>1 DEF InPhase
        <3>4. InPhase(Head(call[u]))'
            BY <1>1, <3>3 DEF InPhase, Armed, Jobs
        <3>5. Answered(u)'
            BY <1>1, <3>3 DEF Answered
        <3> QED BY <3>2, <3>4, <3>5
    <2> QED BY <2>1, <2>3, <2>4
<1> QED BY <1>4, <1>5 DEF IInv

\* The pins are set up.
LEMMA SetUpStep == IInv /\ setup_peripherals_init => IInv'
<1> SUFFICES ASSUME IInv, setup_peripherals_init PROVE IInv'
    OBVIOUS
<1>1. /\ ~SetUp /\ selected' = FALSE /\ at' = [t \in Tasks |-> 0]
      /\ UNCHANGED <<frame, wel, busy, call, status, taken, overlapped, disturbed>>
    BY DEF setup_peripherals_init, device
<1>2. \A u \in Tasks : Idle(u) /\ Idle(u)' /\ at'[u] = 0
    BY <1>1 DEF IInv, CallOK, Idle
<1>3. CallOK'
    <2>1. SetUp'
        BY <1>2 DEF SetUp
    <2>2. at' \in [Tasks -> -1 .. 4]
        BY <1>1
    <2>3. \A t \in Tasks : ~Idle(t)' => at'[t] \in 0 .. Len(Bytes(Head(call'[t]))) + 1
        BY <1>2
    <2>4. \A t \in Tasks : Idle(t)' => at'[t] <= 0
        BY <1>2
    <2>5. /\ selected' \in BOOLEAN /\ wel' \in BOOLEAN /\ busy' \in BOOLEAN
          /\ overlapped' \in BOOLEAN /\ disturbed' \in BOOLEAN
          /\ frame' \in Seq(Tasks \X Wire) /\ call' \in [Tasks -> Calls]
          /\ status' \in [Tasks -> [wel : BOOLEAN, busy : BOOLEAN]]
          /\ taken' \in [Tasks -> BOOLEAN]
        BY <1>1 DEF IInv, CallOK
    <2> QED BY <2>1, <2>2, <2>3, <2>4, <2>5 DEF CallOK
<1>4. AloneOK'
    BY <1>1, <1>2 DEF IInv, AloneOK, Quiet
<1> QED BY <1>3, <1>4 DEF IInv

\* Nothing is called at first.
LEMMA Start == ASSUME TasksAssumption PROVE Init => IInv
<1> SUFFICES ASSUME Init PROVE IInv
    OBVIOUS
<1>1. <<>> \in Calls
    BY DEF Calls
<1>2. \A t \in Tasks : Idle(t) /\ at[t] = -1
    BY DEF Init, Idle
<1>3. CallOK
    <2>1. [t \in Tasks |-> Reading] \in [Tasks -> [wel : BOOLEAN, busy : BOOLEAN]]
        BY DEF Init, Reading
    <2>2. /\ frame \in Seq(Tasks \X Wire) /\ call \in [Tasks -> Calls]
          /\ at \in [Tasks -> -1 .. 4] /\ taken \in [Tasks -> BOOLEAN]
        BY <1>1 DEF Init
    <2>3. /\ \A t \in Tasks : Idle(t) => at[t] <= 0
          /\ \A t \in Tasks : ~Idle(t) => at[t] \in 0 .. Len(Bytes(Head(call[t]))) + 1
        BY <1>2
    <2>4. /\ selected \in BOOLEAN /\ wel \in BOOLEAN /\ busy \in BOOLEAN
          /\ overlapped \in BOOLEAN /\ disturbed \in BOOLEAN
          /\ status \in [Tasks -> [wel : BOOLEAN, busy : BOOLEAN]]
        BY <2>1 DEF Init
    <2> QED BY <1>2, <2>2, <2>3, <2>4 DEF CallOK
<1>4. ~SetUp
    BY <1>2 DEF TasksAssumption, SetUp
<1>5. AloneOK
    BY <1>2, <1>4 DEF Init, AloneOK
<1> QED BY <1>3, <1>5 DEF IInv

\* Every step keeps the invariant.
LEMMA Step == IInv /\ [Next]_vars => IInv'
<1> SUFFICES ASSUME IInv, [Next]_vars PROVE IInv'
    OBVIOUS
<1>1. CASE setup_peripherals_init
    BY <1>1, SetUpStep
<1>2. ASSUME NEW t \in Tasks,
             littlefs_block_read(t) \/ littlefs_block_write(t) \/ littlefs_block_erase(t)
                \/ \E function \in Others : Call(t, function)
      PROVE  IInv'
    BY <1>2, CallStep DEF littlefs_block_read, littlefs_block_write, littlefs_block_erase
<1>3. ASSUME NEW t \in Tasks, Select(t) \/ Exchange(t) \/ Deselect(t)
      PROVE  IInv'
    BY <1>3, SelectStep, ExchangeStep, DeselectStep
<1>4. CASE FinishJob
    BY <1>4, FinishStep
<1>5. CASE UNCHANGED vars
    <2>1. \A u \in Tasks : Idle(u)' = Idle(u) /\ Framed(u)' = Framed(u) /\ Answered(u)' = Answered(u)
                              /\ InPhase(Head(call[u]))' = InPhase(Head(call[u]))
        BY <1>5 DEF vars, device, Idle, Framed, Sent, Answered, InPhase
    <2>2. SetUp' = SetUp /\ Quiet' = Quiet
        BY <1>5, <2>1 DEF vars, device, SetUp, Quiet, Idle
    <2>3. CallOK'
        BY <1>5, <2>1, <2>2 DEF vars, device, IInv, CallOK
    <2>4. AloneOK'
        BY <1>5, <2>1, <2>2 DEF vars, device, IInv, AloneOK
    <2> QED BY <2>3, <2>4 DEF IInv
<1> QED BY <1>1, <1>2, <1>3, <1>4, <1>5 DEF Next

--------------------------------------------------------------------------
(* Theorems.                                                               *)

\* The inductive invariant holds for any tasks, at least one.
THEOREM Invariance == ASSUME TasksAssumption PROVE Spec => []IInv
<1>1. Init => IInv
    BY Start
<1> QED BY <1>1, Step, PTL DEF Spec

\* The bus and the tasks' calls stay within their types, calls overlapping
\* or not.
THEOREM Typing == ASSUME TasksAssumption PROVE Spec => []TypeOK
<1>1. IInv => TypeOK
    <2> SUFFICES ASSUME CallOK PROVE TypeOK
        BY DEF IInv
    <2>1. \A i \in DOMAIN frame : frame[i][1] \in Tasks
        BY DEF CallOK
    <2>2. {selected, wel, busy, overlapped, disturbed} \subseteq BOOLEAN
        BY DEF CallOK
    <2> QED BY <2>1, <2>2 DEF CallOK, TypeOK
<1> QED BY <1>1, Invariance, PTL

\* Calls that never overlapped found the bus and the device in order: every
\* program and erase was taken, no read met a busy device, no poll waits for
\* ever, and between calls the device is deselected, disabled and ready.
THEOREM Undisturbed == ASSUME TasksAssumption PROVE Spec => []BusUndisturbed
<1>1. IInv => BusUndisturbed
    BY DEF IInv, AloneOK, BusUndisturbed, InPhase, Armed
<1> QED BY <1>1, Invariance, PTL

=============================================================================
