-------------------------- MODULE SpiFlashProofs --------------------------
(***************************************************************************)
(* Proofs about SpiFlash, for any geometry of pages and sectors, any       *)
(* contents and any number of resets of either kind.                       *)
(***************************************************************************)
EXTENDS SpiFlash, TLAPS

Commands == {"write", "erase", "chip"}

\* What the driver may be serving.
CallOK ==
    \/ call = NoCall
    \/ /\ call.op = "write"
       /\ call = [op |-> "write", addr |-> call.addr, size |-> call.size, data |-> call.data]
       /\ call.addr \in Addr /\ call.size \in 1 .. 2 * PageBytes
       /\ call.data \in [0 .. call.size - 1 -> Byte]
       /\ FitsPages(call.addr, call.size)
       /\ call.addr + call.size <= FlashBytes
    \/ /\ call.op = "erase"
       /\ call = [op |-> "erase", addr |-> call.addr]
       /\ call.addr \in EraseAddrs
    \/ call = [op |-> "chip"]

\* Where the driver is says what it serves, and how much of it is sent: whole
\* pages until the last chunk.
PlaceOK ==
    /\ pc \in Commands => call.op = pc
    /\ call.op = "write" =>
          /\ pc \in {"enable", "poll_wel", "write"} => offset < call.size
          /\ offset % PageBytes = 0 \/ offset = call.size

\* The device is the driver's as long as no processor reset left it busy:
\* busy only while the driver waits for it, and enabled before a command.
DeviceOK ==
    ~orphan => /\ Busy => pc = "wait"
               /\ pc \in Commands => wel

IInv ==
    /\ TypeOK
    /\ CallOK
    /\ PlaceOK
    /\ DeviceOK
    /\ ReadsAnswered

--------------------------------------------------------------------------
(* Arithmetic of pages.                                                    *)

\* A number is its quotient and its remainder.
LEMMA DivMod ==
    ASSUME NEW a \in Nat, NEW p \in Nat \ {0}
    PROVE  a \div p \in Nat /\ a % p \in 0 .. p - 1 /\ a = p * (a \div p) + (a % p)
BY SMT

\* They are the only ones.
LEMMA UniqueMod ==
    ASSUME NEW q \in Int, NEW p \in Nat \ {0}, NEW r \in 0 .. p - 1
    PROVE  (p * q + r) % p = r
BY SMT

\* Adding a number that does not leave the page adds to the remainder.
LEMMA ModInPage ==
    ASSUME NEW a \in Nat, NEW i \in Nat, NEW p \in Nat \ {0}, (a % p) + i < p
    PROVE  (a + i) % p = (a % p) + i
<1>1. a + i = p * (a \div p) + ((a % p) + i)
    BY DivMod
<1>2. a \div p \in Int /\ (a % p) + i \in 0 .. p - 1
    BY DivMod
<1> QED BY <1>1, <1>2, UniqueMod

\* Adding whole pages does not change it.
LEMMA ModWholePages ==
    ASSUME NEW a \in Nat, NEW n \in Nat, NEW p \in Nat \ {0}, n % p = 0
    PROVE  (a + n) % p = a % p
<1> DEFINE q == a \div p
           m == n \div p
<1>1. q \in Nat /\ m \in Nat /\ a % p \in 0 .. p - 1
    BY DivMod
<1>2. a = p * q + (a % p) /\ n = p * m
    BY DivMod
<1> HIDE DEF q, m
<1>3. p * q + p * m = p * (q + m)
    BY <1>1
<1>4. \A r \in 0 .. p - 1 : a = p * q + r => a + n = p * (q + m) + r
    BY <1>1, <1>2, <1>3
<1>5. \A r \in 0 .. p - 1 : (p * (q + m) + r) % p = r
    BY <1>1, UniqueMod
<1> QED BY <1>1, <1>2, <1>4, <1>5

\* A multiple of a multiple is one.
LEMMA ModTrans ==
    ASSUME NEW f \in Nat, NEW s \in Nat \ {0}, NEW p \in Nat \ {0},
           f % s = 0, s % p = 0
    PROVE  f % p = 0
<1> DEFINE q == f \div s
           m == s \div p
<1>1. q \in Nat /\ m \in Nat
    BY DivMod
<1>2. f = s * q /\ s = p * m
    BY DivMod
<1> HIDE DEF q, m
<1> DEFINE k == m * q
<1>3. k \in Int /\ f = p * k
    BY <1>1, <1>2
<1> HIDE DEF k
<1>4. f = p * k + 0 /\ 0 \in 0 .. p - 1
    BY <1>3
<1> QED BY <1>3, <1>4, UniqueMod

\* The page of an address of the flash is in the flash.
LEMMA PageInFlash ==
    ASSUME NEW a \in Nat, NEW f \in Nat, NEW p \in Nat \ {0}, f % p = 0, a < f
    PROVE  (a \div p) * p + p <= f
<1> DEFINE q == a \div p
           m == f \div p
<1>1. q \in Nat /\ m \in Nat
    BY DivMod
<1>2. f = p * m /\ p * q <= a
    BY DivMod
<1> HIDE DEF q, m
<1>3. q < m
    BY <1>1, <1>2
<1>4. q * p + p <= m * p
    BY <1>1, <1>3
<1> QED BY <1>2, <1>4 DEF q, m

\* Every byte a program sends lands in the flash.
LEMMA TargetInFlash ==
    ASSUME NEW a \in Addr, NEW i \in Nat
    PROVE  Target(a, i) \in Addr
<1> DEFINE base == (a \div PageBytes) * PageBytes
           rest == (a + i) % PageBytes
<1>1. a \in Nat /\ a < FlashBytes /\ a + i \in Nat
    BY GeometryAssumption DEF Addr
<1>2. FlashBytes % PageBytes = 0
    BY ModTrans, GeometryAssumption
<1>3. base + PageBytes <= FlashBytes
    BY <1>1, <1>2, PageInFlash, GeometryAssumption
<1>4. a \div PageBytes \in Nat /\ rest \in 0 .. PageBytes - 1
    BY <1>1, DivMod, GeometryAssumption
<1>5. base \in Nat
    BY <1>4, GeometryAssumption
<1>6. Target(a, i) = base + rest
    BY DEF Target
<1> HIDE DEF base, rest
<1> QED BY <1>3, <1>4, <1>5, <1>6, GeometryAssumption DEF Addr

\* So what a program leaves pending is typed.
LEMMA ProgrammedTyped ==
    ASSUME mem \in [Addr -> Byte], NEW a \in Addr, NEW n \in Nat, NEW data, NEW k \in Nat
    PROVE  LET p == Programmed(a, n, data, k)
           IN  DOMAIN p \subseteq Addr /\ \A x \in DOMAIN p : p[x] \in Byte
<1>1. \A i \in 0 .. n - 1 : Target(a, i) \in Addr
    BY TargetInFlash
<1> QED BY <1>1 DEF Programmed, Byte

--------------------------------------------------------------------------
(* The invariant holds initially and every step keeps it.                  *)

\* The idle driver on any contents satisfies it.
LEMMA InitIInv == Init => IInv
<1> SUFFICES ASSUME Init PROVE IInv
    OBVIOUS
<1>1. DOMAIN pending = {}
    BY DEF Init, None
<1>2. wel \in BOOLEAN /\ orphan \in BOOLEAN
    BY Zenon DEF Init
<1>3. TypeOK
    BY <1>1, <1>2, ResetsAssumption DEF Init, TypeOK, NoCall, Stages
<1>4. CallOK /\ PlaceOK
    BY DEF Init, CallOK, PlaceOK, NoCall, Commands
<1>5. DeviceOK /\ ReadsAnswered
    BY DEF Init, DeviceOK, ReadsAnswered, Busy, Commands
<1> QED BY <1>3, <1>4, <1>5 DEF IInv

\* A call is told from the others by its operation.
LEMMA CallKinds ==
    ASSUME CallOK
    PROVE  /\ call.op \in Commands \cup {"none"}
           /\ call = NoCall <=> call.op = "none"
BY DEF CallOK, NoCall, Commands

\* What is left to send of a write is a chunk inside the flash.
LEMMA ChunkInFlash ==
    ASSUME CallOK, TypeOK, call.op = "write", offset < call.size
    PROVE  /\ call.addr + offset \in Addr
           /\ Chunk \in 1 .. PageBytes
           /\ offset + Chunk <= call.size
           /\ Chunk = PageBytes \/ offset + Chunk = call.size
<1>1. /\ call.addr \in Addr /\ call.size \in Nat
      /\ call.addr + call.size <= FlashBytes
    BY GeometryAssumption DEF CallOK, NoCall
<1>2. offset \in Nat
    BY DEF TypeOK
<1> QED BY <1>1, <1>2, GeometryAssumption DEF Chunk, Addr

\* Taking a call.
LEMMA CallStep ==
    ASSUME IInv, NEW c, NEW first,
           first = "enable",
           Call(c, first),
           CallOK', c # NoCall,
           c.op = "write" => c.size \in Nat \ {0}
    PROVE  IInv'
<1>1. pc' = "enable" /\ call' = c /\ offset' = 0 /\ out' = "none"
    BY DEF Call
<1>2. UNCHANGED <<mem, wel, pending, orphan, resets>>
    BY DEF Call, device
<1>3. TypeOK'
    BY <1>1, <1>2 DEF IInv, TypeOK, Stages
<1>4. 0 % PageBytes = 0
    BY GeometryAssumption
<1>5. PlaceOK'
    BY <1>1, <1>4 DEF PlaceOK, Commands
<1>6. DeviceOK'
    BY <1>1, <1>2 DEF IInv, DeviceOK, Busy, Commands, Call
<1>7. ReadsAnswered'
    BY <1>1 DEF ReadsAnswered
<1> QED BY <1>3, <1>5, <1>6, <1>7 DEF IInv

\* A call refused, or answered at once.
LEMMA AnswerStep ==
    ASSUME IInv, UNCHANGED <<device, pc, call, offset, orphan, resets>>,
           out' = "garbage" => orphan
    PROVE  IInv'
<1>1. UNCHANGED <<mem, wel, pending, pc, call, offset, orphan, resets>>
    BY DEF device
<1>2. TypeOK' /\ CallOK' /\ PlaceOK' /\ DeviceOK'
    BY <1>1 DEF IInv, TypeOK, CallOK, PlaceOK, DeviceOK, Busy
<1>3. ReadsAnswered'
    BY <1>1 DEF ReadsAnswered
<1> QED BY <1>2, <1>3 DEF IInv

\* A transaction of the driver that leaves the array and the call alone.
LEMMA CallsStep ==
    ASSUME IInv, Calls
    PROVE  IInv'
<1>1. ASSUME NEW a \in Addr, NEW n \in 1 .. 2 * PageBytes, CallWrite(a, n)
      PROVE  IInv'
    <2>1. PICK data \in [0 .. n - 1 -> Byte] :
             Call([op |-> "write", addr |-> a, size |-> n, data |-> data], "enable")
        BY <1>1 DEF CallWrite
    <2>2. FitsPages(a, n) /\ a + n <= FlashBytes
        BY <1>1 DEF CallWrite
    <2> DEFINE c == [op |-> "write", addr |-> a, size |-> n, data |-> data]
    <2>3. call' = c
        BY <2>1 DEF Call
    <2>4. CallOK'
        BY <2>2, <2>3 DEF CallOK
    <2>5. c # NoCall /\ c.size \in Nat \ {0}
        BY GeometryAssumption DEF NoCall
    <2> QED BY <2>1, <2>4, <2>5, CallStep
<1>2. ASSUME NEW a \in Addr, NEW n \in 1 .. 2 * PageBytes, CallRead(a, n)
      PROVE  IInv'
    <2>1. Busy => orphan
        BY <1>2 DEF CallRead, IInv, DeviceOK
    <2> QED BY <1>2, <2>1, AnswerStep DEF CallRead
<1>3. CASE CallWriteTooBig
    BY <1>3, AnswerStep DEF CallWriteTooBig
<1>4. ASSUME NEW a \in EraseAddrs, CallSectorErase(a)
      PROVE  IInv'
    <2>1. CASE a > FlashBytes
        BY <1>4, <2>1, AnswerStep DEF CallSectorErase
    <2>2. CASE ~(a > FlashBytes)
        <3> DEFINE c == [op |-> "erase", addr |-> a]
        <3>1. Call(c, "enable")
            BY <1>4, <2>2 DEF CallSectorErase
        <3>2. CallOK'
            BY <3>1 DEF Call, CallOK
        <3>3. c # NoCall /\ c.op = "erase"
            BY DEF NoCall
        <3> QED BY <3>1, <3>2, <3>3, CallStep
    <2> QED BY <2>1, <2>2
<1>5. CASE CallEraseChip
    <2> DEFINE c == [op |-> "chip"]
    <2>1. Call(c, "enable")
        BY <1>5 DEF CallEraseChip
    <2>2. CallOK'
        BY <2>1 DEF Call, CallOK
    <2>3. c # NoCall /\ c.op = "chip"
        BY DEF NoCall
    <2> QED BY <2>1, <2>2, <2>3, CallStep
<1> QED BY <1>1, <1>2, <1>3, <1>4, <1>5 DEF Calls

\* The driver's transactions that leave the device alone.
LEMMA DriverStep ==
    ASSUME IInv, PollWel \/ WaitThenNextChunk
    PROVE  IInv'
<1>1. UNCHANGED <<mem, wel, pending, call, offset, out, orphan, resets>>
    BY DEF PollWel, WaitThenNextChunk, device
<1>2. CallOK' /\ ReadsAnswered'
    BY <1>1 DEF IInv, CallOK, ReadsAnswered
<1>3. call.op \in Commands \cup {"none"} /\ (call = NoCall <=> call.op = "none")
    BY CallKinds DEF IInv
<1>4. CASE PollWel
    <2>1. pc = "poll_wel" /\ pc' = call.op /\ wel
        BY <1>4 DEF PollWel, At
    <2>2. call # NoCall
        BY <2>1 DEF IInv, TypeOK
    <2>3. TypeOK'
        BY <1>1, <1>3, <2>1, <2>2 DEF IInv, TypeOK, Commands, Stages
    <2>4. PlaceOK'
        BY <1>1, <1>3, <2>1, <2>2 DEF IInv, PlaceOK, Commands
    <2>5. DeviceOK'
        BY <1>1, <2>1 DEF IInv, DeviceOK, Busy
    <2> QED BY <1>2, <2>3, <2>4, <2>5 DEF IInv
<1>5. CASE WaitThenNextChunk
    <2>1. pc = "wait" /\ pc' = "enable" /\ ~Busy /\ call.op = "write" /\ offset < call.size
        BY <1>5 DEF WaitThenNextChunk, At, More
    <2>2. TypeOK'
        BY <1>1, <2>1 DEF IInv, TypeOK, Stages
    <2>3. PlaceOK'
        BY <1>1, <2>1 DEF IInv, PlaceOK, Commands
    <2>4. DeviceOK'
        BY <1>1, <2>1 DEF IInv, DeviceOK, Busy, Commands
    <2> QED BY <1>2, <2>2, <2>3, <2>4 DEF IInv
<1> QED BY <1>4, <1>5

\* WRITE_ENABLE and the end of what the device does.
LEMMA DeviceStep ==
    ASSUME IInv, WriteEnable \/ FinishJob
    PROVE  IInv'
<1>1. UNCHANGED <<call, offset, out, orphan, resets>>
    BY DEF WriteEnable, FinishJob, driver
<1>2. CallOK' /\ ReadsAnswered'
    BY <1>1 DEF IInv, CallOK, ReadsAnswered
<1>3. CASE WriteEnable
    <2>1. pc = "enable" /\ pc' = "poll_wel" /\ UNCHANGED <<mem, pending>>
        BY <1>3 DEF WriteEnable, At
    <2>2. wel' \in BOOLEAN
        BY <1>3, Zenon DEF WriteEnable, IInv, TypeOK
    <2>3. TypeOK'
        BY <1>1, <2>1, <2>2 DEF IInv, TypeOK, Stages
    <2>4. PlaceOK'
        BY <1>1, <2>1 DEF IInv, PlaceOK, Commands
    <2>5. DeviceOK'
        BY <1>1, <2>1 DEF IInv, DeviceOK, Busy, Commands
    <2> QED BY <1>2, <2>3, <2>4, <2>5 DEF IInv
<1>4. CASE FinishJob
    <2>1. pc' = pc /\ pending' = None /\ wel' = FALSE /\ Busy
        BY <1>4 DEF FinishJob, driver
    <2>2. mem' = [x \in Addr |-> IF x \in DOMAIN pending THEN pending[x] ELSE mem[x]]
        BY <1>4 DEF FinishJob
    <2>3. mem' \in [Addr -> Byte]
        BY <2>2 DEF IInv, TypeOK
    <2>4. DOMAIN pending' = {} /\ wel' \in BOOLEAN
        BY <2>1 DEF None
    <2>5. TypeOK'
        BY <1>1, <2>1, <2>3, <2>4 DEF IInv, TypeOK
    <2>6. PlaceOK'
        BY <1>1, <2>1 DEF IInv, PlaceOK
    <2>7. DeviceOK'
        BY <1>1, <2>1 DEF IInv, DeviceOK, Busy, Commands
    <2> QED BY <1>2, <2>5, <2>6, <2>7 DEF IInv
<1> QED BY <1>3, <1>4

\* A command starts a job the device was ready for, or is ignored.
LEMMA CommandStep ==
    ASSUME IInv, PageProgram \/ SectorErase \/ ChipErase
    PROVE  IInv'
<1>1. pc \in Commands /\ pc' = "wait" /\ UNCHANGED <<mem, wel, call, out, orphan, resets>>
    BY DEF PageProgram, SectorErase, ChipErase, At, Commands
<1>2. CallOK' /\ ReadsAnswered'
    BY <1>1 DEF IInv, CallOK, ReadsAnswered
<1>3. call.op = pc
    BY <1>1 DEF IInv, PlaceOK
<1>4. DeviceOK'
    BY <1>1 DEF IInv, DeviceOK, Commands
<1>5. CASE PageProgram
    <2>1. call.op = "write" /\ offset < call.size
        BY <1>3, <1>5 DEF PageProgram, At, IInv, PlaceOK
    <2>2. /\ call.addr + offset \in Addr /\ Chunk \in 1 .. PageBytes
          /\ offset + Chunk <= call.size
          /\ Chunk = PageBytes \/ offset + Chunk = call.size
        BY <2>1, ChunkInFlash DEF IInv
    <2> DEFINE p == Programmed(call.addr + offset, Chunk, call.data, offset)
    <2>3. Chunk \in Nat /\ offset \in Nat /\ mem \in [Addr -> Byte]
        BY <2>2, GeometryAssumption DEF IInv, TypeOK
    <2>4. DOMAIN p \subseteq Addr /\ \A x \in DOMAIN p : p[x] \in Byte
        BY <2>2, <2>3, ProgrammedTyped
    <2> HIDE DEF p
    <2>5. pending' = p \/ pending' = pending
        BY <1>5 DEF PageProgram, Accept, p
    <2>6. offset' = offset + Chunk
        BY <1>5 DEF PageProgram
    <2>7. call.size \in Nat
        BY <2>1, GeometryAssumption DEF IInv, CallOK, NoCall
    <2>8. offset' \in Nat /\ offset' <= call.size
        BY <2>2, <2>3, <2>6, <2>7
    <2>9. DOMAIN pending' \subseteq Addr /\ \A x \in DOMAIN pending' : pending'[x] \in Byte
        BY <2>4, <2>5 DEF IInv, TypeOK
    <2>10. TypeOK'
        BY <1>1, <1>3, <2>8, <2>9 DEF IInv, TypeOK, Stages, Commands
    <2>11. offset % PageBytes = 0
        BY <2>1, <2>3, <2>7 DEF IInv, PlaceOK
    <2>12. PageBytes % PageBytes = 0
        BY GeometryAssumption
    <2>13. (offset + PageBytes) % PageBytes = 0
        BY <2>3, <2>11, <2>12, ModWholePages, GeometryAssumption
    <2>14. offset' % PageBytes = 0 \/ offset' = call.size
        BY <2>2, <2>6, <2>13
    <2>15. PlaceOK'
        BY <1>1, <2>14 DEF PlaceOK, Commands
    <2> QED BY <1>2, <1>4, <2>10, <2>15 DEF IInv
<1>6. CASE SectorErase \/ ChipErase
    <2>1. offset' = offset
        BY <1>6 DEF SectorErase, ChipErase
    <2>2. \E S \in SUBSET Addr : pending' = [x \in S |-> Bits] \/ pending' = pending
        <3>1. Sector(call.addr) \subseteq Addr
            BY DEF Sector
        <3> QED BY <1>6, <3>1 DEF SectorErase, ChipErase, Accept
    <2>3. DOMAIN pending' \subseteq Addr /\ \A x \in DOMAIN pending' : pending'[x] \in Byte
        BY <2>2 DEF IInv, TypeOK, Byte
    <2>4. TypeOK'
        BY <1>1, <1>3, <2>1, <2>3 DEF IInv, TypeOK, Stages, Commands
    <2>5. call.op # "write"
        BY <1>3, <1>6 DEF SectorErase, ChipErase, At
    <2>6. PlaceOK'
        BY <1>1, <2>1, <2>5 DEF PlaceOK, Commands
    <2> QED BY <1>2, <1>4, <2>4, <2>6 DEF IInv
<1> QED BY <1>5, <1>6

\* The return to the file system.
LEMMA ReturnStep ==
    ASSUME IInv, WaitThenReturn
    PROVE  IInv'
<1>1. /\ ~Busy /\ pc' = "idle" /\ call' = NoCall /\ offset' = 0
      /\ out' = "FLASH_OK" /\ orphan' = FALSE
    BY DEF WaitThenReturn, At
<1>2. UNCHANGED <<mem, wel, pending, resets>>
    BY DEF WaitThenReturn, device
<1>3. orphan' \in BOOLEAN
    BY <1>1
<1>4. TypeOK'
    BY <1>1, <1>2, <1>3 DEF IInv, TypeOK, Stages, NoCall
<1>5. CallOK' /\ PlaceOK' /\ ReadsAnswered'
    BY <1>1 DEF CallOK, PlaceOK, ReadsAnswered, NoCall, Commands
<1>6. DeviceOK'
    BY <1>1, <1>2 DEF DeviceOK, Busy, Commands
<1> QED BY <1>4, <1>5, <1>6 DEF IInv

\* Either reset.
LEMMA ResetStep ==
    ASSUME IInv, PowerFail \/ WarmReset
    PROVE  IInv'
<1>1. /\ resets < MaxResets /\ resets' = resets + 1 /\ pc' = "idle"
      /\ call' = NoCall /\ offset' = 0 /\ out' = "none"
    BY DEF PowerFail, WarmReset, Reboot
<1>2. CallOK' /\ PlaceOK' /\ ReadsAnswered'
    BY <1>1 DEF CallOK, PlaceOK, ReadsAnswered, NoCall, Commands
<1>3. resets' \in 0 .. MaxResets
    BY <1>1, ResetsAssumption DEF IInv, TypeOK
<1>4. CASE PowerFail
    <2>1. pending' = None /\ wel' = FALSE /\ orphan' = FALSE
        BY <1>4 DEF PowerFail
    <2>2. DOMAIN pending' = {} /\ wel' \in BOOLEAN /\ orphan' \in BOOLEAN
        BY <2>1 DEF None
    <2>3. PICK torn \in [DOMAIN pending -> Byte] :
             mem' = [x \in Addr |-> IF x \in DOMAIN pending THEN torn[x] ELSE mem[x]]
        BY <1>4 DEF PowerFail
    <2>4. mem' \in [Addr -> Byte]
        BY <2>3 DEF IInv, TypeOK
    <2>5. TypeOK'
        BY <1>1, <1>3, <2>2, <2>4 DEF TypeOK, Stages, NoCall
    <2>6. DeviceOK'
        BY <1>1, <2>1 DEF DeviceOK, Busy, Commands
    <2> QED BY <1>2, <2>5, <2>6 DEF IInv
<1>5. CASE WarmReset
    <2>1. UNCHANGED <<mem, wel>> /\ orphan' = Busy'
        BY <1>5 DEF WarmReset, Busy
    <2>2. PICK n \in 0 .. (IF pc = "write" THEN Chunk ELSE 0) :
             IF n = 0 THEN UNCHANGED pending
             ELSE Accept(Programmed(call.addr + offset, n, call.data, offset))
        BY <1>5 DEF WarmReset
    <2>3. DOMAIN pending' \subseteq Addr /\ \A x \in DOMAIN pending' : pending'[x] \in Byte
        <3>1. CASE n = 0
            BY <2>2, <3>1 DEF IInv, TypeOK
        <3>2. CASE n # 0
            <4>1. pc = "write"
                BY <2>2, <3>2
            <4>2. call.op = "write" /\ offset < call.size
                BY <4>1 DEF IInv, PlaceOK, Commands
            <4>3. call.addr + offset \in Addr /\ Chunk \in 1 .. PageBytes
                BY <4>2, ChunkInFlash DEF IInv
            <4>4. n \in Nat /\ offset \in Nat /\ mem \in [Addr -> Byte]
                BY <4>1, <4>3, GeometryAssumption DEF IInv, TypeOK
            <4> DEFINE p == Programmed(call.addr + offset, n, call.data, offset)
            <4>5. DOMAIN p \subseteq Addr /\ \A x \in DOMAIN p : p[x] \in Byte
                BY <4>3, <4>4, ProgrammedTyped
            <4>6. pending' = p \/ pending' = pending
                BY <2>2, <3>2 DEF Accept
            <4> HIDE DEF p
            <4> QED BY <4>5, <4>6 DEF IInv, TypeOK
        <3> QED BY <3>1, <3>2
    <2>4. orphan' \in BOOLEAN
        BY <2>1, Zenon DEF Busy
    <2>5. TypeOK'
        BY <1>1, <1>3, <2>1, <2>3, <2>4 DEF IInv, TypeOK, Stages, NoCall
    <2>6. DeviceOK'
        BY <1>1, <2>1 DEF DeviceOK, Commands
    <2> QED BY <1>2, <2>5, <2>6 DEF IInv
<1> QED BY <1>4, <1>5

\* No step breaks the invariant.
LEMMA NextIInv == IInv /\ [Next]_vars => IInv'
<1> SUFFICES ASSUME IInv, [Next]_vars PROVE IInv'
    OBVIOUS
<1>1. CASE Transaction
    BY <1>1, DriverStep, DeviceStep, CommandStep, ReturnStep DEF Transaction
<1>2. CASE Calls
    BY <1>2, CallsStep
<1>3. CASE FinishJob
    BY <1>3, DeviceStep
<1>4. CASE PowerFail \/ WarmReset
    BY <1>4, ResetStep
<1>5. CASE PollAgain \/ UNCHANGED vars
    <2>1. UNCHANGED vars
        BY <1>5 DEF PollAgain
    <2>2. TypeOK' /\ CallOK' /\ PlaceOK' /\ DeviceOK' /\ ReadsAnswered'
        BY <2>1 DEF vars, device, driver, IInv, TypeOK, CallOK, PlaceOK, DeviceOK, Busy,
                    ReadsAnswered
    <2> QED BY <2>2 DEF IInv
<1> QED BY <1>1, <1>2, <1>3, <1>4, <1>5 DEF Next

\* The inductive invariant.
THEOREM Invariance == Spec => []IInv
BY InitIInv, NextIInv, PTL DEF Spec

--------------------------------------------------------------------------
(* The properties.                                                         *)

\* The types hold, whatever the calls and the resets: no program writes past
\* the end of the flash.
THEOREM Typing == Spec => []TypeOK
<1>1. IInv => TypeOK
    BY DEF IInv
<1> QED BY <1>1, Invariance, PTL

\* The device takes every program and every erase the driver's own polling
\* leads to.
THEOREM CommandsTaken == Spec => []CommandsAccepted
<1>1. IInv => CommandsAccepted
    BY DEF IInv, DeviceOK, CommandsAccepted, Commands
<1> QED BY <1>1, Invariance, PTL

\* A read is not answered by a busy device unless a reset left it busy.
THEOREM ReadsSeeTheArray == Spec => []ReadsAnswered
<1>1. IInv => ReadsAnswered
    BY DEF IInv
<1> QED BY <1>1, Invariance, PTL
--------------------------------------------------------------------------
(* The driver and the device implement NorStore.  That takes a device that *)
(* only loses power, together with the processor, and erases that are      *)
(* blocks of the file system, which are sectors.                           *)

BlocksAreSectors ==
    /\ BlockBytes = SectorBytes
    /\ \A a \in EraseAddrs : a \in Addr /\ a % SectorBytes = 0

\* The cells of the call, and what it makes of them.
Cells ==
    IF call.op = "write" THEN call.addr .. call.addr + call.size - 1
    ELSE IF call.op = "erase" THEN Block(call.addr)
    ELSE IF call.op = "chip" THEN Addr
    ELSE {}

Wanted(x) == IF call.op = "write" THEN mem[x] \cap call.data[x - call.addr] ELSE Bits

\* The cells whose command has been sent.
Sent ==
    IF call.op = "write" THEN call.addr .. call.addr + offset - 1
    ELSE IF pc = "wait" THEN Cells
    ELSE {}

\* What is pending is part of the call, and what was sent is pending or done.
ProgressOK ==
    /\ ~orphan
    /\ DOMAIN pending \subseteq Cells
    /\ \A x \in DOMAIN pending : pending[x] = Wanted(x)
    /\ \A x \in Sent : x \in DOMAIN pending \/ mem[x] = Wanted(x)
\* A sector that starts at a is the addresses a to a + s - 1.
LEMMA SectorOfAddress ==
    ASSUME NEW a \in Nat, NEW x \in Nat, NEW s \in Nat \ {0}, a % s = 0
    PROVE  x \div s = a \div s <=> x \in a .. a + s - 1
<1> DEFINE q == a \div s
           m == x \div s
           r == x % s
<1>1. q \in Nat /\ m \in Nat /\ r \in 0 .. s - 1
    BY DivMod
<1>2. a = s * q /\ x = s * m + r
    BY DivMod
<1> HIDE DEF q, m, r
<1>3. m < q => s * m + s <= s * q
    BY <1>1
<1>4. m > q => s * q + s <= s * m
    BY <1>1
<1>5. s * m \in Nat /\ s * q \in Nat
    BY <1>1
<1>6. m = q <=> x \in a .. a + s - 1
    BY <1>1, <1>2, <1>3, <1>4, <1>5
<1> QED BY <1>6 DEF q, m

\* So what an erase of the driver erases is the block it was asked for.
LEMMA SectorIsBlock ==
    ASSUME BlocksAreSectors, NEW a \in EraseAddrs
    PROVE  Sector(a) = Block(a) /\ Block(a) \subseteq Addr
<1>1. /\ a \in Nat /\ a < FlashBytes /\ a % SectorBytes = 0
      /\ BlockBytes = SectorBytes
    BY GeometryAssumption DEF BlocksAreSectors, Addr
<1>2. a % FlashBytes = a
    BY <1>1, GeometryAssumption
<1>3. (a \div SectorBytes) * SectorBytes + SectorBytes <= FlashBytes
    BY <1>1, PageInFlash, GeometryAssumption
<1>4. a = SectorBytes * (a \div SectorBytes) + 0 /\ a \div SectorBytes \in Nat
    BY <1>1, DivMod, GeometryAssumption
<1>5. a + SectorBytes <= FlashBytes
    BY <1>3, <1>4, GeometryAssumption
<1>6. Block(a) \subseteq Addr
    BY <1>1, <1>5, GeometryAssumption DEF Block, Addr
<1>7. ASSUME NEW x \in Addr
      PROVE  x \div SectorBytes = a \div SectorBytes <=> x \in Block(a)
    <2>1. x \in Nat /\ SectorBytes \in Nat \ {0}
        BY GeometryAssumption DEF Addr
    <2>2. x \div SectorBytes = a \div SectorBytes <=> x \in a .. a + SectorBytes - 1
        BY <1>1, <2>1, SectorOfAddress
    <2> QED BY <1>1, <2>2 DEF Block
<1> QED BY <1>2, <1>6, <1>7 DEF Sector

\* No byte of a chunk wraps: write_extend_flash keeps its chunks in pages.
LEMMA TargetInChunk ==
    ASSUME CallOK, TypeOK, PlaceOK, call.op = "write", offset < call.size,
           NEW i \in 0 .. Chunk - 1
    PROVE  Target(call.addr + offset, i) = call.addr + offset + i
<1> DEFINE a == call.addr + offset
           q == a \div PageBytes
           r == a % PageBytes
<1>1. /\ a \in Addr /\ Chunk \in 1 .. PageBytes
      /\ offset + Chunk <= call.size
    BY ChunkInFlash
<1>2. a \in Nat /\ call.addr \in Nat /\ call.size \in Nat /\ offset \in Nat /\ i \in Nat
    <2>1. call.addr \in Addr /\ call.size \in Nat
        BY GeometryAssumption DEF CallOK, NoCall
    <2>2. offset \in Nat
        BY DEF TypeOK
    <2>3. Addr \subseteq Nat
        BY GeometryAssumption DEF Addr
    <2>4. PageBytes \in Nat
        BY GeometryAssumption
    <2>5. i \in Nat
        BY <1>1, <2>4
    <2> QED BY <1>1, <2>1, <2>2, <2>3, <2>5
<1>3. offset % PageBytes = 0
    BY <1>2 DEF PlaceOK
<1>4. a % PageBytes = call.addr % PageBytes
    <2>1. PageBytes \in Nat \ {0}
        BY GeometryAssumption
    <2> QED BY <1>2, <1>3, <2>1, ModWholePages
<1>5. offset < PageBytes => offset = 0
    <2>1. offset < PageBytes => offset % PageBytes = offset
        BY <1>2, GeometryAssumption
    <2> QED BY <1>3, <2>1
<1>6. call.addr % PageBytes \in 0 .. PageBytes - 1
    BY <1>2, DivMod, GeometryAssumption
<1>7. FitsPages(call.addr, call.size)
    BY DEF CallOK, NoCall
<1>8. (a % PageBytes) + i < PageBytes
    <2>1. CASE call.addr % PageBytes = 0
        BY <1>1, <1>2, <1>4, <2>1, GeometryAssumption
    <2>2. CASE (call.addr % PageBytes) + call.size <= PageBytes
        <3>1. offset = 0
            BY <1>2, <1>5, <1>6, <2>2, GeometryAssumption
        <3> QED BY <1>1, <1>2, <1>4, <1>6, <2>2, <3>1, GeometryAssumption
    <2> QED BY <1>7, <2>1, <2>2 DEF FitsPages
<1>9. (a + i) % PageBytes = (a % PageBytes) + i
    BY <1>2, <1>8, ModInPage, GeometryAssumption
<1>10. a = PageBytes * q + r /\ q \in Nat /\ r \in 0 .. PageBytes - 1
    BY <1>2, DivMod, GeometryAssumption
<1>11. Target(a, i) = q * PageBytes + (r + i)
    BY <1>9 DEF Target
<1> HIDE DEF a, q, r
<1>12. q * PageBytes = PageBytes * q /\ PageBytes * q \in Nat
    BY <1>10, GeometryAssumption
<1>13. Target(a, i) = a + i
    BY <1>2, <1>10, <1>11, <1>12
<1> QED BY <1>13 DEF a

\* The chunk works on its own cells, each with its own byte.
LEMMA ProgrammedChunk ==
    ASSUME CallOK, TypeOK, PlaceOK, call.op = "write", offset < call.size
    PROVE  Programmed(call.addr + offset, Chunk, call.data, offset) =
               [x \in call.addr + offset .. call.addr + offset + Chunk - 1 |->
                   mem[x] \cap call.data[x - call.addr]]
<1> DEFINE a == call.addr + offset
           S == a .. a + Chunk - 1
           Sender(x) == CHOOSE i \in offset .. offset + Chunk - 1 : Target(a, i - offset) = x
<1>1. /\ a \in Nat /\ call.addr \in Nat /\ offset \in Nat /\ Chunk \in Nat
    <2>1. a \in Addr /\ Chunk \in 1 .. PageBytes
        BY ChunkInFlash
    <2> QED BY <2>1, GeometryAssumption DEF Addr, CallOK, NoCall, TypeOK
<1>2. \A i \in 0 .. Chunk - 1 : Target(a, i) = a + i
    BY TargetInChunk
<1>3. {Target(a, i) : i \in 0 .. Chunk - 1} = S
    <2>1. \A i \in 0 .. Chunk - 1 : Target(a, i) \in S
        BY <1>1, <1>2
    <2>2. \A x \in S : x - a \in 0 .. Chunk - 1 /\ Target(a, x - a) = x
        BY <1>1, <1>2
    <2> QED BY <2>1, <2>2
<1>4. ASSUME NEW x \in S
      PROVE  Sender(x) = x - call.addr
    <2>1. x - call.addr \in offset .. offset + Chunk - 1
        BY <1>1
    <2>2. Target(a, (x - call.addr) - offset) = x
        <3>1. (x - call.addr) - offset = x - a /\ x - a \in 0 .. Chunk - 1
            BY <1>1
        <3> QED BY <1>1, <1>2, <3>1
    <2>3. \A i \in offset .. offset + Chunk - 1 : Target(a, i - offset) = x => i = x - call.addr
        <3> SUFFICES ASSUME NEW i \in offset .. offset + Chunk - 1, Target(a, i - offset) = x
                     PROVE  i = x - call.addr
            OBVIOUS
        <3>1. i - offset \in 0 .. Chunk - 1
            BY <1>1
        <3>2. x = a + (i - offset)
            BY <1>2, <3>1
        <3> QED BY <1>1, <3>2
    <2> QED BY <2>1, <2>2, <2>3
<1>5. Programmed(a, Chunk, call.data, offset) =
          [x \in S |-> mem[x] \cap call.data[Sender(x)]]
    BY <1>3 DEF Programmed
<1> HIDE DEF Sender, a
<1> QED BY <1>4, <1>5 DEF a
\* What is pending and done can be told from the variables it is made of.
LEMMA ProgressKept ==
    ASSUME ProgressOK, UNCHANGED <<mem, pending, call, offset, orphan>>,
           Sent' \subseteq Sent
    PROVE  ProgressOK'
<1>1. Cells' = Cells /\ \A x : Wanted(x)' = Wanted(x)
    BY DEF Cells, Wanted
<1> QED BY <1>1 DEF ProgressOK

\* The cells of a call are in the flash, and those sent are the call's.
LEMMA CellsInFlash ==
    ASSUME BlocksAreSectors, IInv
    PROVE  Cells \subseteq Addr /\ Sent \subseteq Cells
<1>1. call.op = "write" =>
          /\ call.addr \in Nat /\ call.size \in Nat /\ offset \in Nat
          /\ offset <= call.size /\ call.addr + call.size <= FlashBytes
    BY GeometryAssumption DEF IInv, CallOK, NoCall, TypeOK, Addr
<1>2. CASE call.op = "write"
    BY <1>1, <1>2, GeometryAssumption DEF Cells, Sent, Addr
<1>3. CASE call.op = "erase"
    <2>1. call.addr \in EraseAddrs
        BY <1>3 DEF IInv, CallOK, NoCall
    <2>2. Cells = Block(call.addr)
        BY <1>3 DEF Cells
    <2> QED BY <1>3, <2>1, <2>2, SectorIsBlock DEF Sent
<1>4. CASE call.op \notin {"write", "erase"}
    BY <1>4 DEF Cells, Sent
<1> QED BY <1>2, <1>3, <1>4

\* The driver's commands and the device's work keep what was sent pending or
\* done.
LEMMA CommandProgress ==
    ASSUME BlocksAreSectors, IInv, ProgressOK, PageProgram \/ SectorErase \/ ChipErase
    PROVE  ProgressOK'
<1>1. pc \in Commands /\ pc' = "wait" /\ UNCHANGED <<mem, wel, call, orphan>>
    BY DEF PageProgram, SectorErase, ChipErase, At, Commands
<1>2. call.op = pc
    BY <1>1 DEF IInv, PlaceOK
<1>3. wel /\ pending = None
    BY <1>1 DEF IInv, DeviceOK, ProgressOK, Busy, Commands
<1>4. \A x \in Sent : mem[x] = Wanted(x)
    BY <1>3 DEF ProgressOK, None
<1>5. Cells' = Cells /\ \A x : Wanted(x)' = Wanted(x)
    BY <1>1 DEF Cells, Wanted
<1>6. CASE PageProgram
    <2> DEFINE chunk == call.addr + offset .. call.addr + offset + Chunk - 1
    <2>1. call.op = "write" /\ offset < call.size
        BY <1>2, <1>6 DEF PageProgram, At, IInv, PlaceOK
    <2>2. /\ call.addr \in Nat /\ call.size \in Nat /\ offset \in Nat /\ Chunk \in Nat
          /\ offset + Chunk <= call.size
        <3>1. Chunk \in 1 .. PageBytes /\ offset + Chunk <= call.size
            BY <2>1, ChunkInFlash DEF IInv
        <3> QED BY <2>1, <3>1, GeometryAssumption DEF Addr, IInv, CallOK, NoCall, TypeOK
    <2>3. Programmed(call.addr + offset, Chunk, call.data, offset) = [x \in chunk |-> Wanted(x)]
        BY <2>1, ProgrammedChunk DEF IInv, Wanted
    <2>4. pending' = [x \in chunk |-> Wanted(x)] /\ offset' = offset + Chunk
        BY <1>3, <1>6, <2>3 DEF PageProgram, Accept, Busy
    <2>5. chunk \subseteq Cells
        BY <2>1, <2>2 DEF Cells
    <2>6. \A x \in Sent' : x \in chunk \/ x \in Sent
        BY <1>1, <2>1, <2>2, <2>4 DEF Sent
    <2> HIDE DEF chunk
    <2> QED BY <1>1, <1>4, <1>5, <2>4, <2>5, <2>6 DEF ProgressOK
<1>7. CASE SectorErase \/ ChipErase
    <2>1. pending' = [x \in Cells |-> Bits]
        <3>1. CASE SectorErase
            <4>1. call.op = "erase" /\ call.addr \in EraseAddrs
                BY <1>2, <3>1 DEF SectorErase, At, IInv, CallOK, NoCall
            <4>2. Cells = Sector(call.addr)
                BY <4>1, SectorIsBlock DEF Cells
            <4> QED BY <1>3, <3>1, <4>2 DEF SectorErase, Accept, Busy
        <3>2. CASE ChipErase
            <4>1. Cells = Addr
                BY <1>2, <3>2 DEF ChipErase, At, Cells
            <4> QED BY <1>3, <3>2, <4>1 DEF ChipErase, Accept, Busy
        <3> QED BY <1>7, <3>1, <3>2
    <2>2. call.op # "write"
        BY <1>2, <1>7 DEF SectorErase, ChipErase, At
    <2>3. Sent' = Cells /\ \A x : Wanted(x) = Bits
        BY <1>1, <1>5, <2>2 DEF Sent, Wanted
    <2> QED BY <1>1, <1>5, <2>1, <2>3 DEF ProgressOK
<1> QED BY <1>6, <1>7

\* The device's work keeps it too.
LEMMA FinishProgress ==
    ASSUME BlocksAreSectors, IInv, ProgressOK, FinishJob
    PROVE  ProgressOK'
<1>1. /\ mem' = [x \in Addr |-> IF x \in DOMAIN pending THEN pending[x] ELSE mem[x]]
      /\ pending' = None /\ UNCHANGED <<pc, call, offset, orphan>>
    BY DEF FinishJob, driver
<1>2. Sent' = Sent /\ Sent \subseteq Addr
    BY <1>1, CellsInFlash DEF Cells, Sent
<1>3. ASSUME NEW x \in Sent
      PROVE  mem'[x] = Wanted(x)'
    <2>1. CASE x \in DOMAIN pending
        <3>1. mem'[x] = pending[x]
            BY <1>1, <1>2, <2>1
        <3>2. pending[x] = Wanted(x)
            BY <2>1 DEF ProgressOK
        <3> QED BY <1>1, <3>1, <3>2 DEF Wanted
    <2>2. CASE x \notin DOMAIN pending
        <3>1. mem'[x] = mem[x]
            BY <1>1, <1>2, <2>2
        <3>2. mem[x] = Wanted(x)
            BY <2>2 DEF ProgressOK
        <3> QED BY <1>1, <3>1, <3>2 DEF Wanted
    <2> QED BY <2>1, <2>2
<1>4. DOMAIN pending' = {}
    BY <1>1 DEF None
<1> QED BY <1>1, <1>2, <1>3, <1>4 DEF ProgressOK

\* Every step keeps it, as long as resets are power failures.
LEMMA NextProgress ==
    ASSUME BlocksAreSectors, "warm" \notin Resets, IInv, ProgressOK, [Next]_vars
    PROVE  ProgressOK'
<1>1. CASE PageProgram \/ SectorErase \/ ChipErase
    BY <1>1, CommandProgress
<1>2. CASE FinishJob
    BY <1>2, FinishProgress
<1>3. CASE WriteEnable \/ PollWel \/ WaitThenNextChunk
    <2>1. UNCHANGED <<mem, pending, call, offset, orphan>>
        BY <1>3 DEF WriteEnable, PollWel, WaitThenNextChunk, device
    <2>2. call.op # "write" => pc' # "wait"
        BY <1>3, CallKinds DEF WriteEnable, PollWel, WaitThenNextChunk, More, At, IInv, Commands
    <2>3. Sent' \subseteq Sent
        BY <2>1, <2>2 DEF Sent
    <2> QED BY <2>1, <2>3, ProgressKept
<1>4. ASSUME call' = NoCall, pc' = "idle", pending' = None, ~orphan'
      PROVE  ProgressOK'
    <2>1. Sent' = {} /\ DOMAIN pending' = {}
        BY <1>4 DEF Sent, NoCall, None
    <2> QED BY <1>4, <2>1 DEF ProgressOK
<1>5. CASE WaitThenReturn
    BY <1>4, <1>5 DEF WaitThenReturn, At, device, Busy
<1>6. CASE PowerFail
    BY <1>4, <1>6 DEF PowerFail, Reboot
<1>7. CASE Calls
    <2>1. UNCHANGED <<mem, pending, orphan>> /\ pc = "idle"
        BY <1>7 DEF Calls, CallWrite, CallRead, CallWriteTooBig, CallSectorErase, CallEraseChip,
                    Call, device
    <2>2. pending = None
        BY <2>1 DEF IInv, DeviceOK, ProgressOK, Busy
    <2>3. \/ offset' = 0 /\ pc' = "enable"
          \/ UNCHANGED <<pc, call, offset>>
        BY <1>7 DEF Calls, CallWrite, CallRead, CallWriteTooBig, CallSectorErase, CallEraseChip,
                    Call
    <2>4. CASE offset' = 0 /\ pc' = "enable"
        <3>1. call'.op = "write" => call'.addr \in Nat
            <4>1. CallOK'
                BY NextIInv DEF IInv
            <4> QED BY <4>1, GeometryAssumption DEF CallOK, NoCall, Addr
        <3>2. Sent' = {}
            BY <2>4, <3>1 DEF Sent
        <3>3. DOMAIN pending' = {}
            BY <2>1, <2>2 DEF None
        <3> QED BY <2>1, <3>2, <3>3 DEF ProgressOK
    <2>5. CASE UNCHANGED <<pc, call, offset>>
        <3>1. Sent' \subseteq Sent
            BY <2>5 DEF Sent, Cells
        <3> QED BY <2>1, <2>5, <3>1, ProgressKept
    <2> QED BY <2>3, <2>4, <2>5
<1>8. CASE PollAgain \/ UNCHANGED vars
    <2>1. UNCHANGED vars
        BY <1>8 DEF PollAgain
    <2>2. Sent' \subseteq Sent
        BY <2>1 DEF vars, device, driver, Sent, Cells
    <2> QED BY <2>1, <2>2, ProgressKept DEF vars, device, driver
<1>9. ~WarmReset
    BY DEF WarmReset
<1> QED BY <1>1, <1>2, <1>3, <1>5, <1>6, <1>7, <1>8, <1>9 DEF Next, Transaction

\* The job of the store is the call.
LEMMA JobMeaning ==
    ASSUME CallOK
    PROVE  /\ StoreJob = Store!NoJob <=> call = NoCall
           /\ Store!Range = Cells
           /\ \A x \in Cells : Store!After(x) = Wanted(x)
           /\ StoreJob.kind = "erase" <=> call.op \in {"erase", "chip"}
<1>1. CASE call = NoCall
    <2>1. StoreJob = [kind |-> "none"]
        BY <1>1 DEF StoreJob, NoCall
    <2> QED BY <1>1, <2>1 DEF Store!NoJob, Store!Range, Store!After, Cells, NoCall
<1>2. CASE call.op = "write"
    <2>1. StoreJob = [kind |-> "program", data |-> [x \in Cells |-> call.data[x - call.addr]]]
        BY <1>2 DEF StoreJob, Cells
    <2>2. StoreJob.kind = "program" /\ StoreJob # Store!NoJob
        BY <2>1 DEF Store!NoJob
    <2>3. StoreJob.data = [x \in Cells |-> call.data[x - call.addr]]
        BY <2>1
    <2> QED BY <1>2, <2>2, <2>3 DEF Store!Range, Store!After, Wanted, NoCall
<1>3. CASE call.op \in {"erase", "chip"}
    <2>1. StoreJob = [kind |-> "erase", data |-> [x \in Cells |-> Bits]]
        BY <1>3 DEF StoreJob, Cells
    <2>2. StoreJob.kind = "erase" /\ StoreJob # Store!NoJob
        BY <2>1 DEF Store!NoJob
    <2>3. StoreJob.data = [x \in Cells |-> Bits]
        BY <2>1
    <2> QED BY <1>3, <2>2, <2>3 DEF Store!Range, Store!After, Wanted, NoCall
<1> QED BY <1>1, <1>2, <1>3 DEF CallOK

\* A call begins a job.
LEMMA BeginRefines ==
    ASSUME BlocksAreSectors, IInv, IInv', pc = "idle", pc' = "enable", UNCHANGED <<mem, resets>>
    PROVE  Store!Begin
<1>1. call = NoCall /\ call' # NoCall /\ CallOK'
    BY DEF IInv, TypeOK
<1>2. StoreJob = Store!NoJob
    BY <1>1, JobMeaning DEF IInv
<1>3. \E kind \in Store!Kinds : \E data :
         DOMAIN data \subseteq Addr /\ StoreJob' = [kind |-> kind, data |-> data]
    <2>1. CASE call'.op = "write"
        <3> DEFINE S == call'.addr .. call'.addr + call'.size - 1
            data == [x \in S |-> call'.data[x - call'.addr]]
        <3>1. /\ call'.addr \in Nat /\ call'.size \in Nat \ {0}
              /\ call'.addr + call'.size <= FlashBytes
            BY <1>1, <2>1, GeometryAssumption DEF CallOK, NoCall, Addr
        <3>2. S \subseteq Addr
            BY <3>1, GeometryAssumption DEF Addr
        <3>3. StoreJob' = [kind |-> "program", data |-> data]
            BY <2>1 DEF StoreJob
        <3> QED BY <3>2, <3>3 DEF Store!Kinds
    <2>2. CASE call'.op = "erase"
        <3>1. call'.addr \in EraseAddrs
            BY <1>1, <2>2 DEF CallOK, NoCall
        <3>2. Block(call'.addr) \subseteq Addr
            BY <3>1, SectorIsBlock
        <3>3. StoreJob' = [kind |-> "erase", data |-> [x \in Block(call'.addr) |-> Bits]]
            BY <2>2 DEF StoreJob, Block
        <3> QED BY <3>2, <3>3 DEF Store!Kinds
    <2>3. CASE call'.op = "chip"
        <3>1. StoreJob' = [kind |-> "erase", data |-> [x \in Addr |-> Bits]]
            BY <2>3 DEF StoreJob
        <3> QED BY <3>1 DEF Store!Kinds
    <2> QED BY <1>1, <2>1, <2>2, <2>3 DEF CallOK
<1>3a. PICK kind \in Store!Kinds : \E data :
         DOMAIN data \subseteq Addr /\ StoreJob' = [kind |-> kind, data |-> data]
    BY <1>3
<1>4. PICK data :
         DOMAIN data \subseteq Addr /\ StoreJob' = [kind |-> kind, data |-> data]
    BY <1>3a
<1>5. StoreJob' # Store!NoJob /\ DOMAIN StoreJob' = {"kind", "data"}
    BY <1>4 DEF Store!NoJob
<1>6. StoreJob'.kind \in Store!Kinds /\ DOMAIN StoreJob'.data \subseteq Addr
    BY <1>4
<1> QED BY <1>2, <1>5, <1>6 DEF Store!Begin

\* Everything that happens with power is a step of the store or none.
LEMMA PowerFailRefines ==
    ASSUME BlocksAreSectors, IInv, ProgressOK, PowerFail
    PROVE  Store!PowerFail
<1>1. CallOK /\ mem \in [Addr -> Byte]
    BY DEF IInv, TypeOK
<1>2. /\ Store!Range = Cells
      /\ \A x \in Cells : Store!After(x) = Wanted(x)
      /\ StoreJob.kind = "erase" <=> call.op \in {"erase", "chip"}
    BY <1>1, JobMeaning
<1>3. PICK torn \in [DOMAIN pending -> Byte] :
         /\ call.op = "write" =>
               \A x \in DOMAIN pending : pending[x] \subseteq torn[x] /\ torn[x] \subseteq mem[x]
         /\ mem' = [x \in Addr |-> IF x \in DOMAIN pending THEN torn[x] ELSE mem[x]]
    BY DEF PowerFail
<1>4. DOMAIN pending \subseteq Cells /\ Cells \subseteq Addr
    BY CellsInFlash DEF ProgressOK
<1>5. \A x \in Addr \ Cells : mem'[x] = mem[x]
    BY <1>3, <1>4
<1>6. ASSUME NEW x \in Cells
      PROVE  IF StoreJob.kind = "erase" THEN mem'[x] \subseteq Bits
             ELSE Store!After(x) \subseteq mem'[x] /\ mem'[x] \subseteq mem[x]
    <2>1. mem'[x] \in Byte
        BY <1>1, <1>3, <1>4
    <2>2. ASSUME call.op = "write"
          PROVE  Wanted(x) \subseteq mem'[x] /\ mem'[x] \subseteq mem[x]
        <3>1. CASE x \in DOMAIN pending
            <4>1. mem'[x] = torn[x] /\ pending[x] = Wanted(x)
                BY <1>3, <1>4, <3>1 DEF ProgressOK
            <4> QED BY <1>3, <2>2, <3>1, <4>1
        <3>2. CASE x \notin DOMAIN pending
            <4>1. mem'[x] = mem[x]
                BY <1>3, <1>4, <3>2
            <4> QED BY <2>2, <4>1 DEF Wanted
        <3> QED BY <3>1, <3>2
    <2>3. call.op \in {"write", "erase", "chip"}
        BY <1>1 DEF CallOK, NoCall, Cells
    <2> QED BY <1>2, <2>1, <2>2, <2>3 DEF Byte
<1>7. StoreJob' = Store!NoJob /\ resets' = resets + 1
    BY DEF PowerFail, Reboot, StoreJob, NoCall, Store!NoJob
<1> QED BY <1>2, <1>5, <1>6, <1>7 DEF Store!PowerFail

\* What the device finishes is work of the store.
LEMMA FinishJobRefines ==
    ASSUME BlocksAreSectors, IInv, ProgressOK, FinishJob
    PROVE  Store!Work
<1>1. /\ Store!Range = Cells
      /\ \A x \in Cells : Store!After(x) = Wanted(x)
    BY JobMeaning DEF IInv
<1>2. /\ mem' = [x \in Addr |-> IF x \in DOMAIN pending THEN pending[x] ELSE mem[x]]
      /\ UNCHANGED <<call, resets>>
    BY DEF FinishJob, driver
<1>3. DOMAIN pending \subseteq Cells /\ Cells \subseteq Addr
    BY CellsInFlash DEF ProgressOK
<1>4. \A x \in Addr \ Cells : mem'[x] = mem[x]
    BY <1>2, <1>3
<1>5. \A x \in Cells : mem'[x] \in {mem[x], Wanted(x)}
    BY <1>2, <1>3 DEF ProgressOK
<1>6. StoreJob' = StoreJob
    BY <1>2 DEF StoreJob, Block
<1> QED BY <1>1, <1>2, <1>4, <1>5, <1>6 DEF Store!Work

\* A call returns when its job is done.
LEMMA ReturnRefines ==
    ASSUME BlocksAreSectors, IInv, ProgressOK, WaitThenReturn
    PROVE  Store!Finish
<1>1. /\ StoreJob = Store!NoJob <=> call = NoCall
      /\ Store!Range = Cells
      /\ \A x \in Cells : Store!After(x) = Wanted(x)
    BY JobMeaning DEF IInv
<1>2. pc = "wait" /\ pending = None /\ ~More /\ call' = NoCall /\ UNCHANGED <<mem, resets>>
    BY DEF WaitThenReturn, At, Busy, device
<1>3. call # NoCall
    BY <1>2 DEF IInv, TypeOK
<1>4. Sent = Cells
    <2>1. CASE call.op = "write"
        <3>1. call.size \in Nat /\ offset \in Nat /\ offset <= call.size
            BY <2>1, GeometryAssumption DEF IInv, CallOK, TypeOK, NoCall
        <3>2. offset = call.size
            BY <1>2, <2>1, <3>1 DEF More
        <3> QED BY <2>1, <3>2 DEF Sent, Cells
    <2>2. CASE call.op # "write"
        BY <1>2, <2>2 DEF Sent
    <2> QED BY <2>1, <2>2
<1>5. \A x \in Cells : mem[x] = Wanted(x)
    BY <1>2, <1>4 DEF ProgressOK, None
<1>6. StoreJob' = Store!NoJob
    BY <1>2 DEF StoreJob, NoCall, Store!NoJob
<1> QED BY <1>1, <1>2, <1>3, <1>5, <1>6 DEF Store!Finish

\* Every step is a step of the store or changes nothing of it.
LEMMA StepRefines ==
    ASSUME BlocksAreSectors, "warm" \notin Resets, IInv, IInv', ProgressOK, [Next]_vars
    PROVE  [Store!Next]_(Store!vars)
<1>1. ASSUME UNCHANGED <<mem, call, resets>>
      PROVE  UNCHANGED Store!vars
    BY <1>1 DEF Store!vars, StoreJob, Block
<1>2. CASE Transaction \/ PollAgain \/ UNCHANGED vars
    <2>1. CASE WaitThenReturn
        BY <2>1, ReturnRefines DEF Store!Next
    <2>2. CASE ~WaitThenReturn
        BY <1>1, <1>2, <2>2 DEF Transaction, WriteEnable, PollWel, PageProgram, SectorErase,
                    ChipErase, WaitThenNextChunk, PollAgain, vars, device, driver
    <2> QED BY <2>1, <2>2
<1>3. CASE Calls
    <2>1. UNCHANGED <<mem, resets>> /\ pc = "idle" /\ (pc' = "enable" \/ UNCHANGED call)
        BY <1>3 DEF Calls, CallWrite, CallRead, CallWriteTooBig, CallSectorErase, CallEraseChip,
                    Call, device
    <2> QED BY <1>1, <2>1, BeginRefines DEF Store!Next
<1>4. CASE FinishJob
    BY <1>4, FinishJobRefines DEF Store!Next
<1>5. CASE PowerFail
    BY <1>5, PowerFailRefines DEF Store!Next
<1>6. ~WarmReset
    BY DEF WarmReset
<1> QED BY <1>2, <1>3, <1>4, <1>5, <1>6 DEF Next

\* The driver and the device are the store the file system relies on: whatever
\* the geometry, the contents and the order of calls, only the cells of the
\* call change, each to what the call makes of it or, when power fails, to
\* something between; and a call that returns has done all of its work.
THEOREM Refinement ==
    ASSUME BlocksAreSectors, "warm" \notin Resets
    PROVE  Spec => ImplementsNorStore
<1>1. Init => ProgressOK /\ Store!Init
    <2> SUFFICES ASSUME Init PROVE ProgressOK /\ Store!Init
        OBVIOUS
    <2>1. DOMAIN pending = {} /\ Sent = {} /\ ~orphan
        BY DEF Init, None, Sent, NoCall
    <2>2. StoreJob = Store!NoJob
        BY DEF Init, NoCall, StoreJob, Store!NoJob
    <2> QED BY <2>1, <2>2 DEF ProgressOK, Init, Store!Init, Byte, Store!Cell
<1>2. IInv /\ ProgressOK /\ [Next]_vars => ProgressOK'
    BY NextProgress
<1>3. IInv /\ IInv' /\ ProgressOK /\ [Next]_vars => [Store!Next]_(Store!vars)
    BY StepRefines
<1> QED BY <1>1, <1>2, <1>3, Invariance, PTL DEF Spec, ImplementsNorStore, Store!Spec
===========================================================================
