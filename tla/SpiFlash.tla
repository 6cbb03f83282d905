----------------------------- MODULE SpiFlash -----------------------------
(***************************************************************************)
(* The W25Q driver components/spi_flash/src/w25qxx.c under the block       *)
(* functions of components/fs/fs_init.c, one SPI transaction per step,     *)
(* with the NOR flash it talks to.  The device (write enable latch, busy   *)
(* state, page buffer that wraps) is external: it is modelled from what    *)
(* the driver sends it and polls it for.                                   *)
(*                                                                         *)
(* The file system issues one call at a time.  Power may fail at any       *)
(* point, and the processor alone may be reset while the device goes on.   *)
(***************************************************************************)
EXTENDS Integers, FiniteSets

CONSTANTS
    PageBytes,      \* PAGE_BYTE
    SectorBytes,    \* SECTOR_BYTE
    FlashBytes,     \* FLASH_BYTE
    CacheBytes,     \* LFS_CFG_CACHE_SIZE, what littlefs programs at once
    Bits,           \* the bits of a byte
    BlockBytes,     \* block_size of the file system
    EraseAddrs,     \* addresses the callers of W25x_SectorErase pass
    Resets,         \* the resets that happen: "power", "warm"
    MaxResets       \* bound of the model on their number

ASSUME GeometryAssumption ==
    /\ PageBytes \in Nat \ {0} /\ SectorBytes \in Nat \ {0} /\ FlashBytes \in Nat \ {0}
    /\ CacheBytes \in Nat \ {0} /\ BlockBytes \in Nat \ {0}
    /\ PageBytes % CacheBytes = 0
    /\ SectorBytes % PageBytes = 0
    /\ FlashBytes % SectorBytes = 0
ASSUME ResetsAssumption == Resets \subseteq {"power", "warm"} /\ MaxResets \in Nat

Addr == 0 .. FlashBytes - 1
Byte == SUBSET Bits
Sector(a) == {x \in Addr : x \div SectorBytes = (a % FlashBytes) \div SectorBytes}

VARIABLES
    mem,        \* the flash array
    wel,        \* write enable latch of the device
    pending,    \* what the device is programming or erasing: cells to bytes
    pc,         \* where the driver is
    call,       \* the call it serves
    offset,     \* bytes of the call already sent
    out,        \* what the last call returned
    orphan,     \* a processor reset left the device busy
    resets

device == <<mem, wel, pending>>
driver == <<pc, call, offset, out>>
vars == <<device, driver, orphan, resets>>

None == [x \in {} |-> Bits]
NoCall == [op |-> "none"]
Busy == pending # None

\* What littlefs_block_erase is asked to erase: it drops the size and erases
\* a sector.
Block(a) == a .. a + BlockBytes - 1

Init ==
    /\ mem \in [Addr -> Byte]
    /\ wel = FALSE
    /\ pending = None
    /\ pc = "idle"
    /\ call = NoCall
    /\ offset = 0
    /\ out = "none"
    /\ orphan = FALSE
    /\ resets = 0

--------------------------------------------------------------------------
(* The device.                                                             *)

\* A page program keeps its first address's page: later bytes wrap in it.
Target(a, i) == (a \div PageBytes) * PageBytes + ((a + i) % PageBytes)

\* The array after n bytes of data, sent from byte k on, went to address a.
Programmed(a, n, data, k) ==
    [x \in {Target(a, i) : i \in 0 .. n - 1} |->
        mem[x] \cap data[CHOOSE i \in k .. k + n - 1 : Target(a, i - k) = x]]

\* The device takes a program or an erase only when enabled and not busy.
Accept(job) == pending' = IF wel /\ ~Busy THEN job ELSE pending

FinishJob ==
    /\ Busy
    /\ mem' = [x \in Addr |-> IF x \in DOMAIN pending THEN pending[x] ELSE mem[x]]
    /\ pending' = None
    /\ wel' = FALSE
    /\ UNCHANGED <<driver, orphan, resets>>

--------------------------------------------------------------------------
(* The calls.                                                              *)

\* A write that the chunks of write_extend_flash keep inside pages.
FitsPages(a, n) == a % PageBytes = 0 \/ (a % PageBytes) + n <= PageBytes

Call(c, first) ==
    /\ pc = "idle"
    /\ call' = c
    /\ pc' = first
    /\ offset' = 0
    /\ out' = "none"
    /\ UNCHANGED <<device, orphan, resets>>

CallWrite(a, n) ==
    /\ FitsPages(a, n) /\ a + n <= FlashBytes
    /\ \E data \in [0 .. n - 1 -> Byte] :
          Call([op |-> "write", addr |-> a, size |-> n, data |-> data], "enable")

\* `size > PAGE_SIZE * PAGE_BYTE` refuses the call; fs_init.c drops the code.
CallWriteTooBig ==
    /\ pc = "idle"
    /\ out' = "FLASH_ERR_PARAM"
    /\ UNCHANGED <<device, pc, call, offset, orphan, resets>>

CallSectorErase(a) ==
    IF a > FlashBytes
    THEN /\ pc = "idle"
         /\ out' = "FLASH_ERR_PARAM"
         /\ UNCHANGED <<device, pc, call, offset, orphan, resets>>
    ELSE Call([op |-> "erase", addr |-> a], "enable")

CallEraseChip == Call([op |-> "chip"], "enable")

\* read_extend_flash does not wait for the device, and a busy device answers
\* nothing of the array.
CallRead(a, n) ==
    /\ pc = "idle"
    /\ a + n <= FlashBytes
    /\ out' = IF Busy THEN "garbage" ELSE "data"
    /\ UNCHANGED <<device, pc, call, offset, orphan, resets>>

--------------------------------------------------------------------------
(* The driver's transactions.                                              *)

At(from, to) == pc = from /\ pc' = to

\* write_enable sends WRITE_ENABLE once; a busy device ignores it.
WriteEnable ==
    /\ At("enable", "poll_wel")
    /\ wel' = IF Busy THEN wel ELSE TRUE
    /\ UNCHANGED <<mem, pending, call, offset, out, orphan, resets>>

PollWel ==
    /\ wel
    /\ At("poll_wel", call.op)
    /\ UNCHANGED <<device, call, offset, out, orphan, resets>>

\* The status register is read again: the loops of write_enable, wait_flash.
PollAgain ==
    /\ (pc = "poll_wel" /\ ~wel) \/ (pc = "wait" /\ Busy)
    /\ UNCHANGED vars

\* Mutant: one transaction for the whole call.
ChunkUnbounded == call.size - offset

Chunk == IF call.size - offset > PageBytes THEN PageBytes ELSE call.size - offset

\* Mutant: a whole page counted for a short last chunk.
PageProgramWholePage ==
    /\ At("write", "wait")
    /\ Accept(Programmed(call.addr + offset, Chunk, call.data, offset))
    /\ offset' = offset + PageBytes
    /\ UNCHANGED <<mem, wel, call, out, orphan, resets>>

PageProgram ==
    /\ At("write", "wait")
    /\ Accept(Programmed(call.addr + offset, Chunk, call.data, offset))
    /\ offset' = offset + Chunk
    /\ UNCHANGED <<mem, wel, call, out, orphan, resets>>

\* Mutant: the address taken for a sector number.
SectorEraseByNumber ==
    /\ At("erase", "wait")
    /\ Accept([x \in Sector(call.addr * SectorBytes) |-> Bits])
    /\ UNCHANGED <<mem, wel, call, offset, out, orphan, resets>>

\* ERASE_PROGRAM_RESUME precedes the erase; nothing is ever suspended.
SectorErase ==
    /\ At("erase", "wait")
    /\ Accept([x \in Sector(call.addr) |-> Bits])
    /\ UNCHANGED <<mem, wel, call, offset, out, orphan, resets>>

ChipErase ==
    /\ At("chip", "wait")
    /\ Accept([x \in Addr |-> Bits])
    /\ UNCHANGED <<mem, wel, call, offset, out, orphan, resets>>

\* wait_flash, then the next chunk or the return.
More == call.op = "write" /\ offset < call.size

\* Mutants: wait_flash left out between chunks, and before the return.
NextChunkNoWait ==
    /\ More
    /\ At("wait", "enable")
    /\ UNCHANGED <<device, call, offset, out, orphan, resets>>

ReturnNoWait ==
    /\ ~More
    /\ At("wait", "idle")
    /\ call' = NoCall
    /\ offset' = 0
    /\ out' = "FLASH_OK"
    /\ orphan' = FALSE
    /\ UNCHANGED <<device, resets>>

WaitThenNextChunk ==
    /\ ~Busy /\ More
    /\ At("wait", "enable")
    /\ UNCHANGED <<device, call, offset, out, orphan, resets>>

WaitThenReturn ==
    /\ ~Busy /\ ~More
    /\ At("wait", "idle")
    /\ call' = NoCall
    /\ offset' = 0
    /\ out' = "FLASH_OK"
    /\ orphan' = FALSE
    /\ UNCHANGED <<device, resets>>

--------------------------------------------------------------------------
(* Resets.                                                                 *)

Reboot ==
    /\ resets < MaxResets
    /\ resets' = resets + 1
    /\ pc' = "idle"
    /\ call' = NoCall
    /\ offset' = 0
    /\ out' = "none"

\* A torn program has cleared some of its bits, a torn erase leaves anything.
PowerFail ==
    /\ "power" \in Resets
    /\ Reboot
    /\ \E torn \in [DOMAIN pending -> Byte] :
          /\ call.op = "write" =>
                \A x \in DOMAIN pending : pending[x] \subseteq torn[x] /\ torn[x] \subseteq mem[x]
          /\ mem' = [x \in Addr |-> IF x \in DOMAIN pending THEN torn[x] ELSE mem[x]]
    /\ pending' = None
    /\ wel' = FALSE
    /\ orphan' = FALSE

\* The processor restarts and the device does not notice.  A page program cut
\* short is executed with the bytes that were sent.
WarmReset ==
    /\ "warm" \in Resets
    /\ Reboot
    /\ \E n \in 0 .. (IF pc = "write" THEN Chunk ELSE 0) :
          IF n = 0 THEN UNCHANGED pending
          ELSE Accept(Programmed(call.addr + offset, n, call.data, offset))
    /\ orphan' = (pending' # None)
    /\ UNCHANGED <<mem, wel>>

--------------------------------------------------------------------------

Transaction ==
    \/ WriteEnable \/ PollWel \/ PageProgram \/ SectorErase \/ ChipErase
    \/ WaitThenNextChunk \/ WaitThenReturn

Calls ==
    \/ \E a \in Addr, n \in 1 .. 2 * PageBytes : CallWrite(a, n) \/ CallRead(a, n)
    \/ CallWriteTooBig
    \/ \E a \in EraseAddrs : CallSectorErase(a)
    \/ CallEraseChip

Next == Transaction \/ PollAgain \/ Calls \/ FinishJob \/ PowerFail \/ WarmReset

Spec == Init /\ [][Next]_vars

\* The driver's loops run, and the device ends what it has started.
FairSpec == Spec /\ WF_vars(Transaction) /\ WF_vars(FinishJob)

--------------------------------------------------------------------------
(* Properties.                                                             *)

Stages == {"idle", "enable", "poll_wel", "write", "erase", "chip", "wait"}

TypeOK ==
    /\ mem \in [Addr -> Byte]
    /\ wel \in BOOLEAN
    /\ DOMAIN pending \subseteq Addr /\ \A x \in DOMAIN pending : pending[x] \in Byte
    /\ pc \in Stages
    /\ pc = "idle" <=> call = NoCall
    /\ offset \in Nat /\ (call.op = "write" => offset <= call.size)
    /\ orphan \in BOOLEAN
    /\ resets \in 0 .. MaxResets

\* Every program or erase the driver sends is one the device takes, unless a
\* processor reset left the device busy under it: the driver's own polling
\* never lets a command be ignored.
CommandsAccepted ==
    pc \in {"write", "erase", "chip"} /\ ~orphan => wel /\ ~Busy

\* Reads see the array, never the silence of a busy device, except after
\* such a reset.
ReadsAnswered == out = "garbage" => orphan

\* The erase the device carries out is the one that was asked for.
EraseHitsItsAddress ==
    call.op = "erase" /\ Busy /\ ~orphan => call.addr \in DOMAIN pending

\* The driver polls WEL for ever: its one WRITE_ENABLE was ignored.
Hung == pc = "poll_wel" /\ ~wel /\ ~Busy

\* Every call returns, or polls WEL for ever; the latter only when a processor
\* reset left the device busy.
CallsReturnUnlessReset == pc # "idle" ~> (pc = "idle" \/ (Hung /\ orphan))

\* The job the abstract store is working on.
StoreJob ==
    IF call.op = "write"
    THEN [kind |-> "program",
          data |-> [x \in call.addr .. call.addr + call.size - 1 |-> call.data[x - call.addr]]]
    ELSE IF call.op = "erase"
    THEN [kind |-> "erase", data |-> [x \in Block(call.addr) |-> Bits]]
    ELSE IF call.op = "chip"
    THEN [kind |-> "erase", data |-> [x \in Addr |-> Bits]]
    ELSE [kind |-> "none"]

\* Chunks, polls and power failures included, the driver and the device are
\* the store littlefs relies on: a call that returns is complete unless power
\* failed under it, and nothing outside its range ever changes.
Store == INSTANCE NorStore WITH cells <- mem, job <- StoreJob, failures <- resets
ImplementsNorStore == Store!Spec
==========================================================================
