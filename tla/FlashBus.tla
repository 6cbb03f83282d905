----------------------------- MODULE FlashBus -----------------------------
(***************************************************************************)
(* The bytes of the W25Q driver on the SPI bus: chip select, the frame the *)
(* device collects while it is selected, and the polls.  The driver has no *)
(* lock, so a task may preempt another between any two accesses.  Module   *)
(* SpiFlash takes each transaction for one step; this one says when that   *)
(* may be done.  The device is external.                                   *)
(***************************************************************************)
EXTENDS Integers, Sequences

CONSTANT Tasks      \* callers of the driver, by priority: numbers

TasksAssumption == Tasks \subseteq Nat /\ Tasks # {}

VARIABLES
    selected,   \* chip select is low
    frame,      \* what the device received since it was selected: <<task, byte>>
    wel, busy,  \* the device's status bits
    call,       \* the transactions left of each task's call
    at,         \* the next byte of the first of them; 0 before CS_LOW
    status,     \* the status byte a task read last
    taken,      \* the device took the program or erase of the task's call
    overlapped, \* a call began while another was in progress
    disturbed   \* a frame of two callers, or a call that returned undone

device == <<frame, wel, busy>>
vars == <<selected, device, call, at, status, taken, overlapped, disturbed>>

\* The driver's functions as the transactions they send; "wel" and "wip" are
\* the polls of write_enable and wait_flash, repeated until they succeed.
write_enable == <<"WRITE_ENABLE", "wel">>
\* littlefs writes its cache of 16 bytes, so the loop over chunks goes round
\* once; SpiFlash has the loop.
write_extend_flash == write_enable \o <<"PAGE_PROGRAM", "wip">>
read_extend_flash == <<"READ_DATA">>
\* Mutant: the sector erase returns without waiting.
SectorEraseNoWait == write_enable \o <<"ERASE_PROGRAM_RESUME", "SECTOR_ERASE_4KB">>
W25x_SectorErase == write_enable \o <<"ERASE_PROGRAM_RESUME", "SECTOR_ERASE_4KB", "wip">>
erase_chip == write_enable \o <<"CHIP_ERASE", "wip">>
get_jedce_id == <<"READ_JEDEC_ID">>
get_device_id == <<"READ_DEVICE_ID">>
flash_init == <<"RELEASE_POWER_DOWN_READ_DEVICE_ID">>
\* It sends WRITE_ENABLE in place of the command it is given.
write_register == <<"wip", "WRITE_ENABLE_DATA">>

\* What is called other than by the file system, if at all.
Others == {erase_chip, get_jedce_id, get_device_id, flash_init, write_register}

\* The command a transaction begins with, one byte each.
Command(transaction) ==
    IF transaction \in {"wel", "wip"} THEN "READ_STATUS_REGISTER_1"
    ELSE IF transaction = "WRITE_ENABLE_DATA" THEN "WRITE_ENABLE"
    ELSE transaction

\* write_addr: three bytes for the commands that have an address, here one.
write_addr(transaction) ==
    IF transaction \in {"PAGE_PROGRAM", "READ_DATA", "SECTOR_ERASE_4KB"}
    THEN <<"address">> ELSE <<>>

\* What follows; the bytes of a page or an identification are one.
Data(transaction) ==
    IF transaction \in {"wel", "wip"} THEN <<"status">>
    ELSE IF transaction \in {"WRITE_ENABLE", "ERASE_PROGRAM_RESUME",
                             "CHIP_ERASE", "SECTOR_ERASE_4KB"} THEN <<>>
    ELSE <<"data">>

Bytes(transaction) == <<Command(transaction)>> \o write_addr(transaction) \o Data(transaction)

Idle(t) == call[t] = <<>>
Reading == [wel |-> wel, busy |-> busy]

Init ==
    /\ selected \in BOOLEAN
    /\ frame = <<>>
    /\ wel = FALSE
    /\ busy = FALSE
    /\ call = [t \in Tasks |-> <<>>]
    /\ at = [t \in Tasks |-> -1]
    /\ status = [t \in Tasks |-> Reading]
    /\ taken = [t \in Tasks |-> FALSE]
    /\ overlapped = FALSE
    /\ disturbed = FALSE

--------------------------------------------------------------------------
(* The calls.  A task runs while none of a higher priority is in a call.   *)

Runs(t) == \A u \in Tasks : u > t => Idle(u)

SetUp == \A t \in Tasks : at[t] # -1

\* setup_peripherals_init: the pins, chip select high, the controller.
\* FsDriverInit does it before anything else is sent.
setup_peripherals_init ==
    /\ ~SetUp
    /\ selected' = FALSE
    /\ at' = [t \in Tasks |-> 0]
    /\ UNCHANGED <<device, call, status, taken, overlapped, disturbed>>

Call(t, function) ==
    /\ SetUp
    /\ Runs(t) /\ Idle(t)
    /\ call' = [call EXCEPT ![t] = function]
    /\ taken' = [taken EXCEPT ![t] = FALSE]
    /\ overlapped' = (overlapped \/ \E u \in Tasks : ~Idle(u))
    /\ UNCHANGED <<selected, device, at, status, disturbed>>

\* The block functions of fs_init.c.  Each answers LFS_ERR_OK whatever the
\* driver's function returned.
littlefs_block_read(t) == Call(t, read_extend_flash)
littlefs_block_write(t) == Call(t, write_extend_flash)
littlefs_block_erase(t) == Call(t, W25x_SectorErase)

\* CS_LOW: nothing new for the device when it is selected already.
Select(t) ==
    /\ Runs(t) /\ ~Idle(t) /\ at[t] = 0
    /\ selected' = TRUE
    /\ frame' = IF selected THEN frame ELSE <<>>
    /\ at' = [at EXCEPT ![t] = 1]
    /\ UNCHANGED <<wel, busy, call, status, taken, overlapped, disturbed>>

Opcode == IF frame = <<>> THEN "none" ELSE frame[1][2]

\* xchg_spi.  A device that is not selected, or is in another command,
\* leaves the input line to chance.
Exchange(t) ==
    /\ Runs(t) /\ ~Idle(t) /\ at[t] \in 1 .. Len(Bytes(Head(call[t])))
    /\ LET byte == Bytes(Head(call[t]))[at[t]] IN
       /\ frame' = IF selected THEN Append(frame, <<t, byte>>) ELSE frame
       /\ IF byte = "status"
          THEN \E answer \in [wel : BOOLEAN, busy : BOOLEAN] :
                  /\ selected /\ Opcode = "READ_STATUS_REGISTER_1" => answer = Reading
                  /\ status' = [status EXCEPT ![t] = answer]
          ELSE UNCHANGED status
       /\ disturbed' = (disturbed \/ (byte = "data" /\ Opcode = "READ_DATA" /\ busy))
    /\ at' = [at EXCEPT ![t] = @ + 1]
    /\ UNCHANGED <<selected, wel, busy, call, taken, overlapped>>

\* The frame the device acts on when it is deselected: only a whole one.
Whole(transaction) == [i \in DOMAIN frame |-> frame[i][2]] = Bytes(transaction)

Jobs == {"PAGE_PROGRAM", "SECTOR_ERASE_4KB", "CHIP_ERASE"}
Accepted == wel /\ ~busy /\ \E job \in Jobs : Whole(job)

\* Whether the transaction is over, or its poll goes round once more.
Polled(t) ==
    /\ Head(call[t]) = "wel" => status[t].wel
    /\ Head(call[t]) = "wip" => ~status[t].busy

\* CS_HIGH, and what the device makes of the frame.  The call goes on to its
\* next transaction; the file system is told LFS_ERR_OK when it returns.
Deselect(t) ==
    /\ Runs(t) /\ ~Idle(t) /\ at[t] > Len(Bytes(Head(call[t])))
    /\ selected' = FALSE
    /\ frame' = <<>>
    /\ wel' = (wel \/ (selected /\ ~busy /\ Whole("WRITE_ENABLE")))
    /\ busy' = (busy \/ (selected /\ Accepted))
    /\ taken' = [taken EXCEPT ![t] = @ \/ (selected /\ Accepted)]
    /\ call' = [call EXCEPT ![t] = IF Polled(t) THEN Tail(@) ELSE @]
    /\ at' = [at EXCEPT ![t] = 0]
    /\ disturbed' = \/ disturbed
                    \/ \E i \in DOMAIN frame : frame[i][1] # t
                    \/ Head(call[t]) \in Jobs /\ ~taken'[t]
    /\ UNCHANGED <<status, overlapped>>

\* The device ends what it does; a page or an erase cut by a mangled frame
\* ends like any other.
FinishJob ==
    /\ busy
    /\ busy' = FALSE
    /\ wel' = FALSE
    /\ UNCHANGED <<selected, frame, call, at, status, taken, overlapped, disturbed>>

--------------------------------------------------------------------------

Next ==
    \/ setup_peripherals_init
    \/ \E t \in Tasks :
          \/ littlefs_block_read(t) \/ littlefs_block_write(t) \/ littlefs_block_erase(t)
          \/ \E function \in Others : Call(t, function)
          \/ Select(t) \/ Exchange(t) \/ Deselect(t)
    \/ FinishJob

Spec == Init /\ [][Next]_vars

--------------------------------------------------------------------------
(* Properties.                                                             *)

Quiet == \A t \in Tasks : Idle(t)

TypeOK ==
    /\ {selected, wel, busy, overlapped, disturbed} \subseteq BOOLEAN
    /\ \A i \in DOMAIN frame : frame[i][1] \in Tasks
    /\ at \in [Tasks -> -1 .. 4]
    /\ status \in [Tasks -> [wel : BOOLEAN, busy : BOOLEAN]]

\* As long as no two calls overlapped, every frame is one caller's, every
\* program and erase is taken before its call returns LFS_ERR_OK, no read
\* meets a busy device, no poll of WEL waits for what never comes, and
\* between calls the device is deselected, disabled and ready.
BusUndisturbed ==
    ~overlapped =>
        /\ ~disturbed
        /\ \A t \in Tasks : ~Idle(t) /\ Head(call[t]) = "wel" => wel
        /\ Quiet /\ SetUp => ~selected /\ ~wel /\ ~busy
==========================================================================
