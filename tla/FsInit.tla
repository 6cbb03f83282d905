------------------------------ MODULE FsInit ------------------------------
(***************************************************************************)
(* FsDriverInit of components/fs/fs_init.c: it reads the mount points from *)
(* the device resource element by element (FsGetResource), lays out the    *)
(* partitions (PartitionsInit) and mounts a littlefs on each mount point.  *)
(* Any element may be missing and any mount may fail.                      *)
(*                                                                         *)
(* The resource interface, LOS_DiskPartition, mount and mkdir are not in   *)
(* the repository: they are modelled from what the driver passes to them   *)
(* and does with what they return.                                         *)
(***************************************************************************)
EXTENDS Integers

CONSTANTS
    MaxMounts,      \* LOSCFG_LFS_MAX_MOUNT_SIZE
    Paths,          \* mount points a resource may name
    Sizes, Counts,  \* block sizes and block counts it may give
    Partitions,     \* partition numbers it may give
    WordSize,       \* 2^32: a length is computed as uint32_t and kept as int
    Missing         \* an element the resource does not have; a null pointer

ASSUME MountsAssumption == MaxMounts \in Nat \ {0}
ASSUME SizesAssumption ==
    /\ Sizes \subseteq Nat /\ Counts \subseteq Nat /\ Partitions \subseteq Nat
    /\ WordSize \in Nat \ {0} /\ WordSize % 2 = 0
ASSUME MissingAssumption == Missing \notin {"HDF_SUCCESS", "HDF_FAILURE"}

Slots == 0 .. MaxMounts - 1
Elements(S) == [Slots -> S \cup {Missing}]

VARIABLES
    resource,       \* the property of the device object
    fs,             \* the static array fs[LOSCFG_LFS_MAX_MOUNT_SIZE]
    disk,           \* the arrays LOS_DiskPartition was given
    mounts,         \* mounted paths, each with what mount was passed
    pc, i, ret

cfg == <<resource, fs>>
vars == <<cfg, disk, mounts, pc, i, ret>>

NoMounts == [p \in {} |-> Missing]

Init ==
    /\ resource \in {Missing} \cup
          [num : -1 .. MaxMounts + 1,
           mount_points : Elements(Paths), partitions : Elements(Partitions),
           block_size : Elements(Sizes), block_count : Elements(Counts)]
    /\ fs = [s \in Slots |->
               [mount_point |-> Missing, context |-> 0, block_size |-> 0, block_count |-> 0]]
    /\ disk = Missing
    /\ mounts = NoMounts
    /\ pc = "property"
    /\ i = 0
    /\ ret = Missing

Goto(from, to) == pc = from /\ pc' = to

--------------------------------------------------------------------------
(* FsGetResource.                                                          *)

\* Mutant: the result of FsGetResource is not tested.
FailIgnored(from) ==
    /\ Goto(from, "partitions_init")
    /\ ret' = "HDF_FAILURE"
    /\ UNCHANGED <<cfg, disk, mounts, i>>

Fail(from) ==
    /\ Goto(from, "done")
    /\ ret' = "HDF_FAILURE"
    /\ UNCHANGED <<cfg, disk, mounts, i>>

\* No device object, or no resource interface.
NoInterface == Fail("property")

NoProperty ==
    /\ resource = Missing
    /\ Goto("property", "partitions_init")
    /\ UNCHANGED <<cfg, disk, mounts, i, ret>>

GetElemNum ==
    /\ resource # Missing
    /\ IF resource.num \in 0 .. MaxMounts
       THEN Goto("property", "mount_points") /\ UNCHANGED <<cfg, disk, mounts, i, ret>>
       ELSE Fail("property")

\* One Get...ArrayElem of entry i: it stores the element or fails the driver.
GetElem(from, to, element, field) ==
    /\ pc = from
    /\ i < resource.num
    /\ IF element = Missing THEN Fail(from)
       ELSE /\ Goto(from, to)
            /\ fs' = [fs EXCEPT ![i][field] = element]
            /\ UNCHANGED <<resource, disk, mounts, i, ret>>

GetMountPoint == GetElem("mount_points", "partitions", resource.mount_points[i], "mount_point")
GetPartition == GetElem("partitions", "block_size", resource.partitions[i], "context")
GetBlockSize == GetElem("block_size", "block_count", resource.block_size[i], "block_size")
GetBlockCount == GetElem("block_count", "next", resource.block_count[i], "block_count")

NextEntry ==
    /\ Goto("next", "mount_points")
    /\ i' = i + 1
    /\ UNCHANGED <<cfg, disk, mounts, ret>>

LastEntry ==
    /\ Goto("mount_points", "partitions_init")
    /\ i = resource.num
    /\ i' = 0
    /\ UNCHANGED <<cfg, disk, mounts, ret>>

--------------------------------------------------------------------------
(* PartitionsInit.                                                         *)

\* Mutant: the arrays of PartitionsInit hold unsigned lengths.
AsUnsigned(n) == n % WordSize

\* A uint32_t kept in an int; `nextAddr +=` wraps the same way.
AsInt(n) ==
    LET u == n % WordSize IN IF u >= WordSize \div 2 THEN u - WordSize ELSE u

Length(s) == AsInt(fs[s].block_count * fs[s].block_size)

\* Mutant: nextAddr is advanced before it is stored.
AddrArrayEarly ==
    LET addr[s \in Slots] == AsInt(Length(s) + (IF s = 0 THEN 0 ELSE addr[s - 1]))
    IN  addr

\* The cumulative addresses.
AddrArray ==
    LET addr[s \in Slots] == IF s = 0 THEN 0 ELSE AsInt(addr[s - 1] + Length(s - 1))
    IN  addr

PartitionsInit ==
    /\ Goto("partitions_init", "mount")
    /\ disk' = [length |-> [s \in Slots |-> Length(s)], addr |-> AddrArray]
    /\ UNCHANGED <<cfg, mounts, i, ret>>

--------------------------------------------------------------------------
(* The mount loop of FsDriverInit.                                         *)

Advance == i' = i + 1 /\ UNCHANGED <<cfg, disk, pc, ret>>

SkipEmpty ==
    /\ pc = "mount" /\ i < MaxMounts
    /\ fs[i].mount_point = Missing
    /\ Advance /\ UNCHANGED mounts

\* Mutant: partCfg is filled once, before the loop.
MountSameCfg ==
    /\ pc = "mount" /\ i < MaxMounts
    /\ fs[i].mount_point \notin DOMAIN mounts \cup {Missing}
    /\ mounts' = [p \in DOMAIN mounts \cup {fs[i].mount_point} |->
                    [partNo |-> 0, blockSize |-> fs[0].block_size,
                     blockCount |-> fs[0].block_count]]
    /\ Advance

\* partNo is 0 in the one partCfg every mount uses.
Mount ==
    /\ pc = "mount" /\ i < MaxMounts
    /\ fs[i].mount_point \notin DOMAIN mounts \cup {Missing}
    /\ mounts' = [p \in DOMAIN mounts \cup {fs[i].mount_point} |->
                    IF p \in DOMAIN mounts THEN mounts[p]
                    ELSE [partNo |-> 0, blockSize |-> fs[i].block_size,
                          blockCount |-> fs[i].block_count]]
    /\ Advance

\* mount returned an error, which is logged; so is any error of mkdir.
MountFails ==
    /\ pc = "mount" /\ i < MaxMounts
    /\ fs[i].mount_point # Missing
    /\ Advance /\ UNCHANGED mounts

AllMounted ==
    /\ i = MaxMounts
    /\ Goto("mount", "done")
    /\ ret' = "HDF_SUCCESS"
    /\ UNCHANGED <<cfg, disk, mounts, i>>

Next ==
    \/ NoInterface \/ NoProperty \/ GetElemNum
    \/ GetMountPoint \/ GetPartition \/ GetBlockSize \/ GetBlockCount
    \/ NextEntry \/ LastEntry
    \/ PartitionsInit
    \/ SkipEmpty \/ Mount \/ MountFails \/ AllMounted

Spec == Init /\ [][Next]_vars

--------------------------------------------------------------------------
(* Properties.                                                             *)

Labels == {"property", "mount_points", "partitions", "block_size", "block_count",
           "next", "partitions_init", "mount", "done"}
Ints == -(WordSize \div 2) .. WordSize \div 2 - 1

TypeOK ==
    /\ pc \in Labels
    /\ i \in 0 .. MaxMounts
    /\ fs \in [Slots -> [mount_point : Paths \cup {Missing}, context : Nat,
                         block_size : Nat, block_count : Nat]]
    /\ disk # Missing =>
          \A s \in Slots : disk.length[s] \in Ints /\ disk.addr[s] \in Ints
    /\ DOMAIN mounts \subseteq Paths
    /\ ret \in {Missing, "HDF_SUCCESS", "HDF_FAILURE"}
    /\ ret = Missing <=> pc # "done"

\* A resource with a missing element fails the driver before it partitions
\* the disk or mounts anything, however far the parse had come.
FailureTouchesNothing ==
    ret = "HDF_FAILURE" => disk = Missing /\ mounts = NoMounts

\* A mount uses the geometry of its own entry, never a mix of two entries or
\* of an entry that was only partly read.
MountsItsEntry ==
    \A p \in DOMAIN mounts : \E s \in Slots :
       /\ s < resource.num
       /\ resource.mount_points[s] = p
       /\ resource.partitions[s] # Missing
       /\ resource.block_size[s] = mounts[p].blockSize
       /\ resource.block_count[s] = mounts[p].blockCount

Sum[s \in 0 .. MaxMounts] ==
    IF s = 0 THEN 0 ELSE Sum[s - 1] + fs[s - 1].block_count * fs[s - 1].block_size

Overlap(a, m, b, n) == a < b + n /\ b < a + m

\* The partitions lie side by side from address 0, as long as their total
\* fits an int.
PartitionsDisjoint ==
    disk # Missing /\ Sum[MaxMounts] < WordSize \div 2 =>
       \A s, t \in Slots :
          /\ disk.addr[s] >= 0 /\ disk.addr[s] + disk.length[s] <= Sum[MaxMounts]
          /\ s # t => ~Overlap(disk.addr[s], disk.length[s], disk.addr[t], disk.length[t])

\* Each entry of the resource names the partition laid out for it.
OwnNumbers == \A s \in Slots : s < resource.num => resource.partitions[s] = s

\* Two mounted file systems use different parts of the flash: the resource
\* gives each entry the number of the partition that PartitionsInit lays out for
\* it, and FsGetResource reads it.
MountsDisjoint ==
    mounts # NoMounts /\ OwnNumbers /\ Sum[MaxMounts] < WordSize \div 2 =>
       \A p, q \in DOMAIN mounts :
          p # q => ~Overlap(disk.addr[mounts[p].partNo],
                            mounts[p].blockCount * mounts[p].blockSize,
                            disk.addr[mounts[q].partNo],
                            mounts[q].blockCount * mounts[q].blockSize)
==========================================================================
