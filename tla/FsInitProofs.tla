---------------------------- MODULE FsInitProofs ----------------------------
(***************************************************************************)
(* Proofs about FsInit, for any resource, any number of mount points and   *)
(* any width of the words the lengths and addresses are computed in.       *)
(***************************************************************************)
EXTENDS FsInit, Recursion, TLAPS

--------------------------------------------------------------------------
(* Words.                                                                  *)

\* What is kept in an int is one, and itself if it is one already.
LEMMA AsIntOf ==
    ASSUME NEW n \in Int
    PROVE  AsInt(n) \in Ints /\ (n \in Ints => AsInt(n) = n)
<1> DEFINE h == WordSize \div 2
           u == n % WordSize
<1>1. h \in Nat /\ WordSize = 2 * h /\ h # 0
    BY SizesAssumption
<1>2. u \in 0 .. WordSize - 1 /\ (n \in -h .. h - 1 => u = IF n >= 0 THEN n ELSE n + WordSize)
    <2>1. WordSize \in Nat \ {0}
        BY SizesAssumption
    <2> HIDE DEF h
    <2>2. u \in 0 .. WordSize - 1
        BY <2>1
    <2>3. n \in 0 .. h - 1 => u = n
        BY <1>1, <2>1
    <2>4. n \in -h .. -1 => u = n + WordSize
        BY <1>1, <2>1
    <2> QED BY <1>1, <2>2, <2>3, <2>4
<1>3. AsInt(n) = IF u >= h THEN u - WordSize ELSE u
    BY DEF AsInt
<1>4. Ints = -h .. h - 1
    BY DEF Ints
<1> HIDE DEF h, u
<1> QED BY <1>1, <1>2, <1>3, <1>4

\* The length of a partition is an int.
LEMMA LengthOf ==
    ASSUME TypeOK, NEW s \in Slots
    PROVE  /\ fs[s].block_count * fs[s].block_size \in Nat
           /\ Length(s) \in Ints
<1>1. fs[s].block_count \in Nat /\ fs[s].block_size \in Nat
    BY DEF TypeOK
<1>2. fs[s].block_count * fs[s].block_size \in Nat
    BY <1>1
<1> QED BY <1>2, AsIntOf DEF Length

\* The cumulative addresses are ints, each the one before plus its length.
LEMMA AddrArrayIs ==
    ASSUME TypeOK
    PROVE  /\ AddrArray \in [Slots -> Ints]
           /\ AddrArray[0] = 0
           /\ \A s \in Slots : s # 0 => AddrArray[s] = AsInt(AddrArray[s - 1] + Length(s - 1))
<1> DEFINE n == MaxMounts - 1
           F == [s \in 0 .. n |-> [v \in Ints |-> IF s = 0 THEN 0 ELSE AsInt(v + Length(s - 1))]]
           Is(f) == f = [s \in Slots |-> IF s = 0 THEN 0 ELSE AsInt(f[s - 1] + Length(s - 1))]
<1>1. n \in Nat /\ Slots = 0 .. n
    BY MountsAssumption DEF Slots
<1>2. 0 \in Ints /\ Ints \subseteq Int
    BY SizesAssumption DEF Ints
<1>3. \A s \in 0 .. n, v \in Ints : s # 0 => AsInt(v + Length(s - 1)) \in Ints
    <2>1. ASSUME NEW s \in 0 .. n, NEW v \in Ints, s # 0
          PROVE  AsInt(v + Length(s - 1)) \in Ints
        <3>1. s - 1 \in Slots
            BY <1>1, <2>1
        <3>2. Length(s - 1) \in Int /\ v \in Int
            BY <1>2, <3>1, LengthOf
        <3> QED BY <3>2, AsIntOf
    <2> QED BY <2>1
<1>4. F \in [0 .. n -> [Ints -> Ints]]
    BY <1>2, <1>3
<1>5. PICK f \in [0 .. n -> Ints] : Recursive(f, 0, F, n)
    <2> HIDE DEF F, n
    <2> QED BY <1>1, <1>2, <1>4, RecursionDefines
<1>6. Is(f)
    <2>1. \A s \in Slots : f[s] = IF s = 0 THEN 0 ELSE AsInt(f[s - 1] + Length(s - 1))
        <3> SUFFICES ASSUME NEW s \in Slots
                     PROVE  f[s] = IF s = 0 THEN 0 ELSE AsInt(f[s - 1] + Length(s - 1))
            OBVIOUS
        <3>1. s # 0 => s - 1 \in 0 .. n
            BY <1>1
        <3>2. s # 0 => f[s - 1] \in Ints
            BY <1>5, <3>1
        <3> QED BY <1>1, <1>5, <3>1, <3>2 DEF Recursive
    <2> QED BY <1>1, <2>1
<1>7. Is(AddrArray)
    <2>1. AddrArray = CHOOSE g : Is(g)
        BY DEF AddrArray
    <2> QED BY <1>6, <2>1
<1> HIDE DEF Is
<1> DEFINE T == {s \in Slots : AddrArray[s] \in Ints}
<1>8. 0 \in T /\ AddrArray[0] = 0
    BY <1>1, <1>2, <1>7 DEF Is
<1>9. ASSUME NEW m \in 0 .. n - 1, m \in T
      PROVE  m + 1 \in T
    <2>1. m + 1 \in Slots /\ m + 1 # 0 /\ (m + 1) - 1 = m
        BY <1>1
    <2>2. AddrArray[m + 1] = AsInt(AddrArray[m] + Length(m))
        BY <1>7, <2>1 DEF Is
    <2>3. AsInt(AddrArray[m] + Length(m)) \in Ints
        <3>1. m \in Slots /\ AddrArray[m] \in Ints
            BY <1>9
        <3>2. AddrArray[m] \in Int /\ Length(m) \in Int
            BY <1>2, <3>1, LengthOf
        <3> QED BY <3>2, AsIntOf
    <2> QED BY <2>1, <2>2, <2>3
<1>10. \A m \in 0 .. n : m \in T
    <2> HIDE DEF T, n
    <2> QED BY <1>1, <1>8, <1>9, InductionTo
<1> QED BY <1>1, <1>7, <1>8, <1>10 DEF Is

--------------------------------------------------------------------------
(* The layout of the partitions.                                           *)

\* The bytes of an entry's partition, as they are and not as a word.
Bytes(s) == fs[s].block_count * fs[s].block_size

\* The sum of the first s partitions is what Sum[s] says.
LEMMA SumIs ==
    ASSUME TypeOK
    PROVE  /\ Sum \in [0 .. MaxMounts -> Nat]
           /\ Sum[0] = 0
           /\ \A s \in Slots : Sum[s + 1] = Sum[s] + Bytes(s)
<1> DEFINE F == [s \in 0 .. MaxMounts |-> [v \in Nat |-> IF s = 0 THEN 0 ELSE v + Bytes(s - 1)]]
           Is(f) == f = [s \in 0 .. MaxMounts |-> IF s = 0 THEN 0 ELSE f[s - 1] + Bytes(s - 1)]
<1>1. MaxMounts \in Nat /\ \A s \in 0 .. MaxMounts : s # 0 => s - 1 \in Slots
    BY MountsAssumption DEF Slots
<1>2. \A s \in Slots : Bytes(s) \in Nat
    BY LengthOf DEF Bytes
<1>3. F \in [0 .. MaxMounts -> [Nat -> Nat]]
    <2>1. \A s \in 0 .. MaxMounts, v \in Nat : s # 0 => v + Bytes(s - 1) \in Nat
        BY <1>1, <1>2
    <2> QED BY <2>1
<1>4. PICK f \in [0 .. MaxMounts -> Nat] : Recursive(f, 0, F, MaxMounts)
    <2> HIDE DEF F
    <2> QED BY <1>1, <1>3, RecursionDefines
<1>5. Is(f)
    <2>1. \A s \in 0 .. MaxMounts : f[s] = IF s = 0 THEN 0 ELSE f[s - 1] + Bytes(s - 1)
        <3> SUFFICES ASSUME NEW s \in 0 .. MaxMounts
                     PROVE  f[s] = IF s = 0 THEN 0 ELSE f[s - 1] + Bytes(s - 1)
            OBVIOUS
        <3>1. s # 0 => s - 1 \in 0 .. MaxMounts
            BY <1>1
        <3>2. s # 0 => f[s - 1] \in Nat
            BY <1>4, <3>1
        <3> QED BY <1>1, <1>4, <3>1, <3>2 DEF Recursive
    <2> QED BY <2>1
<1>6. Is(Sum)
    <2>1. Sum = CHOOSE g : Is(g)
        BY DEF Sum, Bytes
    <2> QED BY <1>5, <2>1
<1> HIDE DEF Is
<1> DEFINE T == {s \in 0 .. MaxMounts : Sum[s] \in Nat}
<1>7. 0 \in T /\ Sum[0] = 0
    BY <1>1, <1>6 DEF Is
<1>8. \A s \in Slots : Sum[s + 1] = Sum[s] + Bytes(s)
    <2> SUFFICES ASSUME NEW s \in Slots PROVE Sum[s + 1] = Sum[s] + Bytes(s)
        OBVIOUS
    <2>1. s + 1 \in 0 .. MaxMounts /\ s + 1 # 0 /\ (s + 1) - 1 = s
        BY <1>1 DEF Slots
    <2> QED BY <1>6, <2>1 DEF Is
<1>9. ASSUME NEW m \in 0 .. MaxMounts - 1, m \in T
      PROVE  m + 1 \in T
    <2>1. m \in Slots /\ m + 1 \in 0 .. MaxMounts /\ Sum[m] \in Nat
        BY <1>1, <1>9 DEF Slots
    <2>2. Sum[m + 1] = Sum[m] + Bytes(m) /\ Bytes(m) \in Nat
        BY <1>2, <1>8, <2>1
    <2> QED BY <2>1, <2>2
<1>10. \A m \in 0 .. MaxMounts : m \in T
    <2> HIDE DEF T
    <2> QED BY <1>1, <1>7, <1>9, InductionTo
<1> QED BY <1>6, <1>7, <1>8, <1>10 DEF Is

\* The sums grow.
LEMMA SumGrows ==
    ASSUME TypeOK
    PROVE  \A t \in 0 .. MaxMounts : \A s \in 0 .. t : Sum[s] <= Sum[t]
<1> DEFINE T == {t \in 0 .. MaxMounts : \A s \in 0 .. t : Sum[s] <= Sum[t]}
<1>1. MaxMounts \in Nat
    BY MountsAssumption
<1>2. Sum \in [0 .. MaxMounts -> Nat]
    BY SumIs
<1>3. 0 \in T
    BY <1>1, <1>2
<1>4. ASSUME NEW m \in 0 .. MaxMounts - 1, m \in T
      PROVE  m + 1 \in T
    <2>1. m \in Slots /\ m + 1 \in 0 .. MaxMounts
        BY <1>1 DEF Slots
    <2>2. Sum[m + 1] = Sum[m] + Bytes(m)
        BY <2>1, SumIs
    <2>3. Bytes(m) \in Nat
        BY <2>1, LengthOf DEF Bytes
    <2>4. Sum[m] \in Nat /\ Sum[m + 1] \in Nat /\ Sum[m] <= Sum[m + 1]
        <3>1. m \in 0 .. MaxMounts
            BY <1>1
        <3>2. Sum[m] \in Nat /\ Sum[m + 1] \in Nat
            BY <1>2, <2>1, <3>1
        <3> QED BY <2>2, <2>3, <3>2
    <2>5. ASSUME NEW s \in 0 .. m + 1
          PROVE  Sum[s] <= Sum[m + 1]
        <3>1. CASE s = m + 1
            BY <1>2, <2>1, <3>1
        <3>2. CASE s # m + 1
            <4>1. s \in 0 .. m
                BY <3>2
            <4>2. Sum[s] <= Sum[m]
                BY <1>4, <4>1
            <4>3. s \in 0 .. MaxMounts
                BY <1>1, <4>1
            <4>4. Sum[s] \in Nat
                BY <1>2, <4>3
            <4> QED BY <2>4, <4>2, <4>4
        <3> QED BY <3>1, <3>2
    <2> QED BY <2>1, <2>5
<1>5. \A m \in 0 .. MaxMounts : m \in T
    <2> HIDE DEF T
    <2> QED BY <1>1, <1>3, <1>4, InductionTo
<1> QED BY <1>5

--------------------------------------------------------------------------
(* The inductive invariant.                                                *)

Blank == [mount_point |-> Missing, context |-> 0, block_size |-> 0, block_count |-> 0]

Parsing == {"mount_points", "partitions", "block_size", "block_count", "next"}

\* The property is one of those Init allows.
ResourceOK ==
    resource # Missing =>
       resource \in [num : -1 .. MaxMounts + 1,
                     mount_points : Elements(Paths), partitions : Elements(Partitions),
                     block_size : Elements(Sizes), block_count : Elements(Counts)]

\* Entry s is the whole of entry s of the resource.
Whole(s) ==
    /\ resource # Missing /\ s < resource.num
    /\ fs[s].mount_point = resource.mount_points[s]
    /\ resource.partitions[s] # Missing
    /\ fs[s].block_size = resource.block_size[s]
    /\ fs[s].block_count = resource.block_count[s]

\* While it parses, the entries before i are whole, those after it are empty,
\* and entry i has the elements up to the one it is about to read.
ParseOK ==
    /\ pc = "property" => i = 0 /\ \A s \in Slots : fs[s].mount_point = Missing
    /\ pc \in Parsing =>
          /\ resource # Missing /\ resource.num \in i .. MaxMounts
          /\ \A s \in Slots : s < i => Whole(s)
          /\ \A s \in Slots : s > i => fs[s].mount_point = Missing
    /\ pc = "mount_points" => \A s \in Slots : s >= i => fs[s].mount_point = Missing
    /\ pc \in Parsing \ {"mount_points"} =>
          i < resource.num /\ fs[i].mount_point = resource.mount_points[i]
    /\ pc \in {"block_size", "block_count", "next"} => resource.partitions[i] # Missing
    /\ pc \in {"block_count", "next"} => fs[i].block_size = resource.block_size[i]
    /\ pc = "next" => fs[i].block_count = resource.block_count[i]
    /\ pc \in {"partitions_init", "mount"} =>
          \A s \in Slots : fs[s].mount_point # Missing => Whole(s)
    /\ pc = "partitions_init" => i = 0

\* Nothing is partitioned or mounted before the parse is over.
UntouchedOK == pc \notin {"mount", "done"} => disk = Missing /\ mounts = NoMounts

\* What LOS_DiskPartition was given is the layout of the entries.
DiskOK ==
    disk # Missing =>
       /\ pc \in {"mount", "done"}
       /\ \A s \in Slots : disk.length[s] = Length(s)
       /\ disk.addr[0] = 0
       /\ \A s \in Slots : s # 0 => disk.addr[s] = AsInt(disk.addr[s - 1] + Length(s - 1))

IInv ==
    /\ TypeOK /\ ResourceOK /\ ParseOK /\ UntouchedOK /\ DiskOK
    /\ FailureTouchesNothing /\ MountsItsEntry

\* While the total fits an int no word wraps: addresses are sums.
LEMMA LayoutIs ==
    ASSUME TypeOK, DiskOK, disk # Missing, Sum[MaxMounts] < WordSize \div 2
    PROVE  \A s \in Slots : /\ disk.length[s] = Bytes(s) /\ Bytes(s) \in Nat
                            /\ disk.addr[s] = Sum[s]
<1> DEFINE h == WordSize \div 2
<1>1. MaxMounts \in Nat \ {0} /\ h \in Nat /\ Ints = -h .. h - 1
    BY MountsAssumption, SizesAssumption DEF Ints
<1> HIDE DEF h
<1>2. Sum \in [0 .. MaxMounts -> Nat] /\ Sum[0] = 0 /\ Sum[MaxMounts] < h
    BY SumIs DEF h
<1>3. \A s \in 0 .. MaxMounts : Sum[s] \in Nat /\ Sum[s] < h
    <2>1. \A s \in 0 .. MaxMounts : Sum[s] <= Sum[MaxMounts]
        BY <1>1, SumGrows
    <2> QED BY <1>1, <1>2, <2>1
<1>4. ASSUME NEW s \in Slots
      PROVE  Length(s) = Bytes(s) /\ Bytes(s) \in Nat /\ Sum[s + 1] = Sum[s] + Bytes(s)
    <2>1. Bytes(s) \in Nat /\ Sum[s + 1] = Sum[s] + Bytes(s)
        BY LengthOf, SumIs DEF Bytes
    <2>2. Sum[s] \in Nat /\ Sum[s + 1] \in Nat /\ Sum[s + 1] < h
        BY <1>1, <1>3 DEF Slots
    <2>3. Bytes(s) \in Ints
        BY <1>1, <2>1, <2>2
    <2>4. Length(s) = AsInt(Bytes(s))
        BY DEF Length, Bytes
    <2> QED BY <2>1, <2>3, <2>4, AsIntOf
<1> DEFINE T == {s \in Slots : disk.addr[s] = Sum[s]}
           n == MaxMounts - 1
<1>5. n \in Nat /\ Slots = 0 .. n
    BY <1>1 DEF Slots
<1>6. 0 \in T
    BY <1>2, <1>5 DEF DiskOK
<1>7. ASSUME NEW m \in 0 .. n - 1, m \in T
      PROVE  m + 1 \in T
    <2>1. m \in Slots /\ m + 1 \in Slots /\ m + 1 # 0 /\ (m + 1) - 1 = m
        BY <1>5
    <2>2. disk.addr[m + 1] = AsInt(Sum[m] + Bytes(m))
        BY <1>4, <1>7, <2>1 DEF DiskOK
    <2>3. Sum[m + 1] = Sum[m] + Bytes(m)
        BY <1>4, <2>1
    <2>4. Sum[m + 1] \in Ints /\ Sum[m + 1] \in Int
        BY <1>1, <1>3, <2>1 DEF Slots
    <2> QED BY <2>1, <2>2, <2>3, <2>4, AsIntOf
<1>8. \A m \in 0 .. n : m \in T
    <2> HIDE DEF T, n
    <2> QED BY <1>5, <1>6, <1>7, InductionTo
<1> QED BY <1>4, <1>5, <1>8 DEF DiskOK
\* The partitions lie side by side.
LEMMA PartitionLayout == TypeOK /\ DiskOK => PartitionsDisjoint
<1> SUFFICES ASSUME TypeOK, DiskOK, disk # Missing, Sum[MaxMounts] < WordSize \div 2
             PROVE  \A s, t \in Slots :
                       /\ disk.addr[s] >= 0 /\ disk.addr[s] + disk.length[s] <= Sum[MaxMounts]
                       /\ s # t => ~Overlap(disk.addr[s], disk.length[s],
                                            disk.addr[t], disk.length[t])
    BY DEF PartitionsDisjoint
<1>1. MaxMounts \in Nat \ {0}
    BY MountsAssumption
<1>2. ASSUME NEW s \in Slots
      PROVE  /\ disk.addr[s] = Sum[s] /\ disk.length[s] = Bytes(s)
             /\ Sum[s] \in Nat /\ Bytes(s) \in Nat
             /\ \A t \in 0 .. MaxMounts : s < t => Sum[s] + Bytes(s) <= Sum[t]
    <2>1. s \in 0 .. MaxMounts /\ s + 1 \in 0 .. MaxMounts
        BY <1>1 DEF Slots
    <2>2. disk.addr[s] = Sum[s] /\ disk.length[s] = Bytes(s) /\ Bytes(s) \in Nat
        BY LayoutIs
    <2>3. Sum[s] \in Nat /\ Sum[s + 1] = Sum[s] + Bytes(s)
        BY <2>1, SumIs
    <2>4. ASSUME NEW t \in 0 .. MaxMounts, s < t
          PROVE  Sum[s + 1] <= Sum[t]
        <3>1. s + 1 \in 0 .. t
            BY <1>1, <2>1, <2>4
        <3> QED BY <3>1, SumGrows
    <2> QED BY <2>2, <2>3, <2>4
<1> TAKE s, t \in Slots
<1>3. MaxMounts \in 0 .. MaxMounts /\ s < MaxMounts /\ s \in 0 .. MaxMounts /\ t \in 0 .. MaxMounts
    BY <1>1 DEF Slots
<1>4. disk.addr[s] >= 0 /\ disk.addr[s] + disk.length[s] <= Sum[MaxMounts]
    BY <1>2, <1>3
<1>5. ASSUME s # t
      PROVE  ~Overlap(disk.addr[s], disk.length[s], disk.addr[t], disk.length[t])
    <2> DEFINE a == Sum[s]
               b == Sum[t]
               m == Bytes(s)
               n == Bytes(t)
    <2>1. disk.addr[s] = a /\ disk.length[s] = m /\ disk.addr[t] = b /\ disk.length[t] = n
        BY <1>2
    <2>2. a \in Nat /\ b \in Nat /\ m \in Nat /\ n \in Nat
        BY <1>2
    <2>3. (s < t => a + m <= b) /\ (t < s => b + n <= a)
        BY <1>2, <1>3
    <2>4. s < t \/ t < s
        BY <1>5 DEF Slots
    <2> HIDE DEF a, b, m, n
    <2> QED BY <2>1, <2>2, <2>3, <2>4 DEF Overlap
<1> QED BY <1>4, <1>5

--------------------------------------------------------------------------
(* The parse.                                                              *)

\* Entry i of a resource, when there is one, is an element or missing.
LEMMA ResourceEntry ==
    ASSUME IInv, pc \in Parsing, i < resource.num
    PROVE  /\ i \in Slots /\ i + 1 \in i .. resource.num
           /\ resource.mount_points[i] \in Paths \cup {Missing}
           /\ resource.partitions[i] \in Nat \cup {Missing}
           /\ resource.block_size[i] \in Nat \cup {Missing}
           /\ resource.block_count[i] \in Nat \cup {Missing}
<1>1. resource # Missing /\ resource.num \in i .. MaxMounts /\ i \in 0 .. MaxMounts
    BY DEF IInv, ParseOK, TypeOK
<1>2. MaxMounts \in Nat
    BY MountsAssumption
<1>3. i \in Slots /\ i + 1 \in i .. resource.num
    BY <1>1, <1>2 DEF Slots
<1>4. resource \in [num : -1 .. MaxMounts + 1,
                    mount_points : Elements(Paths), partitions : Elements(Partitions),
                    block_size : Elements(Sizes), block_count : Elements(Counts)]
    BY <1>1 DEF IInv, ResourceOK
<1> QED BY <1>3, <1>4, SizesAssumption DEF Elements

\* A step that fails leaves everything else alone.
LEMMA Failing ==
    ASSUME IInv, NEW from \in Labels \ {"mount", "done"}, Fail(from)
    PROVE  IInv'
<1>1. pc = from /\ pc' = "done" /\ ret' = "HDF_FAILURE" /\ disk = Missing /\ mounts = NoMounts
    BY DEF Fail, Goto, IInv, UntouchedOK
<1>2. resource' = resource /\ fs' = fs /\ disk' = disk /\ mounts' = mounts /\ i' = i
    BY DEF Fail, cfg
<1>3. TypeOK'
    BY <1>1, <1>2, MissingAssumption DEF IInv, TypeOK, Labels
<1>4. ResourceOK' /\ ParseOK' /\ UntouchedOK' /\ DiskOK'
    BY <1>1, <1>2 DEF IInv, ResourceOK, ParseOK, Parsing, UntouchedOK, DiskOK
<1>5. FailureTouchesNothing' /\ MountsItsEntry'
    BY <1>1, <1>2 DEF IInv, FailureTouchesNothing, MountsItsEntry, NoMounts
<1> QED BY <1>3, <1>4, <1>5 DEF IInv

\* Before the parse is over only its own part of the invariant is at stake.
LEMMA Untouched ==
    ASSUME IInv, pc \in Labels \ {"mount", "done"}, pc' \in Labels \ {"mount", "done"},
           UNCHANGED <<resource, disk, mounts, ret>>, i' \in 0 .. MaxMounts,
           fs' \in [Slots -> [mount_point : Paths \cup {Missing}, context : Nat,
                              block_size : Nat, block_count : Nat]],
           ParseOK'
    PROVE  IInv'
<1>1. disk = Missing /\ mounts = NoMounts /\ ret = Missing
    BY DEF IInv, UntouchedOK, TypeOK
<1>2. TypeOK'
    BY <1>1 DEF IInv, TypeOK, Labels, NoMounts
<1>3. ResourceOK' /\ UntouchedOK' /\ DiskOK'
    BY <1>1 DEF IInv, ResourceOK, UntouchedOK, DiskOK
<1>4. FailureTouchesNothing' /\ MountsItsEntry'
    BY <1>1, MissingAssumption DEF FailureTouchesNothing, MountsItsEntry, NoMounts
<1> QED BY <1>2, <1>3, <1>4 DEF IInv

\* An element of entry i is read: the rest of the entry and the other entries
\* are as they were.
LEMMA ElementRead ==
    ASSUME IInv, pc \in Parsing, i < resource.num,
           NEW field \in {"mount_point", "context", "block_size", "block_count"},
           NEW element \in (IF field = "mount_point" THEN Paths ELSE Nat),
           fs' = [fs EXCEPT ![i][field] = element]
    PROVE  /\ fs' \in [Slots -> [mount_point : Paths \cup {Missing}, context : Nat,
                                 block_size : Nat, block_count : Nat]]
           /\ fs'[i][field] = element
           /\ \A f \in {"mount_point", "context", "block_size", "block_count"} \ {field} :
                 fs'[i][f] = fs[i][f]
           /\ \A s \in Slots \ {i} : fs'[s] = fs[s]
<1>1. i \in Slots
    BY ResourceEntry
<1>2. fs \in [Slots -> [mount_point : Paths \cup {Missing}, context : Nat,
                        block_size : Nat, block_count : Nat]]
    BY DEF IInv, TypeOK
<1>3. fs[i] \in [mount_point : Paths \cup {Missing}, context : Nat,
                 block_size : Nat, block_count : Nat]
    BY <1>1, <1>2
<1> DEFINE e == [fs[i] EXCEPT ![field] = element]
<1>4. e \in [mount_point : Paths \cup {Missing}, context : Nat,
             block_size : Nat, block_count : Nat]
    <2>1. CASE field = "mount_point"
        BY <1>3, <2>1
    <2>2. CASE field = "context"
        BY <1>3, <2>2
    <2>3. CASE field = "block_size"
        BY <1>3, <2>3
    <2>4. CASE field = "block_count"
        BY <1>3, <2>4
    <2> QED BY <2>1, <2>2, <2>3, <2>4
<1>5. e[field] = element
    BY <1>3
<1>6. \A f \in {"mount_point", "context", "block_size", "block_count"} \ {field} :
         e[f] = fs[i][f]
    BY <1>3
<1>7. fs' = [fs EXCEPT ![i] = e]
    BY <1>1, <1>2
<1> HIDE DEF e
<1>8. fs'[i] = e /\ \A s \in Slots \ {i} : fs'[s] = fs[s]
    BY <1>1, <1>2, <1>7
<1>9. fs' \in [Slots -> [mount_point : Paths \cup {Missing}, context : Nat,
                         block_size : Nat, block_count : Nat]]
    BY <1>1, <1>2, <1>4, <1>7
<1> QED BY <1>5, <1>6, <1>8, <1>9

\* Every Get...ArrayElem keeps the invariant.
LEMMA ElementsRead ==
    ASSUME IInv, GetMountPoint \/ GetPartition \/ GetBlockSize \/ GetBlockCount
    PROVE  IInv'
<1>1. ASSUME NEW from, NEW to, NEW element, NEW field,
             <<from, to, element, field>> \in
                {<<"mount_points", "partitions", resource.mount_points[i], "mount_point">>,
                 <<"partitions", "block_size", resource.partitions[i], "context">>,
                 <<"block_size", "block_count", resource.block_size[i], "block_size">>,
                 <<"block_count", "next", resource.block_count[i], "block_count">>},
             GetElem(from, to, element, field)
      PROVE  IInv'
    <2>1. pc = from /\ from \in Parsing /\ i < resource.num /\ to \in Parsing
        BY <1>1 DEF GetElem, Parsing
    <2>2. CASE element = Missing
        <3>1. Fail(from) /\ from \in Labels \ {"mount", "done"}
            BY <1>1, <2>2 DEF GetElem, Labels
        <3> QED BY <3>1, Failing
    <2>3. CASE element # Missing
        <3>1. /\ pc' = to /\ fs' = [fs EXCEPT ![i][field] = element]
              /\ UNCHANGED <<resource, disk, mounts, i, ret>>
            BY <1>1, <2>3 DEF GetElem, Goto
        <3>2. /\ field \in {"mount_point", "context", "block_size", "block_count"}
              /\ element \in (IF field = "mount_point" THEN Paths ELSE Nat)
            BY <1>1, <2>1, <2>3, ResourceEntry
        <3>3. /\ fs' \in [Slots -> [mount_point : Paths \cup {Missing}, context : Nat,
                                    block_size : Nat, block_count : Nat]]
              /\ fs'[i][field] = element
              /\ \A f \in {"mount_point", "context", "block_size", "block_count"} \ {field} :
                    fs'[i][f] = fs[i][f]
              /\ \A s \in Slots \ {i} : fs'[s] = fs[s]
            BY <2>1, <3>1, <3>2, ElementRead
        <3>4. i \in Slots /\ i \in 0 .. MaxMounts /\ MaxMounts \in Nat
            BY <2>1, ResourceEntry, MountsAssumption DEF IInv, TypeOK
        <3>5. /\ resource # Missing /\ resource.num \in i .. MaxMounts
              /\ \A s \in Slots : s < i => Whole(s)
              /\ \A s \in Slots : s > i => fs[s].mount_point = Missing
            BY <2>1 DEF IInv, ParseOK
        <3>6. /\ \A s \in Slots : s < i => Whole(s)'
              /\ \A s \in Slots : s > i => fs'[s].mount_point = Missing
            BY <3>1, <3>3, <3>4, <3>5 DEF Whole, Slots
        <3>7. /\ pc' # "property" /\ pc' # "mount_points"
              /\ pc' \notin {"partitions_init", "mount"}
              /\ pc' \in Labels \ {"mount", "done"} /\ pc \in Labels \ {"mount", "done"}
            BY <1>1, <2>1, <3>1 DEF Labels, Parsing
        <3>8. ParseOK'
            <4>1. fs'[i].mount_point = resource.mount_points[i]
                BY <1>1, <2>1, <3>3 DEF IInv, ParseOK, Parsing
            <4>2. pc' \in {"block_size", "block_count", "next"} => resource.partitions[i] # Missing
                BY <1>1, <2>1, <2>3, <3>1 DEF IInv, ParseOK
            <4>3. pc' \in {"block_count", "next"} => fs'[i].block_size = resource.block_size[i]
                BY <1>1, <2>1, <3>1, <3>3 DEF IInv, ParseOK
            <4>4. pc' = "next" => fs'[i].block_count = resource.block_count[i]
                BY <1>1, <2>1, <3>1, <3>3
            <4> QED BY <2>1, <3>1, <3>5, <3>6, <3>7, <4>1, <4>2, <4>3, <4>4 DEF ParseOK
        <3> QED BY <3>1, <3>3, <3>4, <3>7, <3>8, Untouched
    <2> QED BY <2>2, <2>3
<1> QED BY <1>1 DEF GetMountPoint, GetPartition, GetBlockSize, GetBlockCount

--------------------------------------------------------------------------
(* Every step.                                                             *)

\* The parse ends, or moves on to the next entry.
LEMMA ParseMoves ==
    ASSUME IInv, NoProperty \/ NextEntry \/ LastEntry \/ (GetElemNum /\ ~Fail("property"))
    PROVE  IInv'
<1>1. MaxMounts \in Nat /\ i \in 0 .. MaxMounts
    BY MountsAssumption DEF IInv, TypeOK
<1>2. fs \in [Slots -> [mount_point : Paths \cup {Missing}, context : Nat,
                        block_size : Nat, block_count : Nat]]
    BY DEF IInv, TypeOK
<1>3. fs' = fs /\ UNCHANGED <<resource, disk, mounts, ret>>
    BY DEF NoProperty, NextEntry, LastEntry, GetElemNum, cfg
<1>4. pc \in Labels \ {"mount", "done"} /\ pc' \in Labels \ {"mount", "done"}
    BY DEF NoProperty, NextEntry, LastEntry, GetElemNum, Goto, Labels
<1>5. i' \in 0 .. MaxMounts /\ ParseOK'
    <2>1. CASE NoProperty \/ (GetElemNum /\ ~Fail("property"))
        <3>1. i' = i /\ i = 0 /\ \A s \in Slots : fs[s].mount_point = Missing
            BY <2>1 DEF NoProperty, GetElemNum, Goto, IInv, ParseOK
        <3>2. \/ pc' = "partitions_init"
              \/ pc' = "mount_points" /\ resource # Missing /\ resource.num \in 0 .. MaxMounts
            BY <2>1 DEF NoProperty, GetElemNum, Goto
        <3> QED BY <1>1, <1>3, <3>1, <3>2 DEF ParseOK, Parsing, Slots
    <2>2. CASE NextEntry
        <3>1. pc = "next" /\ pc' = "mount_points" /\ i' = i + 1
            BY <2>2 DEF NextEntry, Goto
        <3>2. /\ resource # Missing /\ resource.num \in i .. MaxMounts /\ i < resource.num
              /\ \A s \in Slots : s < i => Whole(s)
              /\ \A s \in Slots : s > i => fs[s].mount_point = Missing
            BY <3>1 DEF IInv, ParseOK, Parsing
        <3>3. i + 1 \in 0 .. MaxMounts /\ resource.num \in i + 1 .. MaxMounts
            BY <1>1, <3>2
        <3>4. Whole(i)
            BY <3>1, <3>2 DEF IInv, ParseOK, Parsing, Whole
        <3>5. \A s \in Slots : s < i + 1 => Whole(s)'
            <4>1. \A s \in Slots : s < i + 1 => Whole(s)
                BY <1>1, <3>2, <3>4 DEF Slots
            <4> QED BY <1>3, <4>1 DEF Whole
        <3>6. \A s \in Slots : s >= i + 1 => fs[s].mount_point = Missing
            BY <1>1, <3>2 DEF Slots
        <3>7. \A s \in Slots : s > i + 1 => s >= i + 1
            BY <1>1 DEF Slots
        <3> QED BY <1>3, <3>1, <3>2, <3>3, <3>5, <3>6, <3>7 DEF ParseOK, Parsing
    <2>3. CASE LastEntry
        <3>1. pc = "mount_points" /\ pc' = "partitions_init" /\ i = resource.num /\ i' = 0
            BY <2>3 DEF LastEntry, Goto
        <3>2. /\ \A s \in Slots : s < i => Whole(s)
              /\ \A s \in Slots : s >= i => fs[s].mount_point = Missing
            BY <3>1 DEF IInv, ParseOK, Parsing
        <3>3. \A s \in Slots : fs[s].mount_point # Missing => Whole(s)
            BY <1>1, <3>2 DEF Slots
        <3>4. \A s \in Slots : fs'[s].mount_point # Missing => Whole(s)'
            BY <1>3, <3>3 DEF Whole
        <3> QED BY <1>1, <3>1, <3>4 DEF ParseOK, Parsing
    <2> QED BY <2>1, <2>2, <2>3
<1> QED BY <1>2, <1>3, <1>4, <1>5, Untouched

\* The partitions are laid out.
LEMMA LaidOut == IInv /\ PartitionsInit => IInv'
<1> SUFFICES ASSUME IInv, PartitionsInit PROVE IInv'
    OBVIOUS
<1>1. /\ pc = "partitions_init" /\ pc' = "mount"
      /\ disk' = [length |-> [s \in Slots |-> Length(s)], addr |-> AddrArray]
      /\ resource' = resource /\ fs' = fs /\ mounts' = mounts /\ i' = i /\ ret' = ret
    BY DEF PartitionsInit, Goto, cfg
<1>2. TypeOK /\ mounts = NoMounts /\ ret = Missing
    BY <1>1 DEF IInv, UntouchedOK, TypeOK
<1>3. \A s \in Slots : Length(s) \in Ints
    BY <1>2, LengthOf
<1>4. /\ AddrArray \in [Slots -> Ints] /\ AddrArray[0] = 0
      /\ \A s \in Slots : s # 0 => AddrArray[s] = AsInt(AddrArray[s - 1] + Length(s - 1))
    BY <1>2, AddrArrayIs
<1> DEFINE A == AddrArray
           L == [s \in Slots |-> Length(s)]
<1>5. disk'.length = L /\ disk'.addr = A
    BY <1>1
<1>6. \A s \in Slots : L[s] = Length(s) /\ L[s] \in Ints /\ A[s] \in Ints
    BY <1>3, <1>4
<1>7. TypeOK'
    <2> HIDE DEF A, L
    <2>1. \A s \in Slots : disk'.length[s] \in Ints /\ disk'.addr[s] \in Ints
        BY <1>5, <1>6
    <2> QED BY <1>1, <1>2, <2>1 DEF TypeOK, Labels
<1>8. ResourceOK' /\ ParseOK' /\ UntouchedOK'
    BY <1>1 DEF IInv, ResourceOK, ParseOK, Parsing, UntouchedOK, Whole
<1>9. DiskOK'
    <2>1. /\ \A s \in Slots : disk'.length[s] = Length(s)
          /\ disk'.addr[0] = 0
          /\ \A s \in Slots : s # 0 => disk'.addr[s] = AsInt(disk'.addr[s - 1] + Length(s - 1))
        BY <1>4, <1>5, <1>6
    <2>2. \A s \in Slots : Length(s)' = Length(s) /\ (s # 0 => Length(s - 1)' = Length(s - 1))
        BY <1>1 DEF Length
    <2> QED BY <1>1, <2>1, <2>2 DEF DiskOK
<1>10. FailureTouchesNothing' /\ MountsItsEntry'
    BY <1>1, <1>2, MissingAssumption DEF FailureTouchesNothing, MountsItsEntry, NoMounts
<1> QED BY <1>7, <1>8, <1>9, <1>10 DEF IInv

\* While it mounts, and after, only the mounts are at stake.
LEMMA Mounting ==
    ASSUME IInv, pc = "mount", pc' \in {"mount", "done"}, i' \in 0 .. MaxMounts,
           UNCHANGED <<resource, fs, disk>>,
           ret' = IF pc' = "mount" THEN ret ELSE "HDF_SUCCESS",
           DOMAIN mounts' \subseteq Paths, MountsItsEntry'
    PROVE  IInv'
<1>1. ret = Missing
    BY DEF IInv, TypeOK
<1>2. TypeOK'
    BY <1>1, MissingAssumption DEF IInv, TypeOK, Labels
<1>3. ResourceOK' /\ ParseOK' /\ UntouchedOK'
    BY DEF IInv, ResourceOK, ParseOK, Parsing, UntouchedOK, Whole
<1>4. DiskOK'
    <2>1. \A s \in Slots : Length(s)' = Length(s) /\ (s # 0 => Length(s - 1)' = Length(s - 1))
        BY DEF Length
    <2> QED BY <2>1 DEF IInv, DiskOK
<1>5. FailureTouchesNothing'
    BY <1>1, MissingAssumption DEF FailureTouchesNothing
<1> QED BY <1>2, <1>3, <1>4, <1>5 DEF IInv

\* A mount takes the geometry of its entry.
LEMMA Mounted == IInv /\ Mount => IInv'
<1> SUFFICES ASSUME IInv, Mount PROVE IInv'
    OBVIOUS
<1> DEFINE q == fs[i].mount_point
<1>1. /\ pc = "mount" /\ i < MaxMounts /\ q \notin DOMAIN mounts /\ q # Missing
      /\ mounts' = [p \in DOMAIN mounts \cup {q} |->
                       IF p \in DOMAIN mounts THEN mounts[p]
                       ELSE [partNo |-> 0, blockSize |-> fs[i].block_size,
                             blockCount |-> fs[i].block_count]]
      /\ i' = i + 1 /\ UNCHANGED <<resource, fs, disk, pc, ret>>
    BY DEF Mount, Advance, cfg
<1>2. i \in Slots /\ i + 1 \in 0 .. MaxMounts
    BY <1>1, MountsAssumption DEF IInv, TypeOK, Slots
<1>3. Whole(i)
    BY <1>1, <1>2 DEF IInv, ParseOK
<1>4. q \in Paths /\ DOMAIN mounts \subseteq Paths
    BY <1>1, <1>2 DEF IInv, TypeOK
<1> HIDE DEF q
<1>5. DOMAIN mounts' = DOMAIN mounts \cup {q}
    BY <1>1
<1>6. MountsItsEntry'
    <2> DEFINE From(m, s, p) ==
                  /\ s < resource.num
                  /\ resource.mount_points[s] = p
                  /\ resource.partitions[s] # Missing
                  /\ resource.block_size[s] = m.blockSize
                  /\ resource.block_count[s] = m.blockCount
    <2> SUFFICES ASSUME NEW p \in DOMAIN mounts'
                 PROVE  \E s \in Slots : From(mounts'[p], s, p)
        <3>1. resource' = resource
            BY <1>1
        <3> QED BY <3>1, Zenon DEF MountsItsEntry
    <2>1. CASE p \in DOMAIN mounts
        <3>1. mounts'[p] = mounts[p]
            BY <1>1, <2>1
        <3> QED BY <2>1, <3>1 DEF IInv, MountsItsEntry
    <2>2. CASE p \notin DOMAIN mounts
        <3>1. p = q
            BY <1>5, <2>2
        <3>2. mounts'[p] = [partNo |-> 0, blockSize |-> fs[i].block_size,
                            blockCount |-> fs[i].block_count]
            BY <1>1, <2>2
        <3>3. mounts'[p].blockSize = fs[i].block_size /\ mounts'[p].blockCount = fs[i].block_count
            BY <3>2
        <3> QED BY <1>2, <1>3, <3>1, <3>3 DEF Whole, q
    <2> QED BY <2>1, <2>2
<1> QED BY <1>1, <1>2, <1>4, <1>5, <1>6, Mounting

\* Every step keeps the invariant.
LEMMA Step == IInv /\ [Next]_vars => IInv'
<1> SUFFICES ASSUME IInv, [Next]_vars PROVE IInv'
    OBVIOUS
<1>1. CASE NoInterface
    <2>1. "property" \in Labels \ {"mount", "done"}
        BY DEF Labels
    <2> QED BY <1>1, <2>1, Failing DEF NoInterface
<1>2. CASE GetElemNum
    <2>1. CASE Fail("property")
        <3>1. "property" \in Labels \ {"mount", "done"}
            BY DEF Labels
        <3> QED BY <2>1, <3>1, Failing
    <2>2. CASE ~Fail("property")
        BY <1>2, <2>2, ParseMoves
    <2> QED BY <2>1, <2>2
<1>3. CASE NoProperty \/ NextEntry \/ LastEntry
    BY <1>3, ParseMoves
<1>4. CASE GetMountPoint \/ GetPartition \/ GetBlockSize \/ GetBlockCount
    BY <1>4, ElementsRead
<1>5. CASE PartitionsInit
    BY <1>5, LaidOut
<1>6. CASE SkipEmpty \/ MountFails
    <2>1. /\ pc = "mount" /\ i < MaxMounts /\ pc' = pc /\ i' = i + 1
          /\ UNCHANGED <<resource, fs, disk, mounts, ret>>
        BY <1>6 DEF SkipEmpty, MountFails, Advance, cfg
    <2>2. i' \in 0 .. MaxMounts
        BY <2>1, MountsAssumption DEF IInv, TypeOK
    <2>3. DOMAIN mounts' \subseteq Paths /\ MountsItsEntry'
        BY <2>1 DEF IInv, TypeOK, MountsItsEntry
    <2> QED BY <2>1, <2>2, <2>3, Mounting
<1>7. CASE Mount
    BY <1>7, Mounted
<1>8. CASE AllMounted
    <2>1. /\ pc = "mount" /\ pc' = "done" /\ i' = i /\ ret' = "HDF_SUCCESS"
          /\ UNCHANGED <<resource, fs, disk, mounts>>
        BY <1>8 DEF AllMounted, Goto, cfg
    <2>2. i' \in 0 .. MaxMounts /\ DOMAIN mounts' \subseteq Paths /\ MountsItsEntry'
        BY <2>1 DEF IInv, TypeOK, MountsItsEntry
    <2> QED BY <2>1, <2>2, Mounting
<1>9. CASE UNCHANGED vars
    <2>1. \A s \in Slots : Length(s)' = Length(s) /\ (s # 0 => Length(s - 1)' = Length(s - 1))
        BY <1>9 DEF Length, vars, cfg
    <2>2. DiskOK'
        BY <1>9, <2>1 DEF IInv, DiskOK, vars, cfg
    <2>3. TypeOK' /\ ResourceOK' /\ ParseOK' /\ UntouchedOK'
        BY <1>9 DEF IInv, TypeOK, ResourceOK, ParseOK, UntouchedOK, Whole, vars, cfg
    <2>4. FailureTouchesNothing' /\ MountsItsEntry'
        BY <1>9 DEF IInv, FailureTouchesNothing, MountsItsEntry, vars, cfg
    <2> QED BY <2>2, <2>3, <2>4 DEF IInv
<1> QED BY <1>1, <1>2, <1>3, <1>4, <1>5, <1>6, <1>7, <1>8, <1>9 DEF Next

\* The initial states satisfy it.
LEMMA Start == Init => IInv
<1> SUFFICES ASSUME Init PROVE IInv
    OBVIOUS
<1>1. /\ pc = "property" /\ i = 0 /\ ret = Missing /\ disk = Missing /\ mounts = NoMounts
      /\ fs = [s \in Slots |-> [mount_point |-> Missing, context |-> 0,
                                block_size |-> 0, block_count |-> 0]]
    BY DEF Init
<1>2. 0 \in 0 .. MaxMounts
    BY MountsAssumption
<1>3. TypeOK
    BY <1>1, <1>2 DEF TypeOK, Labels, NoMounts
<1>4. ResourceOK
    BY DEF Init, ResourceOK
<1>5. ParseOK
    BY <1>1 DEF ParseOK, Parsing
<1>6. UntouchedOK /\ DiskOK /\ FailureTouchesNothing /\ MountsItsEntry
    BY <1>1, MissingAssumption
       DEF UntouchedOK, DiskOK, FailureTouchesNothing, MountsItsEntry, NoMounts
<1> QED BY <1>3, <1>4, <1>5, <1>6 DEF IInv

--------------------------------------------------------------------------
(* Theorems.                                                               *)

\* The inductive invariant holds, whatever the device resource holds and
\* whatever the mounts return.
THEOREM Invariance == Spec => []IInv
<1> QED BY Start, Step, PTL DEF Spec

\* The driver's variables stay within their types: in particular i never
\* leaves the entries and every partition array holds ints.
THEOREM Typing == Spec => []TypeOK
<1>1. IInv => TypeOK
    BY DEF IInv
<1> QED BY <1>1, Invariance, PTL

\* A driver that failed has partitioned and mounted nothing, whichever
\* element of whichever entry was missing.
THEOREM Failures == Spec => []FailureTouchesNothing
<1>1. IInv => FailureTouchesNothing
    BY DEF IInv
<1> QED BY <1>1, Invariance, PTL

\* Every mount has the geometry of the one entry that names its path.
THEOREM Geometry == Spec => []MountsItsEntry
<1>1. IInv => MountsItsEntry
    BY DEF IInv
<1> QED BY <1>1, Invariance, PTL

\* The partitions are side by side and within the flash they sum up to, for
\* any number of mount points, as long as their total fits an int.
THEOREM Partitioning == Spec => []PartitionsDisjoint
<1>1. IInv => PartitionsDisjoint
    BY PartitionLayout DEF IInv
<1> QED BY <1>1, Invariance, PTL

=============================================================================
